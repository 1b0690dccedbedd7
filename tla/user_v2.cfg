SPECIFICATION Spec
CONSTANT Profiles <- MCProfiles
INVARIANTS NeverStuck StaysAndBursts RoomsJoined
