------------------------------ MODULE MCIodine ------------------------------
(***************************************************************************)
(* Instances of IodineDNS for TLC.  A file is named by its packets.        *)
(***************************************************************************)
EXTENDS IodineDNS

\* The fragments of a file's packets.
MCPacketLens == [f \in {"two", "long", "four"} |->
    CASE f = "two" -> <<2, 1>> [] f = "long" -> <<2>> [] f = "four" -> <<4, 1>>]
MCFiles == DOMAIN MCPacketLens

NoInput == [a \in Apps |-> <<>>]
NoOwnFile == [a \in Apps |-> "none"]

\* Alice generates a file herself, nothing flows down.
AliceOwnTwo == [NoOwnFile EXCEPT !["Alice"] = "two"]

AliceOwnFour == [NoOwnFile EXCEPT !["Alice"] = "four"]

\* Alice generates a packet of two fragments, which starts the pings; a file arrives at Bob.
AliceOwnLong == [NoOwnFile EXCEPT !["Alice"] = "long"]
BobTwo == [a \in Apps |-> IF a = "Alice" THEN <<>> ELSE <<"two">>]
=============================================================================
