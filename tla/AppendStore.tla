----------------------------- MODULE AppendStore -----------------------------
(***************************************************************************)
(* What the MinIO generator's operations promise of the bucket, whatever   *)
(* requests they take: a file is stored under a new name at once, and an   *)
(* append adds one part at the end of a file, touching nothing else.       *)
(* Nothing is promised once a request failed or an object was deleted.     *)
(***************************************************************************)
EXTENDS Sequences

CONSTANTS Keys, Parts

VARIABLES store, faulty

Init == store \in [Keys -> Seq(Parts)]

\* One file gains one part at its end; a file that was absent is created.
AddPart == \E k \in Keys, p \in Parts : store' = [store EXCEPT ![k] = Append(@, p)]

Spec == Init /\ [][AddPart \/ faulty']_store
=============================================================================
