---------------------------- MODULE MCMinioTgen ----------------------------
(* Instances of MinioTgen for TLC: the constants are all in the .cfg files. *)
EXTENDS MinioTgen
=============================================================================
