----------------------------- MODULE MCFtpTgen -----------------------------
(* Instances of FtpTgen for TLC. *)
EXTENDS FtpTgen, TLC

CONSTANT c1

\* The root with one directory in it, and a file in both.
MCDirs == {<<>>, <<"sub">>}
MCSeeded == {<<<<"sub">>, "a">>}
\* One client does everything, any other only sends files.
MCAsks == [c \in Clients |-> IF c = c1 THEN Ops ELSE {"upload", "append"}]
MCUpload == [c \in Clients |-> "up_" \o ToString(c)]
=============================================================================
