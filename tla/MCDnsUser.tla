----------------------------- MODULE MCDnsUser -----------------------------
(***************************************************************************)
(* DnsUser for TLC with the Markov chain of lib/tgen/maude/dns-mamodel.    *)
(* maude, a batch being of two names (there two to ten).                   *)
(***************************************************************************)
EXTENDS DnsUser

MCStates == {"single", "batch", "wait_single", "wait_batch"}

MCSucc == [s \in MCStates |->
    CASE s = "single" -> {"wait_single"}
      [] s = "batch" -> {"wait_batch"}
      [] OTHER -> {"single", "batch"}]

MCNums == [s \in MCStates |->
    CASE s = "single" -> {1} [] s = "batch" -> {2} [] OTHER -> {}]
=============================================================================
