--------------------------- MODULE ChainRefinement ---------------------------
(* The commands of EvidenceChain, seen from outside: one step from the start *)
(* of a command to its verdict, whatever it reads in between.                *)
EXTENDS EvidenceChain

Outcome(v) == CASE v = "ok" -> "accepted" [] v = "killed" -> "abandoned" [] OTHER -> "rejected"

Promise == INSTANCE AtomicChain WITH
  running <- IF pc = "idle" THEN None ELSE cmd,
  results <- [i \in 1..Len(history) |->
                [cmd |-> history[i].cmd, how |-> Outcome(history[i].verdict)]]

\* With quiet producers, a command on one ledger file behaves as if it read the
\* ledger and the Run record once: it answers ok exactly when they agree.
KeepsPromise == Promise!Spec
=============================================================================
