---------------------------- MODULE MCProcessLock ----------------------------
(* Instances of ProcessLock for TLC. *)
EXTENDS ProcessLock, TLC

Symmetry == Permutations(Proc)

\* One process at a time: a call starts when every other process is idle or
\* dead, as when a supervisor restarts a worker that died inside the lock.
OthersQuiet(p) == \A q \in Proc \ {p} : q \in crashed \/ pc[q] = "idle"

SequentialSpec ==
    /\ Init
    /\ [][Next /\ \A p \in Proc : calls'[p] # calls[p] => OthersQuiet(p)]_vars
    /\ \A p \in Proc : WF_vars(Step(p))
=============================================================================
