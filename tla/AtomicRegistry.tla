--------------------------- MODULE AtomicRegistry ---------------------------
(* What the transition journal promises: a transition changes the registry,    *)
(* the SKILL.md file, the history and the audit in one step, and the one       *)
(* request is committed once.  TransitionJournal implements it, a transition   *)
(* taking effect when its journal is written.                                  *)
EXTENDS CapabilityTransitions

VARIABLES registry, files, history, audit

vars == <<registry, files, history, audit>>

Init ==
    /\ registry = EmptyRegistry
    /\ files = [h \in Handles |-> NoFile]
    /\ history = [h \in Handles |-> {}]
    /\ audit = <<>>

\* A request that was not committed before and whose preconditions hold.
Commit(q, h) ==
    /\ ~Committed(audit, q)
    /\ Accepts(registry, files, history, q, h)
    /\ registry' = Target(registry, q, h, Len(audit) + 1)
    /\ files' = IF q.kind \in KeepsFile THEN files
                ELSE [files EXCEPT ![h] = NewFile(registry, q, h, Len(audit) + 1)]
    /\ history' = IF Archived(registry, q, h) = NoFile THEN history
                  ELSE [history EXCEPT ![h] = @ \cup {Archived(registry, q, h)}]
    /\ audit' = Append(audit, NewEntry(registry, q, h, Len(audit) + 1))

\* A SKILL.md is deleted behind the program's back, or written again from the history.
LoseFile(h) ==
    /\ files' = [files EXCEPT ![h] = NoFile]
    /\ UNCHANGED <<registry, history, audit>>

RepairFile(h) ==
    /\ h \in Active(registry) /\ files[h] = NoFile
    /\ registry.caps[h].guidance \in history[h]
    /\ files' = [files EXCEPT ![h] = registry.caps[h].guidance]
    /\ UNCHANGED <<registry, history, audit>>

Next ==
    \/ \E q \in OperatorRequests(registry, history)
               \cup UNION {ReviewRequests(registry, k) : k \in Keys},
         h \in Handles \cup {NoHandle} : Commit(q, h)
    \/ \E h \in Handles : LoseFile(h) \/ RepairFile(h)

Spec == Init /\ [][Next]_vars
=============================================================================
