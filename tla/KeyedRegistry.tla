---------------------------- MODULE KeyedRegistry ----------------------------
(* What the reviews know of the capability registry: the revision of each      *)
(* capability, the review commit keys in the audit, and the read set that each *)
(* draft was written on.  TransitionJournal implements it under crashes;       *)
(* ReviewCommit is built on it.                                                *)
EXTENDS Naturals

CONSTANTS Handles, Keys

VARIABLES
    rev,        \* the revision of each active capability, 0 for the others
    drawn,      \* handles that are or were a capability
    recorded,   \* the key and kind of each review commit in the audit
    read        \* the read sets: under a key, a capability and its revision

vars == <<rev, drawn, recorded, read>>

Recorded(k) == \E e \in recorded : e.key = k

\* A review reads the registry, once: the draft and its read set are frozen.  What it
\* reads may be overtaken by a transition that is not visible in the file yet, and is
\* never ahead of the registry.
Read(k) ==
    /\ \A e \in read : e.key # k
    /\ read \subseteq read'
    /\ \A e \in read' \ read : e.key = k /\ (rev[e.handle] = 0 \/ e.rev <= rev[e.handle])
    /\ UNCHANGED <<rev, drawn, recorded>>

\* A review creates a capability under a handle never drawn before,
Create(k, h) ==
    /\ ~Recorded(k) /\ h \in Handles \ drawn
    /\ rev' = [rev EXCEPT ![h] = 1]
    /\ drawn' = drawn \cup {h}
    /\ recorded' = recorded \cup {[key |-> k, kind |-> "create"]}

\* or changes one that is still at the revision it read,
Change(k, kind, h) ==
    /\ ~Recorded(k) /\ rev[h] > 0
    /\ [key |-> k, handle |-> h, rev |-> rev[h]] \in read
    /\ rev' = [rev EXCEPT ![h] = @ + 1]
    /\ recorded' = recorded \cup {[key |-> k, kind |-> kind]}
    /\ UNCHANGED drawn

\* or is recorded only.
Defer(k) ==
    /\ ~Recorded(k)
    /\ recorded' = recorded \cup {[key |-> k, kind |-> "defer"]}
    /\ UNCHANGED <<rev, drawn>>

\* A transition without a key: an operator's retirement, a restoration, a refresh.
Retire(h) ==
    /\ rev[h] > 0
    /\ rev' = [rev EXCEPT ![h] = 0]
    /\ UNCHANGED <<drawn, recorded>>

Touch(h) ==
    /\ rev[h] > 0
    /\ rev' = [rev EXCEPT ![h] = @ + 1]
    /\ UNCHANGED <<drawn, recorded>>

Init ==
    /\ rev = [h \in Handles |-> 0]
    /\ drawn = {}
    /\ recorded = {}
    /\ read = {}

Transition ==
    \/ \E k \in Keys :
           \/ Defer(k)
           \/ \E h \in Handles :
                 \/ Create(k, h)
                 \/ \E kind \in {"append", "replace", "migrate"} : Change(k, kind, h)
    \/ \E h \in Handles : Retire(h) \/ Touch(h)

Next ==
    \/ \E k \in Keys : Read(k)
    \/ Transition /\ UNCHANGED read

Spec == Init /\ [][Next]_vars
=============================================================================
