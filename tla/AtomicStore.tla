----------------------------- MODULE AtomicStore -----------------------------
(***************************************************************************)
(* What mutateEvidenceReviewJobStore promises its callers: every completed *)
(* mutation is applied to the store in one indivisible step, so none is    *)
(* lost to a mutation computed from an older store.                        *)
(***************************************************************************)
CONSTANT Id

VARIABLES store, done

Init == store = {} /\ done = {}

Mutate(id) ==
    /\ store' = store \cup {id}
    /\ done' = done \cup {id}

Next == \E id \in Id : Mutate(id)

Spec == Init /\ [][Next]_<<store, done>>
=============================================================================
