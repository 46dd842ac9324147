------------------------ MODULE CapabilityTransitions ------------------------
(* The capability registry of skill evolution and what one transition does to *)
(* it (src/utils/skill-evolution.ts): pure operators over a registry, the      *)
(* generated SKILL.md files, the immutable guidance history and the transition *)
(* audit.  AtomicRegistry performs a transition in one step, TransitionJournal *)
(* the way the code does it, one durable write at a time.                      *)
(*                                                                             *)
(* A SKILL.md file is the number of the transition that rendered it and the    *)
(* routing name in its front matter: renderCurrentSkill writes both into the   *)
(* text, so two files are equal exactly when these are, and the guidance hash  *)
(* of the registry is the file itself.                                         *)
EXTENDS Naturals, Sequences

CONSTANTS
    Handles,    \* capability handles, drawn fresh by create
    Routes,     \* skill routing names
    Keys,       \* review commit keys: one per Evidence Review commit quantum
    Metas,      \* referenced-skill snapshots a capability can carry
    NoHandle, NoRoute, NoKey, NoMeta, NoCap, NoFile

\* renderCurrentSkill
Guidance == [id : Nat, route : Routes]

\* CurrentSkillRecord
Cap == [route : Routes, guidance : Guidance, rev : Nat, refs : Metas \cup {NoMeta}]

\* CurrentSkillRegistryState
Registry == [caps : [Handles -> Cap \cup {NoCap}],
             redirects : [Routes -> Handles \cup {NoHandle}],
             catalog : Nat]

Kinds == {"create", "append", "replace", "migrate", "retire", "restore", "refresh", "defer"}

\* A request for a transition: the accepted draft of a review (key), an operator's
\* retirement, an explicit restoration or a refresh of referenced skills.  rev is
\* the revision of the target in the read set it was prepared from.
Request == [kind : Kinds, key : Keys \cup {NoKey}, target : Handles \cup {NoHandle},
            route : Routes \cup {NoRoute}, rev : Nat,
            guidance : Guidance \cup {NoFile}, refs : Metas \cup {NoMeta}]

\* TransitionAuditEntry; kind, handle, guidance and refs are what its bundleId tells apart,
\* prior is priorGuidanceHash
Entry == [id : Nat, key : Keys \cup {NoKey}, kind : Kinds, handle : Handles \cup {NoHandle},
          guidance : Guidance \cup {NoFile}, refs : Metas \cup {NoMeta},
          prior : Guidance \cup {NoFile}]

\* The values that stand for "nothing" are none of the things they stand for.
ASSUME CapabilityAssumption ==
    /\ NoHandle \notin Handles /\ NoKey \notin Keys
    /\ NoCap \notin Cap /\ NoFile \notin Guidance

EmptyRegistry == [caps |-> [h \in Handles |-> NoCap],
                  redirects |-> [r \in Routes |-> NoHandle],
                  catalog |-> 0]

Active(reg) == {h \in Handles : reg.caps[h] # NoCap}

\* A request that names nothing; the others are built from it.
Blank(kind, key) ==
    [kind |-> kind, key |-> key, target |-> NoHandle, route |-> NoRoute,
     rev |-> 0, guidance |-> NoFile, refs |-> NoMeta]

About(kind, key, reg, h) ==
    [Blank(kind, key) EXCEPT !.target = h, !.rev = reg.caps[h].rev]

\* What the authority of an Evidence Bundle lets a review ask (transitionAuthorityViolation);
\* merge_into_capability is refused for every authority.
ReviewRequests(reg, k) ==
    {Blank("defer", k)}
    \cup {[Blank("create", k) EXCEPT !.route = r] : r \in Routes}
    \cup {About(kind, k, reg, h) : kind \in {"append", "replace"}, h \in Active(reg)}
    \cup {[About("migrate", k, reg, h) EXCEPT !.route = r] : h \in Active(reg), r \in Routes}

\* An operator retires or restores a capability, bootstrap refreshes what it refers to.
OperatorRequests(reg, history) ==
    {[About("retire", NoKey, reg, h) EXCEPT !.guidance = reg.caps[h].guidance] : h \in Active(reg)}
    \cup {[About("refresh", NoKey, reg, h) EXCEPT !.refs = m] : h \in Active(reg), m \in Metas}
    \cup UNION {{[About("restore", NoKey, reg, h) EXCEPT !.guidance = g] : g \in history[h]}
                 : h \in Active(reg)}

-----------------------------------------------------------------------------
(* What a request may do *)

RouteFree(reg, route, owner) ==
    /\ reg.redirects[route] = NoHandle
    /\ \A h \in Active(reg) \ {owner} : reg.caps[h].route # route

\* The request was committed before: by its review commit key, or, without one,
\* by the bundle id built from its kind, target and content.
Committed(audit, q) ==
    \E i \in DOMAIN audit :
        IF q.key # NoKey THEN audit[i].key = q.key
        ELSE /\ audit[i].key = NoKey
             /\ audit[i].kind = q.kind
             /\ audit[i].handle = q.target
             /\ audit[i].guidance = q.guidance
             /\ audit[i].refs = q.refs

ReadSetActive(reg, q) == q.target \in Active(reg)

\* assertRegistryReadSetCurrent: the target is active at the revision that was read
ReadSetCurrent(reg, q) ==
    q.target \in Active(reg) /\ reg.caps[q.target].rev = q.rev

\* "Active guidance hash does not match the Capability Registry."
FileCurrent(reg, files, h) == files[h] = reg.caps[h].guidance

\* The preconditions of each kind, h being the capability it is about.
Accepts(reg, files, history, q, h) ==
    \/ /\ q.kind = "create"
       /\ h \in Handles \ Active(reg)
       /\ RouteFree(reg, q.route, NoHandle)
    \/ /\ q.kind = "append"
       /\ h = q.target /\ ReadSetCurrent(reg, q)
    \/ /\ q.kind \in {"replace", "retire"}
       /\ h = q.target /\ ReadSetCurrent(reg, q)
       /\ FileCurrent(reg, files, h)
    \/ /\ q.kind = "migrate"
       /\ h = q.target /\ ReadSetCurrent(reg, q)
       /\ reg.caps[h].route # q.route
       /\ RouteFree(reg, q.route, h)
       /\ FileCurrent(reg, files, h)
    \/ /\ q.kind = "restore"
       /\ h = q.target /\ h \in Active(reg)
       /\ reg.caps[h].guidance # q.guidance
       /\ q.guidance \in history[h]
       /\ FileCurrent(reg, files, h)
    \/ /\ q.kind = "refresh"
       /\ h = q.target /\ h \in Active(reg)
       /\ reg.caps[h].refs # q.refs
    \/ /\ q.kind = "defer"
       /\ h = NoHandle

-----------------------------------------------------------------------------
(* What it does: the id-th transition, on capability h *)

\* the record of h after the transition
NewCap(reg, q, h, id) ==
    CASE q.kind = "create" ->
             [route |-> q.route, guidance |-> [id |-> id, route |-> q.route],
              rev |-> 1, refs |-> q.refs]
      [] q.kind = "append" ->
             [reg.caps[h] EXCEPT !.rev = @ + 1]
      [] q.kind = "replace" ->
             [reg.caps[h] EXCEPT !.rev = @ + 1,
                                 !.guidance = [id |-> id, route |-> reg.caps[h].route]]
      [] q.kind = "migrate" ->
             [reg.caps[h] EXCEPT !.rev = @ + 1, !.route = q.route,
                                 !.guidance = [id |-> id, route |-> q.route]]
      [] q.kind = "restore" ->
             [reg.caps[h] EXCEPT !.rev = @ + 1, !.guidance = q.guidance]
      [] q.kind = "refresh" ->
             [reg.caps[h] EXCEPT !.rev = @ + 1, !.refs = q.refs]
      [] OTHER -> NoCap                                              \* retire

\* Migration leaves a redirect from the old route; retirement removes every
\* redirect to the capability; a deferred or rejected draft changes nothing.
NewRedirects(reg, q, h) ==
    CASE q.kind = "migrate" -> [reg.redirects EXCEPT ![reg.caps[h].route] = h]
      [] q.kind = "retire" ->
             [r \in Routes |-> IF reg.redirects[r] = h THEN NoHandle ELSE reg.redirects[r]]
      [] OTHER -> reg.redirects

Target(reg, q, h, id) ==
    IF q.kind = "defer" THEN reg
    ELSE [caps |-> [reg.caps EXCEPT ![h] = NewCap(reg, q, h, id)],
          redirects |-> NewRedirects(reg, q, h),
          catalog |-> reg.catalog + 1]

KeepsFileOnRetire == {"append", "refresh", "defer", "retire"}

\* The kinds that leave the SKILL.md file alone
KeepsFile == {"append", "refresh", "defer"}

\* the SKILL.md of h after the transition
NewFile(reg, q, h, id) ==
    IF q.kind = "retire" THEN NoFile ELSE NewCap(reg, q, h, id).guidance

ArchivedOnRetire(reg, q, h) ==
    IF q.kind = "retire" THEN reg.caps[h].guidance ELSE NoFile

\* the guidance put away in the immutable history before it is replaced
Archived(reg, q, h) ==
    IF q.kind \in {"replace", "migrate", "retire", "restore"}
    THEN reg.caps[h].guidance ELSE NoFile

NewEntry(reg, q, h, id) ==
    [id |-> id, key |-> q.key, kind |-> q.kind, handle |-> h,
     guidance |-> q.guidance, refs |-> q.refs,
     prior |-> IF q.kind \in {"create", "defer"} THEN NoFile ELSE reg.caps[h].guidance]

\* validateRegistryState
ValidRegistry(reg) ==
    /\ \A g, h \in Active(reg) : reg.caps[g].route = reg.caps[h].route => g = h
    /\ \A r \in Routes : reg.redirects[r] # NoHandle =>
           /\ reg.redirects[r] \in Active(reg)
           /\ \A h \in Active(reg) : reg.caps[h].route # r
=============================================================================
