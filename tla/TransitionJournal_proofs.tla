----------------------- MODULE TransitionJournal_proofs -----------------------
(***************************************************************************)
(* Theorems about TransitionJournal, for any handles, routes, review keys  *)
(* and snapshots and any bounds:                                           *)
(*  - type correctness;                                                    *)
(*  - a replay never refuses its own journal;                              *)
(*  - at rest the SKILL.md files are those the registry names;             *)
(*  - it implements AtomicRegistry and KeyedRegistry, crashes included.    *)
(***************************************************************************)
EXTENDS TransitionJournal, SequenceTheorems, TLAPS

\* What the stores hold once nothing is pending, and what they held before the journal.
Effect == IF Pending THEN journal.target ELSE registry
Base == IF Pending THEN journal.prior ELSE registry

\* the SKILL.md of h that reg names
FileOf(reg, h) == IF h \in Active(reg) THEN reg.caps[h].guidance ELSE NoFile

\* and what is there when the users' deletions are counted
Held(reg, h) == IF h \in lost THEN NoFile ELSE FileOf(reg, h)

\* the capability whose SKILL.md the pending journal writes or deletes
Touched(h) == Pending /\ ~journal.keep /\ h = journal.handle

\* the handles a capability has or had
Drawn == {h \in Handles : \E e \in Entries : e.handle = h}

Sound(reg) == ValidRegistry(reg) /\ \A h \in Active(reg) : reg.caps[h].rev > 0

\* The kinds that replace a SKILL.md, whose guidance is put away before.
Archives(kind) == kind \notin KeepsFile \cup {"create"}

\* From prior to target only the capability h changes, and its revision tells.
Moves(prior, target, h) ==
    /\ \A g \in Handles \ {h} : target.caps[g] = prior.caps[g]
    /\ \A g \in Active(prior) \cap Active(target) :
           \/ target.caps[g] = prior.caps[g]
           \/ target.caps[g].rev > prior.caps[g].rev

\* The stores, whatever is pending.
StoresFit ==
    /\ Sound(Base) /\ Sound(Effect)
    /\ lost \subseteq Active(Base)
    /\ \A h \in Handles : ~Touched(h) => files[h] = Held(Base, h)
    /\ \A i \in DOMAIN audit : audit[i].id = i
    /\ Active(Base) \cup Active(Effect) \subseteq Drawn
    /\ \A i \in DOMAIN audit : Archives(audit[i].kind) =>
           \/ audit[i].prior \in history[audit[i].handle]
           \/ Pending /\ audit[i] = journal.entry

\* A pending journal: what it was prepared from, and which of its writes are done.
JournalFit ==
    Pending =>
    /\ registry \in {journal.prior, journal.target}
    /\ Moves(journal.prior, journal.target, journal.handle)
    /\ \/ journal.handle \in Handles
       \/ journal.keep /\ journal.archive = NoFile /\ journal.prior = journal.target
    /\ journal.keep => \A h \in Handles : FileOf(journal.target, h) = FileOf(journal.prior, h)
    /\ ~journal.keep => /\ journal.handle \notin lost
                        /\ journal.from = FileOf(journal.prior, journal.handle)
                        /\ journal.to = FileOf(journal.target, journal.handle)
                        /\ files[journal.handle] \in {journal.from, journal.to}
    /\ journal.entry.id = journal.id /\ journal.entry.handle = journal.handle
    /\ Archives(journal.entry.kind) => journal.archive = journal.entry.prior
                                       /\ journal.archive # NoFile
    /\ \/ journal.id = Len(audit) + 1
       \/ journal.id = Len(audit) /\ journal.id > 0 /\ audit[Len(audit)] = journal.entry

\* What a review or the operator asks for, of capabilities that are or were there.
Plain(drawn, k, q) ==
    \/ k # NoKey /\ q = Blank("defer", k)
    \/ k # NoKey /\ \E r \in Routes : q = [Blank("create", k) EXCEPT !.route = r]
    \/ k # NoKey /\ \E kind \in {"append", "replace"}, h \in drawn, v \in Nat :
           q = [Blank(kind, k) EXCEPT !.target = h, !.rev = v]
    \/ k # NoKey /\ \E h \in drawn, v \in Nat, r \in Routes :
           q = [Blank("migrate", k) EXCEPT !.target = h, !.rev = v, !.route = r]
    \/ k = NoKey /\ \E h \in drawn, v \in Nat, g \in Guidance :
           q = [Blank("restore", k) EXCEPT !.target = h, !.rev = v, !.guidance = g]
    \/ k = NoKey /\ \E h \in drawn, v \in Nat, m \in Metas :
           q = [Blank("refresh", k) EXCEPT !.target = h, !.rev = v, !.refs = m]

\* A retirement names the guidance its target had at the revision that was read.
Read(reg, h, v, g) ==
    h \in Active(reg) => /\ v <= reg.caps[h].rev
                         /\ v = reg.caps[h].rev => g = reg.caps[h].guidance

Retirement(drawn, reg, k, q) ==
    /\ k = NoKey
    /\ \E h \in drawn, v \in Nat, g \in Guidance :
           /\ q = [Blank("retire", k) EXCEPT !.target = h, !.rev = v, !.guidance = g]
           /\ Read(reg, h, v, g)

Wanted(drawn, reg, k, q) == Plain(drawn, k, q) \/ Retirement(drawn, reg, k, q)

AskedFit == \A k \in Keys \cup {NoKey} : asked[k] = NoRequest \/ Wanted(Drawn, Effect, k, asked[k])

\* The call at work: which writes of the replay are behind it.
OpFit ==
    /\ op.result # "wedged"
    /\ op.step \in {"load", "archive", "skill", "registry", "audit", "mark", "unlink", "decide"}
       => op.call \in {"recover", "apply"}
    /\ op.call = "apply" => asked[op.key] # NoRequest
    /\ op.step = "decide" => journal = NoJournal /\ op.call = "apply"
    /\ op.step = "unlink" => journal # NoJournal /\ journal.committed
    /\ op.step \in {"archive", "skill", "registry", "audit", "mark"} => Pending
    /\ op.step \in {"skill", "registry", "audit", "mark"} =>
           journal.archive = NoFile \/ journal.archive \in history[journal.handle]
    /\ op.step \in {"registry", "audit", "mark"} =>
           journal.keep \/ files[journal.handle] = journal.to
    /\ op.step \in {"audit", "mark"} => registry = journal.target
    /\ op.step = "mark" => journal.id = Len(audit)

IInv == TypeOK /\ StoresFit /\ JournalFit /\ AskedFit /\ OpFit

-----------------------------------------------------------------------------
(* A transition of the registry as data                                    *)

ReviewKinds == {"create", "append", "replace", "migrate", "defer"}
OperatorKinds == {"retire", "restore", "refresh"}

\* What every request that is asked for has in common.
Formed(q) ==
    /\ q \in Request
    /\ q.kind \in ReviewKinds <=> q.key \in Keys
    /\ q.kind \in {"create", "migrate"} => q.route \in Routes
    /\ q.kind \in {"retire", "restore"} => q.guidance \in Guidance
    /\ q.kind \in {"create", "defer"} <=> q.target = NoHandle

LEMMA WantedFormed ==
    ASSUME NEW drawn \in SUBSET Handles, NEW reg, NEW k \in Keys \cup {NoKey}, NEW q,
           Wanted(drawn, reg, k, q)
    PROVE  Formed(q) /\ q.key = k
<1>1. CASE k # NoKey /\ q = Blank("defer", k)
  BY <1>1, CapabilityAssumption DEF Formed, Request, Blank, Kinds, ReviewKinds
<1>2. CASE k # NoKey /\ \E r \in Routes : q = [Blank("create", k) EXCEPT !.route = r]
  BY <1>2, CapabilityAssumption DEF Formed, Request, Blank, Kinds, ReviewKinds
<1>3. ASSUME k # NoKey, NEW kind \in {"append", "replace"}, NEW h \in drawn, NEW v \in Nat,
             q = [Blank(kind, k) EXCEPT !.target = h, !.rev = v]
      PROVE  Formed(q) /\ q.key = k
  BY <1>3, CapabilityAssumption DEF Formed, Request, Blank, Kinds, ReviewKinds
<1>4. ASSUME k # NoKey, NEW h \in drawn, NEW v \in Nat, NEW r \in Routes,
             q = [Blank("migrate", k) EXCEPT !.target = h, !.rev = v, !.route = r]
      PROVE  Formed(q) /\ q.key = k
  BY <1>4, CapabilityAssumption DEF Formed, Request, Blank, Kinds, ReviewKinds
<1>5. ASSUME k = NoKey, NEW h \in drawn, NEW v \in Nat, NEW g \in Guidance,
             q = [Blank("restore", k) EXCEPT !.target = h, !.rev = v, !.guidance = g]
      PROVE  Formed(q) /\ q.key = k
  BY <1>5, CapabilityAssumption DEF Formed, Request, Blank, Kinds, ReviewKinds
<1>6. ASSUME k = NoKey, NEW h \in drawn, NEW v \in Nat, NEW m \in Metas,
             q = [Blank("refresh", k) EXCEPT !.target = h, !.rev = v, !.refs = m]
      PROVE  Formed(q) /\ q.key = k
  BY <1>6, CapabilityAssumption DEF Formed, Request, Blank, Kinds, ReviewKinds
<1>7. CASE Plain(drawn, k, q)
  BY <1>1, <1>2, <1>3, <1>4, <1>5, <1>6, <1>7 DEF Plain
<1>8. ASSUME k = NoKey, NEW h \in drawn, NEW v \in Nat, NEW g \in Guidance,
             q = [Blank("retire", k) EXCEPT !.target = h, !.rev = v, !.guidance = g]
      PROVE  Formed(q) /\ q.key = k
  BY <1>8, CapabilityAssumption DEF Formed, Request, Blank, Kinds, ReviewKinds
<1>9. CASE Retirement(drawn, reg, k, q)
  BY <1>8, <1>9 DEF Retirement
<1> QED BY <1>7, <1>9 DEF Wanted

\* What a transition makes of the record of its capability, kind by kind.
LEMMA Accepted ==
    ASSUME NEW reg \in Registry, NEW files0, NEW history0, NEW q, Formed(q),
           NEW h, Accepts(reg, files0, history0, q, h)
    PROVE  /\ q.kind = "defer" <=> h = NoHandle
           /\ h # NoHandle => h \in Handles
           /\ q.kind = "create" => h \notin Active(reg)
           /\ q.kind \notin {"create", "defer"} => h = q.target /\ h \in Active(reg)
BY CapabilityAssumption DEF Accepts, Formed, ReadSetCurrent, Active, Request, Kinds

\* What request q makes of the record c of its capability, the id-th transition.
Renewed(q, c, d, id) ==
    /\ q.kind = "create" =>
         d \in Cap /\ d.route = q.route /\ d.rev = 1 /\ d.guidance = [id |-> id, route |-> q.route]
    /\ q.kind \in {"append", "refresh", "replace", "restore"} =>
         d \in Cap /\ d.rev = c.rev + 1 /\ d.route = c.route
    /\ q.kind \in {"append", "refresh"} => d.guidance = c.guidance
    /\ q.kind = "migrate" => d \in Cap /\ d.rev = c.rev + 1 /\ d.route = q.route
    /\ q.kind = "retire" => d = NoCap

LEMMA NewCaps ==
    ASSUME NEW reg \in Registry, NEW q, Formed(q), NEW h \in Handles, NEW id \in Nat,
           q.kind \notin {"create", "retire", "defer"} => h \in Active(reg)
    PROVE  Renewed(q, reg.caps[h], NewCap(reg, q, h, id), id)
<1> DEFINE c == reg.caps[h]
           d == NewCap(reg, q, h, id)
<1>1. CASE q.kind = "create"
  BY <1>1 DEF Renewed, NewCap, Cap, Guidance, Formed, Request
<1>2. CASE q.kind = "retire"
  BY <1>2 DEF Renewed, NewCap
<1>3. CASE q.kind \notin {"create", "retire", "defer"}
  <2>1. c \in Cap
    BY <1>3 DEF Registry, Active
  <2>2. q.kind = "append" => d = [c EXCEPT !.rev = @ + 1]
    BY DEF NewCap
  <2>3. q.kind = "replace" =>
          d = [c EXCEPT !.rev = @ + 1, !.guidance = [id |-> id, route |-> c.route]]
    BY DEF NewCap
  <2>4. q.kind = "migrate" =>
          d = [c EXCEPT !.rev = @ + 1, !.route = q.route,
                        !.guidance = [id |-> id, route |-> q.route]]
    BY DEF NewCap
  <2>5. q.kind = "restore" => d = [c EXCEPT !.rev = @ + 1, !.guidance = q.guidance]
    BY DEF NewCap
  <2>6. q.kind = "refresh" => d = [c EXCEPT !.rev = @ + 1, !.refs = q.refs]
    BY DEF NewCap
  <2>7. /\ q.route \in Routes \cup {NoRoute} /\ q.refs \in Metas \cup {NoMeta}
        /\ q.kind = "migrate" => q.route \in Routes
        /\ q.kind = "restore" => q.guidance \in Guidance
        /\ q.kind \in Kinds
    BY DEF Formed, Request
  <2> SUFFICES Renewed(q, c, d, id)
    OBVIOUS
  <2> HIDE DEF c, d
  <2>8. CASE q.kind = "append"
    BY <2>1, <2>2, <2>8 DEF Renewed, Cap
  <2>9. CASE q.kind = "replace"
    <3>1. d = [route |-> c.route, guidance |-> [id |-> id, route |-> c.route],
               rev |-> c.rev + 1, refs |-> c.refs]
      BY <2>1, <2>3, <2>9 DEF Cap
    <3> QED BY <2>1, <2>9, <3>1 DEF Renewed, Cap, Guidance
  <2>10. CASE q.kind = "migrate"
    <3>1. d = [route |-> q.route, guidance |-> [id |-> id, route |-> q.route],
               rev |-> c.rev + 1, refs |-> c.refs]
      BY <2>1, <2>4, <2>10 DEF Cap
    <3> QED BY <2>1, <2>7, <2>10, <3>1 DEF Renewed, Cap, Guidance
  <2>11. CASE q.kind = "restore"
    <3>1. d = [route |-> c.route, guidance |-> q.guidance,
               rev |-> c.rev + 1, refs |-> c.refs]
      BY <2>1, <2>5, <2>11 DEF Cap
    <3> QED BY <2>1, <2>7, <2>11, <3>1 DEF Renewed, Cap
  <2>12. CASE q.kind = "refresh"
    <3>1. d = [route |-> c.route, guidance |-> c.guidance,
               rev |-> c.rev + 1, refs |-> q.refs]
      BY <2>1, <2>6, <2>12 DEF Cap
    <3> QED BY <2>1, <2>7, <2>12, <3>1 DEF Renewed, Cap
  <2> QED BY <1>3, <2>7, <2>8, <2>9, <2>10, <2>11, <2>12 DEF Kinds
<1>4. CASE q.kind = "defer"
  BY <1>4 DEF Renewed
<1> QED BY <1>1, <1>2, <1>3, <1>4

LEMMA Targets ==
    ASSUME NEW reg, NEW q, NEW h, NEW id
    PROVE  /\ q.kind = "defer" => Target(reg, q, h, id) = reg
           /\ q.kind # "defer" =>
                /\ Target(reg, q, h, id).caps = [reg.caps EXCEPT ![h] = NewCap(reg, q, h, id)]
                /\ Target(reg, q, h, id).redirects = NewRedirects(reg, q, h)
BY DEF Target

LEMMA TargetType ==
    ASSUME NEW reg \in Registry, NEW files0, NEW history0, NEW q, Formed(q),
           NEW h, NEW id \in Nat, Accepts(reg, files0, history0, q, h)
    PROVE  Target(reg, q, h, id) \in Registry
<1>1. CASE q.kind = "defer"
  BY <1>1 DEF Target
<1>2. CASE q.kind # "defer"
  <2>1. /\ h \in Handles
        /\ q.kind \notin {"create", "defer"} => h \in Active(reg)
        /\ q.kind \in Kinds
    BY <1>2, Accepted DEF Formed, Request
  <2>2. NewCap(reg, q, h, id) \in Cap \cup {NoCap}
    BY <1>2, <2>1, NewCaps DEF Renewed, Kinds
  <2>3. NewRedirects(reg, q, h) \in [Routes -> Handles \cup {NoHandle}]
    <3>1. CASE q.kind = "migrate"
      <4>1. reg.redirects \in [Routes -> Handles \cup {NoHandle}]
        BY DEF Registry
      <4>2. NewRedirects(reg, q, h) = [reg.redirects EXCEPT ![reg.caps[h].route] = h]
        BY <3>1 DEF NewRedirects
      <4> QED BY <2>1, <4>1, <4>2
    <3>2. CASE q.kind = "retire"
      BY <2>1, <3>2 DEF NewRedirects, Registry
    <3>3. CASE q.kind \notin {"migrate", "retire"}
      BY <3>3 DEF NewRedirects, Registry
    <3> QED BY <3>1, <3>2, <3>3
  <2> QED BY <1>2, <2>1, <2>2, <2>3 DEF Target, Registry
<1> QED BY <1>1, <1>2

\* Only the capability of the request changes, and its revision tells.
LEMMA TargetMoves ==
    ASSUME NEW reg \in Registry, NEW files0, NEW history0, NEW q, Formed(q),
           NEW h, NEW id \in Nat, Accepts(reg, files0, history0, q, h)
    PROVE  /\ Moves(reg, Target(reg, q, h, id), h)
           /\ q.kind = "create" => Active(Target(reg, q, h, id)) = Active(reg) \cup {h}
           /\ q.kind = "retire" => Active(Target(reg, q, h, id)) = Active(reg) \ {h}
           /\ q.kind \notin {"create", "retire"} =>
                Active(Target(reg, q, h, id)) = Active(reg)
<1> DEFINE T == Target(reg, q, h, id)
           d == NewCap(reg, q, h, id)
<1>1. CASE q.kind = "defer"
  BY <1>1 DEF Target, Moves
<1>2. CASE q.kind # "defer"
  <2>1. /\ h \in Handles
        /\ q.kind = "create" => h \notin Active(reg)
        /\ q.kind \notin {"create", "defer"} => h \in Active(reg)
        /\ q.kind \in Kinds
    BY <1>2, Accepted DEF Formed, Request
  <2>2. /\ Renewed(q, reg.caps[h], d, id)
        /\ T.caps = [reg.caps EXCEPT ![h] = d]
        /\ reg.caps \in [Handles -> Cap \cup {NoCap}]
    BY <1>2, <2>1, NewCaps, Targets DEF Registry
  <2>3. /\ q.kind # "retire" => d \in Cap /\ d # NoCap
        /\ q.kind = "retire" => d = NoCap
        /\ h \in Active(reg) => reg.caps[h] \in Cap
        /\ q.kind \notin {"create", "retire"} => d.rev > reg.caps[h].rev
    BY <1>2, <2>1, <2>2, CapabilityAssumption DEF Renewed, Kinds, Active, Cap
  <2> HIDE DEF T, d
  <2>4. /\ \A g \in Handles \ {h} : T.caps[g] = reg.caps[g]
        /\ T.caps[h] = d
    BY <2>1, <2>2
  <2>5. Moves(reg, T, h)
    BY <2>1, <2>3, <2>4 DEF Moves, Active
  <2>6. /\ q.kind = "create" => Active(T) = Active(reg) \cup {h}
        /\ q.kind = "retire" => Active(T) = Active(reg) \ {h}
        /\ q.kind \notin {"create", "retire"} => Active(T) = Active(reg)
    BY <1>2, <2>1, <2>3, <2>4 DEF Active
  <2> QED BY <2>5, <2>6 DEF T
<1> QED BY <1>1, <1>2

\* One route names one capability, and redirects lead to capabilities.
LEMMA TargetSound ==
    ASSUME NEW reg \in Registry, Sound(reg), NEW files0, NEW history0, NEW q, Formed(q),
           NEW h, NEW id \in Nat, Accepts(reg, files0, history0, q, h)
    PROVE  Sound(Target(reg, q, h, id))
<1> DEFINE T == Target(reg, q, h, id)
           d == NewCap(reg, q, h, id)
<1>1. CASE q.kind = "defer"
  BY <1>1 DEF Target
<1>2. CASE q.kind # "defer"
  <2>1. /\ h \in Handles
        /\ q.kind = "create" => h \notin Active(reg)
        /\ q.kind \notin {"create", "defer"} => h \in Active(reg)
        /\ q.kind \in Kinds
    BY <1>2, Accepted DEF Formed, Request
  <2>2. /\ Renewed(q, reg.caps[h], d, id)
        /\ T.caps = [reg.caps EXCEPT ![h] = d]
        /\ T.redirects = NewRedirects(reg, q, h)
        /\ reg.caps \in [Handles -> Cap \cup {NoCap}]
        /\ reg.redirects \in [Routes -> Handles \cup {NoHandle}]
    BY <1>2, <2>1, NewCaps, Targets DEF Registry
  <2>3. /\ \A g \in Active(reg) : reg.caps[g].rev \in Nat /\ reg.caps[g].route \in Routes
        /\ \A g \in Active(reg) : reg.caps[g].rev > 0
        /\ \A f, g \in Active(reg) : reg.caps[f].route = reg.caps[g].route => f = g
        /\ \A r \in Routes : reg.redirects[r] # NoHandle =>
               /\ reg.redirects[r] \in Active(reg)
               /\ \A g \in Active(reg) : reg.caps[g].route # r
    BY <2>2 DEF Sound, ValidRegistry, Active, Cap
  <2>4. /\ \A g \in Handles \ {h} : T.caps[g] = reg.caps[g]
        /\ T.caps[h] = d
    BY <2>1, <2>2
  <2>5. /\ q.kind = "create" => Active(T) = Active(reg) \cup {h}
        /\ q.kind = "retire" => Active(T) = Active(reg) \ {h}
        /\ q.kind \notin {"create", "retire"} => Active(T) = Active(reg)
    BY TargetMoves
  <2> HIDE DEF T, d
  <2>6. \A g \in Active(T) : T.caps[g].rev > 0
    <3> SUFFICES ASSUME NEW g \in Active(T) PROVE T.caps[g].rev > 0
      OBVIOUS
    <3>1. CASE g # h
      BY <1>2, <2>1, <2>3, <2>4, <2>5, <3>1 DEF Kinds, Active
    <3>2. CASE g = h
      BY <1>2, <2>1, <2>2, <2>3, <2>4, <2>5, <3>2 DEF Kinds, Renewed
    <3> QED BY <3>1, <3>2
  <2>7. ValidRegistry(T)
    <3>1. CASE q.kind = "create"
      <4>1. /\ d.route = q.route /\ q.route \in Routes /\ T.redirects = reg.redirects
            /\ reg.redirects[q.route] = NoHandle
            /\ \A g \in Active(reg) : reg.caps[g].route # q.route
        BY <2>1, <2>2, <3>1, CapabilityAssumption
           DEF Renewed, NewRedirects, Accepts, RouteFree, Formed, Active
      <4> QED BY <2>1, <2>3, <2>4, <2>5, <3>1, <4>1 DEF ValidRegistry, Active
    <3>2. CASE q.kind \in {"append", "replace", "restore", "refresh"}
      <4>1. d.route = reg.caps[h].route /\ T.redirects = reg.redirects
        BY <2>2, <3>2 DEF Renewed, NewRedirects
      <4>2. /\ Active(T) = Active(reg)
            /\ \A g \in Active(reg) : T.caps[g].route = reg.caps[g].route
        BY <2>1, <2>4, <2>5, <3>2, <4>1 DEF Active
      <4> QED BY <2>3, <4>1, <4>2 DEF ValidRegistry
    <3>3. CASE q.kind = "migrate"
      <4>1. /\ d.route = q.route /\ q.route \in Routes /\ q.route # reg.caps[h].route
            /\ T.redirects = [reg.redirects EXCEPT ![reg.caps[h].route] = h]
            /\ reg.redirects[q.route] = NoHandle
            /\ \A g \in Active(reg) \ {h} : reg.caps[g].route # q.route
        BY <2>1, <2>2, <3>3 DEF Renewed, NewRedirects, Accepts, RouteFree, Formed
      <4>2. \A f, g \in Active(T) : T.caps[f].route = T.caps[g].route => f = g
        BY <2>1, <2>3, <2>4, <2>5, <3>3, <4>1 DEF Active
      <4>3. ASSUME NEW r \in Routes, T.redirects[r] # NoHandle
            PROVE  /\ T.redirects[r] \in Active(T)
                   /\ \A g \in Active(T) : T.caps[g].route # r
        <5>1. CASE r = reg.caps[h].route
          BY <2>1, <2>2, <2>3, <2>4, <2>5, <3>3, <4>1, <5>1 DEF Active
        <5>2. CASE r # reg.caps[h].route
          BY <2>1, <2>2, <2>3, <2>4, <2>5, <3>3, <4>1, <4>3, <5>2 DEF Active
        <5> QED BY <5>1, <5>2
      <4> QED BY <4>2, <4>3 DEF ValidRegistry
    <3>4. CASE q.kind = "retire"
      <4>1. T.redirects = [r \in Routes |-> IF reg.redirects[r] = h THEN NoHandle
                                            ELSE reg.redirects[r]]
        BY <2>2, <3>4 DEF NewRedirects
      <4> QED BY <2>1, <2>3, <2>4, <2>5, <3>4, <4>1 DEF ValidRegistry, Active
    <3> QED BY <1>2, <2>1, <3>1, <3>2, <3>3, <3>4 DEF Kinds
  <2> QED BY <2>6, <2>7 DEF Sound, T
<1> QED BY <1>1, <1>2

\* The kinds that keep the SKILL.md keep what the registry names; the others write
\* or delete what the new registry names.
LEMMA TargetFiles ==
    ASSUME NEW reg \in Registry, NEW files0, NEW history0, NEW q, Formed(q),
           NEW h, NEW id \in Nat, Accepts(reg, files0, history0, q, h)
    PROVE  /\ q.kind \in KeepsFile =>
                \A g \in Handles : FileOf(Target(reg, q, h, id), g) = FileOf(reg, g)
           /\ q.kind \notin KeepsFile =>
                NewFile(reg, q, h, id) = FileOf(Target(reg, q, h, id), h)
<1> DEFINE T == Target(reg, q, h, id)
           d == NewCap(reg, q, h, id)
<1>1. CASE q.kind = "defer"
  BY <1>1 DEF Target, KeepsFile
<1>2. CASE q.kind # "defer"
  <2>1. /\ h \in Handles
        /\ q.kind \notin {"create", "defer"} => h \in Active(reg)
        /\ q.kind \in Kinds
    BY <1>2, Accepted DEF Formed, Request
  <2>2. /\ Renewed(q, reg.caps[h], d, id)
        /\ T.caps = [reg.caps EXCEPT ![h] = d]
        /\ reg.caps \in [Handles -> Cap \cup {NoCap}]
    BY <1>2, <2>1, NewCaps, Targets DEF Registry
  <2>3. /\ \A g \in Handles \ {h} : T.caps[g] = reg.caps[g]
        /\ T.caps[h] = d
    BY <2>1, <2>2
  <2>4. /\ Moves(reg, T, h)
        /\ q.kind = "create" => Active(T) = Active(reg) \cup {h}
        /\ q.kind = "retire" => Active(T) = Active(reg) \ {h}
        /\ q.kind \notin {"create", "retire"} => Active(T) = Active(reg)
    BY TargetMoves
  <2>5. NewFile(reg, q, h, id) = IF q.kind = "retire" THEN NoFile ELSE d.guidance
    BY DEF NewFile
  <2> HIDE DEF T, d
  <2>6. q.kind \in KeepsFile => \A g \in Handles : FileOf(T, g) = FileOf(reg, g)
    BY <1>2, <2>1, <2>2, <2>3, <2>4 DEF Renewed, FileOf, KeepsFile
  <2>7. q.kind \notin KeepsFile => NewFile(reg, q, h, id) = FileOf(T, h)
    BY <1>2, <2>1, <2>3, <2>4, <2>5 DEF FileOf, Kinds, KeepsFile
  <2> QED BY <2>6, <2>7 DEF T
<1> QED BY <1>1, <1>2

-----------------------------------------------------------------------------
(* The state and the parts of the invariant that a step leaves alone       *)

LEMMA InvFacts == IInv => TypeOK /\ StoresFit /\ JournalFit /\ AskedFit /\ OpFit
BY DEF IInv

LEMMA PendingFacts ==
    /\ Pending => Effect = journal.target /\ Base = journal.prior
    /\ ~Pending => Effect = registry /\ Base = registry
    /\ journal = NoJournal => ~Pending
BY DEF Effect, Base, Pending

LEMMA JournalTypes ==
    ASSUME TypeOK, journal # NoJournal
    PROVE  /\ journal \in Journal
           /\ journal.prior \in Registry /\ journal.target \in Registry
           /\ journal.entry \in Entry /\ journal.id \in Nat
           /\ journal.handle \in Handles \cup {NoHandle}
           /\ journal.archive \in Guidance \cup {NoFile}
           /\ journal.from \in Guidance \cup {NoFile} /\ journal.to \in Guidance \cup {NoFile}
           /\ journal.keep \in BOOLEAN /\ journal.committed \in BOOLEAN
BY DEF TypeOK, Journal

LEMMA EffectType ==
    /\ TypeOK => Effect \in Registry /\ Base \in Registry
    /\ TypeOK' => Effect' \in Registry /\ Base' \in Registry
BY DEF TypeOK, Effect, Base, Pending, Journal

\* A step that touches neither the stores nor what was asked for.
LEMMA Unmoved ==
    ASSUME IInv, UNCHANGED <<durable, lost, asked>>
    PROVE  StoresFit' /\ JournalFit' /\ AskedFit'
<1>1. UNCHANGED <<registry, files, history, audit, journal, lost, asked>>
  BY DEF durable
<1>2. /\ Effect' = Effect /\ Base' = Base /\ Drawn' = Drawn
      /\ Pending' = Pending
      /\ \A h \in Handles : Touched(h)' = Touched(h) /\ Held(Base, h)' = Held(Base, h)
  BY <1>1 DEF Effect, Base, Drawn, Entries, Pending, Touched, Held
<1>3. StoresFit'
  BY <1>1, <1>2, InvFacts DEF StoresFit
<1>4. JournalFit'
  BY <1>1, <1>2, InvFacts DEF JournalFit
<1>5. AskedFit'
  BY <1>1, <1>2, InvFacts DEF AskedFit
<1> QED BY <1>3, <1>4, <1>5

\* Requests stay what they are while capabilities only go forward: none comes back
\* under an old handle, and none changes without its revision.
LEMMA AskedStep ==
    ASSUME TypeOK, AskedFit, TypeOK', Drawn \subseteq Drawn', UNCHANGED asked,
           \A h \in Drawn : h \in Active(Effect') =>
               /\ h \in Active(Effect)
               /\ \/ Effect'.caps[h] = Effect.caps[h]
                  \/ Effect'.caps[h].rev > Effect.caps[h].rev
    PROVE  AskedFit'
<1> SUFFICES ASSUME NEW k \in Keys \cup {NoKey}, asked[k] # NoRequest
             PROVE  Wanted(Drawn', Effect', k, asked[k])
  BY DEF AskedFit
<1> DEFINE q == asked[k]
<1>1. Wanted(Drawn, Effect, k, q)
  BY DEF AskedFit
<1>2. ASSUME NEW h \in Drawn, NEW v \in Nat, NEW g, Read(Effect, h, v, g)
      PROVE  Read(Effect', h, v, g)
  <2>1. /\ h \in Active(Effect') => Effect'.caps[h].rev \in Nat
        /\ h \in Active(Effect) => Effect.caps[h].rev \in Nat
    BY EffectType DEF Registry, Active, Cap
  <2> QED BY <1>2, <2>1 DEF Read
<1> HIDE DEF q
<1>3. CASE Plain(Drawn, k, q)
  <2>1. Plain(Drawn', k, q)
    BY <1>3 DEF Plain
  <2> QED BY <2>1 DEF Wanted, q
<1>4. CASE Retirement(Drawn, Effect, k, q)
  <2>1. Retirement(Drawn', Effect', k, q)
    BY <1>2, <1>4 DEF Retirement
  <2> QED BY <2>1 DEF Wanted, q
<1> QED BY <1>1, <1>3, <1>4 DEF Wanted

-----------------------------------------------------------------------------
(* Steps that write nothing                                                *)

LEMMA QuietStep ==
    ASSUME IInv, UNCHANGED <<durable, lost, asked>>, op' \in Op,
           crashes' \in 0..MaxCrashes, losses' \in 0..MaxLosses, OpFit'
    PROVE  IInv'
<1>1. TypeOK'
  BY InvFacts DEF TypeOK, durable
<1> QED BY <1>1, Unmoved DEF IInv

LEMMA IdleFits ==
    ASSUME op' = Idle
    PROVE  op' \in Op /\ OpFit'
BY CapabilityAssumption DEF Idle, Op, OpFit, Calls, Steps, Results

LEMMA ReplayedFits ==
    ASSUME op \in Op, op.result # "wedged", op.call \in {"recover", "apply"}, Replayed
    PROVE  /\ op' \in Op /\ op'.call = op.call /\ op'.key = op.key
           /\ op'.result # "wedged"
           /\ \/ op'.step = "done"
              \/ op'.step = "decide" /\ op.call = "apply"
<1>1. CASE End("committed")
  <2>1. op' \in Op /\ op'.step = "done" /\ op'.call = op.call /\ op'.key = op.key
        /\ op'.result # "wedged"
    BY <1>1 DEF End, Op, Steps, Results
  <2> QED BY <2>1
<1>2. CASE End("recovered")
  <2>1. op' \in Op /\ op'.step = "done" /\ op'.call = op.call /\ op'.key = op.key
        /\ op'.result # "wedged"
    BY <1>2 DEF End, Op, Steps, Results
  <2> QED BY <2>1
<1>3. CASE op' = [op EXCEPT !.step = "decide"] /\ op.call # "recover"
  BY <1>3 DEF Op, Steps, Results
<1> QED BY <1>1, <1>2, <1>3 DEF Replayed, Goto

LEMMA BeginRecoverSound ==
    ASSUME IInv, BeginRecover
    PROVE  IInv'
<1>1. /\ op' = [Idle EXCEPT !.call = "recover", !.key = NoKey, !.step = "load"]
      /\ UNCHANGED <<durable, asked, lost, crashes, losses>>
  BY DEF BeginRecover, Begin
<1>2. op' \in Op /\ OpFit'
  BY <1>1 DEF Idle, Op, OpFit, Calls, Steps, Results
<1> QED BY <1>1, <1>2, QuietStep, InvFacts DEF TypeOK

LEMMA BeginServeSound ==
    ASSUME IInv, BeginServe
    PROVE  IInv'
<1>1. /\ op' = [Idle EXCEPT !.call = "serve", !.key = NoKey, !.step = "serve"]
      /\ UNCHANGED <<durable, asked, lost, crashes, losses>>
  BY DEF BeginServe, Begin
<1>2. op' \in Op /\ OpFit'
  BY <1>1 DEF Idle, Op, OpFit, Calls, Steps, Results
<1> QED BY <1>1, <1>2, QuietStep, InvFacts DEF TypeOK

LEMMA BeginApplySound ==
    ASSUME IInv, NEW k \in Keys \cup {NoKey}, BeginApply(k)
    PROVE  IInv'
<1>1. /\ op' = [Idle EXCEPT !.call = "apply", !.key = k, !.step = "load"]
      /\ UNCHANGED <<durable, asked, lost, crashes, losses>>
      /\ asked[k] # NoRequest
  BY DEF BeginApply, Begin
<1>2. op' = [call |-> "apply", key |-> k, step |-> "load", decided |-> FALSE,
             result |-> "none"]
  BY <1>1 DEF Idle
<1>3. op' \in Op
  BY <1>2 DEF Op, Calls, Steps, Results
<1>4. OpFit'
  <2>1. asked'[op'.key] # NoRequest
    BY <1>1, <1>2
  <2> QED BY <1>2, <2>1 DEF OpFit
<1> QED BY <1>1, <1>3, <1>4, QuietStep, InvFacts DEF TypeOK

LEMMA ReturnSound ==
    ASSUME IInv, Return
    PROVE  IInv'
BY IdleFits, QuietStep, InvFacts DEF Return, TypeOK

LEMMA CrashSound ==
    ASSUME IInv, Crash
    PROVE  IInv'
<1>1. /\ op' = Idle /\ UNCHANGED <<durable, asked, lost, losses>>
      /\ crashes < MaxCrashes /\ crashes' = crashes + 1
  BY DEF Crash
<1>2. crashes' \in 0..MaxCrashes /\ losses' \in 0..MaxLosses
  BY <1>1, InvFacts, JournalAssumption DEF TypeOK
<1> QED BY <1>1, <1>2, IdleFits, QuietStep

LEMMA ServeSound ==
    ASSUME IInv, Serve
    PROVE  IInv'
<1>1. /\ End("failed") \/ End("served")
      /\ UNCHANGED <<durable, asked, lost, crashes, losses>>
  BY DEF Serve
<1>2. op \in Op /\ OpFit
  BY InvFacts DEF TypeOK
<1>3. op' \in Op /\ op'.step = "done" /\ op'.call = op.call /\ op'.key = op.key
      /\ op'.result # "wedged"
  BY <1>1, <1>2 DEF End, Op, Steps, Results
<1>4. OpFit'
  BY <1>1, <1>2, <1>3 DEF OpFit
<1> QED BY <1>1, <1>3, <1>4, QuietStep, InvFacts DEF TypeOK

\* What is read from the registry is something to be asked for, also while a journal
\* is pending that has not reached the registry.
LEMMA ReadFits ==
    ASSUME IInv, NEW h \in Active(registry)
    PROVE  /\ h \in Drawn /\ registry.caps[h].rev \in Nat
           /\ registry.caps[h].guidance \in Guidance
           /\ Read(Effect, h, registry.caps[h].rev, registry.caps[h].guidance)
<1>1. /\ registry \in Registry /\ Effect \in Registry
      /\ Active(Base) \cup Active(Effect) \subseteq Drawn
      /\ registry \in {Base, Effect}
  BY InvFacts, EffectType, PendingFacts DEF TypeOK, StoresFit, JournalFit
<1>2. h \in Handles /\ registry.caps[h] \in Cap
  BY <1>1 DEF Active, Registry
<1>3. h \in Active(Effect) => Effect.caps[h].rev \in Nat
  BY <1>1 DEF Active, Registry, Cap
<1>4. Read(Effect, h, registry.caps[h].rev, registry.caps[h].guidance)
  <2>1. CASE registry = Effect
    BY <1>2, <2>1 DEF Read, Cap
  <2>2. CASE registry # Effect
    <3>1. Pending /\ registry = journal.prior /\ Effect = journal.target
      BY <1>1, <2>2, PendingFacts
    <3>2. Moves(registry, Effect, journal.handle)
      BY <3>1, InvFacts DEF JournalFit
    <3> QED BY <1>2, <1>3, <3>2 DEF Moves, Read, Cap
  <2> QED BY <2>1, <2>2
<1> QED BY <1>1, <1>2, <1>4 DEF Cap

LEMMA ReviewWanted ==
    ASSUME IInv, NEW k \in Keys, NEW q \in ReviewRequests(registry, k)
    PROVE  Wanted(Drawn, Effect, k, q)
<1>1. k # NoKey
  BY CapabilityAssumption
<1>2. CASE q = Blank("defer", k)
  BY <1>1, <1>2 DEF Wanted, Plain
<1>3. CASE \E r \in Routes : q = [Blank("create", k) EXCEPT !.route = r]
  BY <1>1, <1>3 DEF Wanted, Plain
<1>4. CASE \E kind \in {"append", "replace"}, h \in Active(registry) :
              q = About(kind, k, registry, h)
  BY <1>1, <1>4, ReadFits DEF Wanted, Plain, About
<1>5. CASE \E h \in Active(registry), r \in Routes :
              q = [About("migrate", k, registry, h) EXCEPT !.route = r]
  <2>1. PICK h \in Active(registry), r \in Routes :
                q = [About("migrate", k, registry, h) EXCEPT !.route = r]
    BY <1>5
  <2>2. q = [Blank("migrate", k) EXCEPT !.target = h, !.rev = registry.caps[h].rev, !.route = r]
    BY <2>1 DEF About, Blank
  <2> QED BY <1>1, <2>2, ReadFits DEF Wanted, Plain
<1> QED BY <1>2, <1>3, <1>4, <1>5 DEF ReviewRequests

LEMMA OperatorWanted ==
    ASSUME IInv, NEW q \in OperatorRequests(registry, history)
    PROVE  Wanted(Drawn, Effect, NoKey, q)
<1>1. CASE \E h \in Active(registry) :
              q = [About("retire", NoKey, registry, h) EXCEPT
                       !.guidance = registry.caps[h].guidance]
  <2>1. PICK h \in Active(registry) :
              q = [About("retire", NoKey, registry, h) EXCEPT
                       !.guidance = registry.caps[h].guidance]
    BY <1>1
  <2>2. q = [Blank("retire", NoKey) EXCEPT
                 !.target = h, !.rev = registry.caps[h].rev,
                 !.guidance = registry.caps[h].guidance]
    BY <2>1 DEF About, Blank
  <2> QED BY <2>2, ReadFits DEF Wanted, Retirement
<1>2. CASE \E h \in Active(registry), g \in Guidance :
              q = [About("restore", NoKey, registry, h) EXCEPT !.guidance = g]
  <2>1. PICK h \in Active(registry), g \in Guidance :
              q = [About("restore", NoKey, registry, h) EXCEPT !.guidance = g]
    BY <1>2
  <2>2. q = [Blank("restore", NoKey) EXCEPT
                 !.target = h, !.rev = registry.caps[h].rev, !.guidance = g]
    BY <2>1 DEF About, Blank
  <2> QED BY <2>2, ReadFits DEF Wanted, Plain
<1>3. CASE \E h \in Active(registry), m \in Metas :
              q = [About("refresh", NoKey, registry, h) EXCEPT !.refs = m]
  <2>1. PICK h \in Active(registry), m \in Metas :
              q = [About("refresh", NoKey, registry, h) EXCEPT !.refs = m]
    BY <1>3
  <2>2. q = [Blank("refresh", NoKey) EXCEPT
                 !.target = h, !.rev = registry.caps[h].rev, !.refs = m]
    BY <2>1 DEF About, Blank
  <2> QED BY <2>2, ReadFits DEF Wanted, Plain
<1>4. \A h \in Active(registry) : history[h] \subseteq Guidance
  BY InvFacts DEF TypeOK, Active
<1>5. CASE q \in UNION {{[About("restore", NoKey, registry, h) EXCEPT !.guidance = g]
                           : g \in history[h]} : h \in Active(registry)}
  <2>1. PICK h \in Active(registry) :
            q \in {[About("restore", NoKey, registry, h) EXCEPT !.guidance = g] : g \in history[h]}
    BY <1>5
  <2>2. PICK g \in history[h] : q = [About("restore", NoKey, registry, h) EXCEPT !.guidance = g]
    BY <2>1
  <2>3. g \in Guidance
    BY <1>4
  <2>4. \E f \in Active(registry), e \in Guidance :
              q = [About("restore", NoKey, registry, f) EXCEPT !.guidance = e]
    BY <2>2, <2>3
  <2> QED BY <1>2, <2>4
<1> DEFINE Retires == {[About("retire", NoKey, registry, h) EXCEPT
                            !.guidance = registry.caps[h].guidance] : h \in Active(registry)}
           Restores == UNION {{[About("restore", NoKey, registry, h) EXCEPT !.guidance = g]
                                 : g \in history[h]} : h \in Active(registry)}
           Refreshes == {[About("refresh", NoKey, registry, h) EXCEPT !.refs = m]
                           : h \in Active(registry), m \in Metas}
<1>6. OperatorRequests(registry, history) = Retires \cup Refreshes \cup Restores
  BY DEF OperatorRequests
<1>7. q \in Retires => Wanted(Drawn, Effect, NoKey, q)
  BY <1>1
<1>8. q \in Refreshes => Wanted(Drawn, Effect, NoKey, q)
  BY <1>3
<1>9. q \in Restores => Wanted(Drawn, Effect, NoKey, q)
  BY <1>5
<1> HIDE DEF Retires, Restores, Refreshes
<1> QED BY <1>6, <1>7, <1>8, <1>9

LEMMA AskSound ==
    ASSUME IInv, NEW k \in Keys \cup {NoKey}, Ask(k)
    PROVE  IInv'
<1>1. PICK q : Wanted(Drawn, Effect, k, q) /\ asked' = [asked EXCEPT ![k] = q]
  BY ReviewWanted, OperatorWanted DEF Ask
<1>2. /\ op.call # "apply" \/ op.key # k
      /\ UNCHANGED <<registry, files, history, audit, journal, op, lost, crashes, losses>>
  BY DEF Ask, durable
<1>3. q \in Request /\ q # NoRequest
  BY <1>1, WantedFormed, JournalAssumption DEF Drawn, Formed
<1>4. TypeOK'
  BY <1>1, <1>2, <1>3, InvFacts DEF TypeOK
<1>5. /\ Effect' = Effect /\ Base' = Base /\ Drawn' = Drawn /\ Pending' = Pending
      /\ \A h \in Handles : Touched(h)' = Touched(h) /\ Held(Base, h)' = Held(Base, h)
  BY <1>2 DEF Effect, Base, Drawn, Entries, Pending, Touched, Held
<1>6. StoresFit'
  BY <1>2, <1>5, InvFacts DEF StoresFit
<1>7. JournalFit'
  BY <1>2, <1>5, InvFacts DEF JournalFit
<1>8. AskedFit'
  BY <1>1, <1>5, InvFacts DEF AskedFit, TypeOK
<1>9. OpFit'
  BY <1>1, <1>2, <1>5, InvFacts DEF OpFit, TypeOK, Op
<1> QED BY <1>4, <1>6, <1>7, <1>8, <1>9 DEF IInv

-----------------------------------------------------------------------------
(* The replay of a journal, write by write                                 *)

\* While the journal stays, so do the registries it leads from and to.
LEMMA ReplayFrame ==
    ASSUME IInv, UNCHANGED <<journal, asked, lost>>
    PROVE  /\ Pending' = Pending
           /\ Pending => /\ Effect' = Effect /\ Base' = Base
                         /\ Effect = journal.target /\ Base = journal.prior
           /\ \A h \in Handles : Touched(h)' = Touched(h)
           /\ Base' = Base => \A h \in Handles : Held(Base, h)' = Held(Base, h)
BY DEF Pending, Effect, Base, Touched, Held

\* A journal that is marked is as good as none.
LEMMA ClearedSound ==
    ASSUME IInv, journal # NoJournal, journal.committed, journal' = NoJournal,
           op.call \in {"recover", "apply"}, Replayed,
           UNCHANGED <<registry, files, history, audit, asked, lost, crashes, losses>>
    PROVE  IInv'
<1>1. ~Pending /\ ~Pending'
  BY DEF Pending
<1>2. /\ Effect' = Effect /\ Base' = Base /\ Drawn' = Drawn
      /\ \A h \in Handles : Touched(h)' = Touched(h) /\ Held(Base, h)' = Held(Base, h)
  BY <1>1 DEF Effect, Base, Drawn, Entries, Touched, Held
<1>3. /\ op' \in Op /\ op'.call = op.call /\ op'.key = op.key
      /\ op'.result # "wedged"
      /\ \/ op'.step = "done"
         \/ op'.step = "decide" /\ op.call = "apply"
  BY InvFacts, ReplayedFits DEF TypeOK, OpFit
<1>4. TypeOK'
  BY <1>3, InvFacts DEF TypeOK
<1>5. StoresFit'
  BY <1>1, <1>2, InvFacts DEF StoresFit
<1>6. JournalFit'
  BY <1>1 DEF JournalFit
<1>7. AskedFit'
  BY <1>2, InvFacts DEF AskedFit
<1>8. OpFit'
  BY <1>3, InvFacts DEF OpFit
<1> QED BY <1>4, <1>5, <1>6, <1>7, <1>8 DEF IInv

\* A step of the call's own place.
LEMMA Went ==
    ASSUME op \in Op, NEW s \in Steps, op' = [op EXCEPT !.step = s]
    PROVE  /\ op' \in Op /\ op'.call = op.call /\ op'.key = op.key
           /\ op'.result = op.result /\ op'.step = s
BY DEF Op

LEMMA LoadSound ==
    ASSUME IInv, Load
    PROVE  IInv'
<1>1. /\ op.step = "load"
      /\ UNCHANGED <<registry, files, history, audit, asked, lost, crashes, losses>>
  BY DEF Load
<1>2. op \in Op /\ op.result # "wedged" /\ op.call \in {"recover", "apply"}
  BY <1>1, InvFacts DEF TypeOK, OpFit
<1>3. CASE journal = NoJournal /\ Replayed /\ UNCHANGED journal
  <2>1. /\ op' \in Op /\ op'.call = op.call /\ op'.key = op.key
        /\ op'.result # "wedged"
        /\ \/ op'.step = "done"
           \/ op'.step = "decide" /\ op.call = "apply"
    BY <1>2, <1>3, ReplayedFits
  <2>2. OpFit'
    BY <1>1, <1>3, <2>1, InvFacts DEF OpFit
  <2> QED BY <1>1, <1>3, <2>1, <2>2, QuietStep, InvFacts DEF TypeOK, durable
<1>4. CASE journal # NoJournal /\ journal.committed /\ journal' = NoJournal /\ Replayed
  BY <1>1, <1>2, <1>4, ClearedSound
<1>5. CASE /\ Pending /\ UNCHANGED journal
           /\ IF registry \in {journal.prior, journal.target} /\ ValidRegistry(journal.target)
              THEN Goto("archive") ELSE End("wedged")
  <2>1. registry \in {journal.prior, journal.target} /\ ValidRegistry(journal.target)
    BY <1>5, InvFacts, PendingFacts DEF JournalFit, StoresFit, Sound
  <2>2. /\ op' \in Op /\ op'.call = op.call /\ op'.key = op.key
        /\ op'.result = op.result /\ op'.step = "archive"
    BY <1>2, <1>5, <2>1, Went DEF Goto, Steps
  <2>3. Pending'
    BY <1>5 DEF Pending
  <2>4. OpFit'
    BY <1>1, <1>2, <2>2, <2>3, InvFacts DEF OpFit
  <2> QED BY <1>1, <1>5, <2>2, <2>4, QuietStep, InvFacts DEF TypeOK, durable
<1> QED BY <1>3, <1>4, <1>5 DEF Load

LEMMA UnlinkSound ==
    ASSUME IInv, Unlink
    PROVE  IInv'
<1>1. /\ op.step = "unlink" /\ journal' = NoJournal /\ Replayed
      /\ UNCHANGED <<registry, files, history, audit, asked, lost, crashes, losses>>
  BY DEF Unlink
<1>2. /\ op.call \in {"recover", "apply"}
      /\ journal # NoJournal /\ journal.committed
  BY <1>1, InvFacts DEF OpFit
<1> QED BY <1>1, <1>2, ClearedSound

LEMMA ArchiveSound ==
    ASSUME IInv, Archive
    PROVE  IInv'
<1>1. /\ op.step = "archive" /\ op' = [op EXCEPT !.step = "skill"]
      /\ history' = IF journal.archive = NoFile THEN history
                    ELSE [history EXCEPT ![journal.handle] = @ \cup {journal.archive}]
      /\ UNCHANGED <<registry, files, audit, journal, asked, lost, crashes, losses>>
  BY DEF Archive, Goto
<1>2. /\ TypeOK /\ OpFit /\ op \in Op /\ Pending /\ op.call \in {"recover", "apply"}
      /\ journal # NoJournal
  BY <1>1, InvFacts DEF TypeOK, OpFit, Pending
<1>3. /\ op' \in Op /\ op'.call = op.call /\ op'.key = op.key
      /\ op'.result = op.result /\ op'.step = "skill"
  BY <1>1, <1>2, Went DEF Steps
<1>4. /\ Pending' /\ Effect' = Effect /\ Base' = Base /\ Drawn' = Drawn
      /\ \A h \in Handles : Touched(h)' = Touched(h) /\ Held(Base, h)' = Held(Base, h)
  BY <1>1, <1>2, ReplayFrame DEF Drawn, Entries
<1>5. journal.archive \in Guidance \cup {NoFile}
  BY <1>2, JournalTypes
<1>7. TypeOK'
  BY <1>1, <1>2, <1>3, <1>5 DEF TypeOK
<1>8. StoresFit'
  <2>1. ASSUME NEW i \in DOMAIN audit', Archives(audit'[i].kind)
        PROVE  \/ audit'[i].prior \in history'[audit'[i].handle]
               \/ Pending' /\ audit'[i] = journal'.entry
    <3>1. \/ audit[i].prior \in history[audit[i].handle]
          \/ Pending /\ audit[i] = journal.entry
      BY <1>1, <2>1, InvFacts DEF StoresFit
    <3>2. \A h : history[h] \subseteq history'[h]
      BY <1>1
    <3> QED BY <1>1, <1>2, <1>4, <3>1, <3>2
  <2> QED BY <1>1, <1>4, <2>1, InvFacts DEF StoresFit
<1>9. JournalFit'
  BY <1>1, <1>2, <1>4, InvFacts DEF JournalFit
<1>10. AskedFit'
  BY <1>1, <1>4, InvFacts DEF AskedFit
<1>11. journal'.archive = NoFile \/ journal'.archive \in history'[journal'.handle]
  <2>1. journal.archive # NoFile => journal.handle \in Handles
    BY <1>2, InvFacts DEF JournalFit
  <2> QED BY <1>1, <1>2, <2>1 DEF TypeOK
<1>12. OpFit'
  BY <1>1, <1>2, <1>3, <1>4, <1>11 DEF OpFit
<1> QED BY <1>7, <1>8, <1>9, <1>10, <1>12 DEF IInv

LEMMA SkillSound ==
    ASSUME IInv, Skill
    PROVE  IInv'
<1>1. /\ op.step = "skill"
      /\ UNCHANGED <<registry, history, audit, journal, asked, lost, crashes, losses>>
  BY DEF Skill
<1>2. /\ TypeOK /\ OpFit /\ op \in Op /\ Pending /\ op.call \in {"recover", "apply"}
      /\ journal # NoJournal
  BY <1>1, InvFacts DEF TypeOK, OpFit, Pending
<1>3. ~journal.keep => /\ journal.handle \in Handles /\ journal.handle \notin lost
                       /\ files[journal.handle] \in {journal.from, journal.to}
  BY <1>2, InvFacts DEF JournalFit
<1>4. /\ op' = [op EXCEPT !.step = "registry"]
      /\ files' = IF journal.keep THEN files ELSE [files EXCEPT ![journal.handle] = journal.to]
  BY <1>1, <1>2, <1>3 DEF Skill, Goto, TypeOK
<1>5. /\ op' \in Op /\ op'.call = op.call /\ op'.key = op.key
      /\ op'.result = op.result /\ op'.step = "registry"
  BY <1>2, <1>4, Went DEF Steps
<1>6. /\ Pending' /\ Effect' = Effect /\ Base' = Base /\ Drawn' = Drawn
      /\ \A h \in Handles : Touched(h)' = Touched(h) /\ Held(Base, h)' = Held(Base, h)
  BY <1>1, <1>2, ReplayFrame DEF Drawn, Entries
<1>7. /\ \A h \in Handles : ~Touched(h) => files'[h] = files[h]
      /\ ~journal.keep => files'[journal.handle] = journal.to
  BY <1>2, <1>3, <1>4 DEF Touched, TypeOK
<1>8. TypeOK'
  BY <1>1, <1>2, <1>4, <1>5, JournalTypes DEF TypeOK
<1>9. StoresFit'
  BY <1>1, <1>2, <1>6, <1>7, InvFacts DEF StoresFit
<1>10. JournalFit'
  BY <1>1, <1>2, <1>6, <1>7, InvFacts DEF JournalFit
<1>11. AskedFit'
  BY <1>1, <1>6, InvFacts DEF AskedFit
<1>12. OpFit'
  BY <1>1, <1>2, <1>5, <1>6, <1>7 DEF OpFit
<1> QED BY <1>8, <1>9, <1>10, <1>11, <1>12 DEF IInv

LEMMA SaveRegistrySound ==
    ASSUME IInv, SaveRegistry
    PROVE  IInv'
<1>1. /\ op.step = "registry" /\ registry' = journal.target
      /\ op' = [op EXCEPT !.step = "audit"]
      /\ UNCHANGED <<files, history, audit, journal, asked, lost, crashes, losses>>
  BY DEF SaveRegistry, Goto
<1>2. /\ TypeOK /\ OpFit /\ op \in Op /\ Pending /\ op.call \in {"recover", "apply"}
      /\ journal # NoJournal
  BY <1>1, InvFacts DEF TypeOK, OpFit, Pending
<1>3. /\ op' \in Op /\ op'.call = op.call /\ op'.key = op.key
      /\ op'.result = op.result /\ op'.step = "audit"
  BY <1>1, <1>2, Went DEF Steps
<1>4. /\ Pending' /\ Effect' = Effect /\ Base' = Base /\ Drawn' = Drawn
      /\ \A h \in Handles : Touched(h)' = Touched(h) /\ Held(Base, h)' = Held(Base, h)
  BY <1>1, <1>2, ReplayFrame DEF Drawn, Entries
<1>5. TypeOK'
  BY <1>1, <1>2, <1>3, JournalTypes DEF TypeOK
<1>6. StoresFit'
  BY <1>1, <1>2, <1>4, InvFacts DEF StoresFit
<1>7. JournalFit'
  BY <1>1, <1>2, <1>4, InvFacts DEF JournalFit
<1>8. AskedFit'
  BY <1>1, <1>4, InvFacts DEF AskedFit
<1>9. OpFit'
  BY <1>1, <1>2, <1>3, <1>4 DEF OpFit
<1> QED BY <1>5, <1>6, <1>7, <1>8, <1>9 DEF IInv

\* The audit is numbered, so the entry of a pending journal is in it just when it is
\* the last one.
LEMMA AuditedLast ==
    ASSUME IInv, Pending
    PROVE  /\ audit \in Seq(Entry) /\ Len(audit) \in Nat
           /\ Audited(journal.id) => journal.id = Len(audit) /\ audit[Len(audit)] = journal.entry
                                     /\ Len(audit) \in DOMAIN audit
           /\ ~Audited(journal.id) => journal.id = Len(audit) + 1
           /\ journal.entry \in Entry /\ journal.entry.id = journal.id
<1>1. /\ audit \in Seq(Entry) /\ journal # NoJournal /\ TypeOK
      /\ \A i \in DOMAIN audit : audit[i].id = i
      /\ journal.entry.id = journal.id
      /\ \/ journal.id = Len(audit) + 1
         \/ journal.id = Len(audit) /\ journal.id > 0 /\ audit[Len(audit)] = journal.entry
  BY InvFacts DEF TypeOK, StoresFit, JournalFit, Pending
<1>2. /\ journal.id \in Nat /\ journal.entry \in Entry /\ Len(audit) \in Nat
      /\ DOMAIN audit = 1..Len(audit)
  BY <1>1, JournalTypes
<1>3. Audited(journal.id) <=> journal.id \in 1..Len(audit)
  BY <1>1, <1>2 DEF Audited
<1> QED BY <1>1, <1>2, <1>3

LEMMA AppendAuditSound ==
    ASSUME IInv, AppendAudit
    PROVE  IInv'
<1>1. /\ op.step = "audit" /\ op' = [op EXCEPT !.step = "mark"]
      /\ audit' = IF Audited(journal.id) THEN audit ELSE Append(audit, journal.entry)
      /\ UNCHANGED <<registry, files, history, journal, asked, lost, crashes, losses>>
  BY DEF AppendAudit, Goto
<1>2. /\ TypeOK /\ OpFit /\ op \in Op /\ Pending /\ op.call \in {"recover", "apply"}
      /\ journal # NoJournal
  BY <1>1, InvFacts DEF TypeOK, OpFit, Pending
<1>3. /\ op' \in Op /\ op'.call = op.call /\ op'.key = op.key
      /\ op'.result = op.result /\ op'.step = "mark"
  BY <1>1, <1>2, Went DEF Steps
<1>4. /\ audit' \in Seq(Entry) /\ Len(audit') = journal.id /\ Len(audit') > 0
      /\ audit'[Len(audit')] = journal.entry
      /\ DOMAIN audit' = DOMAIN audit \cup {Len(audit')}
      /\ \A i \in DOMAIN audit : audit'[i] = audit[i]
      /\ journal.entry.id = journal.id
  BY <1>1, <1>2, AuditedLast
<1>5. Drawn' = Drawn
  <2>1. Entries' = Entries
    BY <1>1, <1>2, <1>4 DEF Entries, Pending
  <2> QED BY <2>1 DEF Drawn
<1>6. /\ Pending' /\ Effect' = Effect /\ Base' = Base
      /\ \A h \in Handles : Touched(h)' = Touched(h) /\ Held(Base, h)' = Held(Base, h)
  BY <1>1, <1>2, ReplayFrame
<1>7. TypeOK'
  BY <1>1, <1>2, <1>3, <1>4 DEF TypeOK
<1>8. StoresFit'
  <2>1. \A i \in DOMAIN audit' : audit'[i].id = i
    BY <1>4, InvFacts DEF StoresFit
  <2>2. ASSUME NEW i \in DOMAIN audit', Archives(audit'[i].kind)
        PROVE  \/ audit'[i].prior \in history'[audit'[i].handle]
               \/ Pending' /\ audit'[i] = journal'.entry
    BY <1>1, <1>2, <1>4, <1>6, <2>2, InvFacts DEF StoresFit
  <2> QED BY <1>1, <1>5, <1>6, <2>1, <2>2, InvFacts DEF StoresFit
<1>9. JournalFit'
  BY <1>1, <1>2, <1>4, <1>6, InvFacts DEF JournalFit
<1>10. AskedFit'
  BY <1>1, <1>5, <1>6, InvFacts DEF AskedFit
<1>11. OpFit'
  BY <1>1, <1>2, <1>3, <1>4, <1>6 DEF OpFit
<1> QED BY <1>7, <1>8, <1>9, <1>10, <1>11 DEF IInv

\* From the journal's prior registry to its target: what the SKILL.md files hold once
\* the journal's own is written.
LEMMA HeldAfter ==
    ASSUME IInv, Pending, journal.keep \/ files[journal.handle] = journal.to
    PROVE  /\ lost \subseteq Active(Effect)
           /\ \A h \in Handles : files[h] = Held(Effect, h)
<1>1. /\ TypeOK /\ Effect = journal.target /\ Base = journal.prior
      /\ lost \subseteq Active(Base) /\ lost \subseteq Handles
      /\ \A h \in Handles : ~Touched(h) => files[h] = Held(Base, h)
      /\ Moves(Base, Effect, journal.handle)
  BY InvFacts, PendingFacts DEF StoresFit, JournalFit, TypeOK
<1>2. Base \in Registry /\ Effect \in Registry
  BY <1>1, EffectType
<1>3. CASE journal.keep
  <2>1. \A h \in Handles : FileOf(Effect, h) = FileOf(Base, h)
    BY <1>1, <1>3, InvFacts DEF JournalFit
  <2>2. \A h \in Active(Base) : FileOf(Base, h) # NoFile
    BY <1>2, CapabilityAssumption DEF FileOf, Active, Registry, Cap
  <2>3. \A h \in Active(Base) : h \in Active(Effect)
    BY <2>1, <2>2 DEF FileOf, Active
  <2> QED BY <1>1, <1>3, <2>1, <2>3 DEF Held, Touched
<1>4. CASE ~journal.keep
  <2>1. /\ journal.handle \notin lost /\ journal.handle \in Handles
        /\ files[journal.handle] = FileOf(Effect, journal.handle)
    BY <1>1, <1>4, InvFacts DEF JournalFit
  <2>2. \A h \in Handles \ {journal.handle} : Effect.caps[h] = Base.caps[h]
    BY <1>1 DEF Moves
  <2> QED BY <1>1, <2>1, <2>2 DEF Held, Touched, FileOf, Active
<1> QED BY <1>3, <1>4

LEMMA MarkSound ==
    ASSUME IInv, Mark
    PROVE  IInv'
<1>1. /\ op.step = "mark" /\ op' = [op EXCEPT !.step = "unlink"]
      /\ journal' = [journal EXCEPT !.committed = TRUE]
      /\ UNCHANGED <<registry, files, history, audit, asked, lost, crashes, losses>>
  BY DEF Mark, Goto
<1>2. /\ TypeOK /\ OpFit /\ op \in Op /\ Pending /\ op.call \in {"recover", "apply"}
      /\ journal # NoJournal /\ registry = journal.target
      /\ journal.archive = NoFile \/ journal.archive \in history[journal.handle]
      /\ journal.keep \/ files[journal.handle] = journal.to
      /\ journal.id = Len(audit)
  BY <1>1, InvFacts DEF TypeOK, OpFit, Pending
<1>3. /\ op' \in Op /\ op'.call = op.call /\ op'.key = op.key
      /\ op'.result = op.result /\ op'.step = "unlink"
  BY <1>1, <1>2, Went DEF Steps
<1>4. journal' \in Journal /\ journal'.committed /\ journal' # NoJournal
  BY <1>1, <1>2, JournalTypes, JournalAssumption DEF Journal
<1>5. ~Pending' /\ Effect = registry /\ Effect' = registry /\ Base' = registry
  BY <1>1, <1>2, <1>4, PendingFacts DEF Pending, Effect, Base
<1>6. /\ audit[Len(audit)] = journal.entry /\ Len(audit) \in DOMAIN audit
  <2>1. Audited(journal.id) \/ ~Audited(journal.id)
    OBVIOUS
  <2>2. journal.id \in Nat
    BY <1>2, JournalTypes
  <2> QED BY <1>2, <2>1, <2>2, AuditedLast
<1>7. Drawn' = Drawn
  <2>1. Entries' = Entries
    BY <1>1, <1>2, <1>5, <1>6 DEF Entries
  <2> QED BY <2>1 DEF Drawn
<1>8. TypeOK'
  BY <1>1, <1>2, <1>3, <1>4 DEF TypeOK
<1>9. StoresFit'
  <2>1. Sound(Base') /\ Sound(Effect') /\ Active(Base') \cup Active(Effect') \subseteq Drawn'
    BY <1>5, <1>7, InvFacts DEF StoresFit
  <2>2. /\ lost' \subseteq Active(Base')
        /\ \A h \in Handles : files'[h] = Held(Base, h)'
    BY <1>1, <1>2, <1>5, HeldAfter DEF Held
  <2>3. ASSUME NEW i \in DOMAIN audit', Archives(audit'[i].kind)
        PROVE  audit'[i].prior \in history'[audit'[i].handle]
    <3>1. CASE audit[i] = journal.entry
      BY <1>1, <1>2, <2>3, <3>1, InvFacts DEF JournalFit
    <3>2. CASE audit[i] # journal.entry
      BY <1>1, <2>3, <3>2, InvFacts DEF StoresFit
    <3> QED BY <3>1, <3>2
  <2> QED BY <1>1, <2>1, <2>2, <2>3, InvFacts DEF StoresFit
<1>10. JournalFit'
  BY <1>5 DEF JournalFit
<1>11. AskedFit'
  BY <1>1, <1>5, <1>7, InvFacts DEF AskedFit
<1>12. OpFit'
  BY <1>1, <1>2, <1>3, <1>4 DEF OpFit
<1> QED BY <1>8, <1>9, <1>10, <1>11, <1>12 DEF IInv

-----------------------------------------------------------------------------
(* Files that come and go                                                  *)

\* A file of an active capability appears or disappears while there is no journal.
LEMMA FileStep ==
    ASSUME IInv, journal = NoJournal, NEW h \in Active(registry),
           \/ files' = [files EXCEPT ![h] = FileOf(registry, h)] /\ lost' = lost \ {h}
           \/ files' = [files EXCEPT ![h] = NoFile] /\ lost' = lost \cup {h},
           losses' \in 0..MaxLosses,
           UNCHANGED <<registry, history, audit, journal, asked, op, crashes>>
    PROVE  IInv'
<1>1. TypeOK /\ ~Pending /\ ~Pending' /\ h \in Handles
  BY InvFacts DEF Pending, Active
<1>2. Base = registry /\ Effect = registry /\ Base' = registry /\ Effect' = registry
  BY <1>1 DEF Base, Effect
<1>3. Drawn' = Drawn
  BY <1>1 DEF Drawn, Entries
<1>4. FileOf(registry, h) \in Guidance \cup {NoFile}
  BY <1>1 DEF FileOf, TypeOK, Registry, Active, Cap
<1>5. TypeOK'
  BY <1>1, <1>4 DEF TypeOK
<1>6. StoresFit'
  <2>1. lost' \subseteq Active(Base')
    BY <1>2, InvFacts DEF StoresFit
  <2>2. ASSUME NEW g \in Handles PROVE files'[g] = Held(Base, g)'
    <3>1. files[g] = Held(Base, g)
      BY <1>1, InvFacts DEF StoresFit, Touched
    <3>2. CASE g = h
      BY <1>1, <1>2, <3>1, <3>2 DEF Held, TypeOK
    <3>3. CASE g # h
      BY <1>1, <1>2, <3>1, <3>3 DEF Held, TypeOK
    <3> QED BY <3>2, <3>3
  <2> QED BY <1>1, <1>2, <1>3, <2>1, <2>2, InvFacts DEF StoresFit
<1>7. JournalFit'
  BY <1>1 DEF JournalFit
<1>8. AskedFit'
  BY <1>2, <1>3, InvFacts DEF AskedFit
<1>9. OpFit'
  BY <1>1, InvFacts DEF OpFit, Pending
<1> QED BY <1>5, <1>6, <1>7, <1>8, <1>9 DEF IInv

LEMMA RepairFileSound ==
    ASSUME IInv, NEW h \in Handles, RepairFile(h)
    PROVE  IInv'
<1>1. /\ journal = NoJournal /\ h \in Active(registry)
      /\ files' = [files EXCEPT ![h] = FileOf(registry, h)] /\ lost' = lost \ {h}
      /\ UNCHANGED <<registry, history, audit, journal, asked, op, crashes, losses>>
  BY DEF RepairFile, Repairable, FileOf
<1> QED BY <1>1, FileStep, InvFacts DEF TypeOK

LEMMA LoseFileSound ==
    ASSUME IInv, NEW h \in Handles, LoseFile(h)
    PROVE  IInv'
<1>1. /\ journal = NoJournal /\ h \in Active(registry)
      /\ files' = [files EXCEPT ![h] = NoFile] /\ lost' = lost \cup {h}
      /\ losses < MaxLosses /\ losses' = losses + 1
      /\ UNCHANGED <<registry, history, audit, journal, asked, op, crashes>>
  BY DEF LoseFile
<1>2. losses' \in 0..MaxLosses
  BY <1>1, InvFacts, JournalAssumption DEF TypeOK
<1> QED BY <1>1, <1>2, FileStep

-----------------------------------------------------------------------------
(* The decision                                                            *)

\* A retirement that is accepted names the guidance the registry has now.
LEMMA RetiresCurrent ==
    ASSUME NEW reg, NEW drawn, NEW k, NEW q, Wanted(drawn, reg, k, q), q.kind = "retire",
           ReadSetCurrent(reg, q)
    PROVE  q.guidance = reg.caps[q.target].guidance
<1>1. ~Plain(drawn, k, q)
  <2>1. ASSUME NEW kind \in {"append", "replace"}, NEW h, NEW v,
               q = [Blank(kind, k) EXCEPT !.target = h, !.rev = v]
        PROVE  FALSE
    BY <2>1 DEF Blank
  <2>2. ~(q = Blank("defer", k)) /\ ~(\E r \in Routes : q = [Blank("create", k) EXCEPT !.route = r])
    BY DEF Blank
  <2>3. ASSUME NEW h, NEW v, NEW r,
               q = [Blank("migrate", k) EXCEPT !.target = h, !.rev = v, !.route = r]
        PROVE  FALSE
    BY <2>3 DEF Blank
  <2>4. ASSUME NEW h, NEW v, NEW g,
               q = [Blank("restore", k) EXCEPT !.target = h, !.rev = v, !.guidance = g]
        PROVE  FALSE
    BY <2>4 DEF Blank
  <2>5. ASSUME NEW h, NEW v, NEW m,
               q = [Blank("refresh", k) EXCEPT !.target = h, !.rev = v, !.refs = m]
        PROVE  FALSE
    BY <2>5 DEF Blank
  <2> QED BY <2>1, <2>2, <2>3, <2>4, <2>5 DEF Plain
<1>2. PICK h \in drawn, v \in Nat, g \in Guidance :
          /\ q = [Blank("retire", k) EXCEPT !.target = h, !.rev = v, !.guidance = g]
          /\ Read(reg, h, v, g)
  BY <1>1 DEF Wanted, Retirement
<1>3. q.target = h /\ q.rev = v /\ q.guidance = g
  BY <1>2 DEF Blank
<1> QED BY <1>2, <1>3 DEF ReadSetCurrent, Read

\* The journal of an accepted request.
LEMMA JournalMade ==
    ASSUME IInv, ~Pending, NEW k \in Keys \cup {NoKey}, NEW q, Wanted(Drawn, Effect, k, q),
           NEW h, Accepts(registry, files, history, q, h)
    PROVE  LET j == JournalOf(q, h)
               id == Len(audit) + 1
           IN /\ j \in Journal /\ ~j.committed
              /\ j.id = id /\ id \in Nat /\ j.handle = h
              /\ j.prior = registry /\ j.target = Target(registry, q, h, id)
              /\ j.entry = NewEntry(registry, q, h, id)
              /\ j.keep <=> q.kind \in KeepsFile
              /\ j.archive = Archived(registry, q, h)
              /\ ~j.keep => /\ h \in Handles /\ h \notin lost
                            /\ j.from = FileOf(registry, h) /\ files[h] = j.from
                            /\ j.to = FileOf(j.target, h)
                            /\ j.to = NewFile(registry, q, h, id)
<1> DEFINE id == Len(audit) + 1
           j == JournalOf(q, h)
           T == Target(registry, q, h, id)
<1>1. /\ registry \in Registry /\ id \in Nat /\ Formed(q) /\ q.key = k
      /\ q \in Request /\ TypeOK /\ Drawn \subseteq Handles
  BY InvFacts, WantedFormed DEF TypeOK, Drawn, Formed
<1>2. /\ q.kind = "defer" <=> h = NoHandle
      /\ h # NoHandle => h \in Handles
      /\ q.kind = "create" => h \notin Active(registry)
      /\ q.kind \notin {"create", "defer"} => h = q.target /\ h \in Active(registry)
  BY <1>1, Accepted
<1>3. T \in Registry
  BY <1>1, TargetType
<1>4. \A g \in Active(registry) : registry.caps[g].guidance \in Guidance
  BY <1>1 DEF Active, Registry, Cap
<1>5. Archived(registry, q, h) \in Guidance \cup {NoFile}
  BY <1>2, <1>4 DEF Archived
<1>6. NewEntry(registry, q, h, id) \in Entry
  BY <1>1, <1>2, <1>4 DEF NewEntry, Entry, Request
<1>7. ASSUME q.kind \notin KeepsFile
      PROVE  /\ h \in Handles /\ h \notin lost
             /\ FileOf(registry, h) = IF q.kind = "create" THEN NoFile
                                      ELSE registry.caps[h].guidance
             /\ FileOf(registry, h) \in Guidance \cup {NoFile}
             /\ files[h] = FileOf(registry, h)
             /\ NewFile(registry, q, h, id) = FileOf(T, h)
             /\ FileOf(T, h) \in Guidance \cup {NoFile}
  <2>1. h \in Handles /\ q.kind # "defer"
    BY <1>2, <1>7 DEF KeepsFile
  <2>2. files[h] = Held(registry, h)
    BY <2>1, PendingFacts, InvFacts DEF StoresFit, Touched
  <2>3. h \notin lost
    <3>1. CASE q.kind = "create"
      BY <1>2, <3>1, PendingFacts, InvFacts DEF StoresFit
    <3>2. CASE q.kind # "create"
      <4>1. FileCurrent(registry, files, h)
        BY <1>1, <1>7, <2>1, <3>2 DEF Accepts, KeepsFile
      <4> QED BY <1>2, <1>4, <2>1, <2>2, <3>2, <4>1, CapabilityAssumption
              DEF FileCurrent, Held
    <3> QED BY <3>1, <3>2
  <2>4. NewFile(registry, q, h, id) = FileOf(T, h)
    BY <1>1, <1>7, TargetFiles
  <2>5. FileOf(T, h) \in Guidance \cup {NoFile}
    BY <1>3, <2>1 DEF FileOf, Active, Registry, Cap
  <2>6. FileOf(registry, h) = IF q.kind = "create" THEN NoFile ELSE registry.caps[h].guidance
    BY <1>2, <2>1 DEF FileOf
  <2> QED BY <1>2, <1>4, <2>1, <2>2, <2>3, <2>4, <2>5, <2>6 DEF Held
<1> DEFINE keep == q.kind \in KeepsFile
           from == IF keep \/ q.kind = "create" THEN NoFile ELSE registry.caps[h].guidance
           to == IF keep THEN NoFile ELSE NewFile(registry, q, h, id)
<1>8. j = [id |-> id, prior |-> registry, target |-> T, handle |-> h,
           archive |-> Archived(registry, q, h), keep |-> keep, from |-> from, to |-> to,
           entry |-> NewEntry(registry, q, h, id), committed |-> FALSE]
  BY DEF JournalOf
<1>9. /\ keep \in BOOLEAN
      /\ from \in Guidance \cup {NoFile} /\ to \in Guidance \cup {NoFile}
      /\ ~keep => from = FileOf(registry, h) /\ to = NewFile(registry, q, h, id)
  BY <1>7
<1> SUFFICES /\ j \in Journal /\ ~j.committed
             /\ j.id = id /\ id \in Nat /\ j.handle = h
             /\ j.prior = registry /\ j.target = T
             /\ j.entry = NewEntry(registry, q, h, id)
             /\ j.keep <=> q.kind \in KeepsFile
             /\ j.archive = Archived(registry, q, h)
             /\ ~j.keep => /\ h \in Handles /\ h \notin lost
                           /\ j.from = FileOf(registry, h) /\ files[h] = j.from
                           /\ j.to = FileOf(j.target, h)
                           /\ j.to = NewFile(registry, q, h, id)
  OBVIOUS
<1> HIDE DEF j, id, T, from, to
<1>10. j \in Journal
  <2> HIDE DEF keep
  <2> QED BY <1>1, <1>2, <1>3, <1>5, <1>6, <1>8, <1>9 DEF Journal
<1> QED BY <1>1, <1>7, <1>8, <1>9, <1>10

\* The subject of an accepted request: a new handle was never drawn.
LEMMA SubjectFresh ==
    ASSUME IInv, ~Pending, NEW q, NEW h \in Subjects(q), q.kind = "create", h \in Handles
    PROVE  h \notin Drawn
BY DEF Subjects, Drawn, Entries

LEMMA DecideSound ==
    ASSUME IInv, Decide
    PROVE  IInv'
<1> DEFINE q == asked[op.key]
           k == op.key
<1>1. /\ op.step = "decide" /\ journal = NoJournal
      /\ UNCHANGED <<registry, files, history, audit, asked, lost, crashes, losses>>
      /\ op.call = "apply" /\ op \in Op /\ k \in Keys \cup {NoKey}
      /\ TypeOK /\ OpFit /\ ~Pending /\ Effect = registry /\ Base = registry
  BY InvFacts, PendingFacts DEF Decide, OpFit, TypeOK, Op
<1>2. Wanted(Drawn, Effect, k, q) /\ q # NoRequest
  BY <1>1, InvFacts DEF AskedFit, OpFit
<1>3. CASE End(ReplayOutcome(q)) /\ UNCHANGED journal
  <2>1. ReplayOutcome(q) = "replayed" \/ ReplayOutcome(q) = "refused"
    BY DEF ReplayOutcome
  <2>2. End("replayed") \/ End("refused")
    BY <1>3, <2>1
  <2>3. /\ op' \in Op /\ op'.step = "done" /\ op'.call = op.call /\ op'.key = op.key
        /\ op'.result # "wedged"
    BY <1>1, <2>2 DEF End, Op, Steps, Results
  <2>4. OpFit'
    BY <1>1, <2>3 DEF OpFit
  <2> QED BY <1>1, <1>3, <2>3, <2>4, QuietStep DEF durable, TypeOK
<1>4. CASE End("refused") /\ UNCHANGED journal
  <2>1. /\ op' \in Op /\ op'.step = "done" /\ op'.call = op.call /\ op'.key = op.key
        /\ op'.result # "wedged"
    BY <1>1, <1>4 DEF End, Op, Steps, Results
  <2>2. OpFit'
    BY <1>1, <2>1 DEF OpFit
  <2> QED BY <1>1, <1>4, <2>1, <2>2, QuietStep DEF durable, TypeOK
<1>5. ASSUME NEW h \in Subjects(q), Accepts(registry, files, history, q, h),
             journal' = JournalOf(q, h), op' = [op EXCEPT !.step = "load", !.decided = TRUE]
      PROVE  IInv'
  <2> DEFINE id == Len(audit) + 1
             T == Target(registry, q, h, id)
  <2>1. /\ journal' \in Journal /\ ~journal'.committed
        /\ journal'.id = id /\ id \in Nat /\ journal'.handle = h
        /\ journal'.prior = registry /\ journal'.target = T
        /\ journal'.entry = NewEntry(registry, q, h, id)
        /\ journal'.keep <=> q.kind \in KeepsFile
        /\ journal'.archive = Archived(registry, q, h)
        /\ ~journal'.keep => /\ h \in Handles /\ h \notin lost
                             /\ journal'.from = FileOf(registry, h) /\ files[h] = journal'.from
                             /\ journal'.to = FileOf(journal'.target, h)
    BY <1>1, <1>2, <1>5, JournalMade, SMTT(30)
  <2>2. /\ registry \in Registry /\ Sound(registry) /\ Formed(q) /\ Drawn \subseteq Handles
    BY <1>1, <1>2, WantedFormed, InvFacts DEF TypeOK, StoresFit, Drawn
  <2>3. /\ Moves(registry, T, h) /\ Sound(T) /\ T \in Registry
        /\ q.kind = "create" => Active(T) = Active(registry) \cup {h}
        /\ q.kind = "retire" => Active(T) = Active(registry) \ {h}
        /\ q.kind \notin {"create", "retire"} => Active(T) = Active(registry)
    BY <1>5, <2>1, <2>2, TargetMoves, TargetSound, TargetType
  <2>4. /\ q.kind = "defer" <=> h = NoHandle
        /\ h # NoHandle => h \in Handles
        /\ q.kind = "create" => h \notin Active(registry)
        /\ q.kind \notin {"create", "defer"} => h = q.target /\ h \in Active(registry)
    BY <1>5, <2>2, Accepted
  <2>5. Pending' /\ Effect' = T /\ Base' = registry
    BY <2>1, JournalAssumption DEF Pending, Effect, Base
  <2>6. /\ op' \in Op /\ op'.step = "load" /\ op'.call = op.call /\ op'.key = op.key
        /\ op'.result = op.result
    BY <1>1, <1>5 DEF Op, Steps
  <2>7. Drawn' = Drawn \cup ({h} \cap Handles)
    <3>1. NewEntry(registry, q, h, id).handle = h
      BY DEF NewEntry
    <3>2. Entries' = Entries \cup {NewEntry(registry, q, h, id)}
      BY <1>1, <2>1, <2>5 DEF Entries
    <3> QED BY <3>1, <3>2 DEF Drawn
  <2> HIDE DEF q, id, T
  <2>8. TypeOK'
    BY <1>1, <2>1, <2>6 DEF TypeOK
  <2>9. StoresFit'
    <3>1. ASSUME NEW g \in Handles, ~Touched(g)' PROVE files'[g] = Held(Base, g)'
      <4>1. files[g] = Held(registry, g)
        BY <1>1, InvFacts DEF StoresFit, Touched
      <4> QED BY <1>1, <2>5, <4>1 DEF Held
    <3>2. Active(Base') \cup Active(Effect') \subseteq Drawn'
      <4>1. Active(registry) \subseteq Drawn
        BY <1>1, InvFacts DEF StoresFit
      <4>2. Active(T) \subseteq Active(registry) \cup ({h} \cap Handles)
        BY <2>3 DEF Active
      <4> QED BY <2>5, <2>7, <4>1, <4>2
    <3>3. lost' \subseteq Active(Base')
      BY <1>1, <2>5, InvFacts DEF StoresFit
    <3>4. ASSUME NEW i \in DOMAIN audit', Archives(audit'[i].kind)
          PROVE  audit'[i].prior \in history'[audit'[i].handle]
      BY <1>1, <3>4, InvFacts DEF StoresFit
    <3> QED BY <1>1, <2>2, <2>3, <2>5, <3>1, <3>2, <3>3, <3>4, InvFacts DEF StoresFit
  <2>10. JournalFit'
    <3>1. /\ journal'.entry.id = id /\ journal'.entry.handle = h
          /\ journal'.entry.kind = q.kind
          /\ q.kind \notin {"create", "defer"} =>
                 journal'.entry.prior = registry.caps[h].guidance
      BY <2>1 DEF NewEntry
    <3>2. h \in Handles \/ (journal'.keep /\ journal'.archive = NoFile /\ T = registry)
      <4>1. CASE q.kind = "defer"
        <5>1. T = registry
          BY <4>1, Targets DEF T
        <5>2. Archived(registry, q, h) = NoFile
          BY <4>1 DEF Archived
        <5>3. q.kind \in KeepsFile
          BY <4>1 DEF KeepsFile
        <5> QED BY <2>1, <5>1, <5>2, <5>3
      <4>2. CASE q.kind # "defer"
        BY <2>4, <4>2
      <4> QED BY <4>1, <4>2
    <3>3. journal'.keep => \A g \in Handles : FileOf(T, g) = FileOf(registry, g)
      BY <1>5, <2>1, <2>2, TargetFiles DEF T
    <3>4. ASSUME Archives(q.kind)
          PROVE  journal'.archive = journal'.entry.prior /\ journal'.archive # NoFile
      <4>1. q.kind \in {"replace", "migrate", "retire", "restore"}
        BY <2>2, <3>4 DEF Archives, KeepsFile, Formed, Request, Kinds
      <4>2. journal'.archive = registry.caps[h].guidance /\ h \in Active(registry)
        BY <2>1, <2>4, <4>1 DEF Archived
      <4>3. registry.caps[h].guidance \in Guidance
        BY <2>2, <4>2 DEF Active, Registry, Cap
      <4> QED BY <3>1, <4>1, <4>2, <4>3, CapabilityAssumption
    <3>5. journal'.id = Len(audit') + 1
      BY <1>1, <2>1 DEF id
    <3> QED BY <1>1, <2>1, <2>3, <3>1, <3>2, <3>3, <3>4, <3>5 DEF JournalFit
  <2>11. AskedFit'
    <3>1. ASSUME NEW g \in Drawn, g \in Active(Effect')
          PROVE  /\ g \in Active(Effect)
                 /\ \/ Effect'.caps[g] = Effect.caps[g]
                    \/ Effect'.caps[g].rev > Effect.caps[g].rev
      <4>1. q.kind = "create" => h \notin Drawn
        BY <1>1, <1>5, <2>4, SubjectFresh, CapabilityAssumption
      <4>2. g \in Active(registry)
        BY <2>3, <2>5, <3>1, <4>1
      <4> QED BY <1>1, <2>3, <2>5, <3>1, <4>2 DEF Moves
    <3> QED BY <1>1, <2>7, <2>8, <3>1, AskedStep, InvFacts
  <2>12. OpFit'
    BY <1>1, <1>2, <2>6 DEF OpFit, q
  <2> QED BY <2>8, <2>9, <2>10, <2>11, <2>12 DEF IInv
<1> QED BY <1>1, <1>3, <1>4, <1>5 DEF Decide

-----------------------------------------------------------------------------
(* The theorems                                                            *)

LEMMA InitSound == Init => IInv
<1> SUFFICES ASSUME Init PROVE IInv
  OBVIOUS
<1>1. /\ EmptyRegistry \in Registry /\ Active(EmptyRegistry) = {} /\ Sound(EmptyRegistry)
  BY DEF EmptyRegistry, Registry, Active, Sound, ValidRegistry
<1>2. registry = EmptyRegistry /\ ~Pending /\ Effect = registry /\ Base = registry
  BY DEF Init, Pending, Effect, Base
<1>3. Idle \in Op
  BY DEF Idle, Op, Calls, Steps, Results
<1>4. TypeOK
  BY <1>1, <1>3, JournalAssumption DEF Init, TypeOK
<1>5. StoresFit
  BY <1>1, <1>2 DEF Init, StoresFit, Held, FileOf
<1>6. JournalFit
  BY <1>2 DEF JournalFit
<1>7. AskedFit
  BY DEF Init, AskedFit
<1>8. OpFit
  BY DEF Init, OpFit, Idle
<1> QED BY <1>4, <1>5, <1>6, <1>7, <1>8 DEF IInv

LEMMA NextSound == IInv /\ [Next]_vars => IInv'
<1> SUFFICES ASSUME IInv, [Next]_vars PROVE IInv'
  OBVIOUS
<1>1. CASE Step
  BY <1>1, LoadSound, ArchiveSound, SkillSound, SaveRegistrySound, AppendAuditSound, MarkSound,
     UnlinkSound, DecideSound, ServeSound, ReturnSound, RepairFileSound DEF Step
<1>2. CASE BeginRecover \/ BeginServe \/ Crash
  BY <1>2, BeginRecoverSound, BeginServeSound, CrashSound
<1>3. CASE \E k \in Keys \cup {NoKey} : Ask(k) \/ BeginApply(k)
  BY <1>3, AskSound, BeginApplySound
<1>4. CASE \E h \in Handles : LoseFile(h)
  BY <1>4, LoseFileSound
<1>5. CASE UNCHANGED vars
  <2>1. OpFit' /\ UNCHANGED <<durable, lost, asked, op, crashes, losses>>
    BY <1>5, InvFacts DEF vars, durable, OpFit, Pending
  <2> QED BY <2>1, QuietStep, InvFacts DEF TypeOK
<1> QED BY <1>1, <1>2, <1>3, <1>4, <1>5 DEF Next

\* The stores, the journal and the call between any two durable writes of a replay, and
\* after any crash.
THEOREM Invariance == Spec => []IInv
BY InitSound, NextSound, PTL DEF Spec

\* The stores, the journal, the requests and the call keep their types.
THEOREM TypeCorrect == Spec => []TypeOK
<1>1. IInv => TypeOK
  BY InvFacts
<1> QED BY <1>1, Invariance, PTL

\* A replay never refuses its own journal, whichever write the crash came after.
THEOREM NeverWedgedHolds == Spec => []NeverWedged
<1>1. IInv => NeverWedged
  BY InvFacts DEF OpFit, NeverWedged
<1> QED BY <1>1, Invariance, PTL

\* Once nothing is pending, the SKILL.md files are those the registry names and the
\* guidance that each replacement, migration, retirement and restoration put aside is in
\* the history.
THEOREM GuidanceMatchesHolds == Spec => []GuidanceMatches
<1>1. IInv => GuidanceMatches
  <2> SUFFICES ASSUME IInv, ~Pending PROVE GuidanceMatches
    BY DEF GuidanceMatches
  <2>1. \A h \in Handles : files[h] = Held(registry, h)
    BY InvFacts, PendingFacts DEF StoresFit, Touched
  <2>2. \A h \in Handles : Held(registry, h) = IF h \in Active(registry) /\ h \notin lost
                                              THEN registry.caps[h].guidance ELSE NoFile
    BY DEF Held, FileOf
  <2> QED BY <2>1, <2>2, InvFacts DEF StoresFit, Archives, GuidanceMatches
<1> QED BY <1>1, Invariance, PTL

-----------------------------------------------------------------------------
(* The refinement of AtomicRegistry                                        *)

CFiles == IF Pending /\ ~journal.keep
          THEN [files EXCEPT ![journal.handle] = journal.to] ELSE files
CHistory == IF Pending /\ journal.archive # NoFile
            THEN [history EXCEPT ![journal.handle] = @ \cup {journal.archive}] ELSE history
CAudit == IF Pending /\ ~Audited(journal.id) THEN Append(audit, journal.entry) ELSE audit

LEMMA MappedVars ==
    /\ Committing!vars = <<Effect, CFiles, CHistory, CAudit>>
    /\ Committing!vars' = <<Effect', CFiles', CHistory', CAudit'>>
BY DEF Committing!vars, Effect, CFiles, CHistory, CAudit

\* The operators on the registry are the same on both sides.
LEMMA SameParts ==
    /\ \A reg : Committing!Active(reg) = Active(reg)
    /\ \A kind, key : Committing!Blank(kind, key) = Blank(kind, key)
    /\ \A reg, q, h, id : Committing!NewCap(reg, q, h, id) = NewCap(reg, q, h, id)
    /\ \A reg, q, h : Committing!NewRedirects(reg, q, h) = NewRedirects(reg, q, h)
    /\ Committing!KeepsFile = KeepsFile
    /\ \A reg, files0, h : Committing!FileCurrent(reg, files0, h) = FileCurrent(reg, files0, h)
BY DEF Committing!Active, Active, Committing!Blank, Blank, Committing!NewCap, NewCap,
       Committing!NewRedirects, NewRedirects, Committing!KeepsFile, KeepsFile,
       Committing!FileCurrent, FileCurrent

LEMMA SameOperators ==
    /\ \A reg, q : Committing!ReadSetCurrent(reg, q) = ReadSetCurrent(reg, q)
    /\ \A reg, r, h : Committing!RouteFree(reg, r, h) = RouteFree(reg, r, h)
    /\ \A reg, q, h, id : Committing!Target(reg, q, h, id) = Target(reg, q, h, id)
    /\ \A reg, q, h, id : Committing!NewFile(reg, q, h, id) = NewFile(reg, q, h, id)
    /\ \A reg, q, h : Committing!Archived(reg, q, h) = Archived(reg, q, h)
    /\ \A reg, q, h, id : Committing!NewEntry(reg, q, h, id) = NewEntry(reg, q, h, id)
    /\ \A a, q : Committing!Committed(a, q) = Committed(a, q)
    /\ \A kind, key, reg, h : Committing!About(kind, key, reg, h) = About(kind, key, reg, h)
    /\ Committing!EmptyRegistry = EmptyRegistry
BY SameParts DEF Committing!ReadSetCurrent, ReadSetCurrent, Committing!RouteFree, RouteFree,
       Committing!Target, Target, Committing!NewFile, NewFile, Committing!Archived, Archived,
       Committing!NewEntry, NewEntry, Committing!Committed, Committed, Committing!About, About,
       Committing!EmptyRegistry, EmptyRegistry

LEMMA SameAccepts ==
    ASSUME NEW reg, NEW files0, NEW history0, NEW q, NEW h
    PROVE  Committing!Accepts(reg, files0, history0, q, h) = Accepts(reg, files0, history0, q, h)
BY SameParts, SameOperators DEF Committing!Accepts, Accepts

LEMMA SameReview ==
    ASSUME NEW reg, NEW k
    PROVE  Committing!ReviewRequests(reg, k) = ReviewRequests(reg, k)
BY SameParts, SameOperators DEF Committing!ReviewRequests, ReviewRequests

LEMMA SameOperator ==
    ASSUME NEW reg, NEW history0
    PROVE  Committing!OperatorRequests(reg, history0) = OperatorRequests(reg, history0)
BY SameParts, SameOperators DEF Committing!OperatorRequests, OperatorRequests

\* A write of the replay shows nothing: its effect was there when the journal was written.
LEMMA ReplayStutters ==
    ASSUME IInv, IInv', Archive \/ Skill \/ SaveRegistry \/ AppendAudit
    PROVE  UNCHANGED Committing!vars
<1>1. /\ UNCHANGED <<journal, asked, lost>> /\ TypeOK
      /\ op.step \in {"archive", "skill", "registry", "audit"}
  BY InvFacts DEF Archive, Skill, SaveRegistry, AppendAudit
<1>2. Pending /\ journal # NoJournal
  BY <1>1, InvFacts DEF OpFit, Pending
<1>3. Pending' /\ Effect' = Effect
  BY <1>1, <1>2, ReplayFrame
<1>4. /\ ~journal.keep => journal.handle \in Handles
      /\ journal.archive # NoFile => journal.handle \in Handles
  BY <1>2, InvFacts DEF JournalFit
<1>5. CFiles' = CFiles
  <2>1. CASE Skill
    <3>1. \/ UNCHANGED files
          \/ ~journal.keep /\ files' = [files EXCEPT ![journal.handle] = journal.to]
      BY <2>1 DEF Skill
    <3> QED BY <1>1, <1>2, <1>3, <1>4, <3>1 DEF CFiles, TypeOK
  <2>2. CASE Archive \/ SaveRegistry \/ AppendAudit
    BY <1>1, <1>2, <1>3, <2>2 DEF CFiles, Archive, SaveRegistry, AppendAudit
  <2> QED BY <2>1, <2>2
<1>6. CHistory' = CHistory
  <2>1. CASE Archive
    <3>1. history' = IF journal.archive = NoFile THEN history
                     ELSE [history EXCEPT ![journal.handle] = @ \cup {journal.archive}]
      BY <2>1 DEF Archive
    <3>2. journal.archive # NoFile =>
            [history' EXCEPT ![journal.handle] = @ \cup {journal.archive}] = history'
      BY <1>1, <1>4, <3>1 DEF TypeOK
    <3> QED BY <1>1, <1>2, <1>3, <3>1, <3>2 DEF CHistory
  <2>2. CASE Skill \/ SaveRegistry \/ AppendAudit
    BY <1>1, <1>2, <1>3, <2>2 DEF CHistory, Skill, SaveRegistry, AppendAudit
  <2> QED BY <2>1, <2>2
<1>7. CAudit' = CAudit
  <2>1. CASE AppendAudit
    <3>1. audit' = IF Audited(journal.id) THEN audit ELSE Append(audit, journal.entry)
      BY <2>1 DEF AppendAudit
    <3>2. Audited(journal.id)'
      <4>1. CASE Audited(journal.id)
        BY <1>1, <3>1, <4>1 DEF Audited
      <4>2. CASE ~Audited(journal.id)
        <5>1. /\ audit \in Seq(Entry) /\ journal.entry \in Entry
              /\ journal.entry.id = journal.id
          BY <1>2, AuditedLast
        <5>2. /\ Len(audit) + 1 \in DOMAIN audit'
              /\ audit'[Len(audit) + 1] = journal.entry
          BY <3>1, <4>2, <5>1
        <5> QED BY <1>1, <5>1, <5>2 DEF Audited
      <4> QED BY <4>1, <4>2
    <3> QED BY <1>1, <1>2, <1>3, <3>1, <3>2 DEF CAudit
  <2>2. CASE Skill \/ SaveRegistry \/ Archive
    BY <1>1, <1>2, <1>3, <2>2 DEF CAudit, Audited, Skill, SaveRegistry, Archive
  <2> QED BY <2>1, <2>2
<1> QED BY <1>3, <1>5, <1>6, <1>7, MappedVars

LEMMA MarkStutters ==
    ASSUME IInv, IInv', Mark
    PROVE  UNCHANGED Committing!vars
<1>1. /\ op.step = "mark" /\ journal' = [journal EXCEPT !.committed = TRUE]
      /\ UNCHANGED <<registry, files, history, audit>> /\ TypeOK
  BY InvFacts DEF Mark
<1>2. /\ Pending /\ journal # NoJournal /\ registry = journal.target
      /\ journal.archive = NoFile \/ journal.archive \in history[journal.handle]
      /\ journal.keep \/ files[journal.handle] = journal.to
      /\ journal.id = Len(audit)
  BY <1>1, InvFacts DEF OpFit, Pending
<1>3. ~Pending'
  BY <1>1, <1>2, JournalTypes DEF Pending, Journal
<1>4. Effect' = Effect
  BY <1>1, <1>2, <1>3 DEF Effect
<1>5. /\ ~journal.keep => journal.handle \in Handles
      /\ journal.archive # NoFile => journal.handle \in Handles
  BY <1>2, InvFacts DEF JournalFit
<1>6. CFiles' = CFiles
  <2>1. ~journal.keep => [files EXCEPT ![journal.handle] = journal.to] = files
    BY <1>1, <1>2, <1>5 DEF TypeOK
  <2> QED BY <1>1, <1>2, <1>3, <2>1 DEF CFiles
<1>7. CHistory' = CHistory
  <2>1. journal.archive # NoFile =>
          [history EXCEPT ![journal.handle] = @ \cup {journal.archive}] = history
    BY <1>1, <1>2, <1>5 DEF TypeOK
  <2> QED BY <1>1, <1>2, <1>3, <2>1 DEF CHistory
<1>8. CAudit' = CAudit
  <2>1. Audited(journal.id)
    <3>1. journal.id \in Nat
      BY <1>1, <1>2, JournalTypes
    <3> QED BY <1>2, <3>1, AuditedLast
  <2> QED BY <1>1, <1>2, <1>3, <2>1 DEF CAudit
<1> QED BY <1>4, <1>6, <1>7, <1>8, MappedVars

LEMMA RestStutters ==
    ASSUME IInv, UNCHANGED <<registry, files, history, audit>>,
           \/ UNCHANGED journal
           \/ ~Pending /\ journal' = NoJournal
    PROVE  UNCHANGED Committing!vars
BY MappedVars DEF Effect, CFiles, CHistory, CAudit, Pending, Audited

\* Two requests that differ at most in the revision that was read.
Alike(q, r) ==
    /\ r.kind = q.kind /\ r.key = q.key /\ r.target = q.target
    /\ r.route = q.route /\ r.guidance = q.guidance /\ r.refs = q.refs

LEMMA AlikeEffects ==
    ASSUME NEW q, NEW r, Alike(q, r), NEW reg, NEW h, NEW id, NEW a
    PROVE  /\ Target(reg, r, h, id) = Target(reg, q, h, id)
           /\ NewFile(reg, r, h, id) = NewFile(reg, q, h, id)
           /\ Archived(reg, r, h) = Archived(reg, q, h)
           /\ NewEntry(reg, r, h, id) = NewEntry(reg, q, h, id)
           /\ Committed(a, r) = Committed(a, q)
<1>1. NewCap(reg, r, h, id) = NewCap(reg, q, h, id)
  BY DEF Alike, NewCap
<1>2. NewRedirects(reg, r, h) = NewRedirects(reg, q, h)
  BY DEF Alike, NewRedirects
<1>3. Target(reg, r, h, id) = Target(reg, q, h, id)
  BY <1>1, <1>2 DEF Alike, Target
<1>4. NewFile(reg, r, h, id) = NewFile(reg, q, h, id)
  BY <1>1 DEF Alike, NewFile
<1>5. Archived(reg, r, h) = Archived(reg, q, h)
  BY DEF Alike, Archived
<1>6. NewEntry(reg, r, h, id) = NewEntry(reg, q, h, id)
  BY DEF Alike, NewEntry
<1>7. Committed(a, r) = Committed(a, q)
  BY DEF Alike, Committed
<1> QED BY <1>3, <1>4, <1>5, <1>6, <1>7

\* A request that is accepted is one that could be asked for now: it was prepared from
\* the revision that is there, or, for a restoration and a refresh, does not depend on it.
LEMMA AskedNow ==
    ASSUME NEW reg \in Registry, NEW files0, NEW history0,
           NEW drawn \in SUBSET Handles, NEW k \in Keys \cup {NoKey}, NEW q,
           Wanted(drawn, reg, k, q), NEW h, Accepts(reg, files0, history0, q, h)
    PROVE  \E r : /\ Alike(q, r) /\ Accepts(reg, files0, history0, r, h)
                  /\ \/ r \in OperatorRequests(reg, history0)
                     \/ k \in Keys /\ r \in ReviewRequests(reg, k)
<1>1. CASE k \in Keys /\ q \in ReviewRequests(reg, k)
  BY <1>1 DEF Alike
<1>2. CASE q \in OperatorRequests(reg, history0)
  BY <1>2 DEF Alike
<1>3. CASE k # NoKey /\ q = Blank("defer", k)
  BY <1>1, <1>3 DEF ReviewRequests
<1>4. CASE k # NoKey /\ \E r \in Routes : q = [Blank("create", k) EXCEPT !.route = r]
  BY <1>1, <1>4 DEF ReviewRequests
<1>5. ASSUME k # NoKey, NEW f \in drawn, NEW v \in Nat,
             \/ q = [Blank("append", k) EXCEPT !.target = f, !.rev = v]
             \/ q = [Blank("replace", k) EXCEPT !.target = f, !.rev = v]
      PROVE  q \in ReviewRequests(reg, k)
  <2>1. q.kind \in {"append", "replace"} /\ q.target = f /\ q.rev = v
    BY <1>5 DEF Blank
  <2>2. f \in Active(reg) /\ v = reg.caps[f].rev
    BY <2>1 DEF Accepts, ReadSetCurrent
  <2>3. q = About("append", k, reg, f) \/ q = About("replace", k, reg, f)
    BY <1>5, <2>2 DEF About
  <2> QED BY <2>2, <2>3 DEF ReviewRequests
<1>6. ASSUME k # NoKey, NEW f \in drawn, NEW v \in Nat, NEW r \in Routes,
             q = [Blank("migrate", k) EXCEPT !.target = f, !.rev = v, !.route = r]
      PROVE  q \in ReviewRequests(reg, k)
  <2>1. q.kind = "migrate" /\ q.target = f /\ q.rev = v
    BY <1>6 DEF Blank
  <2>2. f \in Active(reg) /\ v = reg.caps[f].rev
    BY <2>1 DEF Accepts, ReadSetCurrent
  <2>3. q = [About("migrate", k, reg, f) EXCEPT !.route = r]
    BY <1>6, <2>2 DEF About, Blank
  <2> QED BY <2>2, <2>3 DEF ReviewRequests
<1>7. ASSUME k = NoKey, NEW f \in drawn, NEW v \in Nat, NEW g \in Guidance,
             q = [Blank("retire", k) EXCEPT !.target = f, !.rev = v, !.guidance = g]
      PROVE  q \in OperatorRequests(reg, history0)
  <2>1. q.kind = "retire" /\ q.target = f /\ q.rev = v /\ q.guidance = g
    BY <1>7 DEF Blank
  <2>2. f \in Active(reg) /\ v = reg.caps[f].rev /\ ReadSetCurrent(reg, q)
    BY <2>1 DEF Accepts, ReadSetCurrent
  <2>3. g = reg.caps[f].guidance
    BY <2>1, <2>2, RetiresCurrent
  <2>4. q = [About("retire", NoKey, reg, f) EXCEPT !.guidance = reg.caps[f].guidance]
    BY <1>7, <2>2, <2>3 DEF About, Blank
  <2> QED BY <2>2, <2>4 DEF OperatorRequests
<1>8. ASSUME k = NoKey, NEW f \in drawn, NEW v \in Nat, NEW g \in Guidance,
             q = [Blank("restore", k) EXCEPT !.target = f, !.rev = v, !.guidance = g]
      PROVE  \E r : /\ Alike(q, r) /\ Accepts(reg, files0, history0, r, h)
                    /\ r \in OperatorRequests(reg, history0)
  <2> DEFINE r == [About("restore", NoKey, reg, f) EXCEPT !.guidance = g]
  <2>1. q.kind = "restore" /\ q.target = f /\ q.guidance = g
    BY <1>8 DEF Blank
  <2>2. f \in Active(reg) /\ g \in history0[f]
    BY <2>1 DEF Accepts
  <2>3. r = [Blank("restore", k) EXCEPT !.target = f, !.rev = reg.caps[f].rev, !.guidance = g]
    BY <1>8 DEF About, Blank
  <2>4. Alike(q, r)
    BY <1>8, <2>3 DEF Alike, Blank
  <2>5. Accepts(reg, files0, history0, r, h)
    BY <2>1, <2>4 DEF Accepts, Alike
  <2>6. r \in OperatorRequests(reg, history0)
    BY <2>2 DEF OperatorRequests
  <2> QED BY <2>4, <2>5, <2>6
<1>9. ASSUME k = NoKey, NEW f \in drawn, NEW v \in Nat, NEW m \in Metas,
             q = [Blank("refresh", k) EXCEPT !.target = f, !.rev = v, !.refs = m]
      PROVE  \E r : /\ Alike(q, r) /\ Accepts(reg, files0, history0, r, h)
                    /\ r \in OperatorRequests(reg, history0)
  <2> DEFINE r == [About("refresh", NoKey, reg, f) EXCEPT !.refs = m]
  <2>1. q.kind = "refresh" /\ q.target = f /\ q.refs = m
    BY <1>9 DEF Blank
  <2>2. f \in Active(reg)
    BY <2>1 DEF Accepts
  <2>3. r = [Blank("refresh", k) EXCEPT !.target = f, !.rev = reg.caps[f].rev, !.refs = m]
    BY <1>9 DEF About, Blank
  <2>4. Alike(q, r)
    BY <1>9, <2>3 DEF Alike, Blank
  <2>5. Accepts(reg, files0, history0, r, h)
    BY <2>1, <2>4 DEF Accepts, Alike
  <2>6. r \in OperatorRequests(reg, history0)
    BY <2>2 DEF OperatorRequests
  <2> QED BY <2>4, <2>5, <2>6
<1>10. CASE Retirement(drawn, reg, k, q)
  BY <1>2, <1>7, <1>10 DEF Retirement
<1>11. CASE Plain(drawn, k, q)
  BY <1>1, <1>3, <1>4, <1>5, <1>6, <1>8, <1>9, <1>11 DEF Plain
<1> QED BY <1>10, <1>11 DEF Wanted

\* The transition takes effect when its journal is written.
LEMMA DecideCommits ==
    ASSUME IInv, NEW q, q = asked[op.key], op.step = "decide", journal = NoJournal,
           NEW h \in Subjects(q), Accepts(registry, files, history, q, h),
           ~Committed(audit, q), journal' = JournalOf(q, h),
           UNCHANGED <<registry, files, history, audit, asked, lost>>
    PROVE  Committing!Next
<1> DEFINE id == Len(audit) + 1
           T == Target(registry, q, h, id)
<1>1. /\ TypeOK /\ ~Pending /\ Effect = registry /\ op.key \in Keys \cup {NoKey}
      /\ op.call = "apply" /\ asked[op.key] # NoRequest
  BY InvFacts, PendingFacts DEF OpFit, TypeOK, Op
<1>2. Wanted(Drawn, Effect, op.key, q) /\ Drawn \in SUBSET Handles
  BY <1>1, InvFacts DEF AskedFit, Drawn
<1>3. /\ journal' \in Journal /\ ~journal'.committed
      /\ journal'.id = id /\ id \in Nat /\ journal'.handle = h
      /\ journal'.target = T
      /\ journal'.entry = NewEntry(registry, q, h, id)
      /\ journal'.keep <=> q.kind \in KeepsFile
      /\ journal'.archive = Archived(registry, q, h)
      /\ ~journal'.keep => journal'.to = NewFile(registry, q, h, id)
  BY <1>1, <1>2, JournalMade
<1>4. PICK r : /\ Alike(q, r) /\ Accepts(registry, files, history, r, h)
               /\ \/ r \in OperatorRequests(registry, history)
                  \/ op.key \in Keys /\ r \in ReviewRequests(registry, op.key)
  BY <1>1, <1>2, AskedNow DEF TypeOK
<1>5. h \in Handles \cup {NoHandle}
  BY <1>1, <1>2, WantedFormed, Accepted DEF TypeOK
<1>6. Pending' /\ Effect' = T
  BY <1>3, JournalAssumption DEF Pending, Effect
<1>7. /\ CFiles = files /\ CHistory = history /\ CAudit = audit
  BY <1>1 DEF CFiles, CHistory, CAudit
<1>8. CFiles' = IF q.kind \in KeepsFile THEN files
                ELSE [files EXCEPT ![h] = NewFile(registry, q, h, id)]
  BY <1>3, <1>6 DEF CFiles
<1>9. CHistory' = IF Archived(registry, q, h) = NoFile THEN history
                  ELSE [history EXCEPT ![h] = @ \cup {Archived(registry, q, h)}]
  BY <1>3, <1>6 DEF CHistory
<1>10. CAudit' = Append(audit, NewEntry(registry, q, h, id))
  <2>1. \A i \in DOMAIN audit : audit[i].id = i
    BY InvFacts DEF StoresFit
  <2>2. DOMAIN audit = 1..Len(audit) /\ Len(audit) \in Nat
    BY <1>1 DEF TypeOK
  <2>3. ~Audited(journal.id)'
    BY <1>3, <2>1, <2>2 DEF Audited
  <2> QED BY <1>3, <1>6, <2>3 DEF CAudit
<1>11. Committing!Commit(r, h)
  <2> HIDE DEF T, id
  <2>1. /\ Target(registry, r, h, id) = T
        /\ NewFile(registry, r, h, id) = NewFile(registry, q, h, id)
        /\ Archived(registry, r, h) = Archived(registry, q, h)
        /\ NewEntry(registry, r, h, id) = NewEntry(registry, q, h, id)
        /\ Committed(audit, r) = Committed(audit, q)
        /\ r.kind = q.kind
    BY <1>4, AlikeEffects DEF T, Alike
  <2>2. ~Committing!Committed(CAudit, r)
    BY <1>7, <2>1, SameOperators
  <2>3. Committing!Accepts(Effect, CFiles, CHistory, r, h)
    BY <1>1, <1>4, <1>7, SameAccepts
  <2>4. Effect' = Committing!Target(Effect, r, h, Len(CAudit) + 1)
    BY <1>1, <1>6, <1>7, <2>1, SameOperators DEF id
  <2>5. CFiles' = IF r.kind \in Committing!KeepsFile THEN CFiles
                  ELSE [CFiles EXCEPT ![h] = Committing!NewFile(Effect, r, h, Len(CAudit) + 1)]
    BY <1>1, <1>7, <1>8, <2>1, SameOperators, SameParts DEF id
  <2>6. CHistory' = IF Committing!Archived(Effect, r, h) = NoFile THEN CHistory
                    ELSE [CHistory EXCEPT ![h] = @ \cup {Committing!Archived(Effect, r, h)}]
    BY <1>1, <1>7, <1>9, <2>1, SameOperators
  <2>7. CAudit' = Append(CAudit, Committing!NewEntry(Effect, r, h, Len(CAudit) + 1))
    BY <1>1, <1>7, <1>10, <2>1, SameOperators DEF id
  <2> QED BY <2>2, <2>3, <2>4, <2>5, <2>6, <2>7
          DEF Committing!Commit, Effect, CFiles, CHistory, CAudit
<1>12. r \in Committing!OperatorRequests(Effect, CHistory)
             \cup UNION {Committing!ReviewRequests(Effect, k) : k \in Keys}
  BY <1>1, <1>4, <1>7, SameOperator, SameReview
<1> QED BY <1>5, <1>11, <1>12 DEF Committing!Next, Effect, CHistory

LEMMA FileRefines ==
    ASSUME IInv, NEW h \in Handles, RepairFile(h) \/ LoseFile(h)
    PROVE  Committing!Next
<1>1. /\ journal = NoJournal /\ UNCHANGED <<registry, history, audit, journal>>
      /\ ~Pending /\ ~Pending'
  BY DEF RepairFile, LoseFile, Pending
<1>2. /\ Effect = registry /\ CFiles = files /\ CHistory = history /\ CAudit = audit
      /\ Effect' = registry /\ CFiles' = files' /\ CHistory' = history /\ CAudit' = audit
  BY <1>1 DEF Effect, CFiles, CHistory, CAudit
<1>3. CASE LoseFile(h)
  <2>1. files' = [files EXCEPT ![h] = NoFile]
    BY <1>3 DEF LoseFile
  <2>2. Committing!LoseFile(h)
    BY <1>2, <2>1 DEF Committing!LoseFile, Effect, CFiles, CHistory, CAudit
  <2> QED BY <2>2 DEF Committing!Next
<1>4. CASE RepairFile(h)
  <2>1. /\ h \in Active(registry) /\ files[h] = NoFile
        /\ registry.caps[h].guidance \in history[h]
        /\ files' = [files EXCEPT ![h] = registry.caps[h].guidance]
    BY <1>4 DEF RepairFile, Repairable
  <2>2. /\ h \in Committing!Active(Effect) /\ CFiles[h] = NoFile
        /\ Effect.caps[h].guidance \in CHistory[h]
        /\ CFiles' = [CFiles EXCEPT ![h] = Effect.caps[h].guidance]
        /\ UNCHANGED <<Effect, CHistory, CAudit>>
    BY <1>2, <2>1, SameParts
  <2>3. Committing!RepairFile(h)
    BY <2>2 DEF Committing!RepairFile, Effect, CFiles, CHistory, CAudit
  <2> QED BY <2>3 DEF Committing!Next
<1> QED BY <1>3, <1>4

LEMMA AtomicInit == Init => Committing!Init
<1> SUFFICES ASSUME Init PROVE Committing!Init
  OBVIOUS
<1>1. ~Pending
  BY DEF Init, Pending
<1> QED BY <1>1, SameOperators DEF Init, Committing!Init

LEMMA AtomicStep ==
    ASSUME IInv, IInv', [Next]_vars
    PROVE  [Committing!Next]_(Committing!vars)
<1>1. CASE UNCHANGED <<registry, files, history, audit, journal>>
  BY <1>1, RestStutters
<1>2. CASE Load
  <2>1. \/ UNCHANGED journal
        \/ ~Pending /\ journal' = NoJournal
    BY <1>2 DEF Load, Pending
  <2> QED BY <1>2, <2>1, RestStutters DEF Load
<1>3. CASE Archive \/ Skill \/ SaveRegistry \/ AppendAudit
  BY <1>3, ReplayStutters
<1>4. CASE Mark
  BY <1>4, MarkStutters
<1>5. CASE Unlink
  <2>1. ~Pending /\ journal' = NoJournal
    BY <1>5, InvFacts DEF Unlink, OpFit, Pending
  <2> QED BY <1>5, <2>1, RestStutters DEF Unlink
<1>6. CASE Decide
  <2>1. CASE UNCHANGED journal
    BY <1>6, <2>1, RestStutters DEF Decide
  <2>2. CASE ~UNCHANGED journal
    <3>1. op.step = "decide" /\ journal = NoJournal
      BY <1>6, InvFacts DEF Decide, OpFit
    <3>2. PICK h \in Subjects(asked[op.key]) :
              /\ Accepts(registry, files, history, asked[op.key], h)
              /\ journal' = JournalOf(asked[op.key], h)
      BY <1>6, <2>2 DEF Decide
    <3>3. ~Committed(audit, asked[op.key])
      BY <1>6, <2>2 DEF Decide
    <3>4. UNCHANGED <<registry, files, history, audit, asked, lost>>
      BY <1>6 DEF Decide
    <3> QED BY <3>1, <3>2, <3>3, <3>4, DecideCommits
  <2> QED BY <2>1, <2>2
<1>7. CASE \E h \in Handles : RepairFile(h) \/ LoseFile(h)
  BY <1>7, FileRefines
<1>8. Serve \/ Return \/ BeginRecover \/ BeginServe \/ Crash \/ UNCHANGED vars
      \/ (\E k \in Keys \cup {NoKey} : Ask(k) \/ BeginApply(k))
      => UNCHANGED <<registry, files, history, audit, journal>>
  BY DEF Serve, Return, BeginRecover, BeginServe, Crash, vars, Ask, BeginApply, Begin, durable
<1> QED BY <1>1, <1>2, <1>3, <1>4, <1>5, <1>6, <1>7, <1>8 DEF Next, Step

\* Whatever the crashes, the registry, the SKILL.md files, the history and the audit
\* change together, each transition once, and as a request of its kind changes the
\* registry of that moment.
THEOREM AtomicHolds == Spec => Atomic
<1>1. IInv /\ IInv' /\ [Next]_vars => [Committing!Next]_(Committing!vars)
  BY AtomicStep
<1> QED BY <1>1, AtomicInit, Invariance, PTL DEF Spec, Atomic, Committing!Spec

-----------------------------------------------------------------------------
(* The refinement of KeyedRegistry                                         *)

RevOf(reg, h) == IF h \in Active(reg) THEN reg.caps[h].rev ELSE 0

KRev == [h \in Handles |-> RevOf(Effect, h)]
KDrawn == {h \in Handles : \E e \in Entries : e.kind = "create" /\ e.handle = h}
KRecorded == {[key |-> e.key, kind |-> e.kind] : e \in {f \in Entries : f.key # NoKey}}
KRead == {[key |-> k, handle |-> asked[k].target, rev |-> asked[k].rev] :
             k \in {j \in Keys : asked[j] # NoRequest /\ asked[j].target # NoHandle}}

LEMMA KeyedVars ==
    /\ Reviewed!vars = <<KRev, KDrawn, KRecorded, KRead>>
    /\ Reviewed!vars' = <<KRev', KDrawn', KRecorded', KRead'>>
BY DEF Reviewed!vars, KRev, KDrawn, KRecorded, KRead, RevOf, Effect

LEMMA KeyedStutters ==
    ASSUME Effect' = Effect, Entries' = Entries, KRead' = KRead
    PROVE  UNCHANGED Reviewed!vars
BY KeyedVars DEF KRev, KDrawn, KRecorded

\* Steps that change neither the registry nor the audit, and a journal only when
\* nothing of it is left to do.
LEMMA RestKeeps ==
    ASSUME UNCHANGED <<registry, audit, asked>>,
           \/ UNCHANGED journal
           \/ ~Pending /\ journal' = NoJournal
    PROVE  UNCHANGED Reviewed!vars
<1>1. Effect' = Effect /\ Entries' = Entries /\ KRead' = KRead
  BY DEF Effect, Entries, Pending, KRead
<1> QED BY <1>1, KeyedStutters

LEMMA ReplayKeeps ==
    ASSUME IInv, IInv', Archive \/ Skill \/ SaveRegistry \/ AppendAudit
    PROVE  UNCHANGED Reviewed!vars
<1>1. /\ UNCHANGED <<journal, asked, lost>> /\ TypeOK
      /\ op.step \in {"archive", "skill", "registry", "audit"}
  BY InvFacts DEF Archive, Skill, SaveRegistry, AppendAudit
<1>2. Pending /\ journal # NoJournal
  BY <1>1, InvFacts DEF OpFit, Pending
<1>3. Pending' /\ Effect' = Effect
  BY <1>1, <1>2, ReplayFrame
<1>4. Entries' = Entries
  <2>1. \/ UNCHANGED audit
        \/ audit' = Append(audit, journal.entry)
    BY DEF Archive, Skill, SaveRegistry, AppendAudit
  <2>2. audit \in Seq(Entry) /\ journal.entry \in Entry
    BY <1>2, AuditedLast
  <2>3. CASE audit' = Append(audit, journal.entry)
    <3>1. /\ DOMAIN audit' = DOMAIN audit \cup {Len(audit) + 1}
          /\ audit'[Len(audit) + 1] = journal.entry
          /\ \A i \in DOMAIN audit : audit'[i] = audit[i]
      BY <2>2, <2>3
    <3> QED BY <1>1, <1>2, <1>3, <3>1 DEF Entries
  <2> QED BY <1>1, <1>2, <1>3, <2>1, <2>3 DEF Entries
<1> QED BY <1>1, <1>3, <1>4, KeyedStutters DEF KRead

LEMMA MarkKeeps ==
    ASSUME IInv, Mark
    PROVE  UNCHANGED Reviewed!vars
<1>1. /\ op.step = "mark" /\ journal' = [journal EXCEPT !.committed = TRUE]
      /\ UNCHANGED <<registry, audit, asked>> /\ TypeOK
  BY InvFacts DEF Mark
<1>2. /\ Pending /\ journal # NoJournal /\ registry = journal.target
      /\ journal.id = Len(audit)
  BY <1>1, InvFacts DEF OpFit, Pending
<1>3. ~Pending'
  BY <1>1, <1>2, JournalTypes DEF Pending, Journal
<1>4. Effect' = Effect
  BY <1>1, <1>2, <1>3 DEF Effect
<1>5. audit[Len(audit)] = journal.entry /\ Len(audit) \in DOMAIN audit
  <2>1. journal.id \in Nat
    BY <1>1, <1>2, JournalTypes
  <2> QED BY <1>2, <2>1, AuditedLast
<1>6. Entries' = Entries
  BY <1>1, <1>2, <1>3, <1>5 DEF Entries
<1> QED BY <1>1, <1>4, <1>6, KeyedStutters DEF KRead

\* The read set of a draft is the target of its request, at the revision in the file,
LEMMA ReviewReads ==
    ASSUME NEW k, NEW q \in ReviewRequests(registry, k), q.target # NoHandle
    PROVE  q.target \in Active(registry) /\ q.rev = registry.caps[q.target].rev
<1>1. CASE q = Blank("defer", k) \/ \E r \in Routes : q = [Blank("create", k) EXCEPT !.route = r]
  BY <1>1 DEF Blank
<1>2. CASE \E kind \in {"append", "replace"}, h \in Active(registry) :
              q = About(kind, k, registry, h)
  BY <1>2 DEF About, Blank
<1>3. CASE \E h \in Active(registry), r \in Routes :
              q = [About("migrate", k, registry, h) EXCEPT !.route = r]
  BY <1>3 DEF About, Blank
<1> QED BY <1>1, <1>2, <1>3 DEF ReviewRequests

\* which is never ahead of the one the pending journal leads to.
LEMMA AskReads ==
    ASSUME IInv, NEW k \in Keys \cup {NoKey}, Ask(k)
    PROVE  [Reviewed!Next]_(Reviewed!vars)
<1>1. /\ UNCHANGED <<registry, audit, journal>>
      /\ asked \in [Keys \cup {NoKey} -> Request \cup {NoRequest}]
  BY InvFacts DEF Ask, durable, TypeOK
<1>2. Effect' = Effect /\ Entries' = Entries
  BY <1>1 DEF Effect, Entries, Pending
<1>3. CASE k = NoKey
  <2>1. PICK q : asked' = [asked EXCEPT ![k] = q]
    BY <1>3 DEF Ask
  <2>2. \A j \in Keys : asked'[j] = asked[j]
    BY <1>1, <1>3, <2>1, CapabilityAssumption
  <2>3. KRead' = KRead
    BY <2>2 DEF KRead
  <2> QED BY <1>2, <2>3, KeyedStutters
<1>4. CASE k # NoKey
  <2>1. /\ k \in Keys /\ asked[k] = NoRequest
        /\ \E q \in ReviewRequests(registry, k) : asked' = [asked EXCEPT ![k] = q]
    BY <1>4 DEF Ask
  <2>2. PICK q \in ReviewRequests(registry, k) : asked' = [asked EXCEPT ![k] = q]
    BY <2>1
  <2>3. /\ asked'[k] = q
        /\ \A j \in Keys \ {k} : asked'[j] = asked[j]
    BY <1>1, <2>1, <2>2
  <2>4. \A e \in KRead : e.key # k
    BY <2>1 DEF KRead
  <2>5. KRead \subseteq KRead'
    BY <2>1, <2>3 DEF KRead
  <2>6. ASSUME NEW e \in KRead' \ KRead
        PROVE  e.key = k /\ (KRev[e.handle] = 0 \/ e.rev <= KRev[e.handle])
    <3>1. PICK j \in Keys : /\ asked'[j] # NoRequest /\ asked'[j].target # NoHandle
                            /\ e = [key |-> j, handle |-> asked'[j].target, rev |-> asked'[j].rev]
      BY <2>6 DEF KRead
    <3>2. j = k
      BY <2>3, <2>6, <3>1 DEF KRead
    <3>3. e.key = k /\ e.handle = q.target /\ e.rev = q.rev /\ q.target # NoHandle
      BY <2>3, <3>1, <3>2
    <3>4. /\ q.target \in Active(registry) /\ q.target \in Handles
          /\ q.rev = registry.caps[q.target].rev
      BY <3>3, ReviewReads DEF Active
    <3>5. Read(Effect, q.target, q.rev, registry.caps[q.target].guidance)
      BY <3>4, ReadFits
    <3> QED BY <3>3, <3>4, <3>5 DEF Read, KRev, RevOf
  <2>7. UNCHANGED <<KRev, KDrawn, KRecorded>>
    BY <1>2 DEF KRev, KDrawn, KRecorded
  <2>8. Reviewed!Read(k)
    BY <2>4, <2>5, <2>6, <2>7 DEF Reviewed!Read, KRev, KDrawn, KRecorded, KRead, RevOf, Effect
  <2> QED BY <2>1, <2>8 DEF Reviewed!Next
<1> QED BY <1>3, <1>4

\* What a transition does to the revisions: only that of its capability changes.
LEMMA TargetRevs ==
    ASSUME NEW reg \in Registry, NEW files0, NEW history0, NEW q, Formed(q),
           NEW h \in Handles, NEW id \in Nat, Accepts(reg, files0, history0, q, h)
    PROVE  /\ \A g \in Handles \ {h} : RevOf(Target(reg, q, h, id), g) = RevOf(reg, g)
           /\ q.kind = "create" => RevOf(Target(reg, q, h, id), h) = 1
           /\ q.kind = "retire" => RevOf(Target(reg, q, h, id), h) = 0
           /\ q.kind \notin {"create", "retire"} =>
                /\ h \in Active(reg)
                /\ RevOf(Target(reg, q, h, id), h) = RevOf(reg, h) + 1
<1> DEFINE T == Target(reg, q, h, id)
           d == NewCap(reg, q, h, id)
<1>1. /\ q.kind \in Kinds /\ q.kind # "defer"
      /\ q.kind \notin {"create", "defer"} => h \in Active(reg)
  BY CapabilityAssumption, Accepted DEF Formed, Request
<1>2. /\ Renewed(q, reg.caps[h], d, id)
      /\ T.caps = [reg.caps EXCEPT ![h] = d]
      /\ reg.caps \in [Handles -> Cap \cup {NoCap}]
  BY <1>1, NewCaps, Targets DEF Registry
<1>3. /\ q.kind = "create" => d \in Cap /\ d.rev = 1
      /\ q.kind = "retire" => d = NoCap
      /\ q.kind \notin {"create", "retire"} => d \in Cap /\ d.rev = reg.caps[h].rev + 1
  BY <1>1, <1>2 DEF Renewed, Kinds
<1> HIDE DEF T, d
<1>4. /\ \A g \in Handles \ {h} : T.caps[g] = reg.caps[g]
      /\ T.caps[h] = d
  BY <1>2
<1>5. /\ \A g \in Handles \ {h} : RevOf(T, g) = RevOf(reg, g)
      /\ q.kind = "create" => RevOf(T, h) = 1
      /\ q.kind = "retire" => RevOf(T, h) = 0
      /\ q.kind \notin {"create", "retire"} =>
           h \in Active(reg) /\ RevOf(T, h) = RevOf(reg, h) + 1
  BY <1>1, <1>3, <1>4, CapabilityAssumption DEF RevOf, Active
<1> QED BY <1>5 DEF T

\* The transition takes effect for the reviews when its journal is written.
LEMMA DecideChanges ==
    ASSUME IInv, NEW q, q = asked[op.key], op.step = "decide", journal = NoJournal,
           NEW h \in Subjects(q), Accepts(registry, files, history, q, h),
           ~Committed(audit, q), journal' = JournalOf(q, h),
           UNCHANGED <<registry, files, history, audit, asked, lost>>
    PROVE  Reviewed!Next
<1> DEFINE id == Len(audit) + 1
           T == Target(registry, q, h, id)
           n == NewEntry(registry, q, h, id)
<1>1. /\ TypeOK /\ ~Pending /\ Effect = registry /\ op.key \in Keys \cup {NoKey}
      /\ op.call = "apply" /\ asked[op.key] # NoRequest /\ registry \in Registry
      /\ Sound(registry)
  BY InvFacts, PendingFacts DEF OpFit, TypeOK, Op, StoresFit
<1>2. Wanted(Drawn, Effect, op.key, q) /\ Drawn \in SUBSET Handles
  BY <1>1, InvFacts DEF AskedFit, Drawn
<1>3. Formed(q) /\ q.key = op.key /\ q.kind \in Kinds
  <2>1. Formed(q) /\ q.key = op.key
    BY <1>1, <1>2, WantedFormed
  <2> QED BY <2>1 DEF Formed, Request
<1>4. /\ journal' \in Journal /\ ~journal'.committed
      /\ journal'.id = id /\ id \in Nat /\ journal'.handle = h
      /\ journal'.target = T
      /\ journal'.entry = NewEntry(registry, q, h, id)
      /\ journal'.keep <=> q.kind \in KeepsFile
      /\ journal'.archive = Archived(registry, q, h)
      /\ ~journal'.keep => journal'.to = NewFile(registry, q, h, id)
  BY <1>1, <1>2, JournalMade
<1>5. Pending' /\ Effect' = T
  BY <1>4, JournalAssumption DEF Pending, Effect
<1>6. Entries' = Entries \cup {n}
  BY <1>1, <1>4, <1>5 DEF Entries
<1>7. /\ n.kind = q.kind /\ n.key = q.key /\ n.handle = h
      /\ q.kind = "defer" <=> h = NoHandle
      /\ h # NoHandle => h \in Handles
  BY <1>1, <1>3, Accepted DEF NewEntry
<1>8. KDrawn' = IF q.kind = "create" THEN KDrawn \cup {h} ELSE KDrawn
  <2> HIDE DEF n
  <2>1. KDrawn' = {g \in Handles : \/ \E e \in Entries : e.kind = "create" /\ e.handle = g
                                   \/ n.kind = "create" /\ n.handle = g}
    BY <1>6 DEF KDrawn
  <2> QED BY <1>7, <2>1 DEF KDrawn
<1>9. KRecorded' = IF q.key = NoKey THEN KRecorded
                   ELSE KRecorded \cup {[key |-> q.key, kind |-> q.kind]}
  <2> HIDE DEF n
  <2>1. CASE q.key = NoKey
    <3>1. {f \in Entries' : f.key # NoKey} = {f \in Entries : f.key # NoKey}
      BY <1>6, <1>7, <2>1
    <3> QED BY <2>1, <3>1 DEF KRecorded
  <2>2. CASE q.key # NoKey
    <3>1. {f \in Entries' : f.key # NoKey} = {f \in Entries : f.key # NoKey} \cup {n}
      BY <1>6, <1>7, <2>2
    <3> QED BY <1>7, <2>2, <3>1 DEF KRecorded
  <2> QED BY <2>1, <2>2
<1>10. q.key # NoKey => ~\E e \in KRecorded : e.key = q.key
  <2> SUFFICES ASSUME q.key # NoKey, NEW f \in Entries, f.key = q.key PROVE FALSE
    BY DEF KRecorded
  <2>1. PICK i \in DOMAIN audit : f = audit[i]
    BY <1>1 DEF Entries
  <2> QED BY <2>1 DEF Committed
<1>11. q.kind = "create" => h \in Handles \ KDrawn
  <2> SUFFICES ASSUME q.kind = "create" PROVE h \in Handles \ KDrawn
    OBVIOUS
  <2>1. h \in Handles
    BY DEF Subjects
  <2>2. h \notin Drawn
    BY <1>1, <2>1, SubjectFresh
  <2> QED BY <2>1, <2>2 DEF Drawn, KDrawn
<1> SUFFICES Reviewed!Transition
  BY DEF Reviewed!Next
<1>12. CASE q.kind = "defer"
  <2>1. T = registry /\ q.key \in Keys /\ q.key # NoKey
    BY <1>3, <1>12, CapabilityAssumption DEF Target, Formed, ReviewKinds
  <2>2. KRev' = KRev
    BY <1>1, <1>5, <2>1 DEF KRev
  <2>3. Reviewed!Defer(q.key)
    BY <1>8, <1>9, <1>10, <1>12, <2>1, <2>2
       DEF Reviewed!Defer, Reviewed!Recorded, KRev, KDrawn, KRecorded, RevOf, Effect
  <2> QED BY <2>1, <2>3 DEF Reviewed!Transition
<1>13. CASE q.kind # "defer"
  <2>1. h \in Handles
    BY <1>7, <1>13
  <2>2. /\ \A g \in Handles \ {h} : RevOf(T, g) = RevOf(registry, g)
        /\ q.kind = "create" => RevOf(T, h) = 1
        /\ q.kind = "retire" => RevOf(T, h) = 0
        /\ q.kind \notin {"create", "retire"} =>
             h \in Active(registry) /\ RevOf(T, h) = RevOf(registry, h) + 1
    <3>1. id \in Nat
      BY <1>4
    <3> HIDE DEF id
    <3> QED BY <1>1, <1>3, <2>1, <3>1, TargetRevs
  <2>3. q.kind # "create" => h \in Active(registry)
    BY <1>1, <1>3, <1>13, Accepted
  <2>4. /\ q.kind # "create" => KRev[h] > 0
        /\ KRev[h] = RevOf(registry, h)
    BY <1>1, <2>1, <2>3 DEF KRev, RevOf, Sound
  <2> HIDE DEF T, n, id
  <2>5. /\ KRev' = [g \in Handles |-> RevOf(T, g)]
        /\ KRev = [g \in Handles |-> RevOf(registry, g)]
    BY <1>1, <1>5 DEF KRev
  <2>6. /\ q.kind = "create" => KRev' = [KRev EXCEPT ![h] = 1]
        /\ q.kind = "retire" => KRev' = [KRev EXCEPT ![h] = 0]
        /\ q.kind \notin {"create", "retire"} => KRev' = [KRev EXCEPT ![h] = @ + 1]
    BY <2>1, <2>2, <2>5
  <2>7. CASE q.kind = "create"
    <3>1. q.key \in Keys /\ q.key # NoKey
      BY <1>3, <2>7, CapabilityAssumption DEF Formed, ReviewKinds
    <3>2. Reviewed!Create(q.key, h)
      BY <1>8, <1>9, <1>10, <1>11, <2>6, <2>7, <3>1
         DEF Reviewed!Create, Reviewed!Recorded, KRev, KDrawn, KRecorded, RevOf, Effect
    <3> QED BY <2>1, <3>1, <3>2 DEF Reviewed!Transition
  <2>8. CASE q.kind \in {"append", "replace", "migrate"}
    <3>1. q.key \in Keys /\ q.key # NoKey
      BY <1>3, <2>8, CapabilityAssumption DEF Formed, ReviewKinds
    <3>2. [key |-> q.key, handle |-> h, rev |-> KRev[h]] \in KRead
      <4>1. ReadSetCurrent(registry, q) /\ h = q.target /\ h # NoHandle
        BY <2>1, <2>8, CapabilityAssumption DEF Accepts
      <4>2. KRev[h] = q.rev
        BY <2>3, <2>4, <2>8, <4>1 DEF ReadSetCurrent, RevOf
      <4> QED BY <1>1, <1>3, <3>1, <4>1, <4>2 DEF KRead
    <3>3. Reviewed!Change(q.key, q.kind, h)
      BY <1>8, <1>9, <1>10, <2>4, <2>6, <2>8, <3>1, <3>2
         DEF Reviewed!Change, Reviewed!Recorded, KRev, KDrawn, KRecorded, KRead, RevOf, Effect
    <3> QED BY <2>1, <2>8, <3>1, <3>3 DEF Reviewed!Transition
  <2>9. CASE q.kind \in OperatorKinds
    <3>1. q.key = NoKey
      BY <1>1, <1>3, <2>9 DEF Formed, ReviewKinds, OperatorKinds
    <3>2. CASE q.kind = "retire"
      <4>1. Reviewed!Retire(h)
        BY <1>8, <1>9, <2>4, <2>6, <3>1, <3>2
           DEF Reviewed!Retire, KRev, KDrawn, KRecorded, RevOf, Effect
      <4> QED BY <2>1, <4>1 DEF Reviewed!Transition
    <3>3. CASE q.kind \in {"restore", "refresh"}
      <4>1. Reviewed!Touch(h)
        BY <1>8, <1>9, <2>4, <2>6, <3>1, <3>3
           DEF Reviewed!Touch, KRev, KDrawn, KRecorded, RevOf, Effect
      <4> QED BY <2>1, <4>1 DEF Reviewed!Transition
    <3> QED BY <2>9, <3>2, <3>3 DEF OperatorKinds
  <2> QED BY <1>3, <1>13, <2>7, <2>8, <2>9 DEF Kinds, OperatorKinds
<1> QED BY <1>12, <1>13

LEMMA KeyedInit == Init => Reviewed!Init
<1> SUFFICES ASSUME Init PROVE Reviewed!Init
  OBVIOUS
<1>1. /\ ~Pending /\ Entries = {} /\ Active(registry) = {}
      /\ \A k \in Keys : asked[k] = NoRequest
  BY DEF Init, Pending, Entries, Active, EmptyRegistry
<1> QED BY <1>1 DEF Reviewed!Init

LEMMA KeyedStep ==
    ASSUME IInv, IInv', [Next]_vars
    PROVE  [Reviewed!Next]_(Reviewed!vars)
<1>1. CASE UNCHANGED <<registry, audit, journal, asked>>
  BY <1>1, RestKeeps
<1>2. CASE Load
  <2>1. \/ UNCHANGED journal
        \/ ~Pending /\ journal' = NoJournal
    BY <1>2 DEF Load, Pending
  <2> QED BY <1>2, <2>1, RestKeeps DEF Load
<1>3. CASE Archive \/ Skill \/ SaveRegistry \/ AppendAudit
  BY <1>3, ReplayKeeps
<1>4. CASE Mark
  BY <1>4, MarkKeeps
<1>5. CASE Unlink
  <2>1. ~Pending /\ journal' = NoJournal
    BY <1>5, InvFacts DEF Unlink, OpFit, Pending
  <2> QED BY <1>5, <2>1, RestKeeps DEF Unlink
<1>6. CASE Decide
  <2>1. CASE UNCHANGED journal
    BY <1>6, <2>1, RestKeeps DEF Decide
  <2>2. CASE ~UNCHANGED journal
    <3>1. op.step = "decide" /\ journal = NoJournal
      BY <1>6, InvFacts DEF Decide, OpFit
    <3>2. PICK h \in Subjects(asked[op.key]) :
              /\ Accepts(registry, files, history, asked[op.key], h)
              /\ journal' = JournalOf(asked[op.key], h)
      BY <1>6, <2>2 DEF Decide
    <3>3. ~Committed(audit, asked[op.key])
      BY <1>6, <2>2 DEF Decide
    <3>4. UNCHANGED <<registry, files, history, audit, asked, lost>>
      BY <1>6 DEF Decide
    <3> QED BY <3>1, <3>2, <3>3, <3>4, DecideChanges
  <2> QED BY <2>1, <2>2
<1>7. CASE \E k \in Keys \cup {NoKey} : Ask(k)
  BY <1>7, AskReads
<1>8. Serve \/ Return \/ BeginRecover \/ BeginServe \/ Crash \/ UNCHANGED vars
      \/ (\E k \in Keys \cup {NoKey} : BeginApply(k))
      \/ (\E h \in Handles : RepairFile(h) \/ LoseFile(h))
      => UNCHANGED <<registry, audit, journal, asked>>
  BY DEF Serve, Return, BeginRecover, BeginServe, Crash, vars, BeginApply, Begin, durable,
         RepairFile, LoseFile
<1> QED BY <1>1, <1>2, <1>3, <1>4, <1>5, <1>6, <1>7, <1>8 DEF Next, Step

\* Reviews change the registry once per review commit key, a capability only while it is
\* at the revision in the frozen read set of the draft, and no handle is drawn twice.
THEOREM KeyedHolds == Spec => Keyed
<1>1. IInv /\ IInv' /\ [Next]_vars => [Reviewed!Next]_(Reviewed!vars)
  BY KeyedStep
<1> QED BY <1>1, KeyedInit, Invariance, PTL DEF Spec, Keyed, Reviewed!Spec

=============================================================================
