-------------------------- MODULE TransitionJournal --------------------------
(* How a capability transition is made durable (src/utils/skill-evolution.ts). *)
(* Every call below runs under the process-exclusive lock of the journal, so   *)
(* one call is in progress at a time (module ProcessLock is about that lock).  *)
(* The call writes the journal, then replays it: the archived guidance, the    *)
(* SKILL.md, the registry, the audit, the committed mark, and the removal of   *)
(* the journal are separate durable writes, and the process can die between    *)
(* any two of them.  Every later call but the catalog's starts by replaying a  *)
(* journal it finds.                                                           *)
EXTENDS CapabilityTransitions, FiniteSets

CONSTANTS
    NoJournal, NoRequest,
    MaxCommits,     \* bound: transitions in the audit
    MaxCrashes,     \* bound: crashes
    MaxLosses       \* bound: SKILL.md files deleted behind the program's back

VARIABLES
    registry,   \* capability-registry.json
    files,      \* <output>/<handle>/SKILL.md
    history,    \* <output>/<handle>/history/<hash>/SKILL.md
    audit,      \* transition-audit.jsonl
    journal,    \* the transition journal file
    asked,      \* the request of each review (by key) and of the operator (NoKey)
    op,         \* the call that holds the lock
    lost,       \* capabilities whose SKILL.md was deleted and is not written again
    crashes, losses

durable == <<registry, files, history, audit, journal>>
vars == <<registry, files, history, audit, journal, asked, op, lost, crashes, losses>>

Steps == {"none", "load", "decide", "archive", "skill", "registry", "audit", "mark", "unlink",
          "serve", "done"}
Calls == {"none", "recover", "apply", "serve"}
Results == {"none", "committed", "replayed", "refused", "recovered", "wedged", "served", "failed"}

\* The call in progress; decided: its own journal is written, or its outcome known.
Op == [call : Calls, key : Keys \cup {NoKey}, step : Steps, decided : BOOLEAN, result : Results]

Idle == [call |-> "none", key |-> NoKey, step |-> "none", decided |-> FALSE, result |-> "none"]

\* TransitionJournal: the two operations on the files of one capability are the
\* guidance to archive and the SKILL.md to write (keep, write or delete it).
Journal == [id : Nat, prior : Registry, target : Registry, handle : Handles \cup {NoHandle},
            archive : Guidance \cup {NoFile},
            keep : BOOLEAN, from : Guidance \cup {NoFile}, to : Guidance \cup {NoFile},
            entry : Entry, committed : BOOLEAN]

ASSUME JournalAssumption ==
    /\ NoJournal \notin Journal /\ NoRequest \notin Request
    /\ MaxCommits \in Nat /\ MaxCrashes \in Nat /\ MaxLosses \in Nat

Init ==
    /\ registry = EmptyRegistry
    /\ files = [h \in Handles |-> NoFile]
    /\ history = [h \in Handles |-> {}]
    /\ audit = <<>>
    /\ journal = NoJournal
    /\ asked = [k \in Keys \cup {NoKey} |-> NoRequest]
    /\ op = Idle
    /\ lost = {}
    /\ crashes = 0 /\ losses = 0

Audited(id) == \E i \in DOMAIN audit : audit[i].id = id

\* a journal that still has to be replayed
Pending == journal # NoJournal /\ ~journal.committed

-----------------------------------------------------------------------------
(* Requests, calls and returns *)

\* A review freezes its draft and its read set once; the operator asks again and again.
Ask(k) ==
    /\ op.call # "apply" \/ op.key # k
    /\ \/ /\ k # NoKey /\ asked[k] = NoRequest
          /\ \E q \in ReviewRequests(registry, k) : asked' = [asked EXCEPT ![k] = q]
       \/ /\ k = NoKey
          /\ \E q \in OperatorRequests(registry, history) : asked' = [asked EXCEPT ![k] = q]
    /\ UNCHANGED <<durable, op, lost, crashes, losses>>

Begin(call, key, step) ==
    /\ op = Idle
    /\ op' = [Idle EXCEPT !.call = call, !.key = key, !.step = step]
    /\ UNCHANGED <<durable, asked, lost, crashes, losses>>

\* recoverTransitionJournal: the constructor of the runtime, receipts, operator control
BeginRecover == Begin("recover", NoKey, "load")

\* applyCapabilityTransition, restoreCapabilityRevision, refreshReferencedSkillMetadata;
\* a caller retries as often as it likes.
BeginApply(k) == asked[k] # NoRequest /\ Begin("apply", k, "load")

\* SkillManager.loadAndEnforceActiveSkillInvariants: the catalog is read without replaying.
BeginServe == Begin("serve", NoKey, "serve")

\* The step s of the call ends with result r.
End(r) == op' = [op EXCEPT !.step = "done", !.result = r, !.decided = TRUE]

Goto(s) == op' = [op EXCEPT !.step = s]

\* The replay is over: on to the decision, or the call's own journal was replayed.
Replayed ==
    IF op.decided THEN End("committed")
    ELSE IF op.call = "recover" THEN End("recovered") ELSE Goto("decide")

Return ==
    /\ op.step = "done"
    /\ op' = Idle
    /\ UNCHANGED <<durable, asked, lost, crashes, losses>>

-----------------------------------------------------------------------------
(* recoverTransitionJournalLocked, one durable write per step *)

\* Load and validate the journal and compare the registry with it; a journal that
\* does not fit is left where it is and the call throws.
Load ==
    /\ op.step = "load"
    /\ \/ /\ journal = NoJournal
          /\ Replayed
          /\ UNCHANGED journal
       \/ /\ journal # NoJournal /\ journal.committed
          /\ journal' = NoJournal
          /\ Replayed
       \/ /\ Pending
          /\ IF registry \in {journal.prior, journal.target} /\ ValidRegistry(journal.target)
             THEN Goto("archive") ELSE End("wedged")
          /\ UNCHANGED journal
    /\ UNCHANGED <<registry, files, history, audit, asked, lost, crashes, losses>>

ArchiveAlways ==
    /\ op.step = "archive"
    /\ history' = [h \in Handles |-> history[h] \cup {journal.archive}]
    /\ Goto("skill")
    /\ UNCHANGED <<registry, files, audit, journal, asked, lost, crashes, losses>>

Archive ==
    /\ op.step = "archive"
    /\ history' = IF journal.archive = NoFile THEN history
                  ELSE [history EXCEPT ![journal.handle] = @ \cup {journal.archive}]
    /\ Goto("skill")
    /\ UNCHANGED <<registry, files, audit, journal, asked, lost, crashes, losses>>

SkillExpectsPrior ==
    /\ op.step = "skill"
    /\ IF journal.keep \/ files[journal.handle] = journal.from
       THEN /\ files' = IF journal.keep THEN files
                        ELSE [files EXCEPT ![journal.handle] = journal.to]
            /\ Goto("registry")
       ELSE End("wedged") /\ UNCHANGED files
    /\ UNCHANGED <<registry, history, audit, journal, asked, lost, crashes, losses>>

\* Write or delete the SKILL.md unless that is done already; any content other
\* than the one before and the one after the transition stops the replay.
Skill ==
    /\ op.step = "skill"
    /\ IF journal.keep \/ files[journal.handle] = journal.to
       THEN Goto("registry") /\ UNCHANGED files
       ELSE IF files[journal.handle] = journal.from
            THEN /\ files' = [files EXCEPT ![journal.handle] = journal.to]
                 /\ Goto("registry")
            ELSE End("wedged") /\ UNCHANGED files
    /\ UNCHANGED <<registry, history, audit, journal, asked, lost, crashes, losses>>

SaveRegistry ==
    /\ op.step = "registry"
    /\ registry' = journal.target
    /\ Goto("audit")
    /\ UNCHANGED <<files, history, audit, journal, asked, lost, crashes, losses>>

AppendAuditAgain ==
    /\ op.step = "audit"
    /\ audit' = Append(audit, journal.entry)
    /\ Goto("mark")
    /\ UNCHANGED <<registry, files, history, journal, asked, lost, crashes, losses>>

AppendAudit ==
    /\ op.step = "audit"
    /\ audit' = IF Audited(journal.id) THEN audit ELSE Append(audit, journal.entry)
    /\ Goto("mark")
    /\ UNCHANGED <<registry, files, history, journal, asked, lost, crashes, losses>>

Mark ==
    /\ op.step = "mark"
    /\ journal' = [journal EXCEPT !.committed = TRUE]
    /\ Goto("unlink")
    /\ UNCHANGED <<registry, files, history, audit, asked, lost, crashes, losses>>

Unlink ==
    /\ op.step = "unlink"
    /\ journal' = NoJournal
    /\ Replayed
    /\ UNCHANGED <<registry, files, history, audit, asked, lost, crashes, losses>>

-----------------------------------------------------------------------------
(* applyCapabilityTransitionLocked, restoreCapabilityRevisionLocked and        *)
(* refreshReferencedSkillMetadataLocked after the first replay                 *)

\* the journal of request q on capability h
JournalOf(q, h) ==
    LET id == Len(audit) + 1
        keep == q.kind \in KeepsFile
    IN [id |-> id, prior |-> registry, target |-> Target(registry, q, h, id), handle |-> h,
        archive |-> Archived(registry, q, h),
        keep |-> keep,
        from |-> IF keep \/ q.kind = "create" THEN NoFile ELSE registry.caps[h].guidance,
        to |-> IF keep THEN NoFile ELSE NewFile(registry, q, h, id),
        entry |-> NewEntry(registry, q, h, id), committed |-> FALSE]

\* A request that was committed before returns the earlier outcome, unless it is an
\* operator's and the registry has moved on since.
ReplayOutcome(q) ==
    IF q.kind = "restore"
    THEN IF q.target \in Active(registry) /\ registry.caps[q.target].guidance = q.guidance
         THEN "replayed" ELSE "refused"
    ELSE IF q.kind = "refresh" /\ q.target \notin Active(registry) THEN "refused"
    ELSE IF q.kind = "retire" /\ q.target \in Active(registry) THEN "refused"
    ELSE "replayed"

SubjectsDrawnAgain(q) ==
    IF q.kind = "create" THEN Handles \ Active(registry) ELSE {q.target}

\* the capabilities q can be about: a create draws a handle never used before
Subjects(q) ==
    IF q.kind = "create"
    THEN {h \in Handles : \A i \in DOMAIN audit : audit[i].handle # h}
    ELSE {q.target}

Decide ==
    /\ op.step = "decide"
    /\ LET q == asked[op.key] IN
       IF Committed(audit, q)
       THEN End(ReplayOutcome(q)) /\ UNCHANGED journal
       ELSE \/ /\ Len(audit) < MaxCommits
               /\ \E h \in Subjects(q) :
                     /\ Accepts(registry, files, history, q, h)
                     /\ journal' = JournalOf(q, h)
               /\ op' = [op EXCEPT !.step = "load", !.decided = TRUE]
            \/ /\ Len(audit) = MaxCommits
                  \/ \A h \in Subjects(q) : ~Accepts(registry, files, history, q, h)
               /\ End("refused") /\ UNCHANGED journal
    /\ UNCHANGED <<registry, files, history, audit, asked, lost, crashes, losses>>

-----------------------------------------------------------------------------
(* The catalog: reconcileActiveGeneratedSkillArtifacts *)

Repairable(h) ==
    /\ h \in Active(registry) /\ files[h] = NoFile
    /\ registry.caps[h].guidance \in history[h]

\* an active SKILL.md that is missing is written again from the history
RepairFile(h) ==
    /\ op.step = "serve" /\ journal = NoJournal
    /\ Repairable(h)
    /\ files' = [files EXCEPT ![h] = registry.caps[h].guidance]
    /\ lost' = lost \ {h}
    /\ UNCHANGED <<registry, history, audit, journal, asked, op, crashes, losses>>

\* what the catalog accepts of an active capability: the file, its route and its hash
Intact(h) ==
    /\ files[h] = registry.caps[h].guidance
    /\ files[h].route = registry.caps[h].route

Serve ==
    /\ op.step = "serve"
    /\ \/ journal # NoJournal /\ End("failed")
       \/ /\ journal = NoJournal
          /\ \A h \in Active(registry) : Intact(h)
          /\ End("served")
       \/ /\ journal = NoJournal
          /\ \E h \in Active(registry) : ~Intact(h) /\ ~Repairable(h)
          /\ End("failed")
    /\ UNCHANGED <<durable, asked, lost, crashes, losses>>

-----------------------------------------------------------------------------
(* The environment *)

\* The process dies; its lock is recovered by the next caller.
Crash ==
    /\ op # Idle /\ crashes < MaxCrashes
    /\ op' = Idle
    /\ crashes' = crashes + 1
    /\ UNCHANGED <<durable, asked, lost, losses>>

\* A user deletes the SKILL.md of an active capability while nothing is pending.
LoseFile(h) ==
    /\ op = Idle /\ journal = NoJournal /\ losses < MaxLosses
    /\ h \in Active(registry) /\ files[h] # NoFile
    /\ files' = [files EXCEPT ![h] = NoFile]
    /\ lost' = lost \cup {h}
    /\ losses' = losses + 1
    /\ UNCHANGED <<registry, history, audit, journal, asked, op, crashes>>

Step ==
    \/ Load \/ Archive \/ Skill \/ SaveRegistry \/ AppendAudit \/ Mark \/ Unlink
    \/ Decide \/ Serve \/ Return \/ \E h \in Handles : RepairFile(h)

Next ==
    \/ Step
    \/ BeginRecover \/ BeginServe
    \/ \E k \in Keys \cup {NoKey} : Ask(k) \/ BeginApply(k)
    \/ Crash \/ \E h \in Handles : LoseFile(h)

Spec == Init /\ [][Next]_vars

\* A call that runs keeps running.  A runtime that starts after a crash constructs
\* SkillEvolutionRuntime, and every heartbeat wake goes through receipts, so a caller
\* that replays comes again and again however often the catalog takes the lock between.
FairSpec == Spec /\ WF_vars(Step) /\ SF_vars(BeginRecover /\ Pending)

-----------------------------------------------------------------------------
(* Properties *)

TypeOK ==
    /\ registry \in Registry
    /\ files \in [Handles -> Guidance \cup {NoFile}]
    /\ history \in [Handles -> SUBSET Guidance]
    /\ audit \in Seq(Entry)
    /\ journal \in Journal \cup {NoJournal}
    /\ asked \in [Keys \cup {NoKey} -> Request \cup {NoRequest}]
    /\ op \in Op
    /\ lost \subseteq Handles
    /\ crashes \in 0..MaxCrashes /\ losses \in 0..MaxLosses

\* the entries of the audit, with the one a pending journal will append
Entries == {audit[i] : i \in DOMAIN audit} \cup (IF Pending THEN {journal.entry} ELSE {})

\* The journal as the moment of commitment: while one is pending, the registry, the
\* files, the history and the audit are those its replay will leave.
Committing ==
    INSTANCE AtomicRegistry WITH
        registry <- IF Pending THEN journal.target ELSE registry,
        files <- IF Pending /\ ~journal.keep
                 THEN [files EXCEPT ![journal.handle] = journal.to] ELSE files,
        history <- IF Pending /\ journal.archive # NoFile
                   THEN [history EXCEPT ![journal.handle] = @ \cup {journal.archive}] ELSE history,
        audit <- IF Pending /\ ~Audited(journal.id)
                 THEN Append(audit, journal.entry) ELSE audit

\* and as the reviews see it (ReviewCommit): revisions, review commit keys and read sets
Reviewed ==
    INSTANCE KeyedRegistry WITH
        rev <- [h \in Handles |->
                  LET reg == IF Pending THEN journal.target ELSE registry
                  IN IF h \in Active(reg) THEN reg.caps[h].rev ELSE 0],
        drawn <- {h \in Handles : \E e \in Entries : e.kind = "create" /\ e.handle = h},
        recorded <- {[key |-> e.key, kind |-> e.kind] : e \in {f \in Entries : f.key # NoKey}},
        read <- {[key |-> k, handle |-> asked[k].target, rev |-> asked[k].rev] :
                     k \in {j \in Keys : asked[j] # NoRequest /\ asked[j].target # NoHandle}}

\* Whatever the crashes, the four stores change together and as AtomicRegistry says: no
\* transition is half applied or applied twice, and each is what a request of its kind
\* does to the registry of that moment (that a draft fits this registry is Keyed).
Atomic == Committing!Spec

\* A review freezes its read set when it is asked, changes a capability once per key and
\* only if nobody has changed it since it was read, and no handle is drawn twice.
Keyed == Reviewed!Spec

\* Once nothing is pending, every active capability has its SKILL.md with the guidance
\* the registry names (unless a user deleted it), no other capability has one, and the
\* guidance that a committed replacement, migration, retirement or restoration put aside
\* (priorGuidanceHash of its audit entry) is in the history.
GuidanceMatches ==
    ~Pending =>
        /\ \A h \in Handles : files[h] = IF h \in Active(registry) /\ h \notin lost
                                        THEN registry.caps[h].guidance ELSE NoFile
        /\ \A i \in DOMAIN audit : audit[i].kind \notin KeepsFile \cup {"create"} =>
               audit[i].prior \in history[audit[i].handle]

\* A replay never refuses its own journal: whichever write the crash came after, the
\* preconditions of the writes before and after it still hold, and the registry it
\* installs can be loaded (no route names two capabilities, redirects do not dangle).
NeverWedged == op.result # "wedged"

\* A journal left by a crash does not stay.
Drained == Pending ~> ~Pending

\* The catalog serves the generated skills whenever nothing is pending and no file was
\* deleted by hand.
CatalogServes ==
    op.call = "serve" /\ op.result = "failed" => journal # NoJournal \/ lost # {}

\* A refresh that returns leaves the capability with the snapshots it asked for.
RefreshTakesEffect ==
    /\ op.call = "apply" /\ op.step = "done" /\ op.result \in {"committed", "replayed"}
    /\ asked[op.key].kind = "refresh"
    => registry.caps[asked[op.key].target].refs = asked[op.key].refs
=============================================================================
