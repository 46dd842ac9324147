----------------------------- MODULE ProcessLock -----------------------------
(***************************************************************************)
(* The cross-process lock of src/utils/process-exclusive-lock.ts and the   *)
(* reclaim protocol of src/utils/process-lock-claim.ts, with the job store *)
(* mutation it protects (mutateEvidenceReviewJobStore).                    *)
(*                                                                         *)
(* The file system is the shared state.  Level 0 is the lock directory,    *)
(* with owner.json and owner.backup.json; level l > 0 is the l-th nested   *)
(* ".reclaim" directory, with claimer.json.  Levels nest, so "dirs" counts *)
(* those that exist.  A guard is published by renaming a candidate         *)
(* directory that lives in the parent level, where a recursive removal     *)
(* sees it.  Every file-system call is one step: fs.rmSync lists a         *)
(* directory, removes what it listed entry by entry and then removes the   *)
(* directory, which fails when something new has appeared in it.           *)
(*                                                                         *)
(* A process is one incarnation: a crashed one stays dead, and whatever it *)
(* left on disk stays there.                                               *)
(***************************************************************************)
EXTENDS Naturals, FiniteSets

CONSTANTS
    Proc,        \* process incarnations (pid and OS start time)
    NoId,        \* "no readable record"
    Retries,     \* retryAttempts of the caller
    MaxDepth,    \* MAX_RECLAIM_DEPTH
    Sorted,      \* readdir sorts (libuv's scandir) or returns any order
    MaxCalls,    \* bound: calls of withProcessExclusiveLock per process
    MaxCrashes   \* bound: processes that die

Token == 1..MaxCalls
Id == [pid : Proc, token : Token]

ASSUME ProcFinite == IsFiniteSet(Proc)
ASSUME BoundsNat ==
    /\ Retries \in Nat
    /\ MaxDepth \in Nat
    /\ MaxCalls \in Nat \ {0}
    /\ MaxCrashes \in Nat
    /\ Sorted \in BOOLEAN
ASSUME NoIdFresh == NoId \notin Id

VARIABLES
    crashed,     \* processes that died
    dirs,        \* how many of the nested directories exist
    owner,       \* owner.json of the lock directory
    backup,      \* owner.backup.json of the lock directory
    guard,       \* guard[l]: claimer.json of the l-th .reclaim
    cand,        \* cand[p]: the level p's guard candidate waits for, 0 when none
    store,       \* the protected store: identities whose mutation it contains
    done,        \* identities whose mutation was saved
    pc,          \* where each process is in its call
    calls,       \* calls started, the token of the current identity
    att,         \* retry attempt of the call
    obsP,        \* owner.json as read in this attempt
    obs,         \* the stale owner being reclaimed
    lvl,         \* guard level being installed or held
    rl,          \* level that the recursive removal is at
    todo,        \* todo[p][l]: listed entries of level l still to be removed
    removing,    \* why p removes the lock directory
    snap         \* the store as loaded by the work

disk  == <<dirs, owner, backup, guard, cand>>
local == <<att, obsP, obs, lvl, rl, todo, removing, snap>>
vars  == <<crashed, dirs, owner, backup, guard, cand, store, done, pc, calls,
           att, obsP, obs, lvl, rl, todo, removing, snap>>

Level == 1..MaxDepth
IdOrNone == Id \cup {NoId}
EntryName == {"owner", "backup", "claimer", "sub", "cand"}
Entry == EntryName \X (Proc \cup {NoId}) \X Nat

-----------------------------------------------------------------------------
(* Helpers *)

Me(p) == [pid |-> p, token |-> calls[p]]
Alive(id) == id.pid \notin crashed

\* A candidate's name is unique per attempt.
Serial(p) == calls[p] * (Retries + 1) + att[p]

File(name) == <<name, NoId, 0>>

Names(l) ==
    (IF dirs > l + 1 THEN {"sub"} ELSE {}) \cup
    (IF l = 0 /\ owner # NoId THEN {"owner"} ELSE {}) \cup
    (IF l = 0 /\ backup # NoId THEN {"backup"} ELSE {}) \cup
    (IF l \in Level /\ guard[l] # NoId THEN {"claimer"} ELSE {})

\* What readdir returns for an existing level.
Entries(l) ==
    {File(n) : n \in Names(l)} \cup
    {<<"cand", q, Serial(q)>> : q \in {r \in Proc : cand[r] = l + 1}}

\* Alphabetical order of the names: .reclaim, .reclaim.candidate-*,
\* owner.backup.json (or claimer.json), owner.json.
Rank == [n \in EntryName |->
            IF n = "sub" THEN 1 ELSE IF n = "cand" THEN 2
            ELSE IF n = "owner" THEN 4 ELSE 3]

EmptyDir(l) == dirs = l + 1 /\ Entries(l) = {}

\* rename() of a populated candidate: the target is absent or an empty directory.
CanRename(l) == dirs = l \/ EmptyDir(l)

ResolveOwner(primary, bak) ==
    IF primary # NoId /\ bak # NoId /\ primary # bak THEN NoId
    ELSE IF primary # NoId THEN primary ELSE bak

InWork(p) == pc[p] \in {"load", "save", "relPrimary", "relBackup"}

-----------------------------------------------------------------------------
Init ==
    /\ crashed = {}
    /\ dirs = 0 /\ owner = NoId /\ backup = NoId
    /\ guard = [l \in Level |-> NoId]
    /\ cand = [p \in Proc |-> 0]
    /\ store = {} /\ done = {}
    /\ pc = [p \in Proc |-> "idle"]
    /\ calls = [p \in Proc |-> 0]
    /\ att = [p \in Proc |-> 0]
    /\ obsP = [p \in Proc |-> NoId]
    /\ obs = [p \in Proc |-> NoId]
    /\ lvl = [p \in Proc |-> 1]
    /\ rl = [p \in Proc |-> 0]
    /\ todo = [p \in Proc |-> [l \in 0..MaxDepth |-> {}]]
    /\ removing = [p \in Proc |-> "release"]
    /\ snap = [p \in Proc |-> {}]

Goto(p, label) == pc' = [pc EXCEPT ![p] = label]

\* Faulty variants of NextAttempt: one retry too many; and falling through to
\* the work when the retries are used up.
NextAttemptOneTooMany(p) ==
    IF att[p] <= Retries
    THEN att' = [att EXCEPT ![p] = @ + 1] /\ Goto(p, "install")
    ELSE att' = att /\ Goto(p, "idle")

NextAttemptFallsThrough(p) ==
    IF att[p] < Retries
    THEN att' = [att EXCEPT ![p] = @ + 1] /\ Goto(p, "install")
    ELSE att' = att /\ Goto(p, "load")

\* The next turn of the retry loop, or "Process-exclusive lock is busy".
NextAttempt(p) ==
    IF att[p] < Retries
    THEN att' = [att EXCEPT ![p] = @ + 1] /\ Goto(p, "install")
    ELSE att' = att /\ Goto(p, "idle")

Call(p) ==
    /\ pc[p] = "idle"
    /\ calls[p] < MaxCalls
    /\ calls' = [calls EXCEPT ![p] = @ + 1]
    /\ att' = [att EXCEPT ![p] = 0]
    /\ Goto(p, "install")
    /\ UNCHANGED <<disk, store, done, obsP, obs, lvl, rl, todo, removing, snap>>

-----------------------------------------------------------------------------
(* Installing the lock directory and reading its owner *)

\* Faulty variant: the redundant record is not published.
InstallWithoutBackup(p) ==
    /\ pc[p] = "install"
    /\ IF CanRename(0)
       THEN /\ dirs' = 1 /\ owner' = Me(p) /\ UNCHANGED backup
            /\ Goto(p, "load")
       ELSE /\ Goto(p, "readPrimary")
            /\ UNCHANGED <<dirs, owner, backup>>
    /\ UNCHANGED <<guard, cand, store, done, calls, local>>

Install(p) ==
    /\ pc[p] = "install"
    /\ IF CanRename(0)
       THEN /\ dirs' = 1 /\ owner' = Me(p) /\ backup' = Me(p)
            /\ Goto(p, "load")
       ELSE /\ Goto(p, "readPrimary")
            /\ UNCHANGED <<dirs, owner, backup>>
    /\ UNCHANGED <<guard, cand, store, done, calls, local>>

ReadPrimary(p) ==
    /\ pc[p] = "readPrimary"
    /\ obsP' = [obsP EXCEPT ![p] = owner]
    /\ Goto(p, "readBackup")
    /\ UNCHANGED <<disk, store, done, calls, att, obs, lvl, rl, todo, removing, snap>>

ReadBackup(p) ==
    /\ pc[p] = "readBackup"
    /\ LET seen == ResolveOwner(obsP[p], backup) IN
       IF seen # NoId /\ ~Alive(seen)
       THEN /\ obs' = [obs EXCEPT ![p] = seen]
            /\ lvl' = [lvl EXCEPT ![p] = 1]
            /\ Goto(p, "candidate")
            /\ UNCHANGED att
       ELSE NextAttempt(p) /\ UNCHANGED <<obs, lvl>>
    /\ UNCHANGED <<disk, store, done, calls, obsP, rl, todo, removing, snap>>

-----------------------------------------------------------------------------
(* reclaimStaleClaimDirectory; its result is ignored by the retry loop *)

\* mkdir of the guard's candidate; ENOENT says that the claim is gone.
MakeCandidate(p) ==
    /\ pc[p] = "candidate"
    /\ IF lvl[p] <= MaxDepth /\ dirs >= lvl[p]
       THEN /\ cand' = [cand EXCEPT ![p] = lvl[p]]
            /\ Goto(p, "publish")
            /\ UNCHANGED att
       ELSE NextAttempt(p) /\ UNCHANGED cand
    /\ UNCHANGED <<dirs, owner, backup, guard, store, done, calls,
                   obsP, obs, lvl, rl, todo, removing, snap>>

PublishGuard(p) ==
    /\ pc[p] = "publish"
    /\ cand[p] # 0
    /\ cand' = [cand EXCEPT ![p] = 0]
    /\ IF CanRename(lvl[p])
       THEN /\ dirs' = lvl[p] + 1
            /\ guard' = [guard EXCEPT ![lvl[p]] = Me(p)]
            /\ Goto(p, "recheckClaim")
       ELSE /\ Goto(p, "readGuard")
            /\ UNCHANGED <<dirs, guard>>
    /\ UNCHANGED <<owner, backup, store, done, calls, local>>

\* A remover deleted the candidate: rename says ENOENT and the guard is taken
\* for occupied, or writing the record already threw ENOENT ("claim is gone").
CandidateLost(p) ==
    /\ pc[p] = "publish"
    /\ cand[p] = 0
    /\ \/ Goto(p, "readGuard") /\ UNCHANGED att
       \/ NextAttempt(p)
    /\ UNCHANGED <<disk, store, done, calls, obsP, obs, lvl, rl, todo, removing, snap>>

\* Faulty variants: any guard wins, a dead one too; and a dead guard is retried
\* at its own level instead of being nested under.
ReadGuardAnyWins(p) ==
    /\ pc[p] = "readGuard"
    /\ IF guard[lvl[p]] # NoId
       THEN NextAttempt(p) /\ UNCHANGED lvl
       ELSE /\ lvl' = [lvl EXCEPT ![p] = @ + 1]
            /\ Goto(p, "candidate")
            /\ UNCHANGED att
    /\ UNCHANGED <<disk, store, done, calls, obsP, obs, rl, todo, removing, snap>>

ReadGuardSameLevel(p) ==
    /\ pc[p] = "readGuard"
    /\ IF guard[lvl[p]] # NoId /\ Alive(guard[lvl[p]])
       THEN NextAttempt(p)
       ELSE Goto(p, "candidate") /\ UNCHANGED att
    /\ UNCHANGED <<disk, store, done, calls, obsP, obs, lvl, rl, todo, removing, snap>>

\* A live guard wins; a dead or unreadable one is nested under.
ReadGuard(p) ==
    /\ pc[p] = "readGuard"
    /\ IF guard[lvl[p]] # NoId /\ Alive(guard[lvl[p]])
       THEN NextAttempt(p) /\ UNCHANGED lvl
       ELSE /\ lvl' = [lvl EXCEPT ![p] = @ + 1]
            /\ Goto(p, "candidate")
            /\ UNCHANGED att
    /\ UNCHANGED <<disk, store, done, calls, obsP, obs, rl, todo, removing, snap>>

RecheckClaim(p) ==
    /\ pc[p] = "recheckClaim"
    /\ LET current == IF obsP[p] # NoId THEN owner ELSE backup IN
       IF current = obs[p]
       THEN Goto(p, "recheckGuard") /\ UNCHANGED att
       ELSE NextAttempt(p)
    /\ UNCHANGED <<disk, store, done, calls, obsP, obs, lvl, rl, todo, removing, snap>>

RecheckGuard(p) ==
    /\ pc[p] = "recheckGuard"
    /\ IF guard[lvl[p]] = Me(p)
       THEN /\ rl' = [rl EXCEPT ![p] = 0]
            /\ removing' = [removing EXCEPT ![p] = "reclaim"]
            /\ Goto(p, "list")
            /\ UNCHANGED att
       ELSE NextAttempt(p) /\ UNCHANGED <<rl, removing>>
    /\ UNCHANGED <<disk, store, done, calls, obsP, obs, lvl, todo, snap>>

-----------------------------------------------------------------------------
(* fs.rmSync(lockPath, { recursive: true, force: true }) *)

RemovalEnds(p) ==
    IF removing[p] = "reclaim" THEN NextAttempt(p)
    ELSE Goto(p, "idle") /\ att' = att

\* Level rl[p] is gone: continue with its parent's entries.
LevelRemoved(p) ==
    IF rl[p] = 0
    THEN RemovalEnds(p) /\ UNCHANGED rl
    ELSE /\ rl' = [rl EXCEPT ![p] = @ - 1]
         /\ Goto(p, "remove")
         /\ UNCHANGED att

ListLevel(p) ==
    /\ pc[p] = "list"
    /\ IF dirs > rl[p]
       THEN /\ todo' = [todo EXCEPT ![p][rl[p]] = Entries(rl[p])]
            /\ Goto(p, "remove")
            /\ UNCHANGED <<att, rl>>
       ELSE LevelRemoved(p) /\ UNCHANGED todo
    /\ UNCHANGED <<disk, store, done, calls, obsP, obs, lvl, removing, snap>>

RemoveEntry(p) ==
    /\ pc[p] = "remove"
    /\ \E e \in todo[p][rl[p]] :
        /\ Sorted => \A f \in todo[p][rl[p]] : Rank[e[1]] <= Rank[f[1]]
        /\ todo' = [todo EXCEPT ![p][rl[p]] = @ \ {e}]
        /\ owner' = IF e[1] = "owner" THEN NoId ELSE owner
        /\ backup' = IF e[1] = "backup" THEN NoId ELSE backup
        /\ guard' = IF e[1] = "claimer" THEN [guard EXCEPT ![rl[p]] = NoId] ELSE guard
        /\ cand' = [q \in Proc |->
                      IF e = <<"cand", q, Serial(q)>> /\ cand[q] = rl[p] + 1 THEN 0 ELSE cand[q]]
        /\ IF e[1] = "sub"
           THEN rl' = [rl EXCEPT ![p] = @ + 1] /\ Goto(p, "list")
           ELSE UNCHANGED <<rl, pc>>
    /\ UNCHANGED <<dirs, store, done, calls, att, obsP, obs, lvl, removing, snap>>

\* rmdir: ENOENT is ignored, ENOTEMPTY ends the whole removal.
RemoveLevel(p) ==
    /\ pc[p] = "remove"
    /\ todo[p][rl[p]] = {}
    /\ IF dirs <= rl[p] \/ EmptyDir(rl[p])
       THEN /\ dirs' = IF EmptyDir(rl[p]) THEN rl[p] ELSE dirs
            /\ LevelRemoved(p)
       ELSE RemovalEnds(p) /\ UNCHANGED <<dirs, rl>>
    /\ UNCHANGED <<owner, backup, guard, cand, store, done, calls,
                   obsP, obs, lvl, todo, removing, snap>>

-----------------------------------------------------------------------------
(* The protected work and the release *)

Load(p) ==
    /\ pc[p] = "load"
    /\ snap' = [snap EXCEPT ![p] = store]
    /\ Goto(p, "save")
    /\ UNCHANGED <<disk, store, done, calls, att, obsP, obs, lvl, rl, todo, removing>>

Save(p) ==
    /\ pc[p] = "save"
    /\ store' = snap[p] \cup {Me(p)}
    /\ done' = done \cup {Me(p)}
    /\ Goto(p, "relPrimary")
    /\ UNCHANGED <<disk, calls, local>>

WorkThrows(p) ==
    /\ pc[p] \in {"load", "save"}
    /\ Goto(p, "relPrimary")
    /\ UNCHANGED <<disk, store, done, calls, local>>

ReleaseReadPrimary(p) ==
    /\ pc[p] = "relPrimary"
    /\ obsP' = [obsP EXCEPT ![p] = owner]
    /\ Goto(p, "relBackup")
    /\ UNCHANGED <<disk, store, done, calls, att, obs, lvl, rl, todo, removing, snap>>

\* Faulty variant: the token is compared with the reclaimed owner's.
ReleaseWrongToken(p) ==
    /\ pc[p] = "relBackup"
    /\ IF ResolveOwner(obsP[p], backup) = obs[p]
       THEN /\ rl' = [rl EXCEPT ![p] = 0]
            /\ removing' = [removing EXCEPT ![p] = "release"]
            /\ Goto(p, "list")
       ELSE Goto(p, "idle") /\ UNCHANGED <<rl, removing>>
    /\ UNCHANGED <<disk, store, done, calls, att, obsP, obs, lvl, todo, snap>>

\* Only an owner that still finds its own token removes the directory.
Release(p) ==
    /\ pc[p] = "relBackup"
    /\ IF ResolveOwner(obsP[p], backup) = Me(p)
       THEN /\ rl' = [rl EXCEPT ![p] = 0]
            /\ removing' = [removing EXCEPT ![p] = "release"]
            /\ Goto(p, "list")
       ELSE Goto(p, "idle") /\ UNCHANGED <<rl, removing>>
    /\ UNCHANGED <<disk, store, done, calls, att, obsP, obs, lvl, todo, snap>>

\* The process dies; its directories and candidates stay.
Crash(p) ==
    /\ pc[p] # "idle"
    /\ Cardinality(crashed) < MaxCrashes
    /\ crashed' = crashed \cup {p}
    /\ UNCHANGED <<disk, store, done, pc, calls, local>>

-----------------------------------------------------------------------------
Step(p) ==
    /\ p \notin crashed
    /\ UNCHANGED crashed
    /\ \/ Install(p) \/ ReadPrimary(p) \/ ReadBackup(p)
       \/ MakeCandidate(p) \/ PublishGuard(p) \/ CandidateLost(p)
       \/ ReadGuard(p) \/ RecheckClaim(p) \/ RecheckGuard(p)
       \/ ListLevel(p) \/ RemoveEntry(p) \/ RemoveLevel(p)
       \/ Load(p) \/ Save(p) \/ WorkThrows(p)
       \/ ReleaseReadPrimary(p) \/ Release(p)

Next ==
    \E p \in Proc :
        \/ p \notin crashed /\ UNCHANGED crashed /\ Call(p)
        \/ Step(p)
        \/ p \notin crashed /\ Crash(p)

Spec == Init /\ [][Next]_vars

\* A call is synchronous code: a live process keeps executing it.
FairSpec == Spec /\ \A p \in Proc : WF_vars(Step(p))

-----------------------------------------------------------------------------
(* Properties *)

Label ==
    {"idle", "install", "readPrimary", "readBackup", "candidate", "publish",
     "readGuard", "recheckClaim", "recheckGuard", "list", "remove", "load",
     "save", "relPrimary", "relBackup"}

DiskOK ==
    /\ dirs \in 0..(MaxDepth + 1)
    /\ owner \in IdOrNone /\ backup \in IdOrNone
    /\ guard \in [Level -> IdOrNone]
    /\ cand \in [Proc -> 0..MaxDepth]

StoreOK ==
    /\ store \subseteq Id /\ done \subseteq Id
    /\ snap \in [Proc -> SUBSET Id]

ControlOK ==
    /\ crashed \subseteq Proc
    /\ pc \in [Proc -> Label]
    /\ calls \in [Proc -> 0..MaxCalls]
    /\ att \in [Proc -> 0..Retries]

MemoOK ==
    /\ obsP \in [Proc -> IdOrNone] /\ obs \in [Proc -> IdOrNone]
    /\ lvl \in [Proc -> 1..(MaxDepth + 1)]

RemovalOK ==
    /\ rl \in [Proc -> 0..MaxDepth]
    /\ removing \in [Proc -> {"reclaim", "release"}]

TodoOK == todo \in [Proc -> [0..MaxDepth -> SUBSET Entry]]

TypeOK == DiskOK /\ StoreOK /\ ControlOK /\ MemoOK /\ RemovalOK /\ TodoOK

\* "Run synchronous durable side effects under one cross-process owner"
\* (process-exclusive-lock.ts:31): two live processes are never both inside
\* the work that the lock protects.
MutualExclusion ==
    \A p, q \in Proc \ crashed : InWork(p) /\ InWork(q) => p = q

\* As long as no process has died, the contenders never reclaim from each
\* other and never overlap, whatever the interleaving of installs, reads and
\* the entry-by-entry removal of a released lock directory.
ExclusiveWithoutCrash == crashed = {} => MutualExclusion

\* As long as no process has died, the directory names the process that is in
\* the work, in both records: a release that runs always finds its own token.
HolderRecorded ==
    crashed = {} =>
        \A p \in Proc : InWork(p) => dirs > 0 /\ owner = Me(p) /\ backup = Me(p)

\* As long as no process has died, a lock that nobody is using leaves nothing
\* behind: a removal racing with an installation over the emptied directory
\* must not leave a directory that later callers take for a busy lock.
CleanAtRest ==
    crashed = {} /\ (\A p \in Proc : pc[p] = "idle") => dirs = 0

\* A completed mutation is never lost while no process has died: the locked
\* load-modify-save implements an atomic store.
Atomic == INSTANCE AtomicStore
AtomicUntilCrash == [][crashed = {} => Atomic!Next \/ UNCHANGED <<store, done>>]_<<store, done>>

OnDisk(id) == id \in {owner, backup} \cup {guard[l] : l \in Level}

Starts(p) == pc[p] = "install" /\ att[p] = 0
SoleSurvivor(p) == crashed = Proc \ {p}

\* Callers block their whole process in the retry loop (Atomics.wait), so no
\* interleaving of contenders, removers and deaths may keep a call from
\* returning: nesting under guards that others remove is bounded.
CallsReturn == \A p \in Proc : pc[p] # "idle" ~> pc[p] = "idle" \/ p \in crashed

\* "If a reclaimer crashes, the next process nests another guard"
\* (process-lock-claim.ts:158): a directory left behind by processes that are
\* all dead never keeps the survivor out.
DeadReclaimerNeverBlocks ==
    \A p \in Proc :
        /\ SoleSurvivor(p) /\ Starts(p)
        /\ \A id \in Id : Alive(id) => ~OnDisk(id)
        ~> pc[p] = "load"
=============================================================================
