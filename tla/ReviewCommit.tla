----------------------------- MODULE ReviewCommit -----------------------------
(* Evidence Review jobs and the commit of what they decide                     *)
(* (src/utils/evidence-review-engine.ts, -graph-core.ts, -commit-fence.ts and  *)
(* the commit half of skill-evolution.ts).                                     *)
(*                                                                             *)
(* A job reviews one Evidence Bundle against a frozen basis: the revision of   *)
(* the related capability the reviewers read.  Wakes claim its quanta through  *)
(* leases that expire, the commit quantum changes the capability registry, and *)
(* a job whose basis is stale is superseded by a successor.  The job store is  *)
(* one file under one lock; the registry is another, under another lock, and a *)
(* wake can die between the two.  The quanta before the commit (readers,       *)
(* dossiers, author, verifier) follow one lease protocol and are one quantum   *)
(* here, "review".  The registry is KeyedRegistry, which TransitionJournal     *)
(* implements.                                                                 *)
EXTENDS Naturals, Sequences, FiniteSets

CONSTANTS
    Handles,
    Wakes, NoWake,
    Bundles,
    MaxJobs,        \* bound: jobs in the store
    MaxAttempts,    \* DEFAULT_MAX_ATTEMPTS
    MaxRev,         \* bound: operators touch a capability below this revision
    Native          \* the capability that exists before the first review

ASSUME ReviewAssumption ==
    /\ NoWake \notin Wakes
    /\ Native \in Handles
    /\ MaxJobs \in Nat /\ MaxRev \in Nat
    /\ MaxAttempts \in Nat \ {0}

VARIABLES
    rev, drawn, recorded,   \* the capability registry and its audit
    jobs,       \* the job store: a sequence, a job's id is its place
    lock,       \* the wake inside commitUnderLease, which holds the store lock
    wake        \* what each wake is doing

registry == <<rev, drawn, recorded>>
vars == <<registry, jobs, lock, wake>>

Rounds == 1..2
Kinds == {"create", "append", "defer"}

\* the review commit key `${jobId}:${quantumId}`; each round has a commit quantum of its own
Keys == (0..MaxJobs) \X Rounds

\* The read set of a draft is the frozen basis of its job.
Basis == {[key |-> <<j, round>>, handle |-> jobs[j].related, rev |-> jobs[j].rev] :
              j \in DOMAIN jobs, round \in Rounds}

Reg == INSTANCE KeyedRegistry WITH read <- Basis

\* EvidenceReviewJob; quantum is the state of the quantum of the current stage,
\* quanta behind it have succeeded and those ahead are pending.  rev = 0 is the
\* sentinel of a related capability that is missing.
Job == [bundle : Bundles, related : Handles, rev : Nat,
        state : {"active", "completed", "deferred", "superseded", "failed"},
        stage : {"review", "commit"}, round : Rounds,
        quantum : {"pending", "leased", "retry", "failed", "succeeded"},
        lease : Wakes \cup {NoWake}, expired : BOOLEAN, attempts : 0..MaxAttempts,
        draft : Kinds \cup {"none"}, receipt : {"none", "held", "refused"},
        successor : 0..MaxJobs]

\* One call of advanceJob: the claimed job, what it commits and whether it did so itself,
\* and, when it is about to supersede the job, the live revision its plan was made from.
Wake == [at : {"idle", "review", "recover", "fence", "commit", "work", "save", "settle",
               "complete", "refused", "supersede"},
         job : 0..MaxJobs, kind : Kinds \cup {"none"}, did : BOOLEAN, plan : Nat]

Idle == [at |-> "idle", job |-> 0, kind |-> "none", did |-> FALSE, plan |-> 0]

JobIds == 1..Len(jobs)
Open == {j \in JobIds : jobs[j].state = "active"}

\* decideLiveReviewFence: the related capability is not at the frozen revision
Stale(job) == rev[job.related] # job.rev

Key(j) == <<j, jobs[j].round>>

\* the audit entries of the commits of job j
Keyed(j) == {e \in recorded : e.key[1] = j}

NewJob(bundle, related, read) ==
    [bundle |-> bundle, related |-> related, rev |-> read, state |-> "active",
     stage |-> "review", round |-> 1, quantum |-> "pending",
     lease |-> NoWake, expired |-> FALSE, attempts |-> 0,
     draft |-> "none", receipt |-> "none", successor |-> 0]

Init ==
    /\ rev = [h \in Handles |-> IF h = Native THEN 1 ELSE 0]
    /\ drawn = {Native}
    /\ recorded = {}
    /\ jobs = <<>>
    /\ lock = NoWake
    /\ wake = [w \in Wakes |-> Idle]

Free == lock = NoWake
Room == Len(jobs) < MaxJobs

\* The lease, the attempts and the draft of a closed job are never looked at again.
Closed(job, state) ==
    [job EXCEPT !.state = state, !.lease = NoWake, !.expired = FALSE, !.attempts = 0,
                !.draft = "none"]

Goto(w, at) == wake' = [wake EXCEPT ![w].at = at]
Leave(w) == wake' = [wake EXCEPT ![w] = Idle]
Update(j, job) == jobs' = [jobs EXCEPT ![j] = job]

\* Does wake w still own the quantum it claimed?  (the compare-and-set of
\* renewQuantumLease, completeQuantum, failQuantum and releaseQuantum)
Owns(w) ==
    LET job == jobs[wake[w].job] IN
    /\ job.state = "active" /\ job.quantum = "leased"
    /\ job.lease = w /\ ~job.expired

-----------------------------------------------------------------------------
(* Jobs come in and quanta are claimed *)

\* getReviewedOrQueuedBundleIds
Owned(b) ==
    \/ \E j \in JobIds : jobs[j].bundle = b /\ jobs[j].state \in {"active", "deferred", "completed"}
    \/ \E j \in JobIds : jobs[j].bundle = b /\ Keyed(j) # {}

\* ensureJob on a bundle with one related capability (one that names none behaves as
\* one whose related capability never changes)
Admit(b) ==
    /\ Free /\ Room /\ ~Owned(b)
    /\ \E h \in Handles : rev[h] > 0 /\ jobs' = Append(jobs, NewJob(b, h, rev[h]))
    /\ UNCHANGED <<registry, lock, wake>>

RunnableWithoutReclaim(job) ==
    /\ job.state = "active"
    /\ job.quantum \in {"pending", "retry"}

Runnable(job) ==
    /\ job.state = "active"
    /\ job.quantum \in {"pending", "retry"} \/ (job.quantum = "leased" /\ job.expired)

\* The claiming transaction of advanceJob; an expired lease is reclaimed with it.
Claim(w, j) ==
    /\ Free /\ wake[w] = Idle
    /\ j \in JobIds /\ Runnable(jobs[j])
    /\ Update(j, [jobs[j] EXCEPT !.quantum = "leased", !.lease = w, !.expired = FALSE])
    /\ wake' = [wake EXCEPT ![w] =
                   [Idle EXCEPT !.job = j, !.kind = jobs[j].draft,
                                !.at = IF jobs[j].stage = "review" THEN "review" ELSE "recover"]]
    /\ UNCHANGED <<registry, lock>>

\* reconcileStrandedJobs: a job whose review failed for good has no runnable quantum.
Converge(j) ==
    /\ Free /\ j \in Open /\ jobs[j].quantum = "failed"
    /\ Update(j, Closed(jobs[j], "failed"))
    /\ UNCHANGED <<registry, lock, wake>>

-----------------------------------------------------------------------------
(* The review quantum *)

\* What the authority of the bundle lets the draft ask: create, append to the
\* related capability, or defer.
Drafts(job) == {"create", "defer"} \cup (IF job.rev > 0 THEN {"append"} ELSE {})

ReviewEndsLate(w) ==
    LET j == wake[w].job
        done == [jobs[j] EXCEPT !.quantum = "pending", !.lease = NoWake, !.attempts = 0]
    IN
    /\ Free /\ wake[w].at = "review"
    /\ IF jobs[j].state = "active"
       THEN \/ \E kind \in Drafts(jobs[j]) :
                   Update(j, [done EXCEPT !.stage = "commit", !.draft = kind])
            \/ jobs[j].round = 1 /\ Update(j, [done EXCEPT !.round = 2])
       ELSE UNCHANGED jobs
    /\ Leave(w)
    /\ UNCHANGED <<registry, lock>>

\* The verifier accepts or defers, or asks once for a revision: the round-2 quanta
\* replace the commit quantum of round 1 in the same write.
ReviewEnds(w) ==
    LET j == wake[w].job
        done == [jobs[j] EXCEPT !.quantum = "pending", !.lease = NoWake, !.attempts = 0]
    IN
    /\ Free /\ wake[w].at = "review"
    /\ IF Owns(w)
       THEN \/ \E kind \in Drafts(jobs[j]) :
                   Update(j, [done EXCEPT !.stage = "commit", !.draft = kind])
            \/ jobs[j].round = 1 /\ Update(j, [done EXCEPT !.round = 2])
       ELSE UNCHANGED jobs
    /\ Leave(w)
    /\ UNCHANGED <<registry, lock>>

-----------------------------------------------------------------------------
(* The commit quantum: executeCommit, commitTransitionQuantum, commitUnderLease *)

\* recoverCommittedTransition: the audit is asked first
Recover(w) ==
    /\ wake[w].at = "recover"
    /\ Goto(w, IF Reg!Recorded(Key(wake[w].job)) THEN "settle" ELSE "fence")
    /\ UNCHANGED <<registry, jobs, lock>>

ToSupersede(w) ==
    wake' = [wake EXCEPT ![w].at = "supersede",
                         ![w].plan = rev[jobs[wake[w].job].related]]

\* The early fence and the hook before the commit.  A draft that appends to a
\* capability retired between the two exceeds the bundle's authority and defers.
Fence(w) ==
    LET job == jobs[wake[w].job] IN
    /\ wake[w].at = "fence"
    /\ \/ Stale(job) /\ ToSupersede(w)
       \/ ~Stale(job) /\ Goto(w, "commit")
       \/ /\ wake[w].kind = "append" /\ rev[job.related] = 0
          /\ wake' = [wake EXCEPT ![w].at = "commit", ![w].kind = "defer"]
    /\ UNCHANGED <<registry, jobs, lock>>

LockUnchecked(w) ==
    /\ Free /\ wake[w].at = "commit"
    /\ lock' = w /\ Goto(w, "work")
    /\ UNCHANGED <<registry, jobs>>

\* commitUnderLease takes the store lock and renews the lease, or finds it lost.
Lock(w) ==
    /\ Free /\ wake[w].at = "commit"
    /\ IF Owns(w) THEN lock' = w /\ Goto(w, "work") ELSE Leave(w) /\ UNCHANGED lock
    /\ UNCHANGED <<registry, jobs>>

\* the transition of the draft
Apply(w) ==
    LET j == wake[w].job IN
    CASE wake[w].kind = "create" -> \E h \in Handles : Reg!Create(Key(j), h)
      [] wake[w].kind = "append" -> Reg!Change(Key(j), "append", jobs[j].related)
      [] wake[w].kind = "defer" -> Reg!Defer(Key(j))

\* applyCapabilityTransition under the store lock.  The registry may have changed since
\* the fence, or the route of a new capability be taken; then the store is not written
\* and the lock is released.  That the key is in the audit already, which the code
\* looks up once more here, cannot be (LockedByOwner).
Work(w) ==
    LET j == wake[w].job IN
    /\ wake[w].at = "work"
    /\ \/ /\ Apply(w)
          /\ wake' = [wake EXCEPT ![w].at = "save", ![w].did = TRUE]
          /\ UNCHANGED lock
       \/ /\ wake[w].kind = "append" /\ Stale(jobs[j])
          /\ ToSupersede(w)
          /\ lock' = NoWake
          /\ UNCHANGED registry
       \/ /\ wake[w].kind = "create"
          /\ wake' = [wake EXCEPT ![w].at = "refused"]
          /\ lock' = NoWake
          /\ UNCHANGED registry
    /\ UNCHANGED jobs

\* The receipt is written with the job and the lock released.
Save(w) ==
    /\ wake[w].at = "save"
    /\ Update(wake[w].job, [jobs[wake[w].job] EXCEPT !.receipt = "held", !.expired = FALSE])
    /\ lock' = NoWake
    /\ Goto(w, "settle")
    /\ UNCHANGED registry

\* the revision of the related capability the job expects after its own commit; a
\* recovered commit folds in whatever the revision is by now
Expected(w) ==
    LET job == jobs[wake[w].job] IN
    IF wake[w].kind # "append" THEN job.rev
    ELSE IF wake[w].did THEN job.rev + 1 ELSE rev[job.related]

\* schedulePostCommitReassessmentIfNeeded: a later change of the related capability
\* is reviewed by a job of its own
Settle(w) ==
    LET j == wake[w].job
        live == rev[jobs[j].related]
    IN
    /\ Free /\ wake[w].at = "settle"
    /\ IF live # Expected(w) /\ jobs[j].successor = 0
       THEN /\ Room
            /\ jobs' = Append([jobs EXCEPT ![j].successor = Len(jobs) + 1],
                              NewJob(jobs[j].bundle, jobs[j].related, live))
       ELSE UNCHANGED jobs
    /\ Goto(w, "complete")
    /\ UNCHANGED <<registry, lock>>

CompleteUnchecked(w) ==
    LET j == wake[w].job IN
    /\ Free /\ wake[w].at \in {"complete", "refused"}
    /\ IF jobs[j].state = "active"
       THEN Update(j, [Closed(jobs[j], IF wake[w].kind = "defer"
                                       THEN "deferred" ELSE "completed")
                       EXCEPT !.quantum = "succeeded",
                              !.receipt = IF wake[w].at = "refused" THEN "refused" ELSE "held"])
       ELSE UNCHANGED jobs
    /\ Leave(w)
    /\ UNCHANGED <<registry, lock>>

Complete(w) ==
    LET j == wake[w].job IN
    /\ Free /\ wake[w].at \in {"complete", "refused"}
    /\ IF Owns(w)
       THEN Update(j, [Closed(jobs[j], IF wake[w].kind = "defer"
                                       THEN "deferred" ELSE "completed")
                       EXCEPT !.quantum = "succeeded",
                              !.receipt = IF wake[w].at = "refused" THEN "refused" ELSE "held"])
       ELSE UNCHANGED jobs
    /\ Leave(w)
    /\ UNCHANGED <<registry, lock>>

FailOneTooMany(w) ==
    LET j == wake[w].job
        retried == [jobs[j] EXCEPT !.attempts = @ + 1, !.lease = NoWake, !.quantum = "retry"]
    IN
    /\ Free /\ wake[w].at \in {"review", "fence", "settle"}
    /\ IF Owns(w) /\ jobs[j].attempts <= MaxAttempts THEN Update(j, retried) ELSE UNCHANGED jobs
    /\ Leave(w)
    /\ UNCHANGED <<registry, lock>>

\* The quantum throws: a bounded number of retries, then the quantum fails, and with
\* it the job when it is the commit.  A wake that lost its lease writes nothing.
Fail(w) ==
    LET j == wake[w].job
        retried == [jobs[j] EXCEPT !.attempts = @ + 1, !.lease = NoWake, !.quantum = "retry"]
        failed == [retried EXCEPT !.quantum = "failed"]
    IN
    /\ Free /\ wake[w].at \in {"review", "fence", "settle"}
    /\ CASE ~Owns(w) -> UNCHANGED jobs
         [] Owns(w) /\ retried.attempts < MaxAttempts -> Update(j, retried)
         [] Owns(w) /\ retried.attempts = MaxAttempts ->
                Update(j, IF failed.stage = "commit" THEN Closed(failed, "failed") ELSE failed)
    /\ Leave(w)
    /\ UNCHANGED <<registry, lock>>

\* A shutdown aborts the quantum before its commit: the lease is given back.
Release(w) ==
    LET j == wake[w].job IN
    /\ Free /\ wake[w].at \in {"review", "recover", "fence", "commit"}
    /\ IF Owns(w)
       THEN Update(j, [jobs[j] EXCEPT !.quantum = "pending", !.lease = NoWake])
       ELSE UNCHANGED jobs
    /\ Leave(w)
    /\ UNCHANGED <<registry, lock>>

-----------------------------------------------------------------------------
(* Stale jobs *)

\* markJobSuperseded and createSuccessorReviewJob: one write of the store
Succeeded(j, read) ==
    Append([jobs EXCEPT ![j] = [Closed(@, "superseded") EXCEPT !.successor = Len(jobs) + 1]],
           NewJob(jobs[j].bundle, jobs[j].related, read))

\* fenceStaleActiveJobsBeforeFairAdvance, at the start of a wake: the job and the
\* registry are read, then the store is locked
PlanFence(w, j) ==
    /\ wake[w] = Idle
    /\ j \in Open /\ jobs[j].quantum # "failed" /\ Stale(jobs[j])
    /\ wake' = [wake EXCEPT ![w] = [Idle EXCEPT !.at = "supersede", !.job = j,
                                                !.plan = rev[jobs[j].related]]]
    /\ UNCHANGED <<registry, jobs, lock>>

\* supersedeStaleReviewJob: whatever the job has become meanwhile
Supersede(w) ==
    LET j == wake[w].job IN
    /\ Free /\ Room /\ wake[w].at = "supersede"
    /\ jobs' = Succeeded(j, wake[w].plan)
    /\ Leave(w)
    /\ UNCHANGED <<registry, lock>>

\* createDeferredReviewSuccessor
Reactivate(j) ==
    /\ Free /\ Room
    /\ j \in JobIds /\ jobs[j].state = "deferred" /\ Stale(jobs[j])
    /\ jobs' = Succeeded(j, rev[jobs[j].related])
    /\ UNCHANGED <<registry, lock, wake>>

-----------------------------------------------------------------------------
(* The environment *)

\* An operator retires a capability that a job read, or bootstrap refreshes what it
\* refers to (transitions of other capabilities change no job).
Operate(h) ==
    /\ \E j \in JobIds : jobs[j].related = h
    /\ Reg!Retire(h) \/ (rev[h] < MaxRev /\ Reg!Touch(h))
    /\ UNCHANGED <<jobs, lock, wake>>

\* The process of a wake dies; its store lock is recovered by the next caller.
Crash(w) ==
    /\ wake[w] # Idle
    /\ Leave(w)
    /\ lock' = IF lock = w THEN NoWake ELSE lock
    /\ UNCHANGED <<registry, jobs>>

\* the wake that leased the quantum still runs it and renews the lease
Held(j) == \E w \in Wakes : jobs[j].lease = w /\ wake[w].job = j /\ wake[w].at # "supersede"

\* A lease runs out because nobody renews it any more, or because its wake is stalled
\* past the renewal timer.
RunsOut(j) ==
    /\ Free
    /\ j \in Open /\ jobs[j].quantum = "leased" /\ ~jobs[j].expired
    /\ Update(j, [jobs[j] EXCEPT !.expired = TRUE])
    /\ UNCHANGED <<registry, lock, wake>>

Expire(j) == j \in Open /\ ~Held(j) /\ RunsOut(j)
Stall(j) == j \in Open /\ Held(j) /\ RunsOut(j)

Execute(w) ==
    \/ ReviewEnds(w) \/ Recover(w) \/ Fence(w) \/ Lock(w) \/ Work(w) \/ Save(w)
    \/ Settle(w) \/ Complete(w) \/ Supersede(w) \/ Fail(w)

Next ==
    \/ \E b \in Bundles : Admit(b)
    \/ \E w \in Wakes :
           \/ Execute(w) \/ Release(w) \/ Crash(w)
           \/ \E j \in JobIds : Claim(w, j) \/ PlanFence(w, j)
    \/ \E j \in JobIds : Converge(j) \/ Expire(j) \/ Stall(j) \/ Reactivate(j)
    \/ \E h \in Handles : Operate(h)

Spec == Init /\ [][Next]_vars

\* Wakes come again and again (the heartbeat), the fair rotation of quanta picks every
\* runnable job in turn, what a wake runs ends, and time passes: leases that nobody
\* renews run out.  Nothing says that a provider answers well rather than fails.
FairSpec ==
    /\ Spec
    /\ \A w \in Wakes : WF_vars(Execute(w))
    /\ \A j \in 1..MaxJobs :
           /\ SF_vars(\E w \in Wakes : Claim(w, j))
           /\ WF_vars(Converge(j))
           /\ WF_vars(Expire(j))

-----------------------------------------------------------------------------
(* Properties *)

TypeOK ==
    /\ rev \in [Handles -> Nat] /\ drawn \subseteq Handles
    /\ recorded \subseteq [key : Keys, kind : Kinds]
    /\ jobs \in Seq(Job) /\ Len(jobs) \in 0..MaxJobs
    /\ lock \in Wakes \cup {NoWake}
    /\ wake \in [Wakes -> Wake]

Changes(j) == {e \in Keyed(j) : e.kind # "defer"}

\* A job is committed only under the last draft its verifier accepted: the round-1
\* draft of a job that was sent back for revision never reaches the registry.
OneDraft ==
    \A j \in JobIds : \A e \in Keyed(j) : e.key = Key(j) /\ jobs[j].stage = "commit"

\* A receipt, and with it a job that ended as completed or deferred, is backed by the
\* audit, unless the registry refused the draft.
Backed ==
    \A j \in JobIds :
        /\ jobs[j].state \in {"completed", "deferred"} => jobs[j].receipt # "none"
        /\ jobs[j].receipt = "held" => Reg!Recorded(Key(j))
        /\ jobs[j].receipt = "refused" => Keyed(j) = {}

\* The lock is held by a wake that still owns its quantum, and what it is about to
\* commit is not in the audit, whoever else ran the quantum before.
LockedByOwner ==
    lock # NoWake =>
        /\ wake[lock].at \in {"work", "save"} /\ Owns(lock)
        /\ wake[lock].at = "work" => ~Reg!Recorded(Key(wake[lock].job))

\* Once crashes, shutdowns and stalls stop, every active job ends, whatever they left
\* behind (or a wake waits for room, which the bound MaxJobs denies it).
Fault ==
    \/ \E w \in Wakes : Crash(w) \/ Release(w)
    \/ \E j \in JobIds : Stall(j)

Waiting == ~Room /\ \E w \in Wakes : wake[w].at \in {"supersede", "settle"}

JobsEnd ==
    <>[][~Fault]_vars => \A j \in 1..MaxJobs : j \in Open ~> j \notin Open \/ Waiting

\* A job whose transition is in the audit is never superseded, so that no successor
\* commits the same evidence again.
CommittedStays ==
    \A j \in JobIds : jobs[j].state = "superseded" => Changes(j) = {}

\* A bundle has at most one active job beside the reassessments of committed ones.
OneOwner ==
    \A j, k \in Open : jobs[j].bundle = jobs[k].bundle => j = k
=============================================================================
