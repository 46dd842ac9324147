------------------------ MODULE ReviewCommit_proofs ------------------------
(***************************************************************************)
(* Theorems about ReviewCommit, for any number of jobs, wakes, bundles,    *)
(* capabilities and retries:                                               *)
(*  - type correctness;                                                    *)
(*  - a job is committed only under the last draft its verifier accepted;  *)
(*  - a receipt is backed by the audit;                                    *)
(*  - the store lock is held by a wake that owns its quantum, and what it  *)
(*    is about to commit is not in the audit.                              *)
(***************************************************************************)
EXTENDS ReviewCommit, SequenceTheorems, TLAPS

\* What IInv says of ownership: the compare-and-set of a quantum that wake w runs.
Holds(job, w) ==
    /\ job.state = "active" /\ job.quantum = "leased"
    /\ job.lease = w /\ ~job.expired

Filed(j) == Reg!Recorded(Key(j))

\* Where a wake runs a commit quantum, where nothing of it can be in the audit as long
\* as it holds the quantum, and where its transition is there for good.
Committing == {"recover", "fence", "commit", "work", "save", "settle", "complete", "refused"}
Clear == {"fence", "commit", "work", "refused"}
Done  == {"save", "settle", "complete"}
Inside == {"work", "save"}

\* What a job x at place j has to do with the audit.
Fits(j, x) ==
    /\ \A e \in Keyed(j) : e.key = <<j, x.round>> /\ x.stage = "commit"
    /\ x.state \in {"completed", "deferred"} => x.receipt # "none"
    /\ x.receipt = "held" => Reg!Recorded(<<j, x.round>>)
    /\ x.receipt = "refused" => Keyed(j) = {} /\ x.state # "active"
    /\ x.state = "active" /\ x.stage = "commit" => x.draft \in Kinds
    /\ x.quantum \in {"pending", "leased", "retry"} => x.attempts < MaxAttempts

JobFit(j) == Fits(j, jobs[j])

WakeFit(w) ==
    LET j == wake[w].job IN
    /\ wake[w].at # "idle" => j \in JobIds
    /\ wake[w].at = "review" /\ Holds(jobs[j], w) => jobs[j].stage = "review"
    /\ wake[w].at \in Committing => jobs[j].stage = "commit" /\ wake[w].kind \in Kinds
    /\ wake[w].at \in Clear /\ Holds(jobs[j], w) => ~Filed(j)
    /\ wake[w].at \in Done => Filed(j)
    /\ wake[w].at \in Inside <=> lock = w
    /\ wake[w].at \in Inside => Holds(jobs[j], w)

KeysKnown == \A e \in recorded : e.key[1] \in JobIds

IInv ==
    /\ TypeOK /\ KeysKnown
    /\ \A j \in JobIds : JobFit(j)
    /\ \A w \in Wakes : WakeFit(w)

LEMMA OwnsHolds ==
    ASSUME NEW w \in Wakes
    PROVE  Owns(w) <=> Holds(jobs[wake[w].job], w)
BY DEF Owns, Holds

LEMMA IInvImplies == IInv => TypeOK /\ OneDraft /\ Backed /\ LockedByOwner
<1> SUFFICES ASSUME IInv PROVE OneDraft /\ Backed /\ LockedByOwner
  BY DEF IInv
<1>1. OneDraft
  BY DEF IInv, JobFit, Fits, OneDraft, Key
<1>2. Backed
  BY DEF IInv, JobFit, Fits, Backed, Key
<1>3. ASSUME lock # NoWake
      PROVE  /\ wake[lock].at \in {"work", "save"} /\ Owns(lock)
             /\ wake[lock].at = "work" => ~Reg!Recorded(Key(wake[lock].job))
  <2>1. lock \in Wakes /\ WakeFit(lock)
    BY <1>3 DEF IInv, TypeOK
  <2> QED BY <2>1, OwnsHolds DEF WakeFit, Inside, Clear, Filed
<1> QED BY <1>1, <1>2, <1>3 DEF LockedByOwner

-----------------------------------------------------------------------------
(* Values                                                                  *)

LEMMA IdleType == Idle \in Wake /\ Idle.at = "idle" /\ Idle.job = 0 /\ Idle.kind = "none"
BY ReviewAssumption DEF Idle, Wake

LEMMA NewJobType ==
    ASSUME NEW b \in Bundles, NEW h \in Handles, NEW read \in Nat
    PROVE  LET x == NewJob(b, h, read)
           IN  /\ x \in Job /\ x.state = "active" /\ x.stage = "review"
               /\ x.receipt = "none" /\ x.attempts = 0 /\ x.lease = NoWake
BY ReviewAssumption DEF NewJob, Job, Rounds

LEMMA ClosedType ==
    ASSUME NEW x \in Job, NEW state \in {"completed", "deferred", "superseded", "failed"}
    PROVE  LET y == Closed(x, state)
           IN  /\ y \in Job /\ y.state = state /\ y.stage = x.stage /\ y.round = x.round
               /\ y.receipt = x.receipt /\ y.attempts = 0
<1> DEFINE y == Closed(x, state)
<1>1. 0 \in 0..MaxAttempts
  BY ReviewAssumption
<1>2. /\ y.state = state /\ y.stage = x.stage /\ y.round = x.round
      /\ y.receipt = x.receipt /\ y.attempts = 0
  BY DEF Closed, Job
<1>3. y \in Job
  BY <1>1 DEF Closed, Job
<1> QED BY <1>2, <1>3

\* What a step may do to a job, the claim of wake w included.
Evolves(a, b, w) ==
    /\ b \in Job
    /\ a.stage = "commit" => b.stage = "commit" /\ b.round = a.round
    /\ a.state # "active" => b.state # "active"
    /\ \A u \in Wakes : Holds(b, u) => u = w \/ (Holds(a, u) /\ b.stage = a.stage)

LEMMA EvolvesSame ==
    ASSUME NEW x \in Job, NEW w
    PROVE  Evolves(x, x, w)
BY DEF Evolves

LEMMA FindsFit ==
    ASSUME IInv
    PROVE  /\ TypeOK /\ KeysKnown
           /\ jobs \in Seq(Job) /\ Len(jobs) \in Nat /\ Len(jobs) <= MaxJobs
           /\ \A j \in JobIds : jobs[j] \in Job /\ JobFit(j)
           /\ \A w \in Wakes : wake[w] \in Wake /\ WakeFit(w)
           /\ NoWake \notin Wakes
BY ReviewAssumption DEF IInv, TypeOK, JobIds

-----------------------------------------------------------------------------
(* Steps on the store                                                      *)

\* A step that leaves the audit alone keeps what holds of a wake that does nothing,
\* because ownership is never given back and a commit stage is never left.
LEMMA OthersKeep ==
    ASSUME IInv, NEW w \in Wakes \cup {NoWake}, NEW u \in Wakes, u # w,
           wake'[u] = wake[u], recorded' = recorded,
           JobIds \subseteq JobIds', \A i \in JobIds : Evolves(jobs[i], jobs'[i], w),
           \/ jobs' = jobs /\ lock' = lock
           \/ lock \in {w, NoWake} /\ lock' \in {w, NoWake}
    PROVE  WakeFit(u)'
<1> DEFINE j == wake[u].job
<1>1. WakeFit(u) /\ u # NoWake
  BY FindsFit
<1>2. CASE wake[u].at = "idle"
  BY <1>1, <1>2 DEF WakeFit, Committing, Clear, Done, Inside
<1>3. CASE wake[u].at # "idle"
  <2>1. j \in JobIds /\ Evolves(jobs[j], jobs'[j], w)
    BY <1>1, <1>3 DEF WakeFit
  <2>2. wake[u].at \in Committing =>
          jobs[j].stage = "commit" /\ jobs'[j].stage = "commit" /\ jobs'[j].round = jobs[j].round
    BY <1>1, <2>1 DEF WakeFit, Evolves
  <2>3. wake[u].at \in Committing => (Filed(j)' <=> Filed(j))
    BY <2>2 DEF Filed, Key, Reg!Recorded
  <2>4. Holds(jobs'[j], u) => Holds(jobs[j], u) /\ jobs'[j].stage = jobs[j].stage
    BY <2>1 DEF Evolves
  <2>5. wake[u].at \in Inside => jobs' = jobs /\ lock' = lock
    BY <1>1 DEF WakeFit
  <2>6. wake[u].at \in Clear \cup Done \cup Inside => wake[u].at \in Committing
    BY DEF Clear, Done, Inside, Committing
  <2>7. wake[u].at \in Inside <=> lock' = u
    BY <1>1 DEF WakeFit
  <2> QED BY <1>1, <2>1, <2>2, <2>3, <2>4, <2>5, <2>6, <2>7 DEF WakeFit
<1> QED BY <1>2, <1>3

LEMMA FitsKept ==
    ASSUME NEW i, NEW x, Fits(i, x), recorded' = recorded
    PROVE  Fits(i, x)'
BY DEF Fits, Keyed, Reg!Recorded

LEMMA NewFits ==
    ASSUME IInv, NEW i, i \notin JobIds, NEW x \in Job, recorded' = recorded,
           x.state = "active", x.stage = "review", x.receipt = "none", x.attempts = 0
    PROVE  Fits(i, x)'
<1>1. Keyed(i)' = {}
  BY DEF IInv, KeysKnown, Keyed
<1> QED BY <1>1, ReviewAssumption DEF Fits

LEMMA IdleFit ==
    ASSUME NEW w \in Wakes, wake'[w].at = "idle", lock' # w
    PROVE  WakeFit(w)'
BY DEF WakeFit, Committing, Clear, Done, Inside

\* A step of the wake w, or of no wake, that writes the job j and perhaps a new one,
\* under the store lock.
Added(y) == /\ y \in Job /\ y.state = "active" /\ y.stage = "review"
            /\ y.receipt = "none" /\ y.attempts = 0 /\ y.lease = NoWake

LEMMA UpdateSeq ==
    ASSUME IInv, NEW j \in JobIds, NEW x \in Job
    PROVE  LET s == [jobs EXCEPT ![j] = x]
           IN  /\ s \in Seq(Job) /\ Len(s) = Len(jobs)
               /\ \A i \in JobIds : s[i] = IF i = j THEN x ELSE jobs[i]
<1>1. jobs \in Seq(Job) /\ j \in 1..Len(jobs)
  BY FindsFit DEF JobIds
<1> QED BY <1>1, ExceptSeq DEF JobIds

LEMMA StoreStep ==
    ASSUME IInv, NEW w \in Wakes \cup {NoWake}, NEW j \in JobIds, NEW x \in Job, NEW y,
           Evolves(jobs[j], x, w), Fits(j, x),
           \/ jobs' = [jobs EXCEPT ![j] = x]
           \/ Room /\ Added(y) /\ jobs' = Append([jobs EXCEPT ![j] = x], y),
           UNCHANGED registry, lock \in {w, NoWake}, lock' \in {w, NoWake},
           wake' \in [Wakes -> Wake], \A u \in Wakes : u # w => wake'[u] = wake[u],
           w \in Wakes => WakeFit(w)'
    PROVE  IInv'
<1> DEFINE s == [jobs EXCEPT ![j] = x]
<1>1. /\ TypeOK /\ KeysKnown /\ jobs \in Seq(Job) /\ Len(jobs) \in Nat /\ Len(jobs) <= MaxJobs
      /\ \A i \in JobIds : jobs[i] \in Job /\ JobFit(i)
  BY FindsFit
<1>2. /\ s \in Seq(Job) /\ Len(s) = Len(jobs)
      /\ \A i \in JobIds : s[i] = IF i = j THEN x ELSE jobs[i]
  BY UpdateSeq
<1>r. recorded' = recorded /\ rev' = rev /\ drawn' = drawn
  BY DEF registry
<1> HIDE DEF s
<1>3. /\ jobs' \in Seq(Job) /\ Len(jobs') \in 0..MaxJobs /\ JobIds \subseteq JobIds'
      /\ \A i \in JobIds : jobs'[i] = IF i = j THEN x ELSE jobs[i]
      /\ \A i \in JobIds' : i \notin JobIds => JobFit(i)'
  <2>1. CASE jobs' = s
    BY <2>1, <1>1, <1>2 DEF JobIds
  <2>2. CASE Room /\ Added(y) /\ jobs' = Append(s, y)
    <3>1. /\ jobs' \in Seq(Job) /\ Len(jobs') = Len(jobs) + 1
          /\ \A i \in 1..Len(jobs) : jobs'[i] = s[i]
          /\ jobs'[Len(jobs) + 1] = y
      BY <2>2, <1>2, AppendProperties DEF Added
    <3>2. Len(jobs') \in 0..MaxJobs /\ JobIds \subseteq JobIds'
      BY <3>1, <2>2, <1>1, ReviewAssumption DEF Room, JobIds
    <3>3. ASSUME NEW i \in JobIds', i \notin JobIds PROVE JobFit(i)'
      <4>1. i = Len(jobs) + 1
        BY <3>1, <3>3, <1>1 DEF JobIds
      <4>2. jobs'[i] = y
        BY <3>1, <4>1
      <4>3. Fits(i, y)'
        <5>1. i \notin JobIds /\ recorded' = recorded
          BY <3>3, <1>r
        <5>2. /\ y \in Job /\ y.state = "active" /\ y.stage = "review"
              /\ y.receipt = "none" /\ y.attempts = 0
          BY <2>2 DEF Added
        <5> QED BY <5>1, <5>2, NewFits
      <4> QED BY <4>2, <4>3 DEF JobFit, Fits
    <3> QED BY <3>1, <3>2, <3>3, <1>2 DEF JobIds
  <2> QED BY <2>1, <2>2 DEF s
<1>4. TypeOK'
  BY <1>1, <1>3, <1>r DEF TypeOK
<1>5. KeysKnown'
  BY <1>1, <1>3, <1>r DEF KeysKnown
<1>6. ASSUME NEW i \in JobIds' PROVE JobFit(i)'
  <2>1. CASE i = j
    <3>1. Fits(j, x)' /\ jobs'[i] = x
      BY <2>1, <1>3, <1>r, FitsKept
    <3> QED BY <2>1, <3>1 DEF JobFit, Fits
  <2>2. CASE i \in JobIds /\ i # j
    BY <2>2, <1>1, <1>3, <1>r, FitsKept DEF JobFit, Fits
  <2>3. CASE i \notin JobIds
    BY <2>3, <1>3
  <2> QED BY <2>1, <2>2, <2>3
<1>7. ASSUME NEW u \in Wakes PROVE WakeFit(u)'
  <2>1. \A i \in JobIds : Evolves(jobs[i], jobs'[i], w)
    BY <1>1, <1>3, EvolvesSame
  <2> QED BY <2>1, <1>3, <1>r, OthersKeep
<1> QED BY <1>4, <1>5, <1>6, <1>7 DEF IInv

\* The wake w writes the job j, and perhaps a new one, and goes on as z.
LEMMA UpdateStep ==
    ASSUME IInv, NEW w \in Wakes, NEW z \in Wake, NEW j \in JobIds, NEW x \in Job,
           Evolves(jobs[j], x, w), Fits(j, x), jobs' = [jobs EXCEPT ![j] = x],
           wake' = [wake EXCEPT ![w] = z], UNCHANGED registry,
           lock \in {w, NoWake}, lock' = NoWake, WakeFit(w)'
    PROVE  IInv'
<1>1. /\ wake' \in [Wakes -> Wake] /\ w \in Wakes \cup {NoWake}
      /\ \A u \in Wakes : u # w => wake'[u] = wake[u]
  BY FindsFit DEF TypeOK
<1> QED BY <1>1, StoreStep

LEMMA GrowStep ==
    ASSUME IInv, NEW w \in Wakes, NEW z \in Wake, NEW j \in JobIds, NEW x \in Job, NEW y,
           Evolves(jobs[j], x, w), Fits(j, x),
           Room, Added(y), jobs' = Append([jobs EXCEPT ![j] = x], y),
           wake' = [wake EXCEPT ![w] = z], UNCHANGED registry,
           lock \in {w, NoWake}, lock' = NoWake, WakeFit(w)'
    PROVE  IInv'
<1>1. /\ wake' \in [Wakes -> Wake] /\ w \in Wakes \cup {NoWake}
      /\ \A u \in Wakes : u # w => wake'[u] = wake[u]
  BY FindsFit DEF TypeOK
<1> QED BY <1>1, StoreStep

\* A step of the wake w that leaves the store alone.
LEMMA WakeStep ==
    ASSUME IInv, NEW w \in Wakes, NEW z \in Wake, wake' = [wake EXCEPT ![w] = z],
           UNCHANGED <<registry, jobs>>,
           lock' = lock \/ (lock \in {w, NoWake} /\ lock' \in {w, NoWake}),
           WakeFit(w)'
    PROVE  IInv'
<1>1. /\ TypeOK /\ KeysKnown
      /\ \A i \in JobIds : jobs[i] \in Job /\ JobFit(i)
  BY FindsFit
<1>r. recorded' = recorded /\ rev' = rev /\ drawn' = drawn /\ jobs' = jobs
  BY DEF registry
<1>2. lock' \in Wakes \cup {NoWake} /\ wake' \in [Wakes -> Wake]
  BY <1>1 DEF TypeOK
<1>3. TypeOK' /\ KeysKnown'
  BY <1>1, <1>2, <1>r DEF TypeOK, KeysKnown, JobIds
<1>4. ASSUME NEW i \in JobIds' PROVE JobFit(i)'
  <2>1. i \in JobIds /\ Fits(i, jobs[i])
    BY <1>1, <1>r DEF JobIds, JobFit
  <2> QED BY <2>1, <1>r DEF JobFit, Fits, Keyed, Reg!Recorded
<1>5. ASSUME NEW u \in Wakes, u # w PROVE WakeFit(u)'
  <2>1. \A i \in JobIds : Evolves(jobs[i], jobs'[i], w)
    BY <1>1, <1>r, EvolvesSame
  <2>2. wake'[u] = wake[u] /\ JobIds \subseteq JobIds'
    BY <1>1, <1>5, <1>r DEF TypeOK, JobIds
  <2> QED BY <2>1, <2>2, <1>5, <1>r, OthersKeep
<1> QED BY <1>3, <1>4, <1>5 DEF IInv

\* Where a wake goes without writing anything.
LEMMA GotoStep ==
    ASSUME IInv, NEW w \in Wakes, NEW z \in Wake, wake' = [wake EXCEPT ![w] = z],
           UNCHANGED <<registry, jobs>>,
           lock' = lock \/ (lock \in {w, NoWake} /\ lock' \in {w, NoWake}), lock' # w,
           z.at # "review", z.at \notin Inside,
           z.at # "idle" => z.job \in JobIds,
           z.at \in Committing => jobs[z.job].stage = "commit" /\ z.kind \in Kinds,
           z.at \in Clear /\ Holds(jobs[z.job], w) => ~Filed(z.job),
           z.at \in Done => Filed(z.job)
    PROVE  IInv'
<1>1. wake'[w] = z
  BY FindsFit DEF TypeOK
<1>r. recorded' = recorded /\ jobs' = jobs
  BY DEF registry
<1>2. WakeFit(w)'
  BY <1>1, <1>r DEF WakeFit, JobIds, Filed, Key, Reg!Recorded
<1> QED BY <1>2, WakeStep

LEMMA LeaveStep ==
    ASSUME IInv, NEW w \in Wakes, Leave(w), UNCHANGED <<registry, jobs>>,
           lock' = lock \/ (lock \in {w, NoWake} /\ lock' \in {w, NoWake}), lock' # w
    PROVE  IInv'
BY IdleType, GotoStep DEF Leave, Committing, Clear, Done, Inside

\* The wake that a step finds.
LEMMA FindsWake ==
    ASSUME IInv, NEW w \in Wakes
    PROVE  /\ TypeOK /\ wake[w] \in Wake /\ WakeFit(w) /\ w # NoWake
           /\ wake[w].at # "idle" =>
                wake[w].job \in JobIds /\ jobs[wake[w].job] \in Job /\ JobFit(wake[w].job)
           /\ Owns(w) <=> Holds(jobs[wake[w].job], w)
<1>1. TypeOK /\ wake[w] \in Wake /\ WakeFit(w) /\ w # NoWake
  BY FindsFit
<1>2. wake[w].at # "idle" => wake[w].job \in JobIds
  BY <1>1 DEF WakeFit
<1> QED BY <1>1, <1>2, FindsFit, OwnsHolds

LEMMA GotoType ==
    ASSUME NEW z \in Wake,
           NEW at \in {"idle", "review", "recover", "fence", "commit", "work", "save", "settle",
                       "complete", "refused", "supersede"}
    PROVE  LET y == [z EXCEPT !.at = at]
           IN  /\ y \in Wake /\ y.at = at /\ y.job = z.job /\ y.kind = z.kind
BY DEF Wake

\* A closed job keeps its place in the audit and is owned by nobody.
LEMMA ClosedFits ==
    ASSUME NEW j, NEW a \in Job, NEW w, Fits(j, a), NEW b \in Job,
           b.state \in {"superseded", "failed"}, b.stage = a.stage, b.round = a.round,
           b.receipt = a.receipt, b.attempts = 0
    PROVE  Fits(j, b) /\ Evolves(a, b, w)
<1>1. Fits(j, b)
  BY ReviewAssumption DEF Fits
<1>2. Evolves(a, b, w)
  BY DEF Evolves, Holds
<1> QED BY <1>1, <1>2

-----------------------------------------------------------------------------
(* Jobs come in and quanta are claimed                                     *)

LEMMA InitSound == Init => IInv
<1> SUFFICES ASSUME Init PROVE IInv
  OBVIOUS
<1>1. jobs = <<>> /\ recorded = {} /\ lock = NoWake /\ wake = [w \in Wakes |-> Idle]
  BY DEF Init
<1>2. JobIds = {}
  BY <1>1 DEF JobIds
<1>3. TypeOK
  <2>1. jobs \in Seq(Job) /\ Len(jobs) \in 0..MaxJobs
    BY <1>1, ReviewAssumption
  <2>2. rev \in [Handles -> Nat] /\ drawn \subseteq Handles
    BY ReviewAssumption DEF Init
  <2>3. wake \in [Wakes -> Wake]
    BY <1>1, IdleType
  <2> QED BY <2>1, <2>2, <2>3, <1>1 DEF TypeOK
<1>4. ASSUME NEW w \in Wakes PROVE WakeFit(w)
  <2>1. wake[w].at = "idle" /\ lock # w
    BY <1>1, IdleType, ReviewAssumption
  <2> QED BY <2>1 DEF WakeFit, Committing, Clear, Done, Inside
<1> QED BY <1>1, <1>2, <1>3, <1>4 DEF IInv, KeysKnown

LEMMA AdmitSound ==
    ASSUME IInv, NEW b \in Bundles, Admit(b)
    PROVE  IInv'
<1>1. PICK h \in Handles : jobs' = Append(jobs, NewJob(b, h, rev[h]))
  BY DEF Admit
<1>2. /\ TypeOK /\ KeysKnown /\ jobs \in Seq(Job) /\ Len(jobs) \in Nat
      /\ \A i \in JobIds : jobs[i] \in Job /\ JobFit(i)
      /\ \A w \in Wakes : wake[w] \in Wake /\ WakeFit(w)
      /\ NoWake \notin Wakes
  BY FindsFit
<1>y. PICK y : y = NewJob(b, h, rev[h])
  OBVIOUS
<1>3. Added(y)
  BY <1>2, <1>y, NewJobType DEF Added, TypeOK
<1>4. /\ jobs' \in Seq(Job) /\ Len(jobs') = Len(jobs) + 1
      /\ \A i \in 1..Len(jobs) : jobs'[i] = jobs[i]
      /\ jobs'[Len(jobs) + 1] = y
  BY <1>1, <1>2, <1>3, <1>y, AppendProperties DEF Added
<1>5. UNCHANGED <<registry, lock, wake>> /\ Free /\ Room
  BY <1>1 DEF Admit
<1>r. recorded' = recorded /\ rev' = rev /\ drawn' = drawn
  BY <1>5 DEF registry
<1>6. JobIds \subseteq JobIds' /\ Len(jobs') \in 0..MaxJobs
  BY <1>2, <1>4, <1>5, ReviewAssumption DEF JobIds, Room
<1>7. TypeOK' /\ KeysKnown'
  BY <1>2, <1>4, <1>5, <1>6, <1>r DEF TypeOK, KeysKnown
<1>8. ASSUME NEW i \in JobIds' PROVE JobFit(i)'
  <2>1. CASE i \in JobIds
    <3>1. jobs'[i] = jobs[i] /\ Fits(i, jobs[i])
      BY <2>1, <1>2, <1>4 DEF JobIds, JobFit
    <3> QED BY <3>1, <1>r DEF JobFit, Fits, Keyed, Reg!Recorded
  <2>2. CASE i \notin JobIds
    <3>1. jobs'[i] = y
      BY <2>2, <1>2, <1>4 DEF JobIds
    <3>2. Fits(i, y)'
      <4>1. /\ y \in Job /\ y.state = "active" /\ y.stage = "review"
            /\ y.receipt = "none" /\ y.attempts = 0
        BY <1>3 DEF Added
      <4> QED BY <4>1, <2>2, <1>r, NewFits
    <3> QED BY <3>1, <3>2 DEF JobFit, Fits
  <2> QED BY <2>1, <2>2
<1>9. ASSUME NEW u \in Wakes PROVE WakeFit(u)'
  <2>1. \A i \in JobIds : Evolves(jobs[i], jobs'[i], NoWake)
    BY <1>2, <1>4, EvolvesSame DEF JobIds
  <2> QED BY <2>1, <1>2, <1>5, <1>6, <1>r, OthersKeep DEF Free
<1> QED BY <1>7, <1>8, <1>9 DEF IInv

\* Nothing but a job changes, and no wake runs it on.
LEMMA JobStep ==
    ASSUME IInv, NEW j \in JobIds, NEW x \in Job, NEW y,
           Evolves(jobs[j], x, NoWake), Fits(j, x), Free,
           \/ jobs' = [jobs EXCEPT ![j] = x]
           \/ Room /\ Added(y) /\ jobs' = Append([jobs EXCEPT ![j] = x], y),
           UNCHANGED <<registry, lock, wake>>
    PROVE  IInv'
<1>1. lock = NoWake /\ lock' = NoWake /\ NoWake \notin Wakes
  BY ReviewAssumption DEF Free
<1>2. wake' \in [Wakes -> Wake] /\ wake' = wake
  BY FindsFit DEF TypeOK
<1> QED BY <1>1, <1>2, StoreStep

LEMMA ConvergeSound ==
    ASSUME IInv, NEW j \in JobIds, Converge(j)
    PROVE  IInv'
<1>1. jobs[j] \in Job /\ Fits(j, jobs[j])
  BY FindsFit DEF JobFit
<1> DEFINE x == Closed(jobs[j], "failed")
<1>2. /\ x \in Job /\ x.state = "failed" /\ x.stage = jobs[j].stage
      /\ x.round = jobs[j].round /\ x.receipt = jobs[j].receipt /\ x.attempts = 0
  BY <1>1, ClosedType
<1>3. jobs' = [jobs EXCEPT ![j] = x] /\ Free /\ UNCHANGED <<registry, lock, wake>>
  BY DEF Converge, Update
<1> HIDE DEF x
<1>4. Fits(j, x) /\ Evolves(jobs[j], x, NoWake)
  BY <1>1, <1>2, ClosedFits
<1> QED BY <1>2, <1>3, <1>4, JobStep

LEMMA RunsOutSound ==
    ASSUME IInv, NEW j \in JobIds, RunsOut(j)
    PROVE  IInv'
<1>1. jobs[j] \in Job /\ Fits(j, jobs[j])
  BY FindsFit DEF JobFit
<1> DEFINE x == [jobs[j] EXCEPT !.expired = TRUE]
<1>2. x \in Job /\ x.expired = TRUE /\ x.state = jobs[j].state /\ x.stage = jobs[j].stage
      /\ x.round = jobs[j].round /\ x.receipt = jobs[j].receipt /\ x.draft = jobs[j].draft
      /\ x.quantum = jobs[j].quantum /\ x.attempts = jobs[j].attempts
  BY <1>1 DEF Job
<1>3. jobs' = [jobs EXCEPT ![j] = x] /\ Free /\ UNCHANGED <<registry, lock, wake>>
  BY DEF RunsOut, Update
<1> HIDE DEF x
<1>4. Fits(j, x) /\ Evolves(jobs[j], x, NoWake)
  BY <1>1, <1>2 DEF Fits, Evolves, Holds
<1> QED BY <1>2, <1>3, <1>4, JobStep

LEMMA ClaimSound ==
    ASSUME IInv, NEW w \in Wakes, NEW j \in JobIds, Claim(w, j)
    PROVE  IInv'
<1>1. /\ TypeOK /\ jobs[j] \in Job /\ Fits(j, jobs[j]) /\ WakeFit(w) /\ w # NoWake
      /\ Len(jobs) \in Nat /\ Len(jobs) <= MaxJobs
  BY FindsFit DEF JobFit
<1> DEFINE at == IF jobs[j].stage = "review" THEN "review" ELSE "recover"
           x == [jobs[j] EXCEPT !.quantum = "leased", !.lease = w, !.expired = FALSE]
           z == [Idle EXCEPT !.job = j, !.kind = jobs[j].draft, !.at = at]
<1>2. /\ jobs' = [jobs EXCEPT ![j] = x] /\ wake' = [wake EXCEPT ![w] = z] /\ Free
      /\ UNCHANGED <<registry, lock>> /\ jobs[j].state = "active"
      /\ jobs[j].quantum \in {"pending", "leased", "retry"}
  BY DEF Claim, Update, Runnable
<1>3. /\ x \in Job /\ x.state = jobs[j].state /\ x.stage = jobs[j].stage
      /\ x.round = jobs[j].round /\ x.receipt = jobs[j].receipt /\ x.draft = jobs[j].draft
      /\ x.attempts = jobs[j].attempts /\ x.lease = w
  BY <1>1 DEF Job
<1>4. /\ z \in Wake /\ z.job = j /\ z.kind = jobs[j].draft
      /\ z.at = IF jobs[j].stage = "review" THEN "review" ELSE "recover"
  <2>1. j \in 0..MaxJobs
    BY <1>1, ReviewAssumption DEF JobIds
  <2> QED BY <2>1, <1>1, IdleType DEF Wake, Job
<1> HIDE DEF x, z
<1>5. Fits(j, x) /\ Evolves(jobs[j], x, w)
  BY <1>1, <1>2, <1>3 DEF Fits, Evolves, Holds
<1>6. /\ jobs'[j] = x /\ JobIds' = JobIds
  BY <1>2, <1>3, UpdateSeq DEF JobIds
<1>7. /\ wake'[w] = z /\ wake' \in [Wakes -> Wake]
      /\ \A u \in Wakes : u # w => wake'[u] = wake[u]
  BY <1>1, <1>2, <1>4 DEF TypeOK
<1>8. lock = NoWake /\ lock' = NoWake
  BY <1>2 DEF Free
<1>9. jobs[j].stage \in {"review", "commit"} /\ (jobs[j].stage = "commit" => jobs[j].draft \in Kinds)
  BY <1>1, <1>2 DEF Job, Fits
<1>10. WakeFit(w)'
  <2>1. wake'[w].job = j /\ jobs'[j].stage = jobs[j].stage /\ j \in JobIds' /\ lock' # w
    BY <1>1, <1>3, <1>4, <1>6, <1>7, <1>8
  <2>2. CASE jobs[j].stage = "review"
    <3>1. wake'[w].at = "review"
      BY <2>2, <1>4, <1>7
    <3> QED BY <2>1, <2>2, <3>1 DEF WakeFit, Committing, Clear, Done, Inside
  <2>3. CASE jobs[j].stage = "commit"
    <3>1. wake'[w].at = "recover" /\ wake'[w].kind \in Kinds
      BY <2>3, <1>4, <1>7, <1>9
    <3> QED BY <2>1, <2>3, <3>1 DEF WakeFit, Committing, Clear, Done, Inside
  <2> QED BY <2>2, <2>3, <1>9
<1>11. UNCHANGED registry
  BY <1>2
<1> QED BY <1>2, <1>3, <1>4, <1>5, <1>8, <1>10, <1>11, UpdateStep

-----------------------------------------------------------------------------
(* The review quantum                                                      *)

LEMMA ReviewEndsSound ==
    ASSUME IInv, NEW w \in Wakes, ReviewEnds(w)
    PROVE  IInv'
<1> DEFINE j == wake[w].job
           done == [jobs[j] EXCEPT !.quantum = "pending", !.lease = NoWake, !.attempts = 0]
<1>1. /\ wake[w].at = "review" /\ Leave(w) /\ Free /\ UNCHANGED registry /\ UNCHANGED lock
      /\ lock = NoWake /\ lock' = NoWake
  BY DEF ReviewEnds, Free
<1>2. /\ TypeOK /\ j \in JobIds /\ jobs[j] \in Job /\ Fits(j, jobs[j]) /\ WakeFit(w)
      /\ w # NoWake /\ (Owns(w) <=> Holds(jobs[j], w))
  BY <1>1, FindsWake DEF JobFit
<1>3. CASE ~Owns(w)
  BY <1>1, <1>2, <1>3, LeaveStep DEF ReviewEnds
<1>4. ASSUME Owns(w), NEW x \in Job, jobs' = [jobs EXCEPT ![j] = x],
             x.state = "active", x.receipt = jobs[j].receipt, x.lease = NoWake,
             x.attempts = 0, x.stage = "commit" => x.draft \in Kinds
      PROVE  IInv'
  <2>1. jobs[j].stage = "review" /\ jobs[j].state = "active"
    BY <1>1, <1>2, <1>4 DEF WakeFit, Holds
  <2>2. Keyed(j) = {}
    BY <1>2, <2>1 DEF Fits
  <2>3. Fits(j, x)
    <3>1. x.receipt # "held" /\ x.receipt # "refused"
      BY <1>2, <1>4, <2>1, <2>2 DEF Fits, Keyed, Reg!Recorded
    <3> QED BY <1>4, <2>2, <3>1, ReviewAssumption DEF Fits
  <2>4. Evolves(jobs[j], x, w)
    BY <1>4, <2>1, ReviewAssumption DEF Evolves, Holds
  <2>5. Idle \in Wake /\ wake' = [wake EXCEPT ![w] = Idle] /\ wake'[w].at = "idle"
    BY <1>1, <1>2, IdleType DEF Leave, TypeOK
  <2>6. WakeFit(w)'
    BY <1>1, <1>2, <2>5, IdleFit
  <2> QED BY <1>1, <1>2, <1>4, <2>3, <2>4, <2>5, <2>6, UpdateStep
<1>5. CASE Owns(w)
  <2>1. jobs[j].state = "active"
    BY <1>2, <1>5 DEF Holds
  <2>2. /\ done \in Job /\ done.state = "active" /\ done.receipt = jobs[j].receipt
        /\ done.lease = NoWake /\ done.attempts = 0 /\ done.stage = jobs[j].stage
    <3>1. 0 \in 0..MaxAttempts
      BY ReviewAssumption
    <3> QED BY <1>2, <2>1, <3>1 DEF Job
  <2>3. jobs[j].stage = "review"
    BY <1>1, <1>2, <1>5 DEF WakeFit
  <2>4. \/ \E kind \in Kinds :
              jobs' = [jobs EXCEPT ![j] = [done EXCEPT !.stage = "commit", !.draft = kind]]
        \/ jobs' = [jobs EXCEPT ![j] = [done EXCEPT !.round = 2]]
    <3>1. Drafts(jobs[j]) \subseteq Kinds
      BY DEF Drafts, Kinds
    <3> QED BY <3>1, <1>5 DEF ReviewEnds, Update
  <2> HIDE DEF done
  <2>5. ASSUME NEW kind \in Kinds,
               jobs' = [jobs EXCEPT ![j] = [done EXCEPT !.stage = "commit", !.draft = kind]]
        PROVE  IInv'
    <3> DEFINE x == [done EXCEPT !.stage = "commit", !.draft = kind]
    <3>1. /\ x \in Job /\ x.state = "active" /\ x.receipt = jobs[j].receipt
          /\ x.lease = NoWake /\ x.attempts = 0 /\ x.draft = kind
      BY <2>2 DEF Job
    <3>2. jobs' = [jobs EXCEPT ![j] = x]
      BY <2>5
    <3> HIDE DEF x
    <3> QED BY <3>1, <3>2, <1>4, <1>5
  <2>6. ASSUME jobs' = [jobs EXCEPT ![j] = [done EXCEPT !.round = 2]]
        PROVE  IInv'
    <3> DEFINE x == [done EXCEPT !.round = 2]
    <3>1. /\ x \in Job /\ x.state = "active" /\ x.receipt = jobs[j].receipt
          /\ x.lease = NoWake /\ x.attempts = 0 /\ x.stage = "review"
      BY <2>2, <2>3 DEF Job, Rounds
    <3>2. jobs' = [jobs EXCEPT ![j] = x]
      BY <2>6
    <3> HIDE DEF x
    <3> QED BY <3>1, <3>2, <1>4, <1>5
  <2> QED BY <2>4, <2>5, <2>6
<1> QED BY <1>3, <1>5

-----------------------------------------------------------------------------
(* The commit quantum                                                      *)

LEMMA RecoverSound ==
    ASSUME IInv, NEW w \in Wakes, Recover(w)
    PROVE  IInv'
<1>1. /\ wake[w].at = "recover" /\ UNCHANGED <<registry, jobs>> /\ lock' = lock
      /\ Goto(w, IF Filed(wake[w].job) THEN "settle" ELSE "fence")
  BY DEF Recover, Filed
<1>2. /\ TypeOK /\ wake[w] \in Wake /\ WakeFit(w)
      /\ wake[w].job \in JobIds /\ jobs[wake[w].job].stage = "commit"
      /\ wake[w].kind \in Kinds /\ lock # w
  BY <1>1, FindsWake DEF WakeFit, Committing, Inside
<1>3. ASSUME NEW at \in {"settle", "fence"}, Goto(w, at),
             at = "settle" <=> Filed(wake[w].job)
      PROVE  IInv'
  <2> DEFINE z == [wake[w] EXCEPT !.at = at]
  <2>1. z \in Wake /\ z.at = at /\ z.job = wake[w].job /\ z.kind = wake[w].kind
    BY <1>2 DEF Wake
  <2>2. wake' = [wake EXCEPT ![w] = z]
    BY <1>2, <1>3 DEF Goto, TypeOK
  <2> HIDE DEF z
  <2>3. /\ z.at # "review" /\ z.at \notin Inside
        /\ z.at \in Clear => ~Filed(z.job)
        /\ z.at \in Done => Filed(z.job)
    BY <1>3, <2>1 DEF Clear, Done, Inside
  <2> QED BY <1>1, <1>2, <2>1, <2>2, <2>3, GotoStep
<1> QED BY <1>1, <1>3

\* A wake that leaves its quantum for the fence of a stale job.
LEMMA ToSupersedeSound ==
    ASSUME IInv, NEW w \in Wakes, ToSupersede(w), UNCHANGED <<registry, jobs>>,
           wake[w].at # "idle",
           lock' = lock \/ (lock \in {w, NoWake} /\ lock' \in {w, NoWake}), lock' # w
    PROVE  IInv'
<1>1. /\ TypeOK /\ wake[w] \in Wake /\ wake[w].job \in JobIds /\ jobs[wake[w].job] \in Job
  BY FindsWake
<1> DEFINE z == [wake[w] EXCEPT !.at = "supersede", !.plan = rev[jobs[wake[w].job].related]]
<1>2. rev[jobs[wake[w].job].related] \in Nat
  BY <1>1 DEF TypeOK, Job
<1>3. z \in Wake /\ z.at = "supersede" /\ z.job = wake[w].job
  BY <1>1, <1>2 DEF Wake
<1>4. wake' = [wake EXCEPT ![w] = z]
  BY <1>1 DEF ToSupersede, TypeOK
<1> HIDE DEF z
<1>5. z.at \notin Committing /\ z.at \notin Clear /\ z.at \notin Done /\ z.at \notin Inside
  BY <1>3 DEF Committing, Clear, Done, Inside
<1> QED BY <1>1, <1>3, <1>4, <1>5, GotoStep

LEMMA FenceSound ==
    ASSUME IInv, NEW w \in Wakes, Fence(w)
    PROVE  IInv'
<1>1. wake[w].at = "fence" /\ UNCHANGED <<registry, jobs>> /\ lock' = lock
  BY DEF Fence
<1>2. /\ TypeOK /\ wake[w] \in Wake /\ WakeFit(w)
      /\ wake[w].job \in JobIds /\ jobs[wake[w].job].stage = "commit"
      /\ wake[w].kind \in Kinds /\ lock # w
      /\ Holds(jobs[wake[w].job], w) => ~Filed(wake[w].job)
  BY <1>1, FindsWake DEF WakeFit, Committing, Clear, Inside
<1>3. CASE ToSupersede(w)
  BY <1>1, <1>2, <1>3, ToSupersedeSound
<1>4. ASSUME NEW kind \in Kinds, NEW z, z = [wake[w] EXCEPT !.at = "commit", !.kind = kind],
             wake' = [wake EXCEPT ![w] = z]
      PROVE  IInv'
  <2>1. z \in Wake /\ z.at = "commit" /\ z.job = wake[w].job /\ z.kind = kind
    BY <1>2, <1>4 DEF Wake
  <2>2. z.at \notin Done /\ z.at \notin Inside
    BY <2>1 DEF Done, Inside
  <2> QED BY <1>1, <1>2, <1>4, <2>1, <2>2, GotoStep
<1>5. CASE Goto(w, "commit")
  <2>1. PICK z : z = [wake[w] EXCEPT !.at = "commit", !.kind = wake[w].kind]
    OBVIOUS
  <2>2. wake' = [wake EXCEPT ![w] = z]
    BY <1>2, <1>5, <2>1 DEF Goto, TypeOK, Wake
  <2> QED BY <2>1, <2>2, <1>2, <1>4
<1>6. CASE wake' = [wake EXCEPT ![w].at = "commit", ![w].kind = "defer"]
  <2>1. PICK z : z = [wake[w] EXCEPT !.at = "commit", !.kind = "defer"]
    OBVIOUS
  <2>2. wake' = [wake EXCEPT ![w] = z]
    BY <1>2, <1>6, <2>1 DEF TypeOK
  <2>3. "defer" \in Kinds
    BY DEF Kinds
  <2> QED BY <2>1, <2>2, <2>3, <1>4
<1> QED BY <1>3, <1>5, <1>6 DEF Fence

LEMMA LockSound ==
    ASSUME IInv, NEW w \in Wakes, Lock(w)
    PROVE  IInv'
<1>1. wake[w].at = "commit" /\ UNCHANGED <<registry, jobs>> /\ lock = NoWake
  BY DEF Lock, Free
<1>2. /\ TypeOK /\ wake[w] \in Wake /\ WakeFit(w) /\ w # NoWake
      /\ wake[w].job \in JobIds /\ jobs[wake[w].job].stage = "commit"
      /\ wake[w].kind \in Kinds
      /\ Holds(jobs[wake[w].job], w) => ~Filed(wake[w].job)
      /\ Owns(w) <=> Holds(jobs[wake[w].job], w)
  BY <1>1, FindsWake DEF WakeFit, Committing, Clear
<1>3. CASE ~Owns(w)
  BY <1>1, <1>2, <1>3, LeaveStep DEF Lock
<1>4. CASE Owns(w)
  <2> DEFINE z == [wake[w] EXCEPT !.at = "work"]
  <2>1. z \in Wake /\ z.at = "work" /\ z.job = wake[w].job /\ z.kind = wake[w].kind
    BY <1>2, GotoType
  <2>2. wake' = [wake EXCEPT ![w] = z] /\ lock' = w
    BY <1>2, <1>4 DEF Lock, Goto, TypeOK
  <2> HIDE DEF z
  <2>3. wake'[w] = z /\ jobs' = jobs /\ recorded' = recorded
    BY <1>1, <1>2, <2>2 DEF TypeOK, registry
  <2>4. Filed(wake[w].job)' <=> Filed(wake[w].job)
    BY <2>1, <2>3 DEF Filed, Key, Reg!Recorded
  <2>5. WakeFit(w)'
    <3>1. /\ wake'[w].at = "work" /\ wake'[w].job = wake[w].job
          /\ wake'[w].kind = wake[w].kind /\ JobIds' = JobIds
      BY <2>1, <2>3 DEF JobIds
    <3>2. "work" \in Committing /\ "work" \in Clear /\ "work" \notin Done /\ "work" \in Inside
      BY DEF Committing, Clear, Done, Inside
    <3>3. ~Filed(wake[w].job)
      BY <1>2, <1>4
    <3>5. ~Filed(wake[w].job)'
      BY <3>1, <3>3, <2>3 DEF Filed, Key, Reg!Recorded
    <3> QED BY <3>1, <3>2, <3>5, <1>2, <1>4, <2>2, <2>3 DEF WakeFit
  <2> QED BY <1>1, <2>1, <2>2, <2>5, WakeStep
<1> QED BY <1>3, <1>4

\* The transition of the draft adds one entry to the audit, under a key not in it.
LEMMA ApplyType ==
    ASSUME TypeOK, NEW w \in Wakes, Apply(w), wake[w].kind \in Kinds,
           wake[w].job \in JobIds, jobs[wake[w].job] \in Job
    PROVE  /\ rev' \in [Handles -> Nat] /\ drawn' \subseteq Handles
           /\ recorded' = recorded \cup {[key |-> Key(wake[w].job), kind |-> wake[w].kind]}
<1>1. rev \in [Handles -> Nat] /\ drawn \subseteq Handles
  BY DEF TypeOK
<1>2. CASE wake[w].kind = "create"
  <2>1. PICK h \in Handles : Reg!Create(Key(wake[w].job), h)
    BY <1>2 DEF Apply
  <2> QED BY <1>1, <1>2, <2>1 DEF Reg!Create
<1>3. CASE wake[w].kind = "append"
  <2>1. /\ rev' = [rev EXCEPT ![jobs[wake[w].job].related] = @ + 1] /\ drawn' = drawn
        /\ recorded' = recorded \cup {[key |-> Key(wake[w].job), kind |-> "append"]}
    BY <1>3 DEF Apply, Reg!Change
  <2> QED BY <1>1, <1>3, <2>1 DEF Job
<1>4. CASE wake[w].kind = "defer"
  <2>1. Reg!Defer(Key(wake[w].job))
    BY <1>4 DEF Apply
  <2> QED BY <1>1, <1>4, <2>1 DEF Reg!Defer
<1> QED BY <1>2, <1>3, <1>4 DEF Kinds

LEMMA WorkSound ==
    ASSUME IInv, NEW w \in Wakes, Work(w)
    PROVE  IInv'
<1> DEFINE j == wake[w].job
<1>1. wake[w].at = "work" /\ jobs' = jobs
  BY DEF Work
<1>2. /\ TypeOK /\ KeysKnown /\ wake[w] \in Wake /\ WakeFit(w) /\ w # NoWake
      /\ j \in JobIds /\ jobs[j] \in Job /\ Fits(j, jobs[j]) /\ jobs[j].stage = "commit"
      /\ wake[w].kind \in Kinds /\ lock = w /\ Holds(jobs[j], w) /\ ~Filed(j)
  BY <1>1, FindsWake, FindsFit DEF WakeFit, Committing, Clear, Inside, JobFit
<1>3. CASE /\ Apply(w) /\ lock' = lock
           /\ wake' = [wake EXCEPT ![w].at = "save", ![w].did = TRUE]
  <2> DEFINE e == [key |-> Key(j), kind |-> wake[w].kind]
             z == [wake[w] EXCEPT !.at = "save", !.did = TRUE]
  <2>1. /\ rev' \in [Handles -> Nat] /\ drawn' \subseteq Handles
        /\ recorded' = recorded \cup {e}
    BY <1>2, <1>3, ApplyType
  <2>2. e.key = Key(j) /\ e.key = <<j, jobs[j].round>> /\ e.key[1] = j
    BY DEF Key
  <2>3. e \in [key : Keys, kind : Kinds]
    <3>1. j \in 0..MaxJobs /\ jobs[j].round \in Rounds
      BY <1>2, FindsFit, ReviewAssumption, SMTT(30) DEF JobIds, Job
    <3> QED BY <3>1, <1>2 DEF Keys, Key
  <2> HIDE DEF e
  <2>4. z \in Wake /\ z.at = "save" /\ z.job = j /\ z.kind = wake[w].kind
    BY <1>2 DEF Wake
  <2>5. wake' = [wake EXCEPT ![w] = z]
    BY <1>2, <1>3 DEF TypeOK
  <2> HIDE DEF z
  <2>6. /\ wake'[w] = z /\ wake' \in [Wakes -> Wake]
        /\ \A u \in Wakes : u # w => wake'[u] = wake[u]
    BY <1>2, <2>4, <2>5 DEF TypeOK
  <2>7. TypeOK' /\ KeysKnown'
    BY <1>1, <1>2, <1>3, <2>1, <2>2, <2>3, <2>6 DEF TypeOK, KeysKnown, JobIds
  <2>8. ASSUME NEW i \in JobIds' PROVE JobFit(i)'
    <3>1. i \in JobIds /\ Fits(i, jobs[i]) /\ jobs'[i] = jobs[i]
      BY <1>1, FindsFit DEF JobIds, JobFit
    <3>2. CASE i = j
      <4>1. jobs[j].receipt # "refused"
        BY <1>2 DEF Fits, Holds
      <4> QED BY <3>1, <3>2, <4>1, <1>1, <1>2, <2>1, <2>2 DEF JobFit, Fits, Keyed, Reg!Recorded
    <3>3. CASE i # j
      <4>1. Keyed(i)' = Keyed(i)
        BY <3>3, <2>1, <2>2 DEF Keyed
      <4>2. Reg!Recorded(<<i, jobs[i].round>>) => Reg!Recorded(<<i, jobs[i].round>>)'
        BY <1>1, <2>1 DEF Reg!Recorded
      <4> QED BY <3>1, <4>1, <4>2, <1>1 DEF JobFit, Fits
    <3> QED BY <3>2, <3>3
  <2>9. ASSUME NEW u \in Wakes PROVE WakeFit(u)'
    <3> DEFINE i == wake[u].job
    <3>1. WakeFit(u) /\ JobIds' = JobIds
      BY <1>1, FindsFit DEF JobIds
    <3>2. CASE u = w
      <4>1. "save" \in Committing /\ "save" \notin Clear /\ "save" \in Done /\ "save" \in Inside
        BY DEF Committing, Clear, Done, Inside
      <4>2. wake'[w].at = "save" /\ wake'[w].job = j /\ wake'[w].kind \in Kinds
        BY <1>2, <2>4, <2>6
      <4>3. Filed(wake[w].job)'
        BY <4>2, <1>1, <2>1, <2>2 DEF Filed, Key, Reg!Recorded
      <4> QED BY <3>1, <3>2, <4>1, <4>2, <4>3, <1>1, <1>2, <1>3 DEF WakeFit
    <3>3. CASE u # w
      <4>1. wake'[u] = wake[u]
        BY <3>3, <2>6
      <4>2. Filed(i) => Filed(wake[u].job)'
        BY <4>1, <1>1, <2>1 DEF Filed, Key, Reg!Recorded
      <4>3. i # j => (Filed(wake[u].job)' => Filed(i))
        BY <4>1, <1>1, <2>1, <2>2 DEF Filed, Key, Reg!Recorded
      <4>4. i = j => ~Holds(jobs[i], u)
        BY <3>3, <1>2 DEF Holds
      <4> QED BY <3>1, <4>1, <4>2, <4>3, <4>4, <1>1, <1>3 DEF WakeFit
    <3> QED BY <3>2, <3>3
  <2> QED BY <2>7, <2>8, <2>9 DEF IInv
<1>4. CASE ToSupersede(w) /\ lock' = NoWake /\ UNCHANGED registry
  BY <1>1, <1>2, <1>4, ToSupersedeSound
<1>5. CASE wake' = [wake EXCEPT ![w] = [@ EXCEPT !.at = "refused"]] /\ lock' = NoWake /\ UNCHANGED registry
  <2> DEFINE z == [wake[w] EXCEPT !.at = "refused"]
  <2>1. z \in Wake /\ z.at = "refused" /\ z.job = j /\ z.kind = wake[w].kind
    BY <1>2, GotoType
  <2>2. wake' = [wake EXCEPT ![w] = z]
    BY <1>2, <1>5 DEF TypeOK
  <2> HIDE DEF z
  <2>3. z.at \notin Done /\ z.at \notin Inside
    BY <2>1 DEF Done, Inside
  <2> QED BY <1>1, <1>2, <1>5, <2>1, <2>2, <2>3, GotoStep
<1> QED BY <1>3, <1>4, <1>5 DEF Work

LEMMA SaveSound ==
    ASSUME IInv, NEW w \in Wakes, Save(w)
    PROVE  IInv'
<1> DEFINE j == wake[w].job
           x == [jobs[j] EXCEPT !.receipt = "held", !.expired = FALSE]
           z == [wake[w] EXCEPT !.at = "settle"]
<1>1. wake[w].at = "save" /\ UNCHANGED registry /\ lock' = NoWake
  BY DEF Save
<1>2. /\ TypeOK /\ wake[w] \in Wake /\ WakeFit(w) /\ w # NoWake
      /\ j \in JobIds /\ jobs[j] \in Job /\ Fits(j, jobs[j]) /\ jobs[j].stage = "commit"
      /\ wake[w].kind \in Kinds /\ lock = w /\ Holds(jobs[j], w) /\ Filed(j)
  BY <1>1, FindsWake DEF WakeFit, Committing, Done, Inside, JobFit
<1>3. /\ x \in Job /\ x.receipt = "held" /\ x.stage = jobs[j].stage /\ x.round = jobs[j].round
      /\ x.state = jobs[j].state /\ x.lease = jobs[j].lease /\ x.quantum = jobs[j].quantum
      /\ x.draft = jobs[j].draft /\ x.attempts = jobs[j].attempts
  BY <1>2 DEF Job
<1>4. z \in Wake /\ z.at = "settle" /\ z.job = j /\ z.kind = wake[w].kind
  BY <1>2, GotoType
<1>5. jobs' = [jobs EXCEPT ![j] = x] /\ wake' = [wake EXCEPT ![w] = z]
  BY <1>2 DEF Save, Update, Goto, TypeOK
<1> HIDE DEF x, z
<1>6. Fits(j, x)
  BY <1>2, <1>3 DEF Fits, Filed, Key
<1>7. Evolves(jobs[j], x, w)
  BY <1>2, <1>3 DEF Evolves, Holds
<1>8. jobs'[j] = x /\ JobIds' = JobIds /\ wake'[w] = z /\ recorded' = recorded
  BY <1>1, <1>2, <1>3, <1>5, UpdateSeq DEF JobIds, TypeOK, registry
<1>9. WakeFit(w)'
  <2>1. "settle" \in Committing /\ "settle" \notin Clear /\ "settle" \in Done /\ "settle" \notin Inside
    BY DEF Committing, Clear, Done, Inside
  <2>2. Filed(wake[w].job)'
    BY <1>2, <1>3, <1>4, <1>8 DEF Filed, Key, Reg!Recorded
  <2>3. /\ wake'[w].at = "settle" /\ wake'[w].job = j /\ wake'[w].kind \in Kinds
        /\ jobs'[j].stage = "commit" /\ lock' # w
    BY <1>1, <1>2, <1>3, <1>4, <1>8
  <2> QED BY <2>1, <2>2, <2>3, <1>2, <1>8 DEF WakeFit
<1> QED BY <1>1, <1>2, <1>3, <1>4, <1>5, <1>6, <1>7, <1>9, UpdateStep

\* A wake that has written the job goes to an end or to complete.
LEMMA SettleSound ==
    ASSUME IInv, NEW w \in Wakes, Settle(w)
    PROVE  IInv'
<1> DEFINE j == wake[w].job
           live == rev[jobs[j].related]
           z == [wake[w] EXCEPT !.at = "complete"]
<1>1. /\ wake[w].at = "settle" /\ UNCHANGED registry /\ UNCHANGED lock
      /\ lock = NoWake /\ lock' = NoWake
  BY DEF Settle, Free
<1>2. /\ TypeOK /\ wake[w] \in Wake /\ WakeFit(w) /\ w # NoWake
      /\ j \in JobIds /\ jobs[j] \in Job /\ Fits(j, jobs[j]) /\ jobs[j].stage = "commit"
      /\ wake[w].kind \in Kinds /\ Filed(j)
  BY <1>1, FindsWake DEF WakeFit, Committing, Done, JobFit
<1>3. z \in Wake /\ z.at = "complete" /\ z.job = j /\ z.kind = wake[w].kind
  BY <1>2, GotoType
<1>4. wake' = [wake EXCEPT ![w] = z]
  BY <1>2 DEF Settle, Goto, TypeOK
<1> HIDE DEF z
<1>5. wake'[w] = z /\ recorded' = recorded
  BY <1>1, <1>2, <1>4 DEF TypeOK, registry
<1>6. CASE jobs' = jobs
  <2>1. z.at # "review" /\ z.at \notin Inside /\ z.at \notin Clear
    BY <1>3 DEF Inside, Clear
  <2> QED BY <1>1, <1>2, <1>3, <1>4, <1>6, <2>1, GotoStep
<1>7. CASE /\ Room
           /\ jobs' = Append([jobs EXCEPT ![j].successor = Len(jobs) + 1],
                             NewJob(jobs[j].bundle, jobs[j].related, live))
  <2>1. PICK y : y = NewJob(jobs[j].bundle, jobs[j].related, live)
    OBVIOUS
  <2>2. Added(y)
    <3>1. jobs[j].bundle \in Bundles /\ jobs[j].related \in Handles /\ live \in Nat
      BY <1>2 DEF TypeOK, Job
    <3>2. Added(NewJob(jobs[j].bundle, jobs[j].related, live))
      BY <3>1, NewJobType DEF Added
    <3> QED BY <3>2, <2>1
  <2>3. PICK x : x = [jobs[j] EXCEPT !.successor = Len(jobs) + 1]
    OBVIOUS
  <2>4. /\ x \in Job /\ x.receipt = jobs[j].receipt /\ x.stage = jobs[j].stage
        /\ x.round = jobs[j].round /\ x.expired = jobs[j].expired
        /\ x.state = jobs[j].state /\ x.lease = jobs[j].lease /\ x.quantum = jobs[j].quantum
        /\ x.draft = jobs[j].draft /\ x.attempts = jobs[j].attempts
    <3>1. Len(jobs) + 1 \in 0..MaxJobs
      BY <1>7, FindsFit, ReviewAssumption DEF Room
    <3> QED BY <3>1, <1>2, <2>3 DEF Job
  <2>5. jobs' = Append([jobs EXCEPT ![j] = x], y)
    BY <1>2, <1>7, <2>1, <2>3, FindsFit
  <2>6. Fits(j, x) /\ Evolves(jobs[j], x, w)
    BY <1>2, <2>4 DEF Fits, Evolves, Holds
  <2>7. jobs'[j] = x /\ j \in JobIds'
    <3>1. [jobs EXCEPT ![j] = x] \in Seq(Job) /\ Len([jobs EXCEPT ![j] = x]) = Len(jobs)
          /\ [jobs EXCEPT ![j] = x][j] = x
      BY <1>2, <2>4, UpdateSeq
    <3> QED BY <3>1, <1>2, <2>2, <2>5, FindsFit, AppendProperties DEF Added, JobIds
  <2>8. WakeFit(w)'
    <3>1. /\ "complete" \in Committing /\ "complete" \notin Clear /\ "complete" \in Done
          /\ "complete" \notin Inside
      BY DEF Committing, Clear, Done, Inside
    <3>2. Filed(wake[w].job)'
      BY <1>2, <1>3, <1>5, <2>4, <2>7 DEF Filed, Key, Reg!Recorded
    <3>3. /\ wake'[w].at = "complete" /\ wake'[w].job = j /\ wake'[w].kind \in Kinds
          /\ jobs'[j].stage = "commit" /\ lock' # w
      BY <1>1, <1>2, <1>3, <1>5, <2>4, <2>7
    <3> QED BY <3>1, <3>2, <3>3, <2>7 DEF WakeFit
  <2> QED BY <1>1, <1>2, <1>3, <1>4, <1>7, <2>2, <2>4, <2>5, <2>6, <2>8, GrowStep
<1>8. jobs' = jobs
      \/ /\ Room
         /\ jobs' = Append([jobs EXCEPT ![j].successor = Len(jobs) + 1],
                           NewJob(jobs[j].bundle, jobs[j].related, live))
  BY DEF Settle
<1> QED BY <1>6, <1>7, <1>8

\* The wake writes the job and leaves.
LEMMA UpdateLeave ==
    ASSUME IInv, NEW w \in Wakes, NEW j \in JobIds, NEW x \in Job,
           Evolves(jobs[j], x, w), Fits(j, x), jobs' = [jobs EXCEPT ![j] = x],
           Leave(w), UNCHANGED registry, Free, UNCHANGED lock
    PROVE  IInv'
<1>1. /\ lock = NoWake /\ lock' = NoWake /\ w # NoWake /\ Idle \in Wake
      /\ wake' = [wake EXCEPT ![w] = Idle]
  BY FindsFit, IdleType DEF Free, Leave
<1>2. wake'[w].at = "idle"
  BY <1>1, IdleType, FindsFit DEF TypeOK
<1>3. WakeFit(w)'
  BY <1>1, <1>2, IdleFit
<1> QED BY <1>1, <1>3, UpdateStep

LEMMA CompleteSound ==
    ASSUME IInv, NEW w \in Wakes, Complete(w)
    PROVE  IInv'
<1> DEFINE j == wake[w].job
           state == IF wake[w].kind = "defer" THEN "deferred" ELSE "completed"
           receipt == IF wake[w].at = "refused" THEN "refused" ELSE "held"
           c == Closed(jobs[j], state)
           x == [c EXCEPT !.quantum = "succeeded", !.receipt = receipt]
<1>1. /\ wake[w].at \in {"complete", "refused"} /\ Leave(w) /\ Free
      /\ UNCHANGED registry /\ UNCHANGED lock
  BY DEF Complete
<1>2. /\ TypeOK /\ wake[w] \in Wake /\ WakeFit(w) /\ w # NoWake
      /\ j \in JobIds /\ jobs[j] \in Job /\ Fits(j, jobs[j]) /\ jobs[j].stage = "commit"
      /\ wake[w].at = "complete" => Filed(j)
      /\ wake[w].at = "refused" /\ Owns(w) => ~Filed(j)
  BY <1>1, FindsWake DEF WakeFit, Committing, Clear, Done, JobFit
<1>3. CASE ~Owns(w)
  <2>1. jobs' = jobs /\ lock' # w
    BY <1>1, <1>2, <1>3 DEF Complete, Free
  <2> QED BY <1>1, <2>1, LeaveStep
<1>4. CASE Owns(w)
  <2>1. jobs' = [jobs EXCEPT ![j] = x]
    BY <1>4 DEF Complete, Update
  <2>2. state \in {"completed", "deferred"} /\ receipt \in {"refused", "held"}
        /\ (receipt = "refused" <=> wake[w].at = "refused")
    OBVIOUS
  <2> HIDE DEF state, receipt
  <2>3. /\ c \in Job /\ c.state = state /\ c.stage = "commit" /\ c.round = jobs[j].round
        /\ c.attempts = 0
    BY <1>2, <2>2, ClosedType
  <2> HIDE DEF c
  <2>4. /\ x \in Job /\ x.state = state /\ x.stage = "commit" /\ x.round = jobs[j].round
        /\ x.attempts = 0 /\ x.receipt = receipt
    BY <2>2, <2>3 DEF Job
  <2> HIDE DEF x
  <2>5. Evolves(jobs[j], x, w)
    BY <2>2, <2>4 DEF Evolves, Holds
  <2>6. receipt = "held" => Reg!Recorded(<<j, x.round>>)
    BY <1>1, <1>2, <2>2, <2>4 DEF Filed, Key
  <2>7. receipt = "refused" => Keyed(j) = {}
    <3>1. \A e \in Keyed(j) : e \in recorded /\ e.key = <<j, jobs[j].round>>
      BY <1>2 DEF Fits, Keyed
    <3> QED BY <3>1, <1>2, <1>4, <2>2 DEF Filed, Key, Reg!Recorded
  <2>8. Fits(j, x)
    BY <1>2, <2>2, <2>4, <2>6, <2>7, ReviewAssumption DEF Fits
  <2> QED BY <1>1, <1>2, <2>1, <2>4, <2>5, <2>8, UpdateLeave
<1> QED BY <1>3, <1>4

LEMMA FailSound ==
    ASSUME IInv, NEW w \in Wakes, Fail(w)
    PROVE  IInv'
<1> DEFINE j == wake[w].job
           retried == [jobs[j] EXCEPT !.attempts = @ + 1, !.lease = NoWake, !.quantum = "retry"]
           failed == [retried EXCEPT !.quantum = "failed"]
<1>1. /\ wake[w].at \in {"review", "fence", "settle"} /\ Leave(w) /\ Free
      /\ UNCHANGED registry /\ UNCHANGED lock
  BY DEF Fail
<1>2. /\ TypeOK /\ wake[w] \in Wake /\ w # NoWake
      /\ j \in JobIds /\ jobs[j] \in Job /\ Fits(j, jobs[j])
      /\ Owns(w) <=> Holds(jobs[j], w)
  BY <1>1, FindsWake DEF JobFit
<1>3. CASE ~Owns(w)
  <2>1. jobs' = jobs /\ lock' # w
    BY <1>1, <1>2, <1>3 DEF Fail, Free
  <2> QED BY <1>1, <2>1, LeaveStep
<1>4. CASE Owns(w)
  <2>1. /\ jobs[j].attempts \in Nat /\ jobs[j].attempts < MaxAttempts
        /\ jobs[j].state = "active"
    BY <1>2, <1>4 DEF Holds, Fits, Job
  <2>2. jobs[j].attempts + 1 \in 0..MaxAttempts
    BY <2>1, ReviewAssumption
  <2>3. /\ retried \in Job /\ retried.state = jobs[j].state /\ retried.stage = jobs[j].stage
        /\ retried.round = jobs[j].round /\ retried.draft = jobs[j].draft
        /\ retried.receipt = jobs[j].receipt /\ retried.lease = NoWake
        /\ retried.attempts = jobs[j].attempts + 1 /\ retried.quantum = "retry"
    BY <1>2, <2>2 DEF Job
  <2>4. /\ failed \in Job /\ failed.state = jobs[j].state /\ failed.stage = jobs[j].stage
        /\ failed.round = jobs[j].round /\ failed.draft = jobs[j].draft
        /\ failed.receipt = jobs[j].receipt /\ failed.lease = NoWake
        /\ failed.quantum = "failed"
    BY <2>3 DEF Job
  <2>5. \/ retried.attempts < MaxAttempts /\ jobs' = [jobs EXCEPT ![j] = retried]
        \/ jobs' = [jobs EXCEPT ![j] = IF failed.stage = "commit"
                                       THEN Closed(failed, "failed") ELSE failed]
    <3>1. retried.attempts < MaxAttempts \/ retried.attempts = MaxAttempts
      BY <2>2, <2>3, ReviewAssumption
    <3>2. CASE retried.attempts < MaxAttempts
      BY <1>4, <3>2 DEF Fail, Update
    <3>3. CASE retried.attempts = MaxAttempts
      <4>1. ~(retried.attempts < MaxAttempts)
        BY <3>3, ReviewAssumption
      <4>2. Update(j, IF failed.stage = "commit" THEN Closed(failed, "failed") ELSE failed)
        BY <1>4, <3>3, <4>1 DEF Fail
      <4> QED BY <4>2 DEF Update
    <3> QED BY <3>1, <3>2, <3>3
  <2> HIDE DEF failed, retried
  <2>6. CASE retried.attempts < MaxAttempts /\ jobs' = [jobs EXCEPT ![j] = retried]
    <3>1. Evolves(jobs[j], retried, w)
      BY <1>2, <2>3 DEF Evolves, Holds
    <3>2. Fits(j, retried)
      BY <1>2, <2>3, <2>6 DEF Fits
    <3> QED BY <1>1, <1>2, <2>3, <2>6, <3>1, <3>2, UpdateLeave
  <2>7. CASE jobs' = [jobs EXCEPT ![j] = failed]
    <3>1. Evolves(jobs[j], failed, w)
      BY <1>2, <2>4 DEF Evolves, Holds
    <3>2. Fits(j, failed)
      BY <1>2, <2>4 DEF Fits
    <3> QED BY <1>1, <1>2, <2>4, <2>7, <3>1, <3>2, UpdateLeave
  <2>8. CASE jobs' = [jobs EXCEPT ![j] = Closed(failed, "failed")]
    <3> DEFINE x == Closed(failed, "failed")
    <3>1. /\ x \in Job /\ x.state = "failed" /\ x.stage = jobs[j].stage
          /\ x.round = jobs[j].round /\ x.receipt = jobs[j].receipt /\ x.attempts = 0
      BY <2>4, ClosedType
    <3>2. jobs' = [jobs EXCEPT ![j] = x]
      BY <2>8
    <3> HIDE DEF x
    <3>3. Fits(j, x) /\ Evolves(jobs[j], x, w)
      BY <1>2, <3>1, ClosedFits
    <3> QED BY <1>1, <1>2, <3>1, <3>2, <3>3, UpdateLeave
  <2> QED BY <2>5, <2>6, <2>7, <2>8
<1> QED BY <1>3, <1>4

LEMMA ReleaseSound ==
    ASSUME IInv, NEW w \in Wakes, Release(w)
    PROVE  IInv'
<1> DEFINE j == wake[w].job
           x == [jobs[j] EXCEPT !.quantum = "pending", !.lease = NoWake]
<1>1. /\ wake[w].at \in {"review", "recover", "fence", "commit"} /\ Leave(w) /\ Free
      /\ UNCHANGED registry /\ UNCHANGED lock
  BY DEF Release
<1>2. /\ TypeOK /\ wake[w] \in Wake /\ w # NoWake
      /\ j \in JobIds /\ jobs[j] \in Job /\ Fits(j, jobs[j])
      /\ Owns(w) <=> Holds(jobs[j], w)
  BY <1>1, FindsWake DEF JobFit
<1>3. CASE ~Owns(w)
  <2>1. jobs' = jobs /\ lock' # w
    BY <1>1, <1>2, <1>3 DEF Release, Free
  <2> QED BY <1>1, <2>1, LeaveStep
<1>4. CASE Owns(w)
  <2>1. jobs' = [jobs EXCEPT ![j] = x]
    BY <1>4 DEF Release, Update
  <2>2. jobs[j].state = "active" /\ jobs[j].quantum = "leased"
    BY <1>2, <1>4 DEF Holds
  <2>3. /\ x \in Job /\ x.state = jobs[j].state /\ x.stage = jobs[j].stage
        /\ x.round = jobs[j].round /\ x.draft = jobs[j].draft /\ x.receipt = jobs[j].receipt
        /\ x.attempts = jobs[j].attempts /\ x.quantum = "pending"
    BY <1>2 DEF Job
  <2> HIDE DEF x
  <2>4. Fits(j, x) /\ Evolves(jobs[j], x, w)
    BY <1>2, <2>2, <2>3 DEF Fits, Evolves, Holds
  <2> QED BY <1>1, <1>2, <2>1, <2>3, <2>4, UpdateLeave
<1> QED BY <1>3, <1>4

-----------------------------------------------------------------------------
(* Stale jobs and the environment                                          *)

LEMMA PlanFenceSound ==
    ASSUME IInv, NEW w \in Wakes, NEW j \in JobIds, PlanFence(w, j)
    PROVE  IInv'
<1>1. /\ TypeOK /\ jobs[j] \in Job /\ WakeFit(w) /\ w # NoWake /\ wake[w] = Idle
      /\ Len(jobs) \in Nat /\ Len(jobs) <= MaxJobs
  BY FindsFit DEF PlanFence
<1> DEFINE z == [Idle EXCEPT !.at = "supersede", !.job = j, !.plan = rev[jobs[j].related]]
<1>2. /\ wake' = [wake EXCEPT ![w] = z] /\ UNCHANGED <<registry, jobs>> /\ lock' = lock
  BY DEF PlanFence
<1>3. j \in 0..MaxJobs /\ rev[jobs[j].related] \in Nat
  BY <1>1, ReviewAssumption, SMTT(30) DEF JobIds, TypeOK, Job
<1>4. z \in Wake /\ z.at = "supersede" /\ z.job = j
  BY <1>3, IdleType DEF Wake
<1> HIDE DEF z
<1>5. z.at \notin Committing /\ z.at \notin Clear /\ z.at \notin Done /\ z.at \notin Inside
  BY <1>4 DEF Committing, Clear, Done, Inside
<1>6. lock # w
  BY <1>1, IdleType DEF WakeFit, Inside
<1> QED BY <1>2, <1>4, <1>5, <1>6, GotoStep

\* The job that is superseded and its successor.
LEMMA SucceededType ==
    ASSUME IInv, NEW j \in JobIds, NEW read \in Nat, Room, NEW w
    PROVE  \E x \in Job : \E y :
              /\ Succeeded(j, read) = Append([jobs EXCEPT ![j] = x], y) /\ Added(y)
              /\ Evolves(jobs[j], x, w) /\ Fits(j, x)
<1>1. /\ TypeOK /\ jobs[j] \in Job /\ Fits(j, jobs[j]) /\ jobs \in Seq(Job)
      /\ Len(jobs) \in Nat /\ Len(jobs) <= MaxJobs
  BY FindsFit DEF JobFit
<1> DEFINE c == Closed(jobs[j], "superseded")
           x == [c EXCEPT !.successor = Len(jobs) + 1]
           y == NewJob(jobs[j].bundle, jobs[j].related, read)
<1>2. /\ c \in Job /\ c.state = "superseded" /\ c.stage = jobs[j].stage
      /\ c.round = jobs[j].round /\ c.receipt = jobs[j].receipt /\ c.attempts = 0
  BY <1>1, ClosedType
<1>3. Succeeded(j, read) = Append([jobs EXCEPT ![j] = x], y)
  BY <1>1 DEF Succeeded, JobIds
<1> HIDE DEF c
<1>4. /\ x \in Job /\ x.state = "superseded" /\ x.stage = jobs[j].stage
      /\ x.round = jobs[j].round /\ x.receipt = jobs[j].receipt /\ x.attempts = 0
  <2>1. Len(jobs) + 1 \in 0..MaxJobs
    BY <1>1, ReviewAssumption DEF Room
  <2> QED BY <2>1, <1>2 DEF Job
<1>5. Added(y)
  <2>1. jobs[j].bundle \in Bundles /\ jobs[j].related \in Handles
    BY <1>1 DEF Job
  <2> QED BY <2>1, NewJobType DEF Added
<1> HIDE DEF x, y
<1>6. Fits(j, x) /\ Evolves(jobs[j], x, w)
  BY <1>1, <1>4, ClosedFits
<1> QED BY <1>3, <1>4, <1>5, <1>6

LEMMA SupersedeSound ==
    ASSUME IInv, NEW w \in Wakes, Supersede(w)
    PROVE  IInv'
<1>1. /\ Free /\ Room /\ wake[w].at = "supersede" /\ UNCHANGED registry
      /\ jobs' = Succeeded(wake[w].job, wake[w].plan) /\ Leave(w)
      /\ lock = NoWake /\ lock' = NoWake
  BY DEF Supersede, Free
<1>2. wake[w].job \in JobIds /\ wake[w].plan \in Nat /\ w # NoWake /\ TypeOK
  BY <1>1, FindsWake DEF Wake
<1>3. PICK x \in Job : \E y :
          /\ jobs' = Append([jobs EXCEPT ![wake[w].job] = x], y) /\ Added(y)
          /\ Evolves(jobs[wake[w].job], x, w) /\ Fits(wake[w].job, x)
  BY <1>1, <1>2, SucceededType
<1>4. PICK y :
          /\ jobs' = Append([jobs EXCEPT ![wake[w].job] = x], y) /\ Added(y)
          /\ Evolves(jobs[wake[w].job], x, w) /\ Fits(wake[w].job, x)
  BY <1>3
<1>5. Idle \in Wake /\ wake' = [wake EXCEPT ![w] = Idle] /\ wake'[w].at = "idle"
  BY <1>1, <1>2, IdleType DEF Leave, TypeOK
<1>6. WakeFit(w)'
  BY <1>1, <1>2, <1>5, IdleFit
<1> QED BY <1>1, <1>2, <1>4, <1>5, <1>6, GrowStep

LEMMA ReactivateSound ==
    ASSUME IInv, NEW j \in JobIds, Reactivate(j)
    PROVE  IInv'
<1>1. /\ Free /\ Room /\ UNCHANGED <<registry, lock, wake>>
      /\ jobs' = Succeeded(j, rev[jobs[j].related])
  BY DEF Reactivate
<1>2. rev[jobs[j].related] \in Nat
  BY FindsFit DEF TypeOK, Job
<1>3. PICK x \in Job : \E y :
          /\ jobs' = Append([jobs EXCEPT ![j] = x], y) /\ Added(y)
          /\ Evolves(jobs[j], x, NoWake) /\ Fits(j, x)
  BY <1>1, <1>2, SucceededType
<1>4. PICK y :
          /\ jobs' = Append([jobs EXCEPT ![j] = x], y) /\ Added(y)
          /\ Evolves(jobs[j], x, NoWake) /\ Fits(j, x)
  BY <1>3
<1> QED BY <1>1, <1>4, JobStep

LEMMA OperateSound ==
    ASSUME IInv, NEW h \in Handles, Operate(h)
    PROVE  IInv'
<1>1. /\ rev' \in [Handles -> Nat] /\ UNCHANGED <<drawn, recorded, jobs, lock, wake>>
  BY FindsFit DEF Operate, Reg!Retire, Reg!Touch, TypeOK
<1>2. TypeOK' /\ KeysKnown'
  BY <1>1, FindsFit DEF TypeOK, KeysKnown, JobIds
<1>3. ASSUME NEW j \in JobIds' PROVE JobFit(j)'
  <2>1. j \in JobIds /\ JobFit(j)
    BY <1>1, FindsFit DEF JobIds
  <2> QED BY <2>1, <1>1 DEF JobFit, Fits, Keyed, Reg!Recorded
<1>4. ASSUME NEW w \in Wakes PROVE WakeFit(w)'
  <2>1. WakeFit(w)
    BY FindsFit
  <2> QED BY <2>1, <1>1 DEF WakeFit, JobIds, Filed, Key, Reg!Recorded
<1> QED BY <1>2, <1>3, <1>4 DEF IInv

LEMMA CrashSound ==
    ASSUME IInv, NEW w \in Wakes, Crash(w)
    PROVE  IInv'
<1>1. /\ Leave(w) /\ UNCHANGED <<registry, jobs>>
      /\ lock' = IF lock = w THEN NoWake ELSE lock
  BY DEF Crash
<1>2. w # NoWake
  BY FindsFit
<1> QED BY <1>1, <1>2, LeaveStep

-----------------------------------------------------------------------------
(* The theorems                                                            *)

LEMMA NextSound ==
    ASSUME IInv, [Next]_vars
    PROVE  IInv'
<1>1. ASSUME NEW b \in Bundles, Admit(b)
      PROVE  IInv'
  BY <1>1, AdmitSound
<1>2. ASSUME NEW w \in Wakes, Execute(w)
      PROVE  IInv'
  BY <1>2, ReviewEndsSound, RecoverSound, FenceSound, LockSound, WorkSound, SaveSound,
     SettleSound, CompleteSound, SupersedeSound, FailSound DEF Execute
<1>3. ASSUME NEW w \in Wakes, Release(w) \/ Crash(w)
      PROVE  IInv'
  BY <1>3, ReleaseSound, CrashSound
<1>4. ASSUME NEW w \in Wakes, NEW j \in JobIds, Claim(w, j) \/ PlanFence(w, j)
      PROVE  IInv'
  BY <1>4, ClaimSound, PlanFenceSound
<1>5. ASSUME NEW j \in JobIds, Converge(j) \/ Expire(j) \/ Stall(j) \/ Reactivate(j)
      PROVE  IInv'
  BY <1>5, ConvergeSound, RunsOutSound, ReactivateSound DEF Expire, Stall
<1>6. ASSUME NEW h \in Handles, Operate(h)
      PROVE  IInv'
  BY <1>6, OperateSound
<1>7. CASE UNCHANGED vars
  <2>1. UNCHANGED <<rev, drawn, recorded, jobs, lock, wake>>
    BY <1>7 DEF vars, registry
  <2> QED BY <2>1 DEF IInv, TypeOK, KeysKnown, JobFit, Fits, Keyed, WakeFit, JobIds, Filed,
                      Key, Reg!Recorded
<1> QED BY <1>1, <1>2, <1>3, <1>4, <1>5, <1>6, <1>7 DEF Next

\* In every reachable state the inductive invariant holds.
LEMMA InvariantHolds == Spec => []IInv
<1>1. Init => IInv
  BY InitSound
<1>2. IInv /\ [Next]_vars => IInv'
  BY NextSound
<1> QED BY <1>1, <1>2, PTL DEF Spec

\* Type correctness: jobs, wakes and the audit keep their shapes, and no quantum is
\* attempted more often than allowed.
THEOREM TypeCorrect == Spec => []TypeOK
<1>1. IInv => TypeOK
  BY IInvImplies
<1> QED BY <1>1, InvariantHolds, PTL

\* The store lock is held by a wake that owns its quantum, and what it is about to commit
\* is not in the audit: no job is committed twice under one key, whoever ran it before.
THEOREM LockedByOwnerHolds == Spec => []LockedByOwner
<1>1. IInv => LockedByOwner
  BY IInvImplies
<1> QED BY <1>1, InvariantHolds, PTL

\* A receipt, and with it a job that ended, is backed by the audit, whatever crashes and
\* lost leases came between the registry and the job store.
THEOREM BackedHolds == Spec => []Backed
<1>1. IInv => Backed
  BY IInvImplies
<1> QED BY <1>1, InvariantHolds, PTL

\* A job is committed only under the last draft its verifier accepted.
THEOREM OneDraftHolds == Spec => []OneDraft
<1>1. IInv => OneDraft
  BY IInvImplies
<1> QED BY <1>1, InvariantHolds, PTL

=============================================================================
