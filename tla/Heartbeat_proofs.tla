-------------------------- MODULE Heartbeat_proofs --------------------------
(***************************************************************************)
(* Theorems about Heartbeat, for any number of processes, any number of    *)
(* good samples that lift a level of pressure, and any number of events:   *)
(*  - type correctness;                                                    *)
(*  - whoever has a wake in flight is the recorded owner;                  *)
(*  - an owner never falls asleep.                                         *)
(***************************************************************************)
EXTENDS Heartbeat, TLAPS

\* What the role, the owner record, the scheduler s and the wake w of a process p
\* have to do with each other.  A wake in flight in a process that has given its role
\* away is late; a timer is armed in an owner that is not stopped, nowhere else.
Fit(p, ro, ow, s, w) ==
    /\ ro \in {"owner", "stopping"} \/ w.pc # "none" => ow = p
    /\ w.pc # "none" => ro # "off"
    /\ w.pc = "boot" => ro = "owner"
    /\ ro \in {"stopped", "follower"} /\ w.pc # "none" <=> w.late
    /\ w.late \/ ro = "stopping" => s.stopped
    /\ s.timer # None => ro = "owner" /\ ~s.stopped
    /\ ro = "owner" /\ ~s.stopped =>
         s.timer # None \/ s.mode = "suspended" \/ (s.due /\ w.pc # "none")

FitOK == \A p \in Process : Fit(p, role[p], owner, sched[p], wake[p])

\* The inductive invariant: no conjunct of it is inductive without FitOK.
IInv == TypeOK /\ FitOK

LEMMA IInvImplies == IInv => TypeOK /\ OneWriter /\ NeverAsleep
BY DEF IInv, FitOK, Fit, OneWriter, NeverAsleep, On

-----------------------------------------------------------------------------
(* The operators on the view of a process                                  *)
Views == [s : Sched, w : Wake, r : Rec]

\* What no operator on a scheduler changes before its timer is touched.
Calm(s, t) == /\ t.stopped = s.stopped /\ t.mode = s.mode /\ t.timer = s.timer
              /\ t.due = s.due /\ t.streak = s.streak

LEMMA ReasonFacts ==
    /\ {"startup", "scheduled", "manual", "retry", "settle", "more"} = Reason
    /\ None \notin Reason
BY ReasonAssumption DEF Reason

LEMMA NewTypes ==
    /\ NoWake \in Wake /\ NoWake.pc = "none" /\ NoWake.late = FALSE
    /\ NewSched \in Sched /\ NewSched.timer = None /\ NewSched.stopped = FALSE
    /\ NewSched.mode = "normal" /\ NewSched.due = FALSE
BY HeartbeatAssumption DEF NoWake, NewSched, Wake, Sched, Pc, Mode

LEMMA ViewType ==
    ASSUME TypeOK, NEW p \in Process
    PROVE  /\ View(p) \in Views
           /\ View(p).s = sched[p] /\ View(p).w = wake[p] /\ View(p).r = rec
BY DEF View, Views, TypeOK

LEMMA PersistType ==
    ASSUME NEW b \in Views
    PROVE  /\ Persist(b) \in Views
           /\ Persist(b).s = b.s /\ Persist(b).w = b.w
BY DEF Persist, Views, Rec, Sched

LEMMA RestoreType ==
    ASSUME NEW b \in Views
    PROVE  /\ Restore(b) \in Views
           /\ Calm(b.s, Restore(b).s) /\ Restore(b).w = b.w
BY DEF Restore, Views, Rec, Sched, Calm

LEMMA RecordedType ==
    ASSUME NEW b \in Views
    PROVE  /\ Recorded(b) \in Views
           /\ Recorded(b).s = b.s /\ Recorded(b).w = b.w
BY DEF Recorded, Views, Rec

LEMMA PendingType ==
    ASSUME NEW b \in Views, NEW x \in SUBSET Reason
    PROVE  /\ [b EXCEPT !.s.pending = x] \in Views
           /\ Calm(b.s, [b EXCEPT !.s.pending = x].s)
           /\ [b EXCEPT !.s.pending = x].w = b.w
BY DEF Views, Sched, Calm

LEMMA DeferType ==
    ASSUME NEW b \in Views, NEW reason \in Reason
    PROVE  /\ Defer(b, reason) \in Views
           /\ Calm(b.s, Defer(b, reason).s) /\ Defer(b, reason).w = b.w
<1> DEFINE c == [b EXCEPT !.s.pending = @ \cup {reason}]
<1>1. c \in Views /\ Calm(b.s, c.s) /\ c.w = b.w
  <2>1. b.s.pending \cup {reason} \in SUBSET Reason
    BY DEF Views, Sched
  <2>2. c = [b EXCEPT !.s.pending = b.s.pending \cup {reason}]
    OBVIOUS
  <2> QED BY <2>1, <2>2, PendingType
<1> HIDE DEF c
<1>2. Persist(c) \in Views /\ Persist(c).s = c.s /\ Persist(c).w = c.w
  BY <1>1, PersistType
<1>3. Defer(b, reason) = Recorded(Persist(c))
  BY DEF Defer, c
<1> QED BY <1>1, <1>2, <1>3, RecordedType

LEMMA ScheduleType ==
    ASSUME NEW b \in Views, NEW reason \in Reason
    PROVE  LET c == Schedule(b, reason)
           IN  /\ c \in Views /\ c.w = b.w
               /\ c.s.stopped = b.s.stopped /\ c.s.mode = b.s.mode
               /\ c.s.due = b.s.due
               /\ b.s.stopped \/ b.s.mode = "suspended" => c.s.timer = b.s.timer
               /\ ~b.s.stopped /\ b.s.mode # "suspended" => c.s.timer # None
<1>1. CASE b.s.stopped \/ b.s.mode = "suspended"
  BY <1>1 DEF Schedule
<1>2. CASE ~(b.s.stopped \/ b.s.mode = "suspended")
  <2>1. Schedule(b, reason) = [b EXCEPT !.s.timer = reason, !.r.next = reason]
    BY <1>2 DEF Schedule
  <2>2. b.s \in Sched /\ b.r \in Rec /\ reason # None
    BY ReasonFacts DEF Views
  <2>3. /\ [b.s EXCEPT !.timer = reason] \in Sched
        /\ [b.r EXCEPT !.next = reason] \in Rec
    BY <2>2 DEF Sched, Rec
  <2>4. /\ Schedule(b, reason) \in Views /\ Schedule(b, reason).w = b.w
        /\ Schedule(b, reason).s = [b.s EXCEPT !.timer = reason]
    BY <2>1, <2>3 DEF Views
  <2> QED BY <1>2, <2>2, <2>4 DEF Sched
<1> QED BY <1>1, <1>2

LEMMA GuardedType ==
    ASSUME NEW s \in Sched, NEW level \in Level
    PROVE  /\ Guarded(s, level).mode \in Mode
           /\ Guarded(s, level).well \in 0..(RecoverySamples - 1)
<1>1. /\ RecoverySamples \in Nat /\ RecoverySamples > 0
      /\ s.well \in 0..(RecoverySamples - 1) /\ s.mode \in Mode
  BY HeartbeatAssumption DEF Sched
<1>2. CASE s.mode = "normal"
  BY <1>1, <1>2 DEF Guarded, Mode
<1>3. CASE s.mode # "normal" /\ level = "well" /\ s.well + 1 >= RecoverySamples
  BY <1>1, <1>3 DEF Guarded, Mode
<1>4. CASE s.mode # "normal" /\ level = "well" /\ ~(s.well + 1 >= RecoverySamples)
  BY <1>1, <1>4 DEF Guarded, Mode
<1>5. CASE s.mode # "normal" /\ level # "well"
  BY <1>1, <1>5 DEF Guarded, Mode
<1> QED BY <1>2, <1>3, <1>4, <1>5

LEMMA SuspendedType ==
    ASSUME NEW b \in Views
    PROVE  LET c == Suspended(b)
           IN  /\ c \in Views
               /\ c.w.pc = b.w.pc /\ c.w.late = b.w.late
               /\ c.s.stopped = b.s.stopped /\ c.s.mode = b.s.mode
               /\ c.s.due = b.s.due /\ c.s.timer = None
<1> DEFINE a == b.w.aborted \/ b.w.pc = "running"
           x == b.r.pending \cup b.r.inProgress \cup ({b.r.next} \ {None})
<1>1. b.s \in Sched /\ b.w \in Wake /\ b.r \in Rec
  BY DEF Views
<1>2. a \in BOOLEAN /\ x \in SUBSET Reason
  BY <1>1 DEF Rec
<1>3. Suspended(b) = [b EXCEPT !.w.aborted = a, !.r.pending = x, !.r.next = None,
                               !.s.timer = None]
  BY DEF Suspended
<1> HIDE DEF a, x
<1> DEFINE c == [s |-> [b.s EXCEPT !.timer = None], w |-> [b.w EXCEPT !.aborted = a],
                 r |-> [b.r EXCEPT !.pending = x, !.next = None]]
<1>4. Suspended(b) = c
  BY <1>3 DEF Views
<1>5. [b.s EXCEPT !.timer = None] \in Sched
  BY <1>1 DEF Sched
<1>6. [b.w EXCEPT !.aborted = a] \in Wake
  BY <1>1, <1>2 DEF Wake
<1>7. [b.r EXCEPT !.pending = x, !.next = None] \in Rec
  BY <1>1, <1>2 DEF Rec
<1> QED BY <1>1, <1>4, <1>5, <1>6, <1>7 DEF Views, Sched, Wake

\* A sample touches the timer in two ways: hard pressure disarms it, the end of a
\* level of pressure arms it unless the scheduler is stopped.
Observed(b, o) ==
    /\ o \in Views
    /\ o.w.pc = b.w.pc /\ o.w.late = b.w.late
    /\ o.s.stopped = b.s.stopped /\ o.s.due = b.s.due
    /\ o.s.timer # None => b.s.timer # None \/ ~b.s.stopped
    /\ ~b.s.stopped /\ o.s.mode # "suspended" =>
         o.s.timer # None \/ (b.s.timer = None /\ b.s.mode # "suspended")

LEMMA ObserveType ==
    ASSUME NEW b \in Views, NEW sample \in Sample
    PROVE  Observed(b, Observe(b, sample))
<1> DEFINE g == Guarded(b.s, sample.level)
           c == Noted(b, g, sample)
           recovered == \/ b.s.mode = "suspended" /\ g.mode = "degraded"
                        \/ b.s.mode = "degraded" /\ g.mode = "normal"
<1>1. g.mode \in Mode /\ g.well \in 0..(RecoverySamples - 1)
  BY GuardedType DEF Views, Sample
<1>2. g.mode = "normal" => b.s.mode # "suspended"
  <2>1. b.s.mode \in Mode
    BY DEF Views, Sched
  <2> QED BY <2>1 DEF Guarded, Mode
<1>3. Observe(b, sample) = IF g.mode = "suspended" /\ b.s.mode # "suspended" THEN Suspended(c)
                           ELSE IF recovered THEN Schedule(c, "scheduled") ELSE c
  BY DEF Observe
<1> HIDE DEF g
<1>4. /\ c \in Views /\ c.w = b.w /\ c.s.mode = g.mode
      /\ c.s.stopped = b.s.stopped /\ c.s.due = b.s.due /\ c.s.timer = b.s.timer
  BY <1>1 DEF Noted, Views, Sched, Rec
<1> HIDE DEF c
<1>5. CASE g.mode = "suspended" /\ b.s.mode # "suspended"
  <2>1. Observe(b, sample) = Suspended(c)
    BY <1>3, <1>5
  <2> QED BY <2>1, <1>4, <1>5, SuspendedType DEF Observed
<1>6. CASE recovered /\ g.mode # "suspended"
  <2>1. Observe(b, sample) = Schedule(c, "scheduled") /\ "scheduled" \in Reason
    BY <1>3, <1>6, ReasonFacts
  <2> QED BY <2>1, <1>4, <1>6, ScheduleType DEF Observed
<1>7. CASE ~recovered /\ ~(g.mode = "suspended" /\ b.s.mode # "suspended")
  <2>1. Observe(b, sample) = c
    BY <1>3, <1>7
  <2>2. b.s.mode = "suspended" => g.mode = "suspended"
    BY <1>1, <1>2, <1>7 DEF Mode
  <2> QED BY <2>1, <2>2, <1>4, <1>7 DEF Observed
<1> QED BY <1>5, <1>6, <1>7

\* What runHeartbeat does to a view whose wake is none or awaits: the reason is deferred
\* under hard pressure, joins the wake in flight, or begins a wake.
Ran(b, c) ==
    /\ c \in Views
    /\ \/ c.w.pc = b.w.pc /\ c.w.late = b.w.late
       \/ b.w.pc = "none" /\ c.w.pc = "cycle" /\ c.w.late = FALSE
    /\ c.w.pc = "none" => c.s.mode = "suspended"
    /\ c.s.stopped = b.s.stopped /\ c.s.due = b.s.due
    /\ c.s.timer # None => b.s.timer # None \/ ~b.s.stopped
    /\ ~b.s.stopped /\ c.s.mode # "suspended" =>
         c.s.timer # None \/ (b.s.timer = None /\ b.s.mode # "suspended")

LEMMA RunType ==
    ASSUME NEW b \in Views, NEW reason \in Reason, NEW sample \in Sample,
           b.w.pc \in {"none", "queued", "running"}
    PROVE  Ran(b, Run(b, reason, sample))
<1> DEFINE v == Restore(b)
           o == Observe(v, sample)
           e == [o EXCEPT !.s.pending = @ \cup {reason}]
           c == Persist(e)
           n == [NoWake EXCEPT !.pc = "cycle"]
<1>1. v \in Views /\ Calm(b.s, v.s) /\ v.w = b.w
  BY RestoreType
<1> HIDE DEF v
<1>2. Observed(v, o)
  BY <1>1, ObserveType
<1> HIDE DEF o
<1>3. e \in Views /\ Calm(o.s, e.s) /\ e.w = o.w
  <2>1. o.s.pending \cup {reason} \in SUBSET Reason
    BY <1>2 DEF Views, Sched, Observed
  <2>2. e = [o EXCEPT !.s.pending = o.s.pending \cup {reason}]
    OBVIOUS
  <2>3. o \in Views
    BY <1>2 DEF Observed
  <2> QED BY <2>1, <2>2, <2>3, PendingType
<1> HIDE DEF e
<1>4. c \in Views /\ Calm(o.s, c.s) /\ c.w = o.w
  BY <1>3, PersistType
<1>5. Run(b, reason, sample) =
         IF o.s.mode = "suspended" THEN Defer(o, reason)
         ELSE IF b.w.pc \in {"queued", "running"} THEN c ELSE [c EXCEPT !.w = n]
  BY DEF Run, c, e, o, v
<1> HIDE DEF c
<1>6. n \in Wake /\ n.pc = "cycle" /\ n.late = FALSE
  BY NewTypes DEF Wake, Pc, Sync
<1> HIDE DEF n
<1>7. CASE o.s.mode = "suspended"
  <2>1. /\ Defer(o, reason) \in Views /\ Calm(o.s, Defer(o, reason).s)
        /\ Defer(o, reason).w = o.w
    BY <1>2, DeferType DEF Observed
  <2> QED BY <2>1, <1>1, <1>2, <1>5, <1>7 DEF Observed, Calm, Ran
<1>8. CASE o.s.mode # "suspended" /\ b.w.pc # "none"
  BY <1>1, <1>2, <1>4, <1>5, <1>8 DEF Observed, Calm, Ran
<1>9. CASE o.s.mode # "suspended" /\ b.w.pc = "none"
  <2>1. [c EXCEPT !.w = n] \in Views /\ [c EXCEPT !.w = n].s = c.s /\ [c EXCEPT !.w = n].w = n
    BY <1>4, <1>6 DEF Views
  <2> QED BY <2>1, <1>1, <1>2, <1>4, <1>5, <1>6, <1>9 DEF Observed, Calm, Ran
<1> QED BY <1>7, <1>8, <1>9

LEMMA LoopedType ==
    ASSUME NEW b \in Views
    PROVE  LET c == Looped(b)
           IN  /\ c \in Views /\ Calm(b.s, c.s)
               /\ c.w.pc = "cycle" /\ c.w.late = b.w.late
<1> DEFINE n == [NoWake EXCEPT !.pc = "cycle", !.late = b.w.late]
           d == [Recorded(b) EXCEPT !.w = n]
<1>1. n \in Wake /\ n.pc = "cycle" /\ n.late = b.w.late
  BY NewTypes DEF Views, Wake, Pc, Sync
<1>2. Looped(b) = Restore(d)
  BY DEF Looped
<1> HIDE DEF n
<1>3. d \in Views /\ d.s = b.s /\ d.w = n
  BY <1>1, RecordedType DEF Views
<1> HIDE DEF d
<1> QED BY <1>1, <1>2, <1>3, RestoreType

LEMMA GivenBackType ==
    ASSUME NEW b \in Views
    PROVE  LET c == GivenBack(b)
           IN  /\ c \in Views /\ Calm(b.s, c.s)
               /\ c.w.pc = "cycle" /\ c.w.late = b.w.late
<1> DEFINE d == [b EXCEPT !.r.pending = @ \cup b.w.reasons]
<1>1. d \in Views /\ d.s = b.s /\ d.w = b.w
  BY DEF Views, Wake, Rec
<1>2. GivenBack(b) = Looped(d)
  BY DEF GivenBack
<1> HIDE DEF d
<1> QED BY <1>1, <1>2, LoopedType

LEMMA PlannedType ==
    ASSUME NEW earliest \in {"retry", "scheduled", "settle"}, NEW streak \in 0..2
    PROVE  /\ Planned(earliest, streak).reason \in Reason
           /\ Planned(earliest, streak).streak \in 0..2
<1>1. CASE earliest = "retry" /\ streak < 2
  BY <1>1, ReasonFacts DEF Planned
<1>2. CASE earliest = "retry" /\ streak = 2
  BY <1>2, ReasonFacts DEF Planned
<1>3. CASE earliest # "retry"
  BY <1>3, ReasonFacts DEF Planned
<1> QED BY <1>1, <1>2, <1>3

-----------------------------------------------------------------------------
(* Steps.  A step of one process leaves the schedulers and the wakes of the *)
(* others alone, and moves the owner record from itself or from nobody.     *)

LEMMA EventType ==
    ASSUME TypeOK, Event \/ UNCHANGED events
    PROVE  events' \in 0..MaxEvents
BY HeartbeatAssumption DEF TypeOK, Event

LEMMA SampledType ==
    ASSUME TypeOK, NEW sample \in Sample, Sampled(sample)
    PROVE  events' \in 0..MaxEvents
BY EventType DEF Sampled

LEMMA StepSound ==
    ASSUME IInv, NEW p \in Process, NEW s \in Sched, NEW w \in Wake,
           role' \in [Process -> Role], \A q \in Process \ {p} : role'[q] = role[q],
           owner' \in Process \cup {None, "dead"},
           owner' = owner \/ owner \in {p, None, "dead"},
           sched' = [sched EXCEPT ![p] = s], wake' = [wake EXCEPT ![p] = w],
           rec' \in Rec, unmet' \in BOOLEAN, events' \in 0..MaxEvents,
           Fit(p, role'[p], owner', s, w)
    PROVE  IInv'
<1>1. TypeOK'
  BY DEF IInv, TypeOK
<1>2. ASSUME NEW q \in Process PROVE Fit(q, role'[q], owner', sched'[q], wake'[q])
  <2>1. CASE q = p
    BY <2>1 DEF IInv, TypeOK
  <2>2. CASE q # p
    <3>1. role'[q] = role[q] /\ sched'[q] = sched[q] /\ wake'[q] = wake[q]
      BY <2>2 DEF IInv, TypeOK
    <3>2. Fit(q, role[q], owner, sched[q], wake[q])
      BY DEF IInv, FitOK
    <3>3. owner' = owner \/ owner # q
      BY <2>2, HeartbeatAssumption
    <3> QED BY <3>1, <3>2, <3>3 DEF Fit
  <2> QED BY <2>1, <2>2
<1> QED BY <1>1, <1>2 DEF IInv, FitOK

\* The usual step: role and owner stay.
LEMMA ShowSound ==
    ASSUME IInv, NEW p \in Process, NEW b \in Views, Show(p, b),
           UNCHANGED <<role, owner>>, unmet' \in BOOLEAN, events' \in 0..MaxEvents,
           Fit(p, role[p], owner, b.s, b.w)
    PROVE  IInv'
<1>1. b.s \in Sched /\ b.w \in Wake /\ b.r \in Rec
  BY DEF Views
<1>2. role \in [Process -> Role] /\ owner \in Process \cup {None, "dead"}
  BY DEF IInv, TypeOK
<1> QED BY <1>1, <1>2, StepSound DEF Show

\* What a step finds.
LEMMA FindsSound ==
    ASSUME IInv, NEW p \in Process
    PROVE  /\ TypeOK /\ View(p) \in Views
           /\ View(p).s = sched[p] /\ View(p).w = wake[p] /\ View(p).r = rec
           /\ sched[p] \in Sched /\ wake[p] \in Wake /\ rec \in Rec /\ unmet \in BOOLEAN
           /\ role[p] \in Role
           /\ Fit(p, role[p], owner, sched[p], wake[p])
<1>1. TypeOK
  BY DEF IInv
<1> QED BY <1>1, ViewType DEF TypeOK, IInv, FitOK

LEMMA InitSound == Init => IInv
<1> SUFFICES ASSUME Init PROVE IInv
  OBVIOUS
<1>1. TypeOK
  <2>1. rec \in Rec
    BY HeartbeatAssumption DEF Init, Rec, Mode
  <2>2. role \in [Process -> Role] /\ owner \in Process \cup {None, "dead"}
    BY DEF Init, Role
  <2>3. sched \in [Process -> Sched] /\ wake \in [Process -> Wake]
    BY NewTypes DEF Init
  <2>4. unmet \in BOOLEAN /\ events \in 0..MaxEvents
    <3>1. unmet \in BOOLEAN
      BY DEF Init
    <3>2. events = MaxEvents
      BY DEF Init
    <3> QED BY <3>1, <3>2, HeartbeatAssumption
  <2> QED BY <2>1, <2>2, <2>3, <2>4 DEF TypeOK
<1>2. FitOK
  BY NewTypes DEF Init, FitOK, Fit
<1> QED BY <1>1, <1>2 DEF IInv

LEMMA StartedType ==
    ASSUME TypeOK, NEW sample \in Sample
    PROVE  LET b == Started(sample)
           IN  /\ b \in Views /\ ~b.w.late /\ b.w.pc \in {"none", "boot"}
               /\ ~b.s.stopped
               /\ b.s.mode = "suspended" \/ (b.s.due /\ b.w.pc # "none")
<1> DEFINE s == [NewSched EXCEPT !.mode = rec.mode, !.well = rec.well, !.due = TRUE]
           w == [NoWake EXCEPT !.pc = "boot"]
           b == [s |-> s, w |-> w, r |-> rec]
           c == IF rec.mode = "suspended" THEN Suspended(b) ELSE b
           v == Restore(c)
           o == Observe(v, sample)
           d == Defer(o, "startup")
<1>1. s \in Sched /\ s.stopped = FALSE /\ s.due = TRUE
  BY NewTypes DEF TypeOK, Rec, Sched
<1>2. w \in Wake /\ w.pc = "boot" /\ w.late = FALSE
  BY NewTypes DEF Wake, Pc, Sync
<1> HIDE DEF s, w
<1>3. b \in Views /\ b.s = s /\ b.w = w
  BY <1>1, <1>2 DEF Views, TypeOK
<1> HIDE DEF b
<1>4. /\ c \in Views /\ c.w.pc = "boot" /\ c.w.late = FALSE
      /\ c.s.stopped = FALSE /\ c.s.due = TRUE
  BY <1>1, <1>2, <1>3, SuspendedType
<1> HIDE DEF c
<1>5. /\ v \in Views /\ v.w.pc = "boot" /\ v.w.late = FALSE
      /\ v.s.stopped = FALSE /\ v.s.due = TRUE
  BY <1>4, RestoreType DEF Calm
<1> HIDE DEF v
<1>6. /\ o \in Views /\ o.w.pc = "boot" /\ o.w.late = FALSE
      /\ o.s.stopped = FALSE /\ o.s.due = TRUE
  BY <1>5, ObserveType DEF Observed
<1>7. Started(sample) = IF o.s.mode = "suspended"
                        THEN [d EXCEPT !.w = NoWake, !.s.due = FALSE] ELSE o
  BY DEF Started, d, o, v, c, b, s, w
<1> HIDE DEF o
<1>8. CASE o.s.mode = "suspended"
  <2>1. d \in Views /\ d.s.stopped = FALSE /\ d.s.mode = "suspended"
    BY <1>6, <1>8, DeferType, ReasonFacts DEF Calm
  <2> HIDE DEF d
  <2>2. /\ [d EXCEPT !.w = NoWake, !.s.due = FALSE] \in Views
        /\ [d EXCEPT !.w = NoWake, !.s.due = FALSE].w = NoWake
        /\ [d EXCEPT !.w = NoWake, !.s.due = FALSE].s.stopped = FALSE
        /\ [d EXCEPT !.w = NoWake, !.s.due = FALSE].s.mode = "suspended"
    BY <2>1, NewTypes DEF Views, Sched
  <2> QED BY <2>2, <1>7, <1>8, NewTypes
<1>9. CASE o.s.mode # "suspended"
  BY <1>6, <1>7, <1>9
<1> QED BY <1>8, <1>9

LEMMA OwnSound ==
    ASSUME IInv, NEW p \in Process, Own(p), role[p] \in {"off", "stopped", "follower"}
    PROVE  IInv'
<1>1. PICK sample \in Sample : Sampled(sample) /\ Show(p, Started(sample))
  BY DEF Own
<1>2. TypeOK /\ role \in [Process -> Role] /\ unmet \in BOOLEAN
  BY DEF IInv, TypeOK
<1> DEFINE b == Started(sample)
<1>3. /\ b \in Views /\ ~b.w.late /\ b.w.pc \in {"none", "boot"} /\ ~b.s.stopped
      /\ b.s.mode = "suspended" \/ (b.s.due /\ b.w.pc # "none")
  BY <1>2, StartedType
<1>4. Show(p, b)
  BY <1>1
<1> HIDE DEF b
<1>5. /\ owner' = p /\ owner \in {None, "dead"} /\ role' = [role EXCEPT ![p] = "owner"]
      /\ unmet' = unmet
  BY DEF Own, Free
<1>6. /\ role' \in [Process -> Role] /\ role'[p] = "owner"
      /\ \A q \in Process \ {p} : role'[q] = role[q]
  BY <1>2, <1>5 DEF Role
<1>7. Fit(p, "owner", p, b.s, b.w)
  BY <1>3 DEF Fit
<1>8. /\ b.s \in Sched /\ b.w \in Wake /\ b.r \in Rec
      /\ sched' = [sched EXCEPT ![p] = b.s] /\ wake' = [wake EXCEPT ![p] = b.w] /\ rec' = b.r
  BY <1>3, <1>4 DEF Show, Views
<1>9. events' \in 0..MaxEvents
  BY <1>1, <1>2, SampledType
<1> QED BY <1>2, <1>5, <1>6, <1>7, <1>8, <1>9, StepSound

LEMMA FollowSound ==
    ASSUME IInv, NEW p \in Process, Follow(p), role[p] \in {"off", "stopped"}
    PROVE  IInv'
<1>1. Fit(p, role[p], owner, sched[p], wake[p]) /\ sched[p] \in Sched /\ wake[p] \in Wake
  BY FindsSound
<1>2. /\ role' = [role EXCEPT ![p] = "follower"] /\ role \in [Process -> Role]
      /\ UNCHANGED <<owner, sched, wake, rec, unmet, events>> /\ TypeOK
  BY DEF Follow, IInv, TypeOK
<1>3. sched' = [sched EXCEPT ![p] = sched[p]] /\ wake' = [wake EXCEPT ![p] = wake[p]]
  BY <1>2 DEF TypeOK
<1>4. /\ role' \in [Process -> Role] /\ role'[p] = "follower"
      /\ \A q \in Process \ {p} : role'[q] = role[q]
  BY <1>2 DEF Role
<1>5. Fit(p, "follower", owner, sched[p], wake[p])
  BY <1>1 DEF Fit
<1>6. owner' \in Process \cup {None, "dead"} /\ rec' \in Rec /\ unmet' \in BOOLEAN
      /\ events' \in 0..MaxEvents /\ owner' = owner
  BY <1>2 DEF TypeOK
<1> QED BY <1>1, <1>3, <1>4, <1>5, <1>6, StepSound

LEMMA BootSound ==
    ASSUME IInv, NEW p \in Process, Boot(p)
    PROVE  IInv'
<1> DEFINE v == [View(p) EXCEPT !.w.pc = "none"]
<1>1. PICK sample \in Sample :
          LET b == Run(v, "startup", sample)
          IN  Sampled(sample) /\ Show(p, [b EXCEPT !.s.due = b.w.pc # "none"])
  BY DEF Boot
<1>2. /\ TypeOK /\ View(p) \in Views /\ View(p).s = sched[p] /\ View(p).w = wake[p]
      /\ wake[p] \in Wake /\ unmet \in BOOLEAN
      /\ Fit(p, role[p], owner, sched[p], wake[p])
  BY FindsSound
<1>3. wake[p].pc = "boot" /\ UNCHANGED <<role, owner, unmet>>
  BY DEF Boot
<1>4. /\ v \in Views /\ v.s = sched[p] /\ v.w.pc = "none" /\ v.w.late = wake[p].late
  BY <1>2 DEF Views, Wake, Pc
<1> HIDE DEF v
<1> DEFINE b == Run(v, "startup", sample)
           c == [b EXCEPT !.s.due = b.w.pc # "none"]
<1>5. Ran(v, b)
  BY <1>4, RunType, ReasonFacts
<1>6. Sampled(sample) /\ Show(p, c)
  BY <1>1
<1> HIDE DEF b
<1>7. /\ c \in Views /\ c.w = b.w /\ c.s.stopped = b.s.stopped /\ c.s.timer = b.s.timer
      /\ c.s.mode = b.s.mode /\ c.s.due = (b.w.pc # "none")
  BY <1>5 DEF Ran, Views, Sched
<1> HIDE DEF c
<1>8. Fit(p, role[p], owner, c.s, c.w)
  BY <1>2, <1>3, <1>4, <1>5, <1>7 DEF Fit, Ran
<1>9. events' \in 0..MaxEvents
  BY <1>2, <1>6, SampledType
<1> QED BY <1>2, <1>3, <1>6, <1>7, <1>8, <1>9, ShowSound

LEMMA TimerSound ==
    ASSUME IInv, NEW p \in Process, Timer(p)
    PROVE  IInv'
<1> DEFINE v == [View(p) EXCEPT !.s.timer = None]
<1>1. PICK sample \in Sample :
          LET b == Run(v, sched[p].timer, sample)
          IN  /\ Sampled(sample)
              /\ Show(p, [b EXCEPT !.s.due = @ \/ (b.s.mode # "suspended" /\ b.w.pc # "none")])
  BY DEF Timer
<1>2. /\ TypeOK /\ View(p) \in Views /\ View(p).s = sched[p] /\ View(p).w = wake[p]
      /\ sched[p] \in Sched /\ wake[p] \in Wake /\ unmet \in BOOLEAN
      /\ Fit(p, role[p], owner, sched[p], wake[p])
  BY FindsSound
<1>3. /\ wake[p].pc \in {"none", "queued", "running"} /\ sched[p].timer \in Reason
      /\ role[p] = "owner" /\ ~sched[p].stopped
      /\ UNCHANGED <<role, owner, unmet>>
  BY <1>2 DEF Timer, Awake, Fit, Sched, Wake, Pc
<1>4. /\ v \in Views /\ v.s.stopped = sched[p].stopped /\ v.w = wake[p]
  BY <1>2 DEF Views, Sched
<1> HIDE DEF v
<1> DEFINE b == Run(v, sched[p].timer, sample)
           c == [b EXCEPT !.s.due = @ \/ (b.s.mode # "suspended" /\ b.w.pc # "none")]
<1>5. Ran(v, b)
  BY <1>3, <1>4, RunType
<1>6. Sampled(sample) /\ Show(p, c)
  BY <1>1
<1> HIDE DEF b
<1>7. /\ c \in Views /\ c.w = b.w /\ c.s.stopped = b.s.stopped /\ c.s.timer = b.s.timer
      /\ c.s.mode = b.s.mode
      /\ b.s.mode # "suspended" /\ b.w.pc # "none" => c.s.due
  BY <1>5 DEF Ran, Views, Sched
<1> HIDE DEF c
<1>8. Fit(p, role[p], owner, c.s, c.w)
  BY <1>2, <1>3, <1>4, <1>5, <1>7 DEF Fit, Ran
<1>9. events' \in 0..MaxEvents
  BY <1>2, <1>6, SampledType
<1> QED BY <1>2, <1>3, <1>6, <1>7, <1>8, <1>9, ShowSound

LEMMA ManualSound ==
    ASSUME IInv, NEW p \in Process, Manual(p)
    PROVE  IInv'
<1>1. PICK sample \in Sample :
          Show(p, [Run(View(p), "manual", sample) EXCEPT !.w.sees = FALSE])
  BY DEF Manual
<1>2. /\ TypeOK /\ View(p) \in Views /\ View(p).s = sched[p] /\ View(p).w = wake[p]
      /\ wake[p] \in Wake /\ Fit(p, role[p], owner, sched[p], wake[p])
  BY FindsSound
<1>3. /\ wake[p].pc \in {"none", "queued", "running"}
      /\ role[p] = "owner" /\ ~sched[p].stopped
      /\ UNCHANGED <<role, owner>> /\ unmet' \in BOOLEAN /\ Event
  BY <1>2 DEF Manual, Awake, Wake, Pc
<1> DEFINE b == Run(View(p), "manual", sample)
           c == [b EXCEPT !.w.sees = FALSE]
<1>5. Ran(View(p), b)
  BY <1>2, <1>3, RunType, ReasonFacts
<1>6. Show(p, c)
  BY <1>1
<1> HIDE DEF b
<1>7. /\ c \in Views /\ c.w.pc = b.w.pc /\ c.w.late = b.w.late /\ c.s = b.s
  BY <1>5 DEF Ran, Views, Wake
<1> HIDE DEF c
<1>8. Fit(p, role[p], owner, c.s, c.w)
  BY <1>2, <1>3, <1>5, <1>7 DEF Fit, Ran
<1>9. events' \in 0..MaxEvents
  BY <1>2, <1>3, EventType
<1> QED BY <1>3, <1>6, <1>7, <1>8, <1>9, ShowSound

LEMMA PollSound ==
    ASSUME IInv, NEW p \in Process, Poll(p)
    PROVE  IInv'
<1>1. PICK sample \in Sample : Sampled(sample) /\ Show(p, Observe(View(p), sample))
  BY DEF Poll
<1>2. /\ TypeOK /\ View(p) \in Views /\ View(p).s = sched[p] /\ View(p).w = wake[p]
      /\ unmet \in BOOLEAN /\ Fit(p, role[p], owner, sched[p], wake[p])
  BY FindsSound
<1>3. role[p] = "owner" /\ UNCHANGED <<role, owner, unmet>>
  BY DEF Poll
<1> DEFINE o == Observe(View(p), sample)
<1>4. Observed(View(p), o)
  BY <1>2, ObserveType
<1> HIDE DEF o
<1>5. o \in Views /\ Fit(p, role[p], owner, o.s, o.w)
  BY <1>2, <1>3, <1>4 DEF Fit, Observed
<1>6. events' \in 0..MaxEvents
  BY <1>1, <1>2, SampledType
<1> QED BY <1>1, <1>2, <1>3, <1>5, <1>6, ShowSound DEF o

LEMMA FenceSound ==
    ASSUME IInv, NEW p \in Process, Fence(p)
    PROVE  IInv'
<1>2. /\ TypeOK /\ sched[p] \in Sched /\ wake[p] \in Wake
      /\ Fit(p, role[p], owner, sched[p], wake[p])
  BY FindsSound
<1> DEFINE s == [sched[p] EXCEPT !.stopped = TRUE, !.timer = None]
<1>3. s \in Sched /\ s.stopped /\ s.timer = None
  BY <1>2 DEF Sched
<1>4. sched' = [sched EXCEPT ![p] = s] /\ wake' = [wake EXCEPT ![p] = wake[p]]
  BY <1>2 DEF Fence, TypeOK
<1> HIDE DEF s
<1>5. Fit(p, role[p], owner, s, wake[p])
  BY <1>2, <1>3 DEF Fit
<1>6. UNCHANGED <<role, owner, rec, unmet>> /\ events' \in 0..MaxEvents
  BY <1>2, EventType DEF Fence
<1> QED BY <1>2, <1>3, <1>4, <1>5, <1>6, StepSound DEF TypeOK

-----------------------------------------------------------------------------
(* The wake                                                                  *)

LEMMA CycleSound ==
    ASSUME IInv, NEW p \in Process, Cycle(p)
    PROVE  IInv'
<1> DEFINE o(sample) == Observe(View(p), sample)
           n(x) == [NoWake EXCEPT !.pc = "taken", !.reasons = x]
<1>1. PICK sample \in Sample :
          LET ob == Observe(View(p), sample)
          IN  /\ ob.s.mode # "suspended" /\ Sampled(sample)
              /\ Show(p, [Persist([ob EXCEPT !.s.pending = {}]) EXCEPT !.w = n(ob.s.pending)])
  BY DEF Cycle
<1>2. /\ TypeOK /\ View(p) \in Views /\ View(p).s = sched[p] /\ View(p).w = wake[p]
      /\ role[p] \in Role /\ unmet \in BOOLEAN /\ Fit(p, role[p], owner, sched[p], wake[p])
  BY FindsSound
<1>3. /\ wake[p].pc = "cycle" /\ ~sched[p].stopped
      /\ UNCHANGED <<role, owner, unmet>>
  BY DEF Cycle
<1> DEFINE ob == Observe(View(p), sample)
           d == [ob EXCEPT !.s.pending = {}]
           e == Persist(d)
           w == n(ob.s.pending)
           c == [e EXCEPT !.w = w]
<1>4. Observed(View(p), ob)
  BY <1>2, ObserveType
<1>5. ob.s.mode # "suspended" /\ Sampled(sample) /\ Show(p, c)
  BY <1>1
<1> HIDE DEF ob, n
<1>6. d \in Views /\ Calm(ob.s, d.s)
  BY <1>4, PendingType DEF Observed
<1> HIDE DEF d
<1>7. e \in Views /\ e.s = d.s
  BY <1>6, PersistType
<1> HIDE DEF e
<1>8. w \in Wake /\ w.pc = "taken" /\ w.late = FALSE
  BY <1>4, NewTypes DEF n, Observed, Views, Sched, Wake, Pc, Sync
<1> HIDE DEF w
<1>9. c \in Views /\ c.s = d.s /\ c.w = w
  BY <1>7, <1>8 DEF Views
<1> HIDE DEF c
<1>10. Fit(p, role[p], owner, c.s, c.w)
  BY <1>2, <1>3, <1>4, <1>5, <1>6, <1>8, <1>9 DEF Fit, Observed, Calm, Role
<1>11. events' \in 0..MaxEvents
  BY <1>2, <1>5, SampledType
<1> QED BY <1>2, <1>3, <1>5, <1>9, <1>10, <1>11, ShowSound

LEMMA LoopSuspendedSound ==
    ASSUME IInv, NEW p \in Process, LoopSuspended(p)
    PROVE  IInv'
<1>1. PICK sample \in Sample :
          LET ob == Observe(View(p), sample)
          IN  /\ ob.s.mode = "suspended" /\ Sampled(sample)
              /\ Show(p, [Persist(ob) EXCEPT !.w = NoWake, !.s.due = FALSE])
  BY DEF LoopSuspended
<1>2. /\ TypeOK /\ View(p) \in Views /\ View(p).s = sched[p] /\ View(p).w = wake[p]
      /\ role[p] \in Role /\ unmet \in BOOLEAN /\ Fit(p, role[p], owner, sched[p], wake[p])
  BY FindsSound
<1>3. /\ wake[p].pc = "cycle" /\ ~sched[p].stopped
      /\ UNCHANGED <<role, owner, unmet>>
  BY DEF LoopSuspended
<1> DEFINE ob == Observe(View(p), sample)
           d == Persist(ob)
           c == [d EXCEPT !.w = NoWake, !.s.due = FALSE]
<1>4. Observed(View(p), ob)
  BY <1>2, ObserveType
<1>5. ob.s.mode = "suspended" /\ Sampled(sample) /\ Show(p, c)
  BY <1>1
<1> HIDE DEF ob
<1>6. d \in Views /\ d.s = ob.s
  BY <1>4, PersistType DEF Observed
<1> HIDE DEF d
<1>7. /\ c \in Views /\ c.w = NoWake
      /\ c.s.stopped = d.s.stopped /\ c.s.mode = d.s.mode /\ c.s.timer = d.s.timer
  BY <1>6, NewTypes DEF Views, Sched
<1> HIDE DEF c
<1>8. Fit(p, role[p], owner, c.s, c.w)
  BY <1>2, <1>3, <1>4, <1>5, <1>6, <1>7, NewTypes DEF Fit, Observed, Role
<1>9. events' \in 0..MaxEvents
  BY <1>2, <1>5, SampledType
<1> QED BY <1>2, <1>3, <1>5, <1>7, <1>8, <1>9, ShowSound

\* The end of a wake: its task arms the timer, a late wake gives the lock away.
LEMMA RestSound ==
    ASSUME IInv, NEW p \in Process, NEW left \in 0..MaxEvents, Rest(p, View(p), left),
           wake[p].pc # "none", wake[p].pc # "boot", UNCHANGED <<role, unmet>>
    PROVE  IInv'
<1> DEFINE b == View(p)
           free == [b EXCEPT !.w = NoWake, !.s.due = FALSE]
           rearms == sched[p].due /\ ~sched[p].stopped /\ sched[p].mode # "suspended"
<1>1. /\ TypeOK /\ b \in Views /\ b.s = sched[p] /\ b.w = wake[p] /\ b.r = rec
      /\ sched[p] \in Sched /\ unmet \in BOOLEAN
      /\ Fit(p, role[p], owner, sched[p], wake[p])
  BY FindsSound
<1>2. /\ owner' = IF wake[p].late THEN None ELSE owner
      /\ \/ /\ ~rearms /\ events' = left
            /\ Show(p, IF wake[p].late THEN [free EXCEPT !.s = NewSched] ELSE free)
         \/ /\ rearms
            /\ \E earliest \in {"retry", "scheduled", "settle"} :
                  LET plan == Planned(earliest, sched[p].streak)
                  IN  /\ Show(p, Schedule([free EXCEPT !.s.streak = plan.streak], plan.reason))
                      /\ events' = IF earliest = "settle" THEN left - 1 ELSE left
                      /\ earliest = "settle" => left > 0
  BY <1>1 DEF Rest
<1> HIDE DEF b
<1>3. /\ free \in Views /\ free.w = NoWake /\ free.s.stopped = sched[p].stopped
      /\ free.s.mode = sched[p].mode /\ free.s.timer = sched[p].timer /\ free.s.due = FALSE
  BY <1>1, NewTypes DEF Views, Sched
<1> HIDE DEF free
<1>4. owner = p /\ role[p] # "off" /\ role' \in [Process -> Role] /\ role' = role
      /\ owner' \in Process \cup {None, "dead"}
  BY <1>1, <1>2 DEF Fit, TypeOK
<1>5. ASSUME ~rearms, events' = left, wake[p].late, Show(p, [free EXCEPT !.s = NewSched])
      PROVE  IInv'
  <2>1. [free EXCEPT !.s = NewSched] \in Views
        /\ [free EXCEPT !.s = NewSched].s = NewSched /\ [free EXCEPT !.s = NewSched].w = NoWake
    BY <1>3, NewTypes DEF Views
  <2>2. NewSched \in Sched /\ NoWake \in Wake /\ rec' \in Rec
        /\ sched' = [sched EXCEPT ![p] = NewSched] /\ wake' = [wake EXCEPT ![p] = NoWake]
    BY <2>1, <1>5, NewTypes DEF Show, Views
  <2>3. Fit(p, role'[p], owner', NewSched, NoWake)
    BY <1>1, <1>4, <1>5, NewTypes DEF Fit
  <2> QED BY <1>1, <1>4, <1>5, <2>2, <2>3, StepSound
<1>6. ASSUME ~rearms, events' = left, ~wake[p].late, Show(p, free)
      PROVE  IInv'
  <2>1. owner' = owner
    BY <1>2, <1>6
  <2>2. Fit(p, role[p], owner, free.s, free.w)
    BY <1>1, <1>3, <1>4, <1>6, NewTypes DEF Fit
  <2> QED BY <1>1, <1>3, <1>4, <1>6, <2>1, <2>2, ShowSound
<1>7. ASSUME rearms,
             NEW earliest \in {"retry", "scheduled", "settle"},
             Show(p, Schedule([free EXCEPT !.s.streak = Planned(earliest, sched[p].streak).streak],
                              Planned(earliest, sched[p].streak).reason)),
             events' = IF earliest = "settle" THEN left - 1 ELSE left,
             earliest = "settle" => left > 0
      PROVE  IInv'
  <2> DEFINE plan == Planned(earliest, sched[p].streak)
             f == [free EXCEPT !.s.streak = plan.streak]
             c == Schedule(f, plan.reason)
  <2>1. plan.reason \in Reason /\ plan.streak \in 0..2
    BY <1>1, PlannedType DEF Sched
  <2>2. Show(p, c)
    BY <1>7
  <2> HIDE DEF plan
  <2>3. /\ f \in Views /\ f.w = free.w /\ f.s.stopped = sched[p].stopped
        /\ f.s.mode = sched[p].mode
    BY <1>3, <2>1 DEF Views, Sched
  <2> HIDE DEF f
  <2>4. c \in Views /\ c.w = f.w /\ c.s.stopped = f.s.stopped /\ c.s.timer # None
    BY <1>7, <2>1, <2>3, ScheduleType
  <2> HIDE DEF c
  <2>5. ~wake[p].late /\ role[p] = "owner" /\ owner' = owner
    BY <1>1, <1>2, <1>4, <1>7 DEF Fit, TypeOK, Role
  <2>6. Fit(p, role[p], owner, c.s, c.w)
    BY <1>1, <1>3, <1>4, <1>7, <2>3, <2>4, <2>5, NewTypes DEF Fit
  <2>7. events' \in 0..MaxEvents
    BY <1>7, HeartbeatAssumption
  <2> QED BY <1>1, <1>4, <2>2, <2>4, <2>5, <2>6, <2>7, ShowSound
<1> QED BY <1>2, <1>5, <1>6, <1>7

LEMMA LoopSound ==
    ASSUME IInv, NEW p \in Process, Loop(p)
    PROVE  IInv'
<1>1. CASE Cycle(p)
  BY <1>1, CycleSound
<1>2. CASE LoopEnds(p)
  <2>1. /\ wake[p].pc = "cycle" /\ Rest(p, View(p), events)
        /\ UNCHANGED <<role, unmet>> /\ events \in 0..MaxEvents
    BY <1>2 DEF LoopEnds, IInv, TypeOK
  <2> QED BY <2>1, RestSound
<1>3. CASE LoopSuspended(p)
  BY <1>3, LoopSuspendedSound
<1> QED BY <1>1, <1>2, <1>3 DEF Loop

LEMMA BeginSound ==
    ASSUME IInv, NEW p \in Process, Begin(p)
    PROVE  IInv'
<1>1. /\ TypeOK /\ sched[p] \in Sched /\ wake[p] \in Wake
      /\ Fit(p, role[p], owner, sched[p], wake[p])
  BY FindsSound
<1> DEFINE w == [wake[p] EXCEPT !.pc = "queued"]
<1>2. w \in Wake /\ w.pc = "queued" /\ w.late = wake[p].late
  BY <1>1 DEF Wake, Pc
<1>3. /\ wake' = [wake EXCEPT ![p] = w] /\ sched' = [sched EXCEPT ![p] = sched[p]]
      /\ UNCHANGED <<role, owner, unmet, events>>
  BY <1>1 DEF Begin, TypeOK
<1> HIDE DEF w
<1>4. rec' \in Rec
  BY <1>1 DEF Begin, TypeOK, Rec, Wake
<1>5. Fit(p, role[p], owner, sched[p], w)
  BY <1>1, <1>2 DEF Fit, Begin
<1> QED BY <1>1, <1>2, <1>3, <1>4, <1>5, StepSound DEF TypeOK

\* A wake that goes on keeps its process' timer, role and owner.
LEMMA GoesOnSound ==
    ASSUME IInv, NEW p \in Process, NEW b \in Views, Show(p, b),
           Calm(sched[p], b.s), b.w.late = wake[p].late,
           wake[p].pc \in {"queued", "running"}, b.w.pc \in {"cycle", "running"},
           UNCHANGED <<role, owner>>, unmet' \in BOOLEAN, events' \in 0..MaxEvents
    PROVE  IInv'
<1>1. Fit(p, role[p], owner, sched[p], wake[p])
  BY FindsSound
<1>2. Fit(p, role[p], owner, b.s, b.w)
  BY <1>1 DEF Fit, Calm
<1> QED BY <1>2, ShowSound

LEMMA ExecuteSound ==
    ASSUME IInv, NEW p \in Process, Execute(p)
    PROVE  IInv'
<1>1. /\ TypeOK /\ View(p) \in Views /\ View(p).s = sched[p] /\ View(p).w = wake[p]
      /\ wake[p] \in Wake /\ unmet \in BOOLEAN
  BY FindsSound
<1>2. /\ wake[p].pc = "queued" /\ UNCHANGED <<role, owner>> /\ unmet' \in BOOLEAN
      /\ events' \in 0..MaxEvents
  BY <1>1 DEF Execute, TypeOK
<1>3. CASE sched[p].mode = "suspended"
  <2>1. Show(p, GivenBack(View(p)))
    BY <1>3 DEF Execute
  <2> QED BY <2>1, <1>1, <1>2, GivenBackType, GoesOnSound
<1>4. CASE sched[p].mode # "suspended"
  <2> DEFINE sees == unmet /\ wake[p].reasons \cap Full # {}
             c == [View(p) EXCEPT !.w.pc = "running", !.w.sees = sees]
  <2>1. Show(p, c)
    BY <1>4 DEF Execute
  <2>2. sees \in BOOLEAN
    OBVIOUS
  <2> HIDE DEF sees
  <2>3. c \in Views /\ c.s = sched[p] /\ c.w.pc = "running" /\ c.w.late = wake[p].late
    BY <1>1, <2>2 DEF Views, Wake, Pc
  <2> HIDE DEF c
  <2>4. Calm(sched[p], c.s)
    BY <2>3 DEF Calm
  <2> QED BY <2>1, <2>3, <2>4, <1>2, GoesOnSound
<1> QED BY <1>3, <1>4

LEMMA AbortedSound ==
    ASSUME IInv, NEW p \in Process, Aborted(p)
    PROVE  IInv'
<1>1. /\ TypeOK /\ View(p) \in Views /\ View(p).s = sched[p] /\ View(p).w = wake[p]
      /\ unmet \in BOOLEAN
  BY FindsSound
<1> DEFINE b == GivenBack(View(p))
           c == [b EXCEPT !.r.next = None]
<1>2. /\ wake[p].pc = "running" /\ UNCHANGED <<role, owner>> /\ unmet' \in BOOLEAN
      /\ events' \in 0..MaxEvents /\ Show(p, c)
  BY <1>1 DEF Aborted, TypeOK
<1>3. b \in Views /\ Calm(sched[p], b.s) /\ b.w.pc = "cycle" /\ b.w.late = wake[p].late
  BY <1>1, GivenBackType
<1> HIDE DEF b
<1>4. c \in Views /\ c.s = b.s /\ c.w = b.w
  BY <1>3 DEF Views, Rec
<1> HIDE DEF c
<1> QED BY <1>2, <1>3, <1>4, GoesOnSound

LEMMA CompletesSound ==
    ASSUME IInv, NEW p \in Process, Completes(p)
    PROVE  IInv'
<1>1. /\ TypeOK /\ View(p) \in Views /\ View(p).s = sched[p] /\ View(p).w = wake[p]
      /\ unmet \in BOOLEAN /\ wake[p] \in Wake
  BY FindsSound
<1>2. PICK more \in SUBSET {"more"}, next \in {None, "retry"}, failed \in BOOLEAN :
          /\ IF more = {} /\ ~failed THEN UNCHANGED events ELSE Event
          /\ Show(p, Looped([View(p) EXCEPT !.r.next = next, !.r.pending = @ \cup more]))
          /\ unmet' = (unmet /\ (failed \/ wake[p].aborted \/ ~wake[p].sees))
  BY DEF Completes
<1>3. /\ wake[p].pc = "running" /\ UNCHANGED <<role, owner>> /\ unmet' \in BOOLEAN
  BY <1>2 DEF Completes
<1>4. events' \in 0..MaxEvents
  BY <1>1, <1>2, EventType
<1> DEFINE b == [View(p) EXCEPT !.r.next = next, !.r.pending = @ \cup more]
<1>5. b \in Views /\ b.s = sched[p] /\ b.w = wake[p]
  BY <1>1, ReasonFacts DEF Views, Rec
<1>6. Show(p, Looped(b))
  BY <1>2
<1> HIDE DEF b
<1> QED BY <1>3, <1>4, <1>5, <1>6, LoopedType, GoesOnSound

LEMMA EndsSound ==
    ASSUME IInv, NEW p \in Process, Ends(p)
    PROVE  IInv'
<1>1. CASE Throws(p)
  <2>1. /\ wake[p].pc = "running" /\ Rest(p, View(p), events - 1)
        /\ UNCHANGED <<role, unmet>> /\ events \in 0..MaxEvents /\ events > 0
    BY <1>1 DEF Throws, IInv, TypeOK
  <2>2. events - 1 \in 0..MaxEvents
    BY <2>1, HeartbeatAssumption
  <2> QED BY <2>1, <2>2, RestSound
<1> QED BY <1>1, AbortedSound, CompletesSound DEF Ends

-----------------------------------------------------------------------------
(* Stop and death                                                            *)

LEMMA StopSound ==
    ASSUME IInv, NEW p \in Process, Stop(p)
    PROVE  IInv'
<1>1. /\ TypeOK /\ sched[p] \in Sched /\ wake[p] \in Wake /\ role[p] \in Role
      /\ Fit(p, role[p], owner, sched[p], wake[p])
  BY FindsSound
<1> DEFINE ro == IF role[p] = "owner" THEN "stopping" ELSE "stopped"
           off == sched[p].stopped \/ role[p] = "owner"
           told == wake[p].aborted \/ (role[p] = "owner" /\ wake[p].pc = "running")
           s == [sched[p] EXCEPT !.stopped = off, !.timer = None]
           w == [wake[p] EXCEPT !.aborted = told]
<1>2. off \in BOOLEAN /\ told \in BOOLEAN
  BY <1>1 DEF Sched, Wake
<1>3. /\ role' = [role EXCEPT ![p] = ro] /\ sched' = [sched EXCEPT ![p] = s]
      /\ wake' = [wake EXCEPT ![p] = w] /\ UNCHANGED <<owner, rec, unmet>>
      /\ role[p] \in {"owner", "follower"} /\ wake[p].pc \notin Sync /\ Event
  BY <1>1 DEF Stop, TypeOK
<1>4. w \in Wake /\ w.pc = wake[p].pc /\ w.late = wake[p].late
  <2> HIDE DEF told
  <2> QED BY <1>1, <1>2 DEF Wake
<1>5. s \in Sched /\ s.stopped = off /\ s.timer = None
  <2> HIDE DEF off
  <2> QED BY <1>1, <1>2 DEF Sched
<1> HIDE DEF s, w, told
<1>6. Fit(p, ro, owner, s, w)
  BY <1>1, <1>3, <1>4, <1>5 DEF Fit, Sync
<1>7. /\ role' \in [Process -> Role] /\ role'[p] = ro
      /\ \A q \in Process \ {p} : role'[q] = role[q]
  BY <1>1, <1>3 DEF TypeOK, Role
<1>8. events' \in 0..MaxEvents
  BY <1>1, <1>3, EventType
<1> QED BY <1>1, <1>3, <1>4, <1>5, <1>6, <1>7, <1>8, StepSound DEF TypeOK

LEMMA DrainedSound ==
    ASSUME IInv, NEW p \in Process, Drained(p)
    PROVE  IInv'
<1>1. TypeOK /\ wake[p] \in Wake /\ Fit(p, role[p], owner, sched[p], wake[p])
  BY FindsSound
<1>2. /\ role[p] = "stopping" /\ wake[p].pc = "none" /\ owner' = None
      /\ role' = [role EXCEPT ![p] = "stopped"] /\ sched' = [sched EXCEPT ![p] = NewSched]
      /\ wake' = [wake EXCEPT ![p] = wake[p]] /\ UNCHANGED <<rec, unmet, events>>
  BY <1>1 DEF Drained, TypeOK
<1>3. /\ role' \in [Process -> Role] /\ role'[p] = "stopped"
      /\ \A q \in Process \ {p} : role'[q] = role[q]
  BY <1>1, <1>2 DEF TypeOK, Role
<1>4. Fit(p, "stopped", None, NewSched, wake[p]) /\ owner = p
  BY <1>1, <1>2, NewTypes DEF Fit
<1> QED BY <1>1, <1>2, <1>3, <1>4, NewTypes, StepSound DEF TypeOK

LEMMA DeadlineSound ==
    ASSUME IInv, NEW p \in Process, Deadline(p)
    PROVE  IInv'
<1>1. /\ TypeOK /\ sched[p] \in Sched /\ wake[p] \in Wake
      /\ Fit(p, role[p], owner, sched[p], wake[p])
  BY FindsSound
<1> DEFINE w == [wake[p] EXCEPT !.late = TRUE]
<1>2. w \in Wake /\ w.pc = wake[p].pc /\ w.late = TRUE
  BY <1>1 DEF Wake
<1>3. /\ role[p] = "stopping" /\ wake[p].pc \in {"queued", "running"}
      /\ role' = [role EXCEPT ![p] = "stopped"] /\ wake' = [wake EXCEPT ![p] = w]
      /\ sched' = [sched EXCEPT ![p] = sched[p]] /\ UNCHANGED <<owner, rec, unmet, events>>
  BY <1>1 DEF Deadline, TypeOK
<1> HIDE DEF w
<1>4. /\ role' \in [Process -> Role] /\ role'[p] = "stopped"
      /\ \A q \in Process \ {p} : role'[q] = role[q]
  BY <1>1, <1>3 DEF TypeOK, Role
<1>5. Fit(p, "stopped", owner, sched[p], w)
  BY <1>1, <1>2, <1>3 DEF Fit
<1> QED BY <1>1, <1>2, <1>3, <1>4, <1>5, StepSound DEF TypeOK

LEMMA CrashSound ==
    ASSUME IInv, NEW p \in Process, Crash(p)
    PROVE  IInv'
<1>1. TypeOK /\ Fit(p, role[p], owner, sched[p], wake[p])
  BY FindsSound
<1>2. /\ owner' = (IF owner = p THEN "dead" ELSE owner) /\ Event
      /\ role' = [role EXCEPT ![p] = "off"] /\ sched' = [sched EXCEPT ![p] = NewSched]
      /\ wake' = [wake EXCEPT ![p] = NoWake] /\ UNCHANGED <<rec, unmet>>
  BY DEF Crash
<1>3. /\ role' \in [Process -> Role] /\ role'[p] = "off"
      /\ \A q \in Process \ {p} : role'[q] = role[q]
  BY <1>1, <1>2 DEF TypeOK, Role
<1>4. Fit(p, "off", owner', NewSched, NoWake)
  BY NewTypes DEF Fit
<1>5. events' \in 0..MaxEvents
  BY <1>1, <1>2, EventType
<1> QED BY <1>1, <1>2, <1>3, <1>4, <1>5, NewTypes, StepSound DEF TypeOK

LEMMA AppendSound ==
    ASSUME IInv, Append
    PROVE  IInv'
<1>1. TypeOK /\ Event /\ unmet' = TRUE /\ UNCHANGED <<role, owner, sched, rec>>
      /\ wake' = [p \in Process |-> [wake[p] EXCEPT !.sees = FALSE]]
  BY DEF Append, IInv
<1>2. ASSUME NEW p \in Process
      PROVE  wake'[p] \in Wake /\ wake'[p].pc = wake[p].pc /\ wake'[p].late = wake[p].late
  <2>1. wake[p] \in Wake /\ wake'[p] = [wake[p] EXCEPT !.sees = FALSE]
    BY <1>1 DEF TypeOK
  <2> QED BY <2>1 DEF Wake
<1>3. wake' \in [Process -> Wake]
  BY <1>1, <1>2
<1>4. events' \in 0..MaxEvents
  BY <1>1, EventType
<1>5. TypeOK'
  BY <1>1, <1>3, <1>4 DEF TypeOK
<1>6. FitOK'
  BY <1>1, <1>2 DEF IInv, FitOK, Fit
<1> QED BY <1>5, <1>6 DEF IInv

-----------------------------------------------------------------------------
(* The theorems                                                              *)

LEMMA NextSound ==
    ASSUME IInv, [Next]_vars
    PROVE  IInv'
<1>1. CASE Append
  BY <1>1, AppendSound
<1>2. ASSUME NEW p \in Process, Start(p)
      PROVE  IInv'
  BY <1>2, OwnSound, FollowSound DEF Start
<1>3. ASSUME NEW p \in Process, Elect(p)
      PROVE  IInv'
  BY <1>3, OwnSound DEF Elect
<1>4. ASSUME NEW p \in Process, Boot(p) \/ Timer(p) \/ Manual(p) \/ Poll(p) \/ Fence(p)
      PROVE  IInv'
  BY <1>4, BootSound, TimerSound, ManualSound, PollSound, FenceSound
<1>5. ASSUME NEW p \in Process, Loop(p) \/ Begin(p) \/ Execute(p) \/ Ends(p)
      PROVE  IInv'
  BY <1>5, LoopSound, BeginSound, ExecuteSound, EndsSound
<1>6. ASSUME NEW p \in Process, Stop(p) \/ Drained(p) \/ Deadline(p) \/ Crash(p)
      PROVE  IInv'
  BY <1>6, StopSound, DrainedSound, DeadlineSound, CrashSound
<1>7. CASE UNCHANGED vars
  BY <1>7 DEF vars, IInv, TypeOK, FitOK
<1> QED BY <1>1, <1>2, <1>3, <1>4, <1>5, <1>6, <1>7 DEF Next

\* In every reachable state the inductive invariant holds.
LEMMA InvariantHolds == Spec => []IInv
<1>1. Init => IInv
  BY InitSound
<1>2. IInv /\ [Next]_vars => IInv'
  BY NextSound
<1> QED BY <1>1, <1>2, PTL DEF Spec

\* Type correctness: schedulers, wakes and the record on disk keep their shapes.
THEOREM TypeCorrect == Spec => []TypeOK
<1>1. IInv => TypeOK
  BY IInvImplies
<1> QED BY <1>1, InvariantHolds, PTL

\* One writer: through elections, stops, deadlines and deaths of any number of
\* processes, a wake in flight belongs to the recorded owner.
THEOREM OneWriterHolds == Spec => []OneWriter
<1>1. IInv => OneWriter
  BY IInvImplies
<1> QED BY <1>1, InvariantHolds, PTL

\* The owner never falls asleep: whatever comes between two wakes, something is left
\* that will arm its timer.
THEOREM NeverAsleepHolds == Spec => []NeverAsleep
<1>1. IInv => NeverAsleep
  BY IInvImplies
<1> QED BY <1>1, InvariantHolds, PTL

=============================================================================
