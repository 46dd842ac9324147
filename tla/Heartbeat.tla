------------------------------ MODULE Heartbeat ------------------------------
(* Who runs the background learning of one runtime root, and when:              *)
(* src/utils/runtime-command-support.ts (ownership and its failover),           *)
(* src/utils/distillation-heartbeat-scheduler.ts (the scheduler of the owner),  *)
(* and the wake of src/utils/runtime-learning.ts, seen from outside.            *)
(*                                                                              *)
(* Connector processes compete for one owner lock.  The owner arms a timer from *)
(* its planner, coalesces the requests that come while a wake runs, aborts the  *)
(* wake under hard memory pressure and arms the timer again on recovery.  The   *)
(* demand it has not met is kept in a heartbeat record on disk.                 *)
(*                                                                              *)
(* An action is the code between two awaits; the pcs of Sync mark the places    *)
(* inside such code where a process may die.  The owner lock is taken in one    *)
(* step: its claim protocol is the helper that ProcessLock models.              *)
EXTENDS Naturals, FiniteSets

CONSTANTS
    Process,            \* connector processes
    None,
    RecoverySamples,    \* good samples in a row that lift one level of pressure
    MaxEvents           \* bound: bad samples, activations, appends, plans of other work,
                        \* pages left behind, stops, deaths and failures, all together

ASSUME HeartbeatAssumption ==
    /\ None \notin Process \cup {"dead"} /\ "dead" \notin Process
    /\ RecoverySamples \in Nat \ {0}
    /\ MaxEvents \in Nat

VARIABLES
    role,       \* of each process: its runtime support
    owner,      \* the owner record: a process, None, or a pid that is dead
    sched,      \* the scheduler of each process
    wake,       \* its activeWake
    rec,        \* the heartbeat record on disk
    unmet,     \* history: an append or a new setting that no full wake has met
    events      \* the events that may still happen

vars == <<role, owner, sched, wake, rec, unmet, events>>

-----------------------------------------------------------------------------
(* Data                                                                         *)

Reason    == {"startup", "scheduled", "manual", "retry", "settle", "more"}
Full      == {"startup", "scheduled", "manual"}     \* may start a new catch-up
Discovery == Full \cup {"more"}                     \* isDiscoveryWake
Mode      == {"normal", "degraded", "suspended"}
Level     == {"well", "soft", "hard"}
Role      == {"off", "follower", "owner", "stopping", "stopped"}
Sync      == {"boot", "cycle", "taken"}
Pc        == {"none", "queued", "running"} \cup Sync

ASSUME ReasonAssumption == None \notin Reason    \* an unarmed timer has no reason

\* A memory sample; saved: it comes a minute after the last count that was persisted.
Sample == [level: Level, saved: BOOLEAN]

Sched == [stopped: BOOLEAN, mode: Mode, well: 0..(RecoverySamples - 1),
          pending: SUBSET Reason,           \* pendingWakeReasons
          timer: Reason \cup {None},
          due: BOOLEAN,                     \* a task waits for the wake and reschedules
          streak: 0..2]                     \* consecutiveOperationalRetries
Wake  == [pc: Pc, reasons: SUBSET Reason, aborted: BOOLEAN,
          late: BOOLEAN,                    \* outlived stop(): releases the lock itself
          sees: BOOLEAN]                    \* has begun after all that is unmet
Rec   == [pending: SUBSET Reason, inProgress: SUBSET Reason,
          next: Reason \cup {None},
          mode: Mode, well: 0..(RecoverySamples - 1)]     \* memoryPressure

NoWake   == [pc |-> "none", reasons |-> {}, aborted |-> FALSE, late |-> FALSE,
             sees |-> FALSE]
NewSched == [stopped |-> FALSE, mode |-> "normal", well |-> 0, pending |-> {},
             timer |-> None, due |-> FALSE, streak |-> 0]

Init ==
    /\ role = [p \in Process |-> "off"]
    /\ owner = None
    /\ sched = [p \in Process |-> NewSched]
    /\ wake = [p \in Process |-> NoWake]
    /\ rec = [pending |-> {}, inProgress |-> {}, next |-> None, mode |-> "normal", well |-> 0]
    /\ unmet = FALSE
    /\ events = MaxEvents

-----------------------------------------------------------------------------
(* A process' view b: its scheduler s, its wake w and the record r              *)

View(p) == [s |-> sched[p], w |-> wake[p], r |-> rec]

Show(p, b) == /\ sched' = [sched EXCEPT ![p] = b.s]
              /\ wake' = [wake EXCEPT ![p] = b.w]
              /\ rec' = b.r

Persist(b) == [b EXCEPT !.r.pending = b.s.pending]
Restore(b) == [b EXCEPT !.s.pending = @ \cup b.r.pending]

\* markHeartbeatStatus: the record of a run that is over
Recorded(b) == [b EXCEPT !.r.inProgress = {}]

Defer(b, reason) == Recorded(Persist([b EXCEPT !.s.pending = @ \cup {reason}]))

\* scheduleNextRun, which arms nothing when stopped or suspended
Schedule(b, reason) ==
    IF b.s.stopped \/ b.s.mode = "suspended" THEN b
    ELSE [b EXCEPT !.s.timer = reason, !.r.next = reason]

\* The step of MemoryPressureGuard: the next mode, the good samples counted
Guarded(s, level) ==
    LET enough == s.well + 1 >= RecoverySamples
    IN  CASE s.mode = "normal" ->
               [mode |-> CASE level = "hard" -> "suspended"
                           [] level = "soft" -> "degraded"
                           [] OTHER -> "normal", well |-> 0]
          [] s.mode # "normal" /\ level = "well" ->
               IF enough
               THEN [mode |-> IF s.mode = "suspended" THEN "degraded" ELSE "normal", well |-> 0]
               ELSE [mode |-> s.mode, well |-> s.well + 1]
          [] OTHER -> [mode |-> IF level = "hard" THEN "suspended" ELSE s.mode, well |-> 0]

\* setMemoryPressureMode on the way into "suspended": the running wake is aborted
\* and everything that was promised goes back to the durable demand
Suspended(b) ==
    [b EXCEPT !.w.aborted = @ \/ b.w.pc = "running",
              !.r.pending = @ \cup b.r.inProgress \cup ({b.r.next} \ {None}),
              !.r.next = None,
              !.s.timer = None]

\* markMemoryPressureObservation: the record takes every change of mode, and the good
\* samples counted at most once a minute
Noted(b, g, sample) ==
    [b EXCEPT !.s.mode = g.mode, !.s.well = g.well, !.r.mode = g.mode,
              !.r.well = IF sample.saved \/ g.mode # b.s.mode THEN g.well ELSE @]

ObserveRearmsWhenNormal(b, sample) ==
    LET g == Guarded(b.s, sample.level)
        c == Noted(b, g, sample)
    IN  IF g.mode = "suspended" /\ b.s.mode # "suspended" THEN Suspended(c)
        ELSE IF b.s.mode = "degraded" /\ g.mode = "normal" THEN Schedule(c, "scheduled")
        ELSE c

\* observeMemoryPressure
Observe(b, sample) ==
    LET g == Guarded(b.s, sample.level)
        c == Noted(b, g, sample)
        recovered == \/ b.s.mode = "suspended" /\ g.mode = "degraded"
                     \/ b.s.mode = "degraded" /\ g.mode = "normal"
    IN  IF g.mode = "suspended" /\ b.s.mode # "suspended" THEN Suspended(c)
        ELSE IF recovered THEN Schedule(c, "scheduled")
        ELSE c

\* runHeartbeat(reason) up to its first await
Run(b, reason, sample) ==
    LET o == Observe(Restore(b), sample)
        c == Persist([o EXCEPT !.s.pending = @ \cup {reason}])
    IN  CASE o.s.mode = "suspended" -> Defer(o, reason)
          [] OTHER -> IF b.w.pc \in {"queued", "running"} THEN c
                      ELSE [c EXCEPT !.w = [NoWake EXCEPT !.pc = "cycle"]]

-----------------------------------------------------------------------------
(* Choices of the environment                                                   *)

Awake(p) == role[p] \in {"owner", "stopping", "stopped"} /\ wake[p].pc \notin Sync

Event == events > 0 /\ events' = events - 1

\* a memory sample
Sampled(sample) == IF sample.level = "well" THEN UNCHANGED events ELSE Event

PlannedUnrotated(earliest, streak) == [reason |-> earliest, streak |-> 0]

PlannedLate(earliest, streak) ==
    IF earliest = "retry" THEN [reason |-> "retry", streak |-> streak + 1]
    ELSE [reason |-> earliest, streak |-> 0]

\* The planner's earliest work becomes the next timer.  A third retry in a row makes
\* room for a discovery.
Planned(earliest, streak) ==
    CASE earliest = "retry" /\ streak < 2 -> [reason |-> "retry", streak |-> streak + 1]
      [] earliest = "retry" /\ streak = 2 -> [reason |-> "scheduled", streak |-> 0]
      [] OTHER -> [reason |-> earliest, streak |-> 0]

-----------------------------------------------------------------------------
(* Ownership (startRuntimeCommandSupport)                                       *)

Free == owner \in {None, "dead"}

\* start(): the guard, its recovery samples and the demand are restored from the record,
\* then the startup wake begins or is deferred
Started(sample) ==
    LET b == [s |-> [NewSched EXCEPT !.mode = rec.mode, !.well = rec.well, !.due = TRUE],
              w |-> [NoWake EXCEPT !.pc = "boot"], r |-> rec]
        c == IF rec.mode = "suspended"
             THEN Suspended(b) ELSE b
        o == Observe(Restore(c), sample)
    IN  IF o.s.mode = "suspended"
        THEN [Defer(o, "startup") EXCEPT !.w = NoWake, !.s.due = FALSE]
        ELSE o

\* attemptHeartbeatOwnership
Own(p) ==
    /\ Free
    /\ owner' = p
    /\ role' = [role EXCEPT ![p] = "owner"]
    /\ \E sample \in Sample : sample.saved /\ Sampled(sample) /\ Show(p, Started(sample))
    /\ UNCHANGED unmet

Follow(p) ==
    /\ ~Free
    /\ role' = [role EXCEPT ![p] = "follower"]
    /\ UNCHANGED <<owner, sched, wake, rec, unmet, events>>

Start(p) == role[p] \in {"off", "stopped"} /\ wake[p].pc \notin Sync /\ (Own(p) \/ Follow(p))

\* the election timer of a follower
Elect(p) == role[p] = "follower" /\ Own(p)

-----------------------------------------------------------------------------
(* Wakes                                                                        *)

\* runHeartbeat('startup'), whose task reschedules when the wake is over
Boot(p) ==
    /\ wake[p].pc = "boot"
    /\ \E sample \in Sample :
           LET b == Run([View(p) EXCEPT !.w.pc = "none"], "startup", sample)
           IN  /\ Sampled(sample)
               /\ Show(p, [b EXCEPT !.s.due = b.w.pc # "none"])
    /\ UNCHANGED <<role, owner, unmet>>

\* The timer's task: a wake of its own, or one that waits for the active wake.  Under
\* hard pressure the request is deferred, and the task is over without a timer.
Timer(p) ==
    /\ Awake(p) /\ sched[p].timer # None
    /\ \E sample \in Sample :
           LET b == Run([View(p) EXCEPT !.s.timer = None], sched[p].timer, sample)
           IN  /\ Sampled(sample)
               /\ Show(p, [b EXCEPT !.s.due = @ \/ (b.s.mode # "suspended" /\ b.w.pc # "none")])
    /\ UNCHANGED <<role, owner, unmet>>

\* activateExternalHistoryRuntimeConfiguration
Manual(p) ==
    /\ Awake(p) /\ role[p] = "owner" /\ ~sched[p].stopped
    /\ Event
    /\ \E sample \in Sample :
          Show(p, [Run(View(p), "manual", sample) EXCEPT !.w.sees = FALSE])
    /\ unmet' = TRUE
    /\ UNCHANGED <<role, owner>>

\* the interval that observes the pressure
Poll(p) ==
    /\ Awake(p) /\ role[p] = "owner"
    /\ \E sample \in Sample : Sampled(sample) /\ Show(p, Observe(View(p), sample))
    /\ UNCHANGED <<role, owner, unmet>>

\* assertOwnership could not rewrite the record: fenced, with the lock still held
Fence(p) ==
    /\ Awake(p) /\ sched[p].timer # None /\ Event
    /\ sched' = [sched EXCEPT ![p].stopped = TRUE, ![p].timer = None]
    /\ UNCHANGED <<role, owner, wake, rec, unmet>>

\* One turn of the wake loop
Cycle(p) ==
    /\ wake[p].pc = "cycle" /\ ~sched[p].stopped /\ sched[p].pending # {}
    /\ \E sample \in Sample :
           LET o == Observe(View(p), sample)
               taken == [Persist([o EXCEPT !.s.pending = {}]) EXCEPT
                            !.w = [NoWake EXCEPT !.pc = "taken", !.reasons = o.s.pending]]
           IN  /\ o.s.mode # "suspended"
               /\ Sampled(sample) /\ Show(p, taken)
    /\ UNCHANGED <<role, owner, unmet>>

\* The loop is over and activeWake is null: a waiting task reschedules, an owner
\* that stopped without waiting for this wake gives the lock away
Rest(p, b, left) ==
    LET free == [b EXCEPT !.w = NoWake, !.s.due = FALSE]
        rearms == b.s.due /\ ~b.s.stopped /\ b.s.mode # "suspended"
        settles == IF left > 0 THEN {"settle"} ELSE {}
    IN  /\ owner' = IF b.w.late THEN None ELSE owner
        /\ \/ /\ ~rearms /\ events' = left
              /\ Show(p, IF b.w.late THEN [free EXCEPT !.s = NewSched] ELSE free)
           \/ /\ rearms
              /\ \E earliest \in {"retry", "scheduled"} \cup settles :
                    LET plan == Planned(earliest, b.s.streak)
                    IN  /\ Show(p, Schedule([free EXCEPT !.s.streak = plan.streak], plan.reason))
                        /\ events' = IF earliest = "settle" THEN left - 1 ELSE left

LoopEnds(p) ==
    /\ wake[p].pc = "cycle" /\ (sched[p].stopped \/ sched[p].pending = {})
    /\ Rest(p, View(p), events)
    /\ UNCHANGED <<role, unmet>>

LoopSuspended(p) ==
    /\ wake[p].pc = "cycle" /\ ~sched[p].stopped /\ sched[p].pending # {}
    /\ \E sample \in Sample :
           LET o == Observe(View(p), sample)
           IN  /\ o.s.mode = "suspended" /\ Sampled(sample)
               /\ Show(p, [Persist(o) EXCEPT !.w = NoWake, !.s.due = FALSE])
    /\ UNCHANGED <<role, owner, unmet>>

\* markHeartbeatInProgress, and the wait for the state writer
Begin(p) ==
    /\ wake[p].pc = "taken"
    /\ wake' = [wake EXCEPT ![p].pc = "queued"]
    /\ rec' = [rec EXCEPT !.inProgress = wake[p].reasons]
    /\ UNCHANGED <<role, owner, sched, unmet, events>>

\* the loop goes on, with what the wake has left in the record
Looped(b) ==
    Restore([Recorded(b) EXCEPT !.w = [NoWake EXCEPT !.pc = "cycle", !.late = b.w.late]])

\* a wake that did nothing gives its demand back
GivenBack(b) == Looped([b EXCEPT !.r.pending = @ \cup b.w.reasons])

\* executeWake
Execute(p) ==
    /\ wake[p].pc = "queued"
    /\ IF sched[p].mode = "suspended" THEN Show(p, GivenBack(View(p)))
       ELSE Show(p, [View(p) EXCEPT !.w.pc = "running",
                        !.w.sees = unmet /\ wake[p].reasons \cap Full # {}])
    /\ UNCHANGED <<role, owner, unmet, events>>

\* stopForMemoryPressure, asked between the phases of a wake and where it fails
Stopping(p) == wake[p].aborted /\ sched[p].mode = "suspended"

Aborted(p) ==
    /\ wake[p].pc = "running" /\ Stopping(p)
    /\ LET b == GivenBack(View(p)) IN Show(p, [b EXCEPT !.r.next = None])
    /\ UNCHANGED <<role, owner, unmet, events>>

\* The wake returns, with the planner's next work in the record.  What it was aborted
\* in has not been done, and a failed wake has met nothing.
Completes(p) ==
    /\ wake[p].pc = "running" /\ ~Stopping(p)
    /\ \E more \in SUBSET {"more"}, next \in {None, "retry"}, failed \in BOOLEAN :
           /\ failed => next = None
           /\ IF more = {} /\ ~failed THEN UNCHANGED events ELSE Event
           /\ Show(p, Looped([View(p) EXCEPT !.r.next = next, !.r.pending = @ \cup more]))
           /\ unmet' = (unmet /\ (failed \/ wake[p].aborted \/ ~wake[p].sees))
    /\ UNCHANGED <<role, owner>>

\* The wake throws: its reasons are gone, the loop is left
Throws(p) ==
    /\ wake[p].pc = "running" /\ ~Stopping(p) /\ events > 0
    /\ Rest(p, View(p), events - 1)
    /\ UNCHANGED <<role, unmet>>

-----------------------------------------------------------------------------
(* Stop and death                                                               *)

\* stop(): nothing begins any more, the running wake is told to end
Stop(p) ==
    /\ role[p] \in {"owner", "follower"} /\ wake[p].pc \notin Sync /\ Event
    /\ role' = [role EXCEPT ![p] = IF role[p] = "owner" THEN "stopping" ELSE "stopped"]
    /\ sched' = [sched EXCEPT ![p].stopped = @ \/ role[p] = "owner", ![p].timer = None]
    /\ wake' = [wake EXCEPT ![p].aborted = @ \/ (role[p] = "owner" /\ wake[p].pc = "running")]
    /\ UNCHANGED <<owner, rec, unmet>>

\* the wake has ended before the deadline
Drained(p) ==
    /\ role[p] = "stopping" /\ wake[p].pc = "none"
    /\ role' = [role EXCEPT ![p] = "stopped"]
    /\ owner' = None
    /\ sched' = [sched EXCEPT ![p] = NewSched]
    /\ UNCHANGED <<wake, rec, unmet, events>>

DeadlineReleases(p) ==
    /\ role[p] = "stopping" /\ wake[p].pc \in {"queued", "running"}
    /\ role' = [role EXCEPT ![p] = "stopped"]
    /\ owner' = None
    /\ UNCHANGED <<sched, wake, rec, unmet, events>>

\* The deadline: the lock stays with the wake
Deadline(p) ==
    /\ role[p] = "stopping" /\ wake[p].pc \in {"queued", "running"}
    /\ role' = [role EXCEPT ![p] = "stopped"]
    /\ wake' = [wake EXCEPT ![p].late = TRUE]
    /\ UNCHANGED <<owner, sched, rec, unmet, events>>

\* the process dies, or exits after its stop
Crash(p) ==
    /\ role[p] # "off" /\ Event
    /\ role' = [role EXCEPT ![p] = "off"]
    /\ owner' = IF owner = p THEN "dead" ELSE owner
    /\ sched' = [sched EXCEPT ![p] = NewSched]
    /\ wake' = [wake EXCEPT ![p] = NoWake]
    /\ UNCHANGED <<rec, unmet>>

\* a session log grows
Append ==
    /\ Event /\ unmet' = TRUE
    /\ wake' = [p \in Process |-> [wake[p] EXCEPT !.sees = FALSE]]
    /\ UNCHANGED <<role, owner, sched, rec>>

Ends(p) == Aborted(p) \/ Completes(p) \/ Throws(p)
Loop(p) == Cycle(p) \/ LoopEnds(p) \/ LoopSuspended(p)

Next ==
    \/ Append
    \/ \E p \in Process :
          \/ Start(p) \/ Elect(p) \/ Boot(p) \/ Timer(p) \/ Manual(p) \/ Poll(p) \/ Fence(p)
          \/ Loop(p) \/ Begin(p) \/ Execute(p) \/ Ends(p)
          \/ Stop(p) \/ Drained(p) \/ Deadline(p) \/ Crash(p)

Spec == Init /\ [][Next]_vars

\* A process that can go on by itself does: code runs to its next await, timers and
\* intervals fire, and a wake ends, because each of its calls has a deadline.  Nobody
\* is obliged to start a process.
Works(p) == \/ Elect(p) \/ Boot(p) \/ Loop(p) \/ Begin(p) \/ Execute(p) \/ Ends(p) \/ Drained(p)
            \/ Timer(p) \/ Poll(p)

Fairness == \A p \in Process : WF_vars(Works(p))

FairSpec == Spec /\ Fairness

-----------------------------------------------------------------------------
(* Properties                                                                   *)

\* The states are of the shapes above: the record holds reasons, counters their bounds.
TypeOK ==
    /\ role \in [Process -> Role] /\ owner \in Process \cup {None, "dead"}
    /\ sched \in [Process -> Sched] /\ wake \in [Process -> Wake]
    /\ rec \in Rec /\ unmet \in BOOLEAN /\ events \in 0..MaxEvents

\* One writer: whoever has a wake in flight, also one that outlived its stop(), is the
\* recorded owner, so that no other process builds a writable runtime beside it.
OneWriter == \A p \in Process : wake[p].pc # "none" => owner = p /\ role[p] # "off"

On(p) == role[p] = "owner" /\ ~sched[p].stopped

\* The owner never falls asleep: its timer is armed, or a task that will arm it waits
\* for the active wake, or the pressure is hard and its end arms the timer.
NeverAsleep ==
    \A p \in Process : On(p) /\ wake[p].pc \notin Sync =>
        \/ sched[p].timer # None \/ sched[p].mode = "suspended"
        \/ sched[p].due /\ wake[p].pc # "none"

\* a connector runs that owns the runtime or waits for it, and no fenced owner blocks it
Manned == /\ \E p \in Process : role[p] \in {"owner", "follower"}
          /\ \A p \in Process : role[p] = "owner" => ~sched[p].stopped

\* What was appended to a session log, or changed by the control surface, is met by a full
\* wake in the end: through failover, pressure, stops and failures, whatever was aborted,
\* deferred or overwritten in the record, and even if retries are overdue all the time.
DemandMet == unmet ~> ~unmet \/ ~Manned

=============================================================================
