------------------------------ MODULE Admission ------------------------------
(* Admission of external evidence: the two cursors of a source, the order of   *)
(* the commit, and the way of an event to a review job                         *)
(* (src/utils/runtime-learning.ts, session-log-source.ts, learning-episode.ts, *)
(* evidence-capsule.ts, external-episode-provenance-store.ts,                  *)
(* external-source-recovery.ts).                                               *)
(*                                                                             *)
(* One source offers resources, each a growing sequence of events.  Wakes of   *)
(* the Runtime read them in two lanes: the continuous lane follows the end of  *)
(* each resource, and in catch-up mode one quantum per wake works on history:  *)
(* it takes an inventory, fixes a target once two samples of a resource agree, *)
(* and then reads up to that target under a cursor of its own.  A page that    *)
(* was read is committed event by event into three stores and acknowledged in  *)
(* a fourth; a wake can die between any two writes.  A separate process        *)
(* switches the mode, or gives the unread history up.                          *)
EXTENDS Naturals, FiniteSets

CONSTANTS
    NumResources,
    MaxPos,         \* bound: events of one resource
    IndexCycle,     \* a common multiple of 1..NumResources
    Refuted,        \* the events whose own extraction contradicts them
    None,
    MaxTrouble      \* bound: appends, switches, give-ups, failures and crashes together

Resources == 1..NumResources
Positions == 1..MaxPos
Events == Resources \X Positions

ASSUME RefutedAssumption == Refuted \subseteq Events
ASSUME AdmissionAssumption ==
    /\ NumResources \in Nat \ {0} /\ MaxPos \in Nat /\ MaxTrouble \in Nat
    /\ IndexCycle \in Nat \ {0}
    /\ None \notin 0..MaxPos

VARIABLES
    head,       \* the newest event of each resource, at the provider
    mode,       \* the durable history mode
    cat,        \* status of the catch-up catalog generation
    index,      \* discovery.nextResourceIndex, modulo IndexCycle
    cur,        \* the durable progress of each resource
    epi,        \* LearningEpisodeStore: the status of the Episode of an event
    link,       \* the Episodes that name a historical target
    caps,       \* EvidenceCapsuleStore: the status its settlement evidence tells
    prov,       \* the durable provenance index
    noted,      \* provenance recorded in memory only
    job,        \* review jobs: the status their frozen evidence tells
    wake,       \* what the wake in progress is doing
    trouble

stores == <<epi, link, caps, prov, noted, job>>
vars == <<head, mode, cat, index, cur, stores, wake, trouble>>

Modes == {"future", "catch-up"}
EpisodeStatus == {"settling", "held", "eligible", "contradicted", "abandoned"}
Absent == "none"

\* One resource in the cursor store: the continuous cursor and the position a future-only
\* baseline started it at, the catch-up status, the pending sample, the fixed target, the
\* historical cursor, the end of the tombstoned range and the processed events.  `base`
\* is a history variable, no action reads it.
Progress == [pos : 0..MaxPos \cup {None}, base : 0..MaxPos,
             status : {"unknown", "target-pending", "historical-pending", "complete", "abandoned"},
             sample : 0..MaxPos \cup {None}, target : 0..MaxPos, hist : 0..MaxPos,
             tomb : 0..MaxPos, seen : SUBSET Positions]

Actions == {"inventory", "stability", "page"}

\* The page a source is reading or the coordinator is committing; events: what it has
\* still to commit
ReadPage == [lane : {"continuous", "catch-up"}, resource : Resources,
             from : 0..MaxPos, to : 0..MaxPos, events : SUBSET Positions]

NoPage == [lane |-> "continuous", resource |-> 1, from |-> 0, to |-> 0, events |-> {}]

Locked == {"lane", "read", "episode", "capsule", "flush", "ack"}
Stages == {"released", "matured", "reconcile"}

\* todo: the resources the continuous pass has still to read
\* skip: the capsules this stage failed to refresh
Wake == [at : {"idle", "pass", "quantum", "sweep", "targets", "settle", "supersede", "review"}
                \cup Locked \cup Stages,
         mode : Modes, action : Actions \cup {Absent}, todo : SUBSET Resources,
         donated : BOOLEAN, page : ReadPage, matured : SUBSET Events, skip : SUBSET Events]

Idle == [at |-> "idle", mode |-> "future", action |-> Absent, todo |-> {}, donated |-> FALSE,
         page |-> NoPage, matured |-> {}, skip |-> {}]

Init ==
    /\ head \in [Resources -> 0..MaxPos]
    /\ mode \in Modes
    /\ cat = "inventory"
    /\ index = 0
    /\ cur = [r \in Resources |->
                [pos |-> None, base |-> 0, status |-> "unknown", sample |-> None,
                 target |-> 0, hist |-> 0, tomb |-> 0, seen |-> {}]]
    /\ epi = [e \in Events |-> Absent]
    /\ link = {}
    /\ caps = [e \in Events |-> Absent]
    /\ prov = {}
    /\ noted = {}
    /\ job = [e \in Events |-> Absent]
    /\ wake = Idle
    /\ trouble = 0

Least(S) == CHOOSE x \in S : \A y \in S : x <= y
Higher(a, b) == IF a = None \/ a < b THEN b ELSE a

Known == {r \in Resources : cur[r].pos # None}
Pending == {r \in Resources : cur[r].status = "target-pending"}
Historical == {r \in Resources : cur[r].status = "historical-pending"}
Unresolved == Pending \cup Historical

\* completeExternalCatchUpCatalogIfReady, on the progress a save is about to write
Ready(progress) ==
    \A r \in Resources : progress[r].status \notin {"target-pending", "historical-pending"}
Catalog(progress) == IF cat = "draining" /\ Ready(progress) THEN "caught-up" ELSE cat

-----------------------------------------------------------------------------
(* A wake begins *)

\* nextCatchUpActionFromState
NextAction(allowNewGeneration) ==
    CASE cat = "inventory" -> "inventory"
      [] cat = "caught-up" /\ allowNewGeneration -> "inventory"
      [] cat = "draining" /\ Pending # {} -> "stability"
      [] cat = "draining" /\ Pending = {} /\ Historical # {} -> "page"
      [] OTHER -> Absent

\* Faulty variant: only continuation wakes get a quantum.
BeginContinuing(kind) ==
    /\ wake.at = "idle"
    /\ wake' = [Idle EXCEPT
                  !.at = IF kind = "targeted" THEN "settle" ELSE "pass",
                  !.mode = mode,
                  !.action = IF mode = "catch-up" /\ kind = "continuation"
                             THEN NextAction(FALSE) ELSE Absent]
    /\ UNCHANGED <<head, mode, cat, index, cur, stores, trouble>>

\* executeWake and the head of runDiscovery: the adapters take the durable mode of this
\* moment; scheduled, startup and manual wakes may open a new generation,
\* continuation wakes only go on, any other wake discovers nothing.
Begin(kind) ==
    /\ wake.at = "idle"
    /\ wake' = [Idle EXCEPT
                  !.at = IF kind = "targeted" THEN "settle" ELSE "pass",
                  !.mode = mode,
                  !.action = IF mode = "catch-up" /\ kind # "targeted"
                             THEN NextAction(kind = "full") ELSE Absent]
    /\ UNCHANGED <<head, mode, cat, index, cur, stores, trouble>>

-----------------------------------------------------------------------------
(* The continuous pass *)

Goto(at) == wake' = [wake EXCEPT !.at = at]

\* discoverResources: a future-only source starts the resources it has not met at their
\* newest event; in catch-up mode the lane takes the resources that have a cursor.  A
\* resource is listed at the latest with its first event.
Discover ==
    /\ wake.at = "pass"
    /\ \E listed \in SUBSET Resources :
         LET new == {r \in listed : wake.mode = "future" /\ cur[r].pos = None} IN
         /\ {r \in Resources : head[r] > 0} \subseteq listed
         /\ cur' = [r \in Resources |->
                      IF r \in new THEN [cur[r] EXCEPT !.pos = head[r], !.base = head[r]]
                      ELSE cur[r]]
         /\ wake' = [wake EXCEPT !.at = "lane", !.todo = Known \cup new]
    /\ UNCHANGED <<head, mode, cat, index, stores, trouble>>

\* processDiscoverySource picks the next resource; the cursor is read before the await
StartRead ==
    /\ wake.at = "lane" /\ wake.todo # {}
    /\ LET r == Least(wake.todo) IN
         wake' = [wake EXCEPT !.at = "read", !.todo = @ \ {r},
                              !.page = [NoPage EXCEPT !.resource = r, !.from = cur[r].pos]]
    /\ UNCHANGED <<head, mode, cat, index, cur, stores, trouble>>

\* The pass ends; a quantum that is due follows the first pass
EndPass ==
    /\ wake.at = "lane" /\ wake.todo = {}
    /\ wake' = IF wake.action # Absent /\ ~wake.donated THEN [wake EXCEPT !.at = "quantum"]
               ELSE [Idle EXCEPT !.at = "sweep"]
    /\ UNCHANGED <<head, mode, cat, index, cur, stores, trouble>>

-----------------------------------------------------------------------------
(* The catch-up quantum *)

\* what a quantum leaves unused is donated to a second continuous pass
Donate == [wake EXCEPT !.at = "pass", !.donated = TRUE, !.page = NoPage]

\* discoverCatchUpResources finds that the action it was asked for is no longer the due one
Outdated == NextAction(wake.action = "inventory") # wake.action

SkipQuantum ==
    /\ wake.at = "quantum" /\ Outdated
    /\ wake' = Donate
    /\ UNCHANGED <<head, mode, cat, index, cur, stores, trouble>>

\* A generation opens, observes the catalog and drains: recordCatchUpCatalogMembership
\* keeps the status of a resource and forgets its pending sample.
Inventory ==
    /\ wake.at = "quantum" /\ wake.action = "inventory" /\ ~Outdated
    /\ \E listed \in SUBSET Resources :
         /\ {r \in Resources : head[r] > 0} \subseteq listed
         /\ cur' = [r \in Resources |->
                      IF r \notin listed THEN cur[r]
                      ELSE [cur[r] EXCEPT !.sample = None,
                                          !.status = IF @ = "unknown" THEN "target-pending" ELSE @]]
    /\ cat' = IF Ready(cur') THEN "caught-up" ELSE "draining"
    /\ wake' = Donate
    /\ UNCHANGED <<head, mode, index, stores, trouble>>

\* selectCatchUpResource: the resource of S with index modulo |S| others before it
Selected(S) == {r \in S : Cardinality({q \in S : q < r}) = index % Cardinality(S)}

\* Faulty variant: a target of nothing waits for a page.
StabilityEmptyWaits ==
    /\ wake.at = "quantum" /\ wake.action = "stability" /\ ~Outdated
    /\ \E r \in Selected(Pending) :
         IF cur[r].sample = head[r]
         THEN /\ cur' = [cur EXCEPT ![r].pos = Higher(@, head[r]), ![r].target = head[r],
                                    ![r].sample = None, ![r].hist = 0,
                                    ![r].status = "historical-pending"]
              /\ UNCHANGED index
         ELSE /\ cur' = [cur EXCEPT ![r].sample = head[r]]
              /\ index' = (index + 1) % IndexCycle
    /\ cat' = Catalog(cur')
    /\ wake' = Donate
    /\ UNCHANGED <<head, mode, stores, trouble>>

\* Two samples that agree fix the target and lift the continuous cursor to it; any other
\* sample is kept for the next quantum, which looks at the next resource.
Stability ==
    /\ wake.at = "quantum" /\ wake.action = "stability" /\ ~Outdated
    /\ \E r \in Selected(Pending) :
         IF cur[r].sample = head[r]
         THEN /\ cur' = [cur EXCEPT ![r].pos = Higher(@, head[r]), ![r].target = head[r],
                                    ![r].sample = None, ![r].hist = 0,
                                    ![r].status = IF head[r] = 0 THEN "complete"
                                                  ELSE "historical-pending"]
              /\ UNCHANGED index
         ELSE /\ cur' = [cur EXCEPT ![r].sample = head[r]]
              /\ index' = (index + 1) % IndexCycle
    /\ cat' = Catalog(cur')
    /\ wake' = Donate
    /\ UNCHANGED <<head, mode, stores, trouble>>

\* The read of a historical page begins, under the historical cursor
StartPage ==
    /\ wake.at = "quantum" /\ wake.action = "page" /\ ~Outdated
    /\ \E r \in Selected(Historical) :
         wake' = [wake EXCEPT !.at = "read",
                              !.page = [NoPage EXCEPT !.lane = "catch-up", !.resource = r,
                                                      !.from = cur[r].hist]]
    /\ UNCHANGED <<head, mode, cat, index, cur, stores, trouble>>

-----------------------------------------------------------------------------
(* A read ends and the page is committed *)

Page == wake.page
Source == cur[Page.resource]
Continuous == Page.lane = "continuous"

\* nothing was admitted: the pass goes on, the capacity of a quantum is donated
Dropped == IF Continuous THEN [wake EXCEPT !.at = "lane", !.page = NoPage] ELSE Donate

\* isExternalReadConfigurationCurrent
Current == mode = wake.mode

\* The continuous lane returns what lies above the cursor, the historical one a prefix
\* of what is left below the target; processed events are no longer in the page.
ReadReady(to) ==
    /\ wake.at = "read" /\ Current
    /\ to > Page.from
    /\ IF Continuous THEN to = head[Page.resource] ELSE to <= Source.target
    /\ LET fresh == (Page.from + 1 .. to) \ Source.seen IN
         wake' = [wake EXCEPT !.at = IF fresh = {} THEN "ack" ELSE "episode",
                              !.page = [@ EXCEPT !.to = to, !.events = fresh]]
    /\ UNCHANGED <<head, mode, cat, index, cur, stores, trouble>>

\* nothing new, or the page was read under a configuration that is no longer in force
ReadNothing ==
    /\ wake.at = "read"
    /\ ~Current \/ (Continuous /\ head[Page.resource] = Page.from)
    /\ wake' = Dropped
    /\ UNCHANGED <<head, mode, cat, index, cur, stores, trouble>>

Event == <<Page.resource, Least(Page.events)>>

\* Faulty variant: a replayed event is skipped, whatever the first attempt left undone.
CommitEpisodeOnce ==
    /\ wake.at = "episode"
    /\ IF epi[Event] # Absent
       THEN LET rest == Page.events \ {Event[2]} IN
            /\ UNCHANGED <<epi, link>>
            /\ wake' = [wake EXCEPT !.at = IF rest = {} THEN "flush" ELSE "episode",
                                    !.page.events = rest]
       ELSE /\ epi' = [epi EXCEPT ![Event] = IF ~Continuous THEN "held"
                                            ELSE IF Event \in Refuted THEN "contradicted"
                                            ELSE "settling"]
            /\ link' = IF Continuous THEN link ELSE link \cup {Event}
            /\ Goto("capsule")
    /\ UNCHANGED <<head, mode, cat, index, cur, caps, prov, noted, job, trouble>>

\* applyExtraction: a replayed event meets its Episode, which keeps its status and its
\* target (mergeEpisode)
CommitEpisode ==
    /\ wake.at = "episode"
    /\ IF epi[Event] # Absent THEN UNCHANGED <<epi, link>>
       ELSE IF ~Continuous
       THEN epi' = [epi EXCEPT ![Event] = "held"] /\ link' = link \cup {Event}
       ELSE /\ epi' = [epi EXCEPT ![Event] = IF Event \in Refuted THEN "contradicted"
                                             ELSE "settling"]
            /\ UNCHANGED link
    /\ Goto("capsule")
    /\ UNCHANGED <<head, mode, cat, index, cur, caps, prov, noted, job, trouble>>

\* createCapsulesForExternalSource, then recordExternalEpisodeProvenance, in memory
CommitCapsule ==
    /\ wake.at = "capsule"
    /\ caps' = [caps EXCEPT ![Event] = epi[Event]]
    /\ noted' = noted \cup ({Event} \ prov)
    /\ LET rest == Page.events \ {Event[2]} IN
         wake' = [wake EXCEPT !.at = IF rest = {} THEN "flush" ELSE "episode",
                              !.page.events = rest]
    /\ UNCHANGED <<head, mode, cat, index, cur, epi, link, prov, job, trouble>>

\* The provenance index is saved before a page is acknowledged and once more when the
\* discovery ends.
Flush ==
    /\ wake.at \in {"flush", "sweep"}
    /\ prov' = prov \cup noted /\ noted' = {}
    /\ Goto(IF wake.at = "flush" THEN "ack" ELSE "targets")
    /\ UNCHANGED <<head, mode, cat, index, cur, epi, link, caps, job, trouble>>

\* acknowledge and acknowledgeHistoricalPage: the last page of a target closes it
Acknowledge ==
    /\ wake.at = "ack"
    /\ LET r == Page.resource
            read == Page.from + 1 .. Page.to
            done == Page.to = Source.target IN
         cur' = IF Continuous
                THEN [cur EXCEPT ![r].pos = Page.to, ![r].seen = @ \cup read]
                ELSE [cur EXCEPT ![r].hist = Page.to, ![r].seen = @ \cup read,
                                 ![r].status = IF done THEN "complete" ELSE @,
                                 ![r].pos = IF done THEN Higher(@, Page.to) ELSE @]
    /\ cat' = Catalog(cur')
    /\ wake' = IF Continuous THEN Dropped ELSE [Idle EXCEPT !.at = "sweep"]
    /\ UNCHANGED <<head, mode, index, stores, trouble>>

-----------------------------------------------------------------------------
(* Targets, maturation and review *)

\* the Episodes that wait for the target of r
Waiting(r) == {e \in link : e[1] = r /\ epi[e] = "held"}

\* Faulty variant: a target is released before it is read to its end.
DueEarly == {r \in Resources : Waiting(r) # {}}

\* the resources whose target is complete or given up while Episodes still wait for it
Due == {r \in Resources : cur[r].status \in {"complete", "abandoned"} /\ Waiting(r) # {}}

\* reconcileCompletedHistoricalTargets: reconcileHistoricalTarget or
\* abandonHistoricalTarget, one target and one save at a time
ReconcileTarget(r) ==
    /\ wake.at = "targets" /\ r \in Due
    /\ epi' = [e \in Events |->
                  IF e \notin Waiting(r) THEN epi[e]
                  ELSE IF cur[r].status = "abandoned" THEN "abandoned"
                  ELSE IF e \in Refuted THEN "contradicted" ELSE "eligible"]
    /\ UNCHANGED <<head, mode, cat, index, cur, link, caps, prov, noted, job, wake, trouble>>

TargetsDone ==
    /\ wake.at = "targets" /\ Due = {}
    /\ Goto("released")
    /\ UNCHANGED <<head, mode, cat, index, cur, stores, trouble>>

Settling == {e \in Events : epi[e] = "settling"}

\* runMaturation: the deadline of the Episodes of S has passed
Settle(S) ==
    /\ wake.at = "settle" /\ S \subseteq Settling
    /\ epi' = [e \in Events |-> IF e \in S THEN "eligible" ELSE epi[e]]
    /\ wake' = [wake EXCEPT !.at = "matured", !.matured = S]
    /\ UNCHANGED <<head, mode, cat, index, cur, link, caps, prov, noted, job, trouble>>

\* The capsules whose settlement evidence lags behind the Episode, of those a stage
\* refreshes: Episodes of resolved targets, Episodes that just matured, and at last all
\* (reconcileSettlementConsistency)
Lagging ==
    {e \in Events \ wake.skip :
       /\ caps[e] # Absent /\ caps[e] # epi[e]
       /\ \/ wake.at = "released" /\ e \in link
             /\ cur[e[1]].status \in {"complete", "abandoned"}
          \/ wake.at = "matured" /\ e \in wake.matured
          \/ wake.at = "reconcile"}

\* refreshSettlementEvidence, one capsule and one save at a time
Refresh(e) ==
    /\ e \in Lagging
    /\ caps' = [caps EXCEPT ![e] = epi[e]]
    /\ UNCHANGED <<head, mode, cat, index, cur, epi, link, prov, noted, job, wake, trouble>>

StageDone ==
    /\ wake.at \in Stages /\ Lagging = {}
    /\ wake' = [Idle EXCEPT !.at = CASE wake.at = "released" -> "settle"
                                     [] wake.at = "matured" -> "reconcile"
                                     [] wake.at = "reconcile" -> "supersede"]
    /\ UNCHANGED <<head, mode, cat, index, cur, stores, trouble>>

\* the jobs whose frozen evidence is not what the capsule tells now
Stale == {e \in Events : job[e] \notin {Absent, caps[e]}}

\* The second half of reconcileSettlementConsistency: a successor on fresh evidence
\* replaces the job.
Supersede(e) ==
    /\ wake.at = "supersede" /\ e \in Stale
    /\ job' = [job EXCEPT ![e] = caps[e]]
    /\ UNCHANGED <<head, mode, cat, index, cur, epi, link, caps, prov, noted, wake, trouble>>

SupersedeDone ==
    /\ wake.at = "supersede" /\ Stale = {}
    /\ Goto("review")
    /\ UNCHANGED <<head, mode, cat, index, cur, stores, trouble>>

\* The eligible Episodes nobody reviewed; buildEpisodeEvidenceBundle refuses one whose
\* capsule is missing
Reviewable == {e \in Events : epi[e] = "eligible" /\ job[e] = Absent /\ caps[e] # Absent}

\* runReview freezes the evidence of the capsule in a job
Enqueue(e) ==
    /\ wake.at = "review" /\ e \in Reviewable
    /\ job' = [job EXCEPT ![e] = caps[e]]
    /\ UNCHANGED <<head, mode, cat, index, cur, epi, link, caps, prov, noted, wake, trouble>>

EndWake ==
    /\ wake.at = "review" /\ Reviewable = {}
    /\ wake' = Idle
    /\ UNCHANGED <<head, mode, cat, index, cur, stores, trouble>>

-----------------------------------------------------------------------------
(* The world around the wakes; MaxTrouble bounds all of it *)

Trouble == trouble < MaxTrouble /\ trouble' = trouble + 1

\* the provider's conversation grows
Append(r) ==
    /\ Trouble /\ head[r] < MaxPos
    /\ head' = [head EXCEPT ![r] = @ + 1]
    /\ UNCHANGED <<mode, cat, index, cur, stores, wake>>

\* another process changes the durable history mode
Switch ==
    /\ Trouble
    /\ mode' = CHOOSE m \in Modes : m # mode
    /\ UNCHANGED <<head, cat, index, cur, stores, wake>>

\* rebaselineExternalProviderWithRecovery: under the provider lock and in future-only
\* mode the unread history is given up; the process may stop before it reaches the
\* Episode store (recorded).
Rebaseline(recorded) ==
    /\ Trouble /\ wake.at \notin Locked
    /\ Unresolved # {} /\ mode = "future"
    /\ cur' = [r \in Resources |->
                 IF r \notin Unresolved THEN cur[r]
                 ELSE [cur[r] EXCEPT !.status = "abandoned", !.tomb = head[r],
                                     !.pos = Higher(@, head[r])]]
    /\ cat' = Catalog(cur')
    /\ epi' = [e \in Events |->
                 IF recorded /\ e \in link /\ epi[e] = "held" /\ cur'[e[1]].status = "abandoned"
                 THEN "abandoned" ELSE epi[e]]
    /\ UNCHANGED <<head, mode, index, link, caps, prov, noted, job, wake>>

\* a read fails or is aborted, or a write of the commit throws: commitExternalEvidencePage
\* leaves the page unacknowledged
Fail ==
    /\ Trouble /\ wake.at \in Locked \ {"lane"}
    /\ wake' = Dropped
    /\ UNCHANGED <<head, mode, cat, index, cur, stores>>

\* a refresh is best effort: its failure is logged and blocks nothing
RefreshFails(e) ==
    /\ Trouble /\ e \in Lagging
    /\ wake' = [wake EXCEPT !.skip = @ \cup {e}]
    /\ UNCHANGED <<head, mode, cat, index, cur, stores>>

\* the Runtime dies: what it held in memory is lost
Crash ==
    /\ Trouble /\ wake.at # "idle"
    /\ wake' = Idle /\ noted' = {}
    /\ UNCHANGED <<head, mode, cat, index, cur, epi, link, caps, prov, job>>

WakeStep ==
    \/ Discover \/ StartRead \/ EndPass
    \/ SkipQuantum \/ Inventory \/ Stability \/ StartPage
    \/ \E to \in Positions : ReadReady(to)
    \/ ReadNothing \/ CommitEpisode \/ CommitCapsule \/ Flush \/ Acknowledge
    \/ \E r \in Resources : ReconcileTarget(r)
    \/ TargetsDone
    \/ \E S \in SUBSET Events : Settle(S)
    \/ \E e \in Events : Refresh(e) \/ Supersede(e) \/ Enqueue(e)
    \/ StageDone \/ SupersedeDone \/ EndWake

Environment ==
    \/ \E r \in Resources : Append(r)
    \/ Switch
    \/ \E recorded \in BOOLEAN : Rebaseline(recorded)
    \/ Fail \/ Crash
    \/ \E e \in Events : RefreshFails(e)

Next ==
    \/ \E kind \in {"full", "continuation", "targeted"} : Begin(kind)
    \/ WakeStep
    \/ Environment

Spec == Init /\ [][Next]_vars

\* The heartbeat keeps starting scheduled wakes, a wake goes on, and deadlines pass.
FairSpec ==
    /\ Spec
    /\ WF_vars(WakeStep)
    /\ SF_vars(Begin("full"))
    /\ SF_vars(Settle(Settling))

-----------------------------------------------------------------------------
(* Properties *)

\* Every variable stays in its set, and a pending target has something left to read.
TypeOK ==
    /\ head \in [Resources -> 0..MaxPos]
    /\ mode \in Modes
    /\ cat \in {"inventory", "draining", "caught-up"}
    /\ index \in 0..IndexCycle - 1
    /\ cur \in [Resources -> Progress]
    /\ epi \in [Events -> EpisodeStatus \cup {Absent}]
    /\ link \subseteq Events
    /\ caps \in [Events -> EpisodeStatus \cup {Absent}]
    /\ prov \subseteq Events
    /\ noted \subseteq Events \ prov
    /\ job \in [Events -> EpisodeStatus \cup {Absent}]
    /\ wake \in Wake
    /\ trouble \in 0..MaxTrouble
    /\ \A r \in Historical : cur[r].hist < cur[r].target

\* the event is in all three stores
Admitted(e) == epi[e] # Absent /\ caps[e] # Absent /\ e \in prov

\* the event lies between the historical cursor and the target of its resource
Owed(e) ==
    LET s == cur[e[1]] IN s.status = "historical-pending" /\ s.hist < e[2] /\ e[2] <= s.target

\* the event was given up: it precedes a future-only baseline no target covers, or it is
\* in the tombstoned range
GivenUp(e) ==
    LET s == cur[e[1]] IN
    \/ s.status \in {"unknown", "target-pending"} /\ e[2] <= s.base
    \/ s.status = "abandoned" /\ s.hist < e[2] /\ e[2] <= s.tomb

\* No cursor ever passes an event that is not accounted for: at or below the continuous
\* cursor every event is in all three stores, or still owed by the historical lane, or
\* was given up on the record; and provenance never names an event without a capsule
\* (the commit order of commitExternalEvidencePage and the cursor a target lifts).
Covered ==
    /\ \A e \in Events : cur[e[1]].pos # None /\ e[2] <= cur[e[1]].pos
                           => Admitted(e) \/ Owed(e) \/ GivenUp(e)
    /\ \A e \in prov : caps[e] # Absent

\* A review job only ever exists for an event that matured: its Episode is eligible and
\* not contradicted, a historical target it belongs to was read to its end, and evidence
\* that lags behind says "not settled", which the Verifier defers on.
HonestReview ==
    \A e \in Events : job[e] # Absent =>
        /\ epi[e] = "eligible" /\ e \notin Refuted
        /\ e \in link => cur[e[1]].status = "complete"
        /\ job[e] \in {"eligible", "settling", "held"}

\* the event went to review on up-to-date evidence, or is settled without one
Answered(e) == job[e] = "eligible" \/ epi[e] \in {"contradicted", "abandoned"}

\* a catch-up that future-only mode interrupted: its target waits, and what it admitted
\* is held
Paused(e) ==
    LET s == cur[e[1]] IN
    mode = "future" /\ s.status = "historical-pending" /\ e[2] <= s.target

\* Once the world is quiet, every event of the provider is answered, was given up, or
\* belongs to an interrupted catch-up: no lane leaves an event behind for good.
Learned ==
    <>[](\A e \in Events : e[2] <= head[e[1]] => Answered(e) \/ GivenUp(e) \/ Paused(e))
=============================================================================
