--------------------------- MODULE Admission_proofs ---------------------------
(***************************************************************************)
(* Theorems about Admission, for any number of resources and events, any   *)
(* bounds and any events that refute themselves:                           *)
(*  - type correctness;                                                    *)
(*  - no cursor passes an event that is not accounted for;                 *)
(*  - only matured evidence goes to review.                                *)
(***************************************************************************)
EXTENDS Admission, FiniteSetTheorems, WellFoundedInduction, TLAPS

\* The event reached the stores; its provenance may still be in memory only.
Stored(e) == epi[e] # Absent /\ caps[e] # Absent /\ e \in prov \cup noted

\* The progress of a resource, whose newest event is h.
CursorFit(s, h) ==
    /\ s.pos = None => s.status \in {"unknown", "target-pending"}
    /\ s.pos # None => s.pos <= h
    /\ s.status \in {"unknown", "target-pending"} => s.hist = 0
    /\ s.status = "historical-pending" =>
           s.pos # None /\ s.target <= s.pos /\ s.hist < s.target

CursorsFit == \A r \in Resources : CursorFit(cur[r], head[r])

\* The stores of one event, one after another.
EventFit(e) ==
    /\ caps[e] # Absent \/ e \in link => epi[e] # Absent
    /\ e \in prov \cup noted => caps[e] # Absent
    /\ e[2] \in cur[e[1]].seen => Admitted(e)
    /\ epi[e] = "settling" => e \notin link /\ e \notin Refuted
    /\ epi[e] = "eligible" => /\ e \notin Refuted
                              /\ e \in link => cur[e[1]].status = "complete"
    /\ caps[e] \in {"contradicted", "abandoned"} => caps[e] = epi[e]
    /\ job[e] # Absent => epi[e] = "eligible"
                          /\ job[e] \in {"eligible", "settling", "held"}

EventsFit == \A e \in Events : EventFit(e)

\* The page in the hands of the wake: it starts at the cursor of its lane, and every
\* event of it that is not still to be committed is in the stores.
PageFit ==
    /\ wake.at \in {"read", "episode", "capsule", "flush", "ack"} =>
           IF Continuous THEN Source.pos = Page.from
           ELSE Source.status = "historical-pending" /\ Source.hist = Page.from
    /\ wake.at \in {"episode", "capsule", "flush", "ack"} =>
           /\ Page.from < Page.to
           /\ Page.to <= IF Continuous THEN head[Page.resource] ELSE Source.target
           /\ \A p \in Page.from + 1 .. Page.to :
                  p \in Page.events \/ Stored(<<Page.resource, p>>)
    /\ wake.at \in {"episode", "capsule"} => Page.events # {}
    /\ wake.at = "capsule" => epi[Event] # Absent
    /\ wake.at \in {"flush", "ack"} => Page.events = {}
    /\ wake.at = "ack" => \A p \in Page.from + 1 .. Page.to : Admitted(<<Page.resource, p>>)

WakeFit == wake.todo \subseteq Known /\ PageFit

Reached == \A e \in Events : cur[e[1]].pos # None /\ e[2] <= cur[e[1]].pos
                               => Admitted(e) \/ Owed(e) \/ GivenUp(e)

IInv == TypeOK /\ CursorsFit /\ EventsFit /\ WakeFit /\ Reached

-----------------------------------------------------------------------------
(* Lemmas about the operators and the types                                *)

LEMMA LeastIn ==
    ASSUME NEW S \in SUBSET Nat, S # {}
    PROVE  Least(S) \in S /\ \A y \in S : Least(S) <= y
<1>1. PICK x \in S : \A y \in S : ~(<<y, x>> \in OpToRel(<, Nat))
  BY NatLessThanWellFounded, WFMin
<1>2. \A y \in S : ~(y < x)
  BY <1>1, Zenon DEF OpToRel
<1>3. \A y \in S : x <= y
  BY <1>2
<1> QED BY <1>3 DEF Least

LEMMA SelectedIn == \A S : Selected(S) \subseteq S
BY DEF Selected

LEMMA HigherFacts ==
    ASSUME NEW a \in 0..MaxPos \cup {None}, NEW b \in 0..MaxPos
    PROVE  /\ Higher(a, b) \in 0..MaxPos /\ Higher(a, b) # None
           /\ Higher(a, b) >= b
           /\ a # None => Higher(a, b) >= a
           /\ Higher(a, b) = a \/ Higher(a, b) = b
BY AdmissionAssumption DEF Higher

LEMMA InvParts ==
    /\ IInv => TypeOK /\ CursorsFit /\ EventsFit /\ WakeFit /\ Reached
    /\ TypeOK /\ CursorsFit /\ EventsFit /\ WakeFit /\ Reached => IInv
BY DEF IInv

LEMMA ActionDue ==
    ASSUME NEW allow \in BOOLEAN
    PROVE  /\ NextAction(allow) \in Actions \cup {Absent}
           /\ NextAction(allow) = "stability" => Pending # {}
           /\ NextAction(allow) = "page" => Historical # {}
<1>1. CASE cat = "inventory"
  BY <1>1 DEF NextAction, Actions
<1>2. CASE cat = "caught-up" /\ allow
  BY <1>2 DEF NextAction, Actions
<1>3. CASE cat = "draining" /\ Pending # {}
  BY <1>3 DEF NextAction, Actions
<1>4. CASE cat = "draining" /\ Pending = {} /\ Historical # {}
  BY <1>4 DEF NextAction, Actions
<1>5. CASE ~(cat = "inventory") /\ ~(cat = "caught-up" /\ allow)
           /\ ~(cat = "draining" /\ Pending # {})
           /\ ~(cat = "draining" /\ Pending = {} /\ Historical # {})
  BY <1>5 DEF NextAction, Absent
<1> QED BY <1>1, <1>2, <1>3, <1>4, <1>5

LEMMA WakeTypes ==
    ASSUME TypeOK
    PROVE  /\ wake \in Wake /\ Page \in ReadPage /\ Page = wake.page
           /\ Page.resource \in Resources /\ Page.from \in 0..MaxPos /\ Page.to \in 0..MaxPos
           /\ Page.events \in SUBSET Positions
           /\ wake.todo \subseteq Resources
BY DEF TypeOK, Wake, ReadPage, Page

LEMMA EventType ==
    ASSUME TypeOK, Page.events # {}
    PROVE  Event \in Events /\ Event[1] = Page.resource /\ Event[2] \in Page.events
<1>1. Page.events \in SUBSET Nat /\ Page.events \subseteq Positions /\ Page.resource \in Resources
  BY WakeTypes, AdmissionAssumption DEF Positions
<1>2. Least(Page.events) \in Page.events
  BY <1>1, LeastIn
<1> QED BY <1>1, <1>2 DEF Event, Events

LEMMA PairEvent == \A r \in Resources, p \in Positions : <<r, p>> \in Events
BY DEF Events

IdleLike(w) ==
    /\ w \in Wake /\ w.todo = {}
    /\ w.at \notin {"read", "episode", "capsule", "flush", "ack"}

LEMMA IdleTypes ==
    /\ Idle \in Wake /\ NoPage \in ReadPage /\ Idle.todo = {} /\ Idle.at = "idle"
    /\ NoPage.events = {} /\ NoPage.lane = "continuous"
BY AdmissionAssumption DEF Idle, Wake, NoPage, ReadPage, Resources, Actions, Modes

-----------------------------------------------------------------------------
(* Steps that only move the wake                                           *)

LEMMA StoresKept ==
    ASSUME UNCHANGED <<cur, stores>>
    PROVE  /\ \A e \in Events : Admitted(e)' = Admitted(e) /\ Stored(e)' = Stored(e)
                                /\ Owed(e)' = Owed(e) /\ GivenUp(e)' = GivenUp(e)
                                /\ EventFit(e)' = EventFit(e)
           /\ Known' = Known /\ Historical' = Historical
           /\ Reached' = Reached /\ EventsFit' = EventsFit
BY DEF stores, Admitted, Stored, Owed, GivenUp, EventFit, Known, Historical, Reached, EventsFit

LEMMA WakeOnly ==
    ASSUME IInv, UNCHANGED <<head, mode, cat, index, cur, stores>>,
           trouble' \in 0..MaxTrouble, wake' \in Wake, WakeFit'
    PROVE  IInv'
<1>1. TypeOK /\ CursorsFit /\ EventsFit /\ Reached
  BY InvParts
<1>2. TypeOK'
  BY <1>1 DEF TypeOK, stores, Historical
<1>3. CursorsFit'
  BY <1>1 DEF CursorsFit
<1> QED BY <1>1, <1>2, <1>3, StoresKept DEF IInv

\* A wake that carries no page has nothing to fit.
LEMMA Moved ==
    ASSUME IInv, UNCHANGED <<head, mode, cat, index, cur, stores>>,
           trouble' \in 0..MaxTrouble, wake' \in Wake, wake'.todo \subseteq Known,
           wake'.at \notin {"read", "episode", "capsule", "flush", "ack"}
    PROVE  IInv'
<1>1. WakeFit'
  BY StoresKept DEF WakeFit, PageFit
<1> QED BY <1>1, WakeOnly

LEMMA DonateTypes ==
    ASSUME TypeOK
    PROVE  Donate \in Wake /\ Donate.at = "pass" /\ Donate.todo = wake.todo
BY IdleTypes DEF TypeOK, Wake, Donate

LEMMA DroppedTypes ==
    ASSUME TypeOK
    PROVE  Dropped \in Wake /\ Dropped.at \in {"lane", "pass"} /\ Dropped.todo = wake.todo
<1>1. CASE Continuous
  BY <1>1, IdleTypes DEF TypeOK, Wake, Dropped, Locked
<1>2. CASE ~Continuous
  BY <1>2, DonateTypes DEF Dropped
<1> QED BY <1>1, <1>2

LEMMA BeginSound ==
    ASSUME IInv, NEW kind \in {"full", "continuation", "targeted"}, Begin(kind)
    PROVE  IInv'
<1> DEFINE at == IF kind = "targeted" THEN "settle" ELSE "pass"
           action == IF mode = "catch-up" /\ kind # "targeted"
                     THEN NextAction(kind = "full") ELSE Absent
<1>1. /\ wake' = [Idle EXCEPT !.at = at, !.mode = mode, !.action = action]
      /\ UNCHANGED <<head, mode, cat, index, cur, stores, trouble>>
      /\ TypeOK /\ mode \in Modes /\ trouble \in 0..MaxTrouble
  BY InvParts DEF Begin, TypeOK
<1>2. action \in Actions \cup {Absent} /\ at \in {"settle", "pass"}
  BY ActionDue
<1> HIDE DEF at, action
<1>3. wake' \in Wake /\ wake'.at = at /\ wake'.todo = {}
  BY <1>1, <1>2, IdleTypes DEF Wake, Idle
<1> QED BY <1>1, <1>2, <1>3, Moved

LEMMA EndPassSound ==
    ASSUME IInv, EndPass
    PROVE  IInv'
<1>1. /\ TypeOK /\ wake.todo \subseteq Known /\ trouble \in 0..MaxTrouble
      /\ UNCHANGED <<head, mode, cat, index, cur, stores, trouble>>
      /\ wake' = [wake EXCEPT !.at = "quantum"] \/ wake' = [Idle EXCEPT !.at = "sweep"]
  BY InvParts DEF EndPass, TypeOK, WakeFit
<1>2. wake' \in Wake /\ wake'.at \in {"quantum", "sweep"} /\ wake'.todo \subseteq Known
  BY <1>1, IdleTypes DEF Wake, TypeOK
<1> QED BY <1>1, <1>2, Moved

LEMMA QuietSound ==
    ASSUME IInv, SkipQuantum \/ ReadNothing \/ TargetsDone \/ StageDone \/ SupersedeDone
                 \/ EndWake \/ Fail \/ \E e \in Events : RefreshFails(e)
    PROVE  IInv'
<1>1. /\ TypeOK /\ wake.todo \subseteq Known /\ trouble' \in 0..MaxTrouble
      /\ UNCHANGED <<head, mode, cat, index, cur, stores>>
  BY InvParts, AdmissionAssumption
     DEF SkipQuantum, ReadNothing, TargetsDone, StageDone, SupersedeDone, EndWake, Fail,
         RefreshFails, Trouble, Goto, TypeOK, WakeFit
<1>2. CASE SkipQuantum \/ ReadNothing \/ Fail
  <2>1. wake' = Donate \/ wake' = Dropped
    BY <1>2 DEF SkipQuantum, ReadNothing, Fail
  <2> QED BY <1>1, <2>1, DonateTypes, DroppedTypes, Moved
<1>3. CASE TargetsDone \/ SupersedeDone
  <2>1. wake' = [wake EXCEPT !.at = "released"] \/ wake' = [wake EXCEPT !.at = "review"]
    BY <1>3 DEF TargetsDone, SupersedeDone, Goto
  <2>2. wake' \in Wake /\ wake'.at \in {"released", "review"} /\ wake'.todo = wake.todo
    BY <1>1, <2>1 DEF TypeOK, Wake, Stages
  <2> QED BY <1>1, <2>2, Moved
<1>4. CASE StageDone \/ EndWake
  <2>1. \/ wake' = Idle
        \/ \E at \in {"settle", "reconcile", "supersede"} : wake' = [Idle EXCEPT !.at = at]
    BY <1>4 DEF StageDone, EndWake, Stages
  <2>2. /\ wake' \in Wake /\ wake'.at \in {"idle", "settle", "reconcile", "supersede"}
        /\ wake'.todo = {}
    BY <2>1, IdleTypes DEF Wake, Stages
  <2> QED BY <1>1, <2>2, Moved
<1>5. CASE \E e \in Events : RefreshFails(e)
  <2>1. PICK e \in Events : RefreshFails(e)
    BY <1>5
  <2>2. e \in Lagging /\ wake' = [wake EXCEPT !.skip = @ \cup {e}]
    BY <2>1 DEF RefreshFails
  <2>3. wake' \in Wake /\ wake'.at = wake.at /\ wake'.todo = wake.todo
    BY <1>1, <2>2 DEF TypeOK, Wake
  <2>4. wake.at \in Stages
    BY <2>2, <1>1 DEF Lagging, Stages, TypeOK
  <2> QED BY <1>1, <2>3, <2>4, Moved DEF Stages
<1> QED BY <1>2, <1>3, <1>4, <1>5

-----------------------------------------------------------------------------
(* The continuous pass                                                     *)

LEMMA DiscoverSound ==
    ASSUME IInv, Discover
    PROVE  IInv'
<1>1. PICK listed \in SUBSET Resources :
          /\ cur' = [r \in Resources |->
                       IF r \in listed /\ wake.mode = "future" /\ cur[r].pos = None
                       THEN [cur[r] EXCEPT !.pos = head[r], !.base = head[r]] ELSE cur[r]]
          /\ wake' = [wake EXCEPT !.at = "lane",
                        !.todo = Known \cup {r \in listed : wake.mode = "future"
                                                            /\ cur[r].pos = None}]
  BY DEF Discover
<1>2. /\ TypeOK /\ CursorsFit /\ EventsFit /\ Reached /\ wake \in Wake
      /\ UNCHANGED <<head, mode, cat, index, stores, trouble>>
  BY InvParts DEF Discover, TypeOK
<1>3. ASSUME NEW r \in Resources
      PROVE  /\ cur'[r] \in Progress /\ CursorFit(cur'[r], head'[r])
             /\ cur'[r].status = cur[r].status /\ cur'[r].hist = cur[r].hist
             /\ cur'[r].target = cur[r].target /\ cur'[r].seen = cur[r].seen
             /\ cur'[r].tomb = cur[r].tomb
             /\ \/ cur'[r].pos = cur[r].pos /\ cur'[r].base = cur[r].base
                \/ cur[r].pos = None /\ cur'[r].pos = head[r] /\ cur'[r].base = head[r]
             /\ cur[r].pos # None => cur'[r].pos # None
             /\ r \in listed /\ wake.mode = "future" => cur'[r].pos # None
  <2>1. cur[r] \in Progress /\ head[r] \in 0..MaxPos /\ CursorFit(cur[r], head[r])
    BY <1>2 DEF TypeOK, CursorsFit
  <2>2. CASE cur'[r] = cur[r] /\ ~(r \in listed /\ wake.mode = "future" /\ cur[r].pos = None)
    BY <1>2, <2>1, <2>2
  <2>3. CASE cur'[r] = [cur[r] EXCEPT !.pos = head[r], !.base = head[r]] /\ cur[r].pos = None
    <3>1. /\ cur'[r] \in Progress
          /\ cur'[r].pos = head[r] /\ cur'[r].base = head[r]
          /\ cur'[r].status = cur[r].status /\ cur'[r].hist = cur[r].hist
          /\ cur'[r].target = cur[r].target /\ cur'[r].seen = cur[r].seen
          /\ cur'[r].tomb = cur[r].tomb
      BY <2>1, <2>3 DEF Progress
    <3> QED BY <1>2, <2>1, <2>3, <3>1, AdmissionAssumption DEF CursorFit
  <2> QED BY <1>1, <2>2, <2>3
<1>4. wake' \in Wake /\ wake'.at = "lane" /\ wake'.todo \subseteq Known'
  BY <1>1, <1>2, <1>3 DEF Wake, Known, Locked
<1>5. TypeOK'
  <2>1. \A r \in Historical' : cur'[r].hist < cur'[r].target
    BY <1>2, <1>3 DEF TypeOK, Historical
  <2>2. cur' \in [Resources -> Progress]
    BY <1>1, <1>3
  <2> QED BY <1>2, <1>4, <2>1, <2>2 DEF TypeOK, stores
<1>6. CursorsFit'
  BY <1>3 DEF CursorsFit
<1>7. \A e \in Events : e[1] \in Resources
  BY DEF Events
<1>8. EventsFit'
  BY <1>2, <1>3, <1>7 DEF EventsFit, EventFit, Admitted, stores
<1>9. WakeFit'
  BY <1>4 DEF WakeFit, PageFit
<1>10. Reached'
  <2> SUFFICES ASSUME NEW e \in Events, cur'[e[1]].pos # None, e[2] <= cur'[e[1]].pos
               PROVE  Admitted(e)' \/ Owed(e)' \/ GivenUp(e)'
    BY DEF Reached
  <2> DEFINE r == e[1]
  <2>1. r \in Resources /\ Admitted(e)' = Admitted(e)
    BY <1>2, <1>7 DEF Admitted, stores
  <2>2. CASE cur'[r].pos = cur[r].pos /\ cur'[r].base = cur[r].base
    <3>1. Owed(e)' = Owed(e) /\ GivenUp(e)' = GivenUp(e)
      BY <1>3, <2>1, <2>2 DEF Owed, GivenUp
    <3> QED BY <1>2, <2>1, <2>2, <3>1 DEF Reached
  <2>3. CASE cur[r].pos = None /\ cur'[r].pos = head[r] /\ cur'[r].base = head[r]
    <3>1. cur'[r].status \in {"unknown", "target-pending"}
      BY <1>2, <1>3, <2>1, <2>3 DEF CursorsFit, CursorFit
    <3> QED BY <2>1, <2>3, <3>1 DEF GivenUp
  <2> QED BY <1>3, <2>1, <2>2, <2>3
<1> QED BY <1>5, <1>6, <1>8, <1>9, <1>10 DEF IInv

LEMMA NewPage ==
    ASSUME NEW lane \in {"continuous", "catch-up"}, NEW r \in Resources, NEW from \in 0..MaxPos,
           NEW page, page = [NoPage EXCEPT !.lane = lane, !.resource = r, !.from = from]
    PROVE  page \in ReadPage /\ page.lane = lane /\ page.resource = r /\ page.from = from
BY IdleTypes DEF ReadPage

LEMMA NewContinuousPage ==
    ASSUME NEW r, NEW from
    PROVE  [NoPage EXCEPT !.resource = r, !.from = from]
           = [NoPage EXCEPT !.lane = "continuous", !.resource = r, !.from = from]
<1> DEFINE p == [NoPage EXCEPT !.lane = "continuous"]
<1>1. p = NoPage
  BY DEF NoPage
<1>2. [p EXCEPT !.resource = r, !.from = from]
      = [NoPage EXCEPT !.lane = "continuous", !.resource = r, !.from = from]
  OBVIOUS
<1> HIDE DEF p
<1> QED BY <1>1, <1>2

\* A read begins at the cursor of its lane.
LEMMA ReadBegins ==
    ASSUME IInv, UNCHANGED <<head, mode, cat, index, cur, stores, trouble>>,
           NEW r \in Resources, NEW lane \in {"continuous", "catch-up"}, NEW from \in 0..MaxPos,
           wake' \in Wake, wake'.at = "read", wake'.todo \subseteq Known,
           wake'.page = [NoPage EXCEPT !.lane = lane, !.resource = r, !.from = from],
           IF lane = "continuous" THEN cur[r].pos = from
           ELSE cur[r].status = "historical-pending" /\ cur[r].hist = from
    PROVE  IInv'
<1>1. wake'.page.lane = lane /\ wake'.page.resource = r /\ wake'.page.from = from
  BY NewPage, IdleTypes DEF ReadPage
<1>2. WakeFit'
  BY <1>1, StoresKept DEF WakeFit, PageFit, Source, Page, Continuous
<1>3. trouble' \in 0..MaxTrouble
  BY InvParts DEF TypeOK
<1> QED BY <1>2, <1>3, WakeOnly

LEMMA StartReadSound ==
    ASSUME IInv, StartRead
    PROVE  IInv'
<1> DEFINE r == Least(wake.todo)
           page == [NoPage EXCEPT !.lane = "continuous", !.resource = r, !.from = cur[r].pos]
<1>1. /\ wake.todo # {} /\ wake' = [wake EXCEPT !.at = "read", !.todo = @ \ {r},
                          !.page = [NoPage EXCEPT !.resource = r, !.from = cur[r].pos]]
      /\ UNCHANGED <<head, mode, cat, index, cur, stores, trouble>>
      /\ TypeOK /\ wake \in Wake /\ wake.todo \subseteq Known
  BY InvParts DEF StartRead, TypeOK, WakeFit
<1>2. r \in Known
  BY <1>1, LeastIn DEF Known, Resources
<1>3. r \in Resources /\ cur[r].pos \in 0..MaxPos
  BY <1>1, <1>2 DEF Known, TypeOK, Progress
<1>4. page = [NoPage EXCEPT !.lane = "continuous", !.resource = r, !.from = cur[r].pos]
  OBVIOUS
<1>5. page = [NoPage EXCEPT !.resource = r, !.from = cur[r].pos]
  BY NewContinuousPage
<1> HIDE DEF page
<1>6. page \in ReadPage
  BY <1>3, <1>4, IdleTypes DEF ReadPage
<1>7. /\ wake' \in Wake /\ wake'.at = "read" /\ wake'.todo \subseteq Known
      /\ wake'.page = page
  BY <1>1, <1>5, <1>6 DEF Wake, Locked
<1> QED BY <1>1, <1>3, <1>4, <1>7, ReadBegins

LEMMA StartPageSound ==
    ASSUME IInv, StartPage
    PROVE  IInv'
<1>1. PICK r \in Selected(Historical) :
          wake' = [wake EXCEPT !.at = "read",
                               !.page = [NoPage EXCEPT !.lane = "catch-up", !.resource = r,
                                                       !.from = cur[r].hist]]
  BY DEF StartPage
<1> DEFINE page == [NoPage EXCEPT !.lane = "catch-up", !.resource = r, !.from = cur[r].hist]
<1>2. /\ UNCHANGED <<head, mode, cat, index, cur, stores, trouble>>
      /\ TypeOK /\ wake \in Wake /\ wake.todo \subseteq Known
      /\ r \in Resources /\ cur[r].status = "historical-pending"
  BY <1>1, InvParts, SelectedIn DEF StartPage, TypeOK, WakeFit, Historical
<1>3. cur[r].hist \in 0..MaxPos
  BY <1>2 DEF TypeOK, Progress
<1>4. page = [NoPage EXCEPT !.lane = "catch-up", !.resource = r, !.from = cur[r].hist]
  OBVIOUS
<1> HIDE DEF page
<1>5. page \in ReadPage
  BY <1>2, <1>3, <1>4, IdleTypes DEF ReadPage
<1>6. /\ wake' \in Wake /\ wake'.at = "read" /\ wake'.todo \subseteq Known
      /\ wake'.page = page
  BY <1>1, <1>2, <1>4, <1>5 DEF Wake, Locked
<1> QED BY <1>2, <1>3, <1>4, <1>6, ReadBegins

LEMMA ReadReadySound ==
    ASSUME IInv, NEW to \in Positions, ReadReady(to)
    PROVE  IInv'
<1> DEFINE fresh == (Page.from + 1 .. to) \ Source.seen
           at == IF fresh = {} THEN "ack" ELSE "episode"
<1>1. /\ wake.at = "read" /\ to > Page.from
      /\ IF Continuous THEN to = head[Page.resource] ELSE to <= Source.target
      /\ wake' = [wake EXCEPT !.at = at, !.page = [@ EXCEPT !.to = to, !.events = fresh]]
      /\ UNCHANGED <<head, mode, cat, index, cur, stores, trouble>>
      /\ TypeOK /\ wake \in Wake /\ wake.todo \subseteq Known /\ PageFit /\ EventsFit
  BY InvParts DEF ReadReady, TypeOK, WakeFit
<1>2. /\ Page \in ReadPage /\ Page = wake.page /\ Page.resource \in Resources
      /\ Page.from \in 0..MaxPos
  BY <1>1, WakeTypes
<1>3. to \in 0..MaxPos /\ fresh \in SUBSET Positions /\ Page.from + 1 .. to \subseteq Positions
  BY <1>2, AdmissionAssumption DEF Positions
<1>4. \A p \in Page.from + 1 .. to : p \notin fresh => Admitted(<<Page.resource, p>>)
  <2> SUFFICES ASSUME NEW p \in Page.from + 1 .. to, p \in Source.seen
               PROVE  Admitted(<<Page.resource, p>>)
    OBVIOUS
  <2>1. EventFit(<<Page.resource, p>>)
    BY <1>1, <1>2, <1>3, PairEvent DEF EventsFit
  <2> QED BY <2>1 DEF EventFit, Source
<1> HIDE DEF fresh
<1>5. /\ wake' \in Wake /\ wake'.at = at /\ wake'.todo = wake.todo
      /\ wake'.page = [Page EXCEPT !.to = to, !.events = fresh]
  <2>1. [wake.page EXCEPT !.to = to, !.events = fresh] \in ReadPage
    BY <1>2, <1>3 DEF ReadPage
  <2>2. at \in Locked
    BY DEF Locked
  <2> HIDE DEF at
  <2> QED BY <1>1, <1>2, <2>1, <2>2 DEF Wake
<1>6. /\ wake'.page.lane = Page.lane /\ wake'.page.resource = Page.resource
      /\ wake'.page.from = Page.from /\ wake'.page.to = to /\ wake'.page.events = fresh
  BY <1>2, <1>5 DEF ReadPage
<1>7. \A e \in Events : Admitted(e)' = Admitted(e) /\ Stored(e)' = Stored(e)
                        /\ (Admitted(e) => Stored(e))
  BY <1>1, StoresKept DEF Admitted, Stored
<1>8. /\ Page' = wake'.page /\ Continuous' = Continuous /\ Source' = Source
  BY <1>1, <1>6 DEF Page, Continuous, Source
<1>9. PageFit'
  <2>1. IF Continuous THEN Source.pos = Page.from
        ELSE Source.status = "historical-pending" /\ Source.hist = Page.from
    BY <1>1 DEF PageFit
  <2>2. to <= IF Continuous THEN head[Page.resource] ELSE Source.target
    BY <1>1, <1>3, <1>2 DEF TypeOK
  <2>3. \A p \in Page.from + 1 .. to : <<Page.resource, p>> \in Events
    BY <1>2, <1>3, PairEvent
  <2>4. \A p \in Page.from + 1 .. to : p \in fresh \/ Stored(<<Page.resource, p>>)'
    BY <1>4, <1>6, <1>7, <1>8, <2>3
  <2>5. at = "ack" => \A p \in Page.from + 1 .. to : Admitted(<<Page.resource, p>>)'
    BY <1>4, <1>6, <1>7, <1>8, <2>3
  <2> QED BY <1>1, <1>5, <1>6, <1>8, <2>1, <2>2, <2>4, <2>5 DEF PageFit
<1>10. WakeFit'
  BY <1>1, <1>5, <1>9, StoresKept DEF WakeFit
<1> QED BY <1>1, <1>5, <1>10, WakeOnly DEF TypeOK

-----------------------------------------------------------------------------
(* The commit of a page                                                    *)

\* What is in the stores stays there, and nothing else of the invariant moves.
LEMMA StoresGrow ==
    ASSUME IInv, UNCHANGED <<head, cur>>,
           \A e \in Events : Admitted(e) => Admitted(e)'
    PROVE  CursorsFit' /\ Reached' /\ Known' = Known /\ Historical' = Historical
<1>1. \A e \in Events : Owed(e)' = Owed(e) /\ GivenUp(e)' = GivenUp(e)
  BY DEF Owed, GivenUp
<1> QED BY <1>1, InvParts DEF CursorsFit, Reached, Known, Historical

LEMMA EventKept ==
    ASSUME NEW e \in Events, EventFit(e), UNCHANGED cur,
           epi'[e] = epi[e], caps'[e] = caps[e], job'[e] = job[e],
           e \in link' <=> e \in link, e \in prov \/ e \in noted' => e \in prov \cup noted,
           e \in prov' \/ e \in noted' => e \in prov \cup noted,
           e \in prov => e \in prov'
    PROVE  EventFit(e)'
BY DEF EventFit, Admitted

LEMMA CommitEpisodeSound ==
    ASSUME IInv, CommitEpisode
    PROVE  IInv'
<1> DEFINE e0 == Event
<1>1. /\ wake.at = "episode" /\ wake' = [wake EXCEPT !.at = "capsule"]
      /\ UNCHANGED <<head, mode, cat, index, cur, caps, prov, noted, job, trouble>>
      /\ TypeOK /\ EventsFit /\ wake \in Wake /\ wake.todo \subseteq Known /\ PageFit
  BY InvParts DEF CommitEpisode, Goto, TypeOK, WakeFit
<1>2. e0 \in Events /\ Page.events # {}
  BY <1>1, EventType DEF PageFit
<1>3. EventFit(e0) /\ epi \in [Events -> EpisodeStatus \cup {Absent}] /\ link \subseteq Events
  BY <1>1, <1>2 DEF EventsFit, TypeOK
<1>4. CASE epi[e0] # Absent /\ UNCHANGED <<epi, link>>
  <2>1. /\ wake' \in Wake /\ wake'.at = "capsule" /\ wake'.todo = wake.todo
        /\ wake'.page = wake.page
    BY <1>1 DEF Wake, Locked
  <2>2. UNCHANGED stores
    BY <1>1, <1>4 DEF stores
  <2>3. WakeFit'
    <3>1. /\ Page' = Page /\ Continuous' = Continuous /\ Source' = Source /\ Event' = Event
      BY <1>1, <2>1 DEF Page, Continuous, Source, Event
    <3>2. \A p : Stored(<<Page.resource, p>>)' = Stored(<<Page.resource, p>>)
      BY <2>2, <3>1 DEF stores, Stored
    <3>3. Known' = Known
      BY <1>1 DEF Known
    <3> QED BY <1>1, <1>2, <1>4, <2>1, <3>1, <3>2, <3>3 DEF WakeFit, PageFit
  <2> QED BY <1>1, <2>1, <2>2, <2>3, WakeOnly DEF TypeOK
<1>5. ASSUME epi[e0] = Absent, NEW s,
             epi' = [epi EXCEPT ![e0] = s],
             \/ s = "held" /\ link' = link \cup {e0}
             \/ s = "contradicted" /\ UNCHANGED link
             \/ s = "settling" /\ e0 \notin Refuted /\ UNCHANGED link
      PROVE  IInv'
  <2>1. /\ caps[e0] = Absent /\ e0 \notin prov \cup noted /\ e0 \notin link
        /\ job[e0] = Absent /\ ~Admitted(e0) /\ ~Stored(e0)
        /\ e0[2] \notin cur[e0[1]].seen
    BY <1>3, <1>5 DEF EventFit, Admitted, Stored, Absent
  <2>2. /\ epi' \in [Events -> EpisodeStatus \cup {Absent}] /\ epi'[e0] = s /\ s # Absent
        /\ \A e \in Events \ {e0} : epi'[e] = epi[e] /\ (e \in link' <=> e \in link)
        /\ link' \subseteq Events
    BY <1>2, <1>3, <1>5 DEF EpisodeStatus, Absent
  <2>3. \A e \in Events : (Admitted(e) => Admitted(e)') /\ (Stored(e) => Stored(e)')
    BY <1>1, <2>1, <2>2 DEF Admitted, Stored
  <2>4. CursorsFit' /\ Reached' /\ Known' = Known /\ Historical' = Historical
    BY <1>1, <2>3, StoresGrow
  <2>5. EventsFit'
    <3>1. ASSUME NEW e \in Events, e # e0
          PROVE  EventFit(e)'
      <4>1. EventFit(e)
        BY <1>1 DEF EventsFit
      <4> QED BY <1>1, <2>2, <3>1, <4>1, EventKept
    <3>2. ASSUME NEW e \in Events, e = e0
          PROVE  EventFit(e)'
      BY <1>1, <1>5, <2>1, <2>2, <3>2 DEF EventFit, Admitted, Absent
    <3> QED BY <3>1, <3>2 DEF EventsFit
  <2>6. /\ wake' \in Wake /\ wake'.at = "capsule" /\ wake'.todo = wake.todo
        /\ wake'.page = wake.page
    BY <1>1 DEF Wake, Locked
  <2>7. WakeFit'
    <3>1. /\ Page' = Page /\ Continuous' = Continuous /\ Source' = Source /\ Event' = Event
      BY <1>1, <2>6 DEF Page, Continuous, Source, Event
    <3>2. Page.from + 1 .. Page.to \subseteq Positions /\ Page.resource \in Resources
      BY <1>1, WakeTypes, AdmissionAssumption DEF Positions
    <3>3. \A p \in Page.from + 1 .. Page.to :
              Stored(<<Page.resource, p>>) => Stored(<<Page.resource, p>>)'
      BY <2>3, <3>1, <3>2, PairEvent
    <3> QED BY <1>1, <1>2, <2>2, <2>4, <2>6, <3>1, <3>3 DEF WakeFit, PageFit
  <2>8. TypeOK'
    BY <1>1, <2>2, <2>4, <2>6 DEF TypeOK
  <2> QED BY <2>4, <2>5, <2>7, <2>8 DEF IInv
<1>6. \/ epi[e0] # Absent /\ UNCHANGED <<epi, link>>
      \/ epi[e0] = Absent
         /\ \/ epi' = [epi EXCEPT ![e0] = "held"] /\ link' = link \cup {e0}
            \/ epi' = [epi EXCEPT ![e0] = "contradicted"] /\ UNCHANGED link
            \/ epi' = [epi EXCEPT ![e0] = "settling"] /\ e0 \notin Refuted /\ UNCHANGED link
  BY DEF CommitEpisode
<1> HIDE DEF e0
<1> QED BY <1>4, <1>5, <1>6

LEMMA CommitCapsuleSound ==
    ASSUME IInv, CommitCapsule
    PROVE  IInv'
<1> DEFINE e0 == Event
           rest == Page.events \ {Event[2]}
           at == IF rest = {} THEN "flush" ELSE "episode"
<1>1. /\ wake.at = "capsule" /\ caps' = [caps EXCEPT ![e0] = epi[e0]]
      /\ noted' = noted \cup ({e0} \ prov)
      /\ wake' = [wake EXCEPT !.at = at, !.page.events = rest]
      /\ UNCHANGED <<head, mode, cat, index, cur, epi, link, prov, job, trouble>>
      /\ TypeOK /\ EventsFit /\ wake \in Wake /\ wake.todo \subseteq Known /\ PageFit
  BY InvParts DEF CommitCapsule, TypeOK, WakeFit
<1>2. e0 \in Events /\ epi[e0] # Absent /\ e0[1] = Page.resource /\ Page.events # {}
      /\ e0 = <<Page.resource, e0[2]>>
  BY <1>1, EventType DEF PageFit, Event
<1>3. /\ EventFit(e0) /\ epi[e0] \in EpisodeStatus \cup {Absent}
      /\ caps \in [Events -> EpisodeStatus \cup {Absent}] /\ noted \subseteq Events \ prov
  BY <1>1, <1>2 DEF EventsFit, TypeOK
<1>4. /\ caps' \in [Events -> EpisodeStatus \cup {Absent}] /\ caps'[e0] = epi[e0]
      /\ \A e \in Events \ {e0} : caps'[e] = caps[e] /\ (e \in noted' <=> e \in noted)
      /\ noted' \subseteq Events \ prov /\ e0 \in prov \cup noted'
  BY <1>1, <1>2, <1>3
<1>5. \A e \in Events : (Admitted(e) => Admitted(e)') /\ (Stored(e) => Stored(e)')
  BY <1>1, <1>2, <1>4 DEF Admitted, Stored
<1>6. CursorsFit' /\ Reached' /\ Known' = Known /\ Historical' = Historical
  BY <1>1, <1>5, StoresGrow
<1>7. EventsFit'
  <2>1. ASSUME NEW e \in Events, e # e0
        PROVE  EventFit(e)'
    <3>1. EventFit(e)
      BY <1>1 DEF EventsFit
    <3> QED BY <1>1, <1>4, <2>1, <3>1, EventKept
  <2>2. ASSUME NEW e \in Events, e = e0
        PROVE  EventFit(e)'
    BY <1>1, <1>2, <1>3, <1>4, <2>2 DEF EventFit, Admitted
  <2> QED BY <2>1, <2>2 DEF EventsFit
<1>8. Page \in ReadPage /\ Page = wake.page /\ rest \in SUBSET Positions
  BY <1>1, WakeTypes
<1> HIDE DEF rest
<1>9. /\ wake' \in Wake /\ wake'.at = at /\ wake'.todo = wake.todo
       /\ wake'.page = [Page EXCEPT !.events = rest]
  <2>1. [wake.page EXCEPT !.events = rest] \in ReadPage /\ at \in {"flush", "episode"}
    BY <1>8 DEF ReadPage
  <2> HIDE DEF at
  <2> QED BY <1>1, <1>8, <2>1 DEF Wake, Locked
<1>10. /\ wake'.page.lane = Page.lane /\ wake'.page.resource = Page.resource
       /\ wake'.page.from = Page.from /\ wake'.page.to = Page.to /\ wake'.page.events = rest
  BY <1>8, <1>9 DEF ReadPage
<1>11. /\ Page' = wake'.page /\ Continuous' = Continuous /\ Source' = Source
  BY <1>1, <1>10 DEF Page, Continuous, Source
<1>12. WakeFit'
  <2>1. Page.from + 1 .. Page.to \subseteq Positions /\ Page.resource \in Resources
    BY <1>1, WakeTypes, AdmissionAssumption DEF Positions
  <2>2. ASSUME NEW p \in Page.from + 1 .. Page.to, p \notin rest
        PROVE  Stored(<<Page.resource, p>>)'
    <3>1. CASE p = e0[2]
      <4>1. <<Page.resource, p>> = e0
        BY <1>2, <3>1
      <4> HIDE DEF e0
      <4>2. \A e : e = e0 => epi'[e] # Absent /\ caps'[e] # Absent /\ e \in prov' \cup noted'
        BY <1>1, <1>2, <1>4
      <4> QED BY <1>10, <1>11, <4>1, <4>2 DEF Stored
    <3>2. CASE p # e0[2]
      <4>1. Stored(<<Page.resource, p>>) /\ <<Page.resource, p>> \in Events
        BY <1>1, <2>1, <2>2, <3>2, PairEvent DEF rest, PageFit
      <4> QED BY <1>5, <1>10, <1>11, <4>1
    <3> QED BY <3>1, <3>2
  <2> QED BY <1>1, <1>6, <1>9, <1>10, <1>11, <2>2 DEF WakeFit, PageFit
<1>13. TypeOK'
  BY <1>1, <1>4, <1>6, <1>9 DEF TypeOK
<1> QED BY <1>6, <1>7, <1>12, <1>13 DEF IInv

LEMMA FlushSound ==
    ASSUME IInv, Flush
    PROVE  IInv'
<1> DEFINE at == IF wake.at = "flush" THEN "ack" ELSE "targets"
<1>1. /\ wake.at \in {"flush", "sweep"} /\ wake' = [wake EXCEPT !.at = at]
      /\ prov' = prov \cup noted /\ noted' = {}
      /\ UNCHANGED <<head, mode, cat, index, cur, epi, link, caps, job, trouble>>
      /\ TypeOK /\ EventsFit /\ wake \in Wake /\ wake.todo \subseteq Known /\ PageFit
  BY InvParts DEF Flush, Goto, TypeOK, WakeFit
<1>2. \A e \in Events : /\ Admitted(e) => Admitted(e)'
                        /\ Stored(e) <=> Stored(e)'
                        /\ Stored(e) <=> Admitted(e)'
  BY <1>1 DEF Admitted, Stored
<1>3. CursorsFit' /\ Reached' /\ Known' = Known /\ Historical' = Historical
  BY <1>1, <1>2, StoresGrow
<1>4. EventsFit'
  BY <1>1, EventKept DEF EventsFit
<1>5. /\ wake' \in Wake /\ wake'.at = at /\ wake'.todo = wake.todo /\ wake'.page = wake.page
  BY <1>1 DEF Wake, Locked
<1>6. /\ Page' = Page /\ Continuous' = Continuous /\ Source' = Source
  BY <1>1, <1>5 DEF Page, Continuous, Source
<1>7. WakeFit'
  <2>1. Page.from + 1 .. Page.to \subseteq Positions /\ Page.resource \in Resources
    BY <1>1, WakeTypes, AdmissionAssumption DEF Positions
  <2>2. \A p \in Page.from + 1 .. Page.to :
            Stored(<<Page.resource, p>>) => /\ Stored(<<Page.resource, p>>)'
                                            /\ Admitted(<<Page.resource, p>>)'
    BY <1>2, <1>6, <2>1, PairEvent
  <2> QED BY <1>1, <1>3, <1>5, <1>6, <2>2 DEF WakeFit, PageFit
<1>8. TypeOK'
  BY <1>1, <1>3, <1>5 DEF TypeOK
<1> QED BY <1>3, <1>4, <1>7, <1>8 DEF IInv

LEMMA CatalogType ==
    ASSUME TypeOK, NEW progress
    PROVE  Catalog(progress) \in {"inventory", "draining", "caught-up"}
BY DEF TypeOK, Catalog

\* The progress of the page's resource after the acknowledgement.
LEMMA Acknowledged ==
    ASSUME TypeOK, Acknowledge
    PROVE  LET r == Page.resource
               done == Page.to = Source.target
           IN /\ cur' \in [Resources -> Progress]
              /\ \A g \in Resources \ {r} : cur'[g] = cur[g]
              /\ cur'[r].base = cur[r].base /\ cur'[r].target = cur[r].target
              /\ cur'[r].tomb = cur[r].tomb
              /\ cur'[r].seen = cur[r].seen \cup (Page.from + 1 .. Page.to)
              /\ Continuous => /\ cur'[r].pos = Page.to /\ cur'[r].hist = cur[r].hist
                               /\ cur'[r].status = cur[r].status
              /\ ~Continuous => /\ cur'[r].hist = Page.to
                                /\ cur'[r].status = IF done THEN "complete" ELSE cur[r].status
                                /\ cur'[r].pos = IF done THEN Higher(cur[r].pos, Page.to)
                                                 ELSE cur[r].pos
<1> DEFINE r == Page.resource
           read == Page.from + 1 .. Page.to
           done == Page.to = Source.target
           s == cur[r]
           d == cur'[r]
<1>1. /\ cur \in [Resources -> Progress] /\ r \in Resources /\ Page.to \in 0..MaxPos
      /\ read \in SUBSET Positions /\ s \in Progress
  BY WakeTypes, AdmissionAssumption DEF TypeOK, Positions
<1>2. Higher(s.pos, Page.to) \in 0..MaxPos
  BY <1>1, HigherFacts DEF Progress
<1>3. CASE Continuous
  <2>1. cur' = [cur EXCEPT ![r].pos = Page.to, ![r].seen = @ \cup read]
    BY <1>3 DEF Acknowledge
  <2>2. /\ cur' \in [Resources -> Progress]
        /\ \A g \in Resources \ {r} : cur'[g] = cur[g]
        /\ d.base = s.base /\ d.target = s.target /\ d.tomb = s.tomb /\ d.status = s.status
        /\ d.seen = s.seen \cup read /\ d.pos = Page.to /\ d.hist = s.hist
    <3> HIDE DEF read, r
    <3> QED BY <1>1, <2>1 DEF Progress
  <2> QED BY <1>3, <2>2
<1>4. CASE ~Continuous
  <2>1. cur' = [cur EXCEPT ![r].hist = Page.to, ![r].seen = @ \cup read,
                           ![r].status = IF done THEN "complete" ELSE @,
                           ![r].pos = IF done THEN Higher(@, Page.to) ELSE @]
    BY <1>4 DEF Acknowledge
  <2>2. /\ cur' \in [Resources -> Progress]
        /\ \A g \in Resources \ {r} : cur'[g] = cur[g]
        /\ d.base = s.base /\ d.target = s.target /\ d.tomb = s.tomb
        /\ d.seen = s.seen \cup read /\ d.hist = Page.to
        /\ d.status = IF done THEN "complete" ELSE s.status
        /\ d.pos = IF done THEN Higher(s.pos, Page.to) ELSE s.pos
    <3> HIDE DEF read, r, done
    <3> QED BY <1>1, <1>2, <2>1 DEF Progress
  <2> QED BY <1>4, <2>2
<1> QED BY <1>3, <1>4

LEMMA AcknowledgeSound ==
    ASSUME IInv, Acknowledge
    PROVE  IInv'
<1> DEFINE r == Page.resource
           read == Page.from + 1 .. Page.to
           done == Page.to = Source.target
           s == cur[r]
           d == cur'[r]
<1>1. /\ wake.at = "ack" /\ cat' = Catalog(cur')
      /\ wake' = IF Continuous THEN Dropped ELSE [Idle EXCEPT !.at = "sweep"]
      /\ UNCHANGED <<head, mode, index, stores, trouble>>
      /\ TypeOK /\ CursorsFit /\ EventsFit /\ Reached
      /\ wake \in Wake /\ wake.todo \subseteq Known /\ PageFit
  BY InvParts DEF Acknowledge, TypeOK, WakeFit
<1>2. /\ r \in Resources /\ s \in Progress /\ CursorFit(s, head[r]) /\ head[r] \in 0..MaxPos
      /\ Page.from \in 0..MaxPos /\ Page.to \in 0..MaxPos /\ Source = s
      /\ read \subseteq Positions
  BY <1>1, WakeTypes, AdmissionAssumption DEF TypeOK, CursorsFit, Source, Positions
<1>3. /\ Page.from < Page.to
      /\ Continuous => s.pos = Page.from /\ Page.to <= head[r]
      /\ ~Continuous => /\ s.status = "historical-pending" /\ s.hist = Page.from
                        /\ Page.to <= s.target
      /\ \A p \in read : Admitted(<<r, p>>)
  BY <1>1, <1>2 DEF PageFit
<1>4. /\ cur' \in [Resources -> Progress]
      /\ \A g \in Resources \ {r} : cur'[g] = cur[g]
      /\ d.base = s.base /\ d.target = s.target
      /\ d.tomb = s.tomb
      /\ d.seen = s.seen \cup read
      /\ Continuous => d.pos = Page.to /\ d.hist = s.hist /\ d.status = s.status
      /\ ~Continuous => /\ d.hist = Page.to
                        /\ d.status = IF done THEN "complete" ELSE s.status
                        /\ d.pos = IF done THEN Higher(s.pos, Page.to) ELSE s.pos
  BY <1>1, Acknowledged
<1>5. /\ Higher(s.pos, Page.to) = s.pos \/ Continuous
      /\ s.pos \in 0..MaxPos \cup {None} /\ s.target \in 0..MaxPos
  <2>1. s.pos \in 0..MaxPos \cup {None} /\ s.target \in 0..MaxPos
    BY <1>2 DEF Progress
  <2>2. ~Continuous => s.pos # None /\ s.target <= s.pos
    BY <1>2, <1>3 DEF CursorFit
  <2> QED BY <1>2, <1>3, <2>1, <2>2, AdmissionAssumption DEF Higher
<1> HIDE DEF r, read, done, s, d
<1>6. /\ d.pos # None /\ s.pos # None
      /\ ~Continuous => d.pos = s.pos
      /\ s.status = "complete" => d.status = "complete"
      /\ d.status = "historical-pending" => s.status = "historical-pending"
      /\ d.status \in {"unknown", "target-pending"} => d.status = s.status /\ d.hist = s.hist
      /\ CursorFit(d, head[r])
  <2>1. CASE Continuous
    BY <1>2, <1>3, <1>4, <1>5, <2>1, AdmissionAssumption DEF CursorFit
  <2>2. CASE ~Continuous
    BY <1>2, <1>3, <1>4, <1>5, <2>2, AdmissionAssumption DEF CursorFit, done
  <2> QED BY <2>1, <2>2
<1>7. \A e \in Events : Admitted(e)' = Admitted(e) /\ e[1] \in Resources /\ e[2] \in Positions
                        /\ e = <<e[1], e[2]>>
  BY <1>1 DEF Admitted, stores, Events
<1>8. wake' \in Wake /\ wake'.at \in {"lane", "pass", "sweep"} /\ wake'.todo \subseteq Known
  <2>1. [Idle EXCEPT !.at = "sweep"] \in Wake /\ [Idle EXCEPT !.at = "sweep"].at = "sweep"
        /\ [Idle EXCEPT !.at = "sweep"].todo = {}
    BY IdleTypes DEF Wake
  <2> QED BY <1>1, <2>1, DroppedTypes
<1>9. Known \subseteq Known'
  BY <1>4, <1>6 DEF Known, d
<1>10. WakeFit'
  BY <1>8, <1>9 DEF WakeFit, PageFit
<1>11. CursorsFit'
  BY <1>1, <1>4, <1>6 DEF CursorsFit, d
<1>12. TypeOK'
  <2>1. ASSUME NEW g \in Historical' PROVE cur'[g].hist < cur'[g].target
    BY <1>1, <1>11, <2>1 DEF CursorsFit, CursorFit, Historical
  <2> QED BY <1>1, <1>4, <1>8, <2>1, CatalogType DEF TypeOK, stores
<1>13. EventsFit'
  <2> SUFFICES ASSUME NEW e \in Events PROVE EventFit(e)'
    BY DEF EventsFit
  <2>1. EventFit(e)
    BY <1>1 DEF EventsFit
  <2>2. e[2] \in cur'[e[1]].seen => Admitted(e)
    <3>1. CASE e[1] = r /\ e[2] \in read
      BY <1>3, <1>7, <3>1
    <3>2. CASE ~(e[1] = r /\ e[2] \in read)
      BY <1>4, <1>7, <2>1, <3>2 DEF EventFit, s, d
    <3> QED BY <3>1, <3>2
  <2>3. cur[e[1]].status = "complete" => cur'[e[1]].status = "complete"
    BY <1>4, <1>6, <1>7 DEF s, d
  <2> QED BY <1>1, <1>7, <2>1, <2>2, <2>3 DEF EventFit, stores
<1>14. Reached'
  <2> SUFFICES ASSUME NEW e \in Events, cur'[e[1]].pos # None, e[2] <= cur'[e[1]].pos
               PROVE  Admitted(e)' \/ Owed(e)' \/ GivenUp(e)'
    BY DEF Reached
  <2>1. CASE e[1] # r
    <3>1. cur'[e[1]] = cur[e[1]]
      BY <1>4, <1>7, <2>1
    <3> QED BY <1>1, <1>7, <3>1 DEF Reached, Owed, GivenUp
  <2>2. CASE e[1] = r /\ e[2] \in read
    BY <1>3, <1>7, <2>2
  <2>3. CASE e[1] = r /\ e[2] \notin read /\ Continuous
    <3>1. e[2] <= s.pos
      BY <1>2, <1>3, <1>4, <1>7, <2>3, AdmissionAssumption DEF read, d, Positions
    <3>2. Admitted(e) \/ Owed(e) \/ GivenUp(e)
      BY <1>1, <1>6, <2>3, <3>1 DEF Reached, s
    <3>3. Owed(e)' = Owed(e) /\ GivenUp(e)' = GivenUp(e)
      BY <1>4, <2>3 DEF Owed, GivenUp, s, d
    <3> QED BY <1>7, <3>2, <3>3
  <2>4. CASE e[1] = r /\ e[2] \notin read /\ ~Continuous
    <3>1. e[2] <= s.pos
      BY <1>6, <2>4 DEF d
    <3>2. Admitted(e) \/ Owed(e)
      BY <1>1, <1>3, <1>6, <2>4, <3>1 DEF Reached, GivenUp, s
    <3>3. Owed(e) => Admitted(e) \/ Owed(e)'
      BY <1>2, <1>3, <1>4, <1>5, <1>7, <2>4, AdmissionAssumption
         DEF Owed, read, s, d, done, Positions
    <3> QED BY <1>7, <3>2, <3>3
  <2> QED BY <2>1, <2>2, <2>3, <2>4
<1> QED BY <1>10, <1>11, <1>12, <1>13, <1>14 DEF IInv

-----------------------------------------------------------------------------
(* Targets, maturation and review: steps on the stores alone               *)

\* No event of a page is in the hands of the wake.
LEMMA StoreStep ==
    ASSUME IInv, UNCHANGED <<head, mode, cat, index, cur, link, prov, noted, trouble>>,
           wake' \in Wake, wake'.todo = wake.todo,
           wake'.at \notin {"read", "episode", "capsule", "flush", "ack"},
           epi' \in [Events -> EpisodeStatus \cup {Absent}],
           caps' \in [Events -> EpisodeStatus \cup {Absent}],
           job' \in [Events -> EpisodeStatus \cup {Absent}],
           \A e \in Events : /\ epi[e] # Absent => epi'[e] # Absent
                             /\ caps[e] # Absent => caps'[e] # Absent
                             /\ EventFit(e)'
    PROVE  IInv'
<1>1. TypeOK /\ wake.todo \subseteq Known
  BY InvParts DEF WakeFit
<1>2. \A e \in Events : Admitted(e) => Admitted(e)'
  BY DEF Admitted
<1>3. CursorsFit' /\ Reached' /\ Known' = Known /\ Historical' = Historical
  BY <1>2, StoresGrow
<1>4. TypeOK'
  BY <1>1, <1>3 DEF TypeOK
<1> QED BY <1>1, <1>3, <1>4 DEF IInv, WakeFit, PageFit, EventsFit

LEMMA ReconcileTargetSound ==
    ASSUME IInv, NEW r \in Resources, ReconcileTarget(r)
    PROVE  IInv'
<1>1. /\ wake.at = "targets" /\ r \in Due
      /\ epi' = [e \in Events |->
                   IF e \notin Waiting(r) THEN epi[e]
                   ELSE IF cur[r].status = "abandoned" THEN "abandoned"
                   ELSE IF e \in Refuted THEN "contradicted" ELSE "eligible"]
      /\ UNCHANGED <<head, mode, cat, index, cur, link, caps, prov, noted, job, wake, trouble>>
      /\ TypeOK /\ EventsFit
  BY InvParts DEF ReconcileTarget
<1>2. cur[r].status \in {"complete", "abandoned"}
  BY <1>1 DEF Due
<1>3. ASSUME NEW e \in Events
      PROVE  /\ epi'[e] \in EpisodeStatus \cup {Absent}
             /\ epi[e] # Absent => epi'[e] # Absent
             /\ EventFit(e)'
  <2>1. EventFit(e) /\ epi[e] \in EpisodeStatus \cup {Absent}
    BY <1>1 DEF EventsFit, TypeOK
  <2>2. CASE e \notin Waiting(r)
    <3>1. epi'[e] = epi[e]
      BY <1>1, <2>2
    <3> QED BY <1>1, <2>1, <3>1, EventKept
  <2>3. CASE e \in Waiting(r)
    <3>1. /\ epi[e] = "held" /\ e[1] = r /\ e \in link
          /\ epi'[e] = IF cur[r].status = "abandoned" THEN "abandoned"
                       ELSE IF e \in Refuted THEN "contradicted" ELSE "eligible"
      BY <1>1, <2>3 DEF Waiting
    <3>2. epi'[e] \in {"abandoned", "contradicted", "eligible"}
      BY <3>1
    <3>3. EventFit(e)'
      BY <1>1, <1>2, <2>1, <3>1, <3>2 DEF EventFit, Admitted, Absent
    <3> QED BY <3>2, <3>3 DEF EpisodeStatus, Absent
  <2> QED BY <2>2, <2>3
<1>4. epi' \in [Events -> EpisodeStatus \cup {Absent}]
  BY <1>1, <1>3
<1> QED BY <1>1, <1>3, <1>4, StoreStep DEF TypeOK

LEMMA SettleSound ==
    ASSUME IInv, NEW S \in SUBSET Events, Settle(S)
    PROVE  IInv'
<1>1. /\ wake.at = "settle" /\ S \subseteq Settling
      /\ epi' = [e \in Events |-> IF e \in S THEN "eligible" ELSE epi[e]]
      /\ wake' = [wake EXCEPT !.at = "matured", !.matured = S]
      /\ UNCHANGED <<head, mode, cat, index, cur, link, caps, prov, noted, job, trouble>>
      /\ TypeOK /\ EventsFit /\ wake \in Wake
  BY InvParts DEF Settle, TypeOK
<1>2. ASSUME NEW e \in Events
      PROVE  /\ epi'[e] \in EpisodeStatus \cup {Absent}
             /\ epi[e] # Absent => epi'[e] # Absent
             /\ EventFit(e)'
  <2>1. EventFit(e) /\ epi[e] \in EpisodeStatus \cup {Absent}
    BY <1>1 DEF EventsFit, TypeOK
  <2>2. CASE e \notin S
    <3>1. epi'[e] = epi[e]
      BY <1>1, <2>2
    <3> QED BY <1>1, <2>1, <3>1, EventKept
  <2>3. CASE e \in S
    <3>1. epi[e] = "settling" /\ epi'[e] = "eligible"
      BY <1>1, <2>3 DEF Settling
    <3> QED BY <1>1, <2>1, <3>1 DEF EventFit, Admitted, Absent, EpisodeStatus
  <2> QED BY <2>2, <2>3
<1>3. epi' \in [Events -> EpisodeStatus \cup {Absent}]
  BY <1>1, <1>2
<1>4. wake' \in Wake /\ wake'.at = "matured" /\ wake'.todo = wake.todo
  BY <1>1 DEF Wake, Stages
<1> QED BY <1>1, <1>2, <1>3, <1>4, StoreStep DEF TypeOK

LEMMA RefreshSound ==
    ASSUME IInv, NEW e0 \in Events, Refresh(e0)
    PROVE  IInv'
<1>1. /\ wake.at \in Stages /\ caps[e0] # Absent
      /\ caps' = [caps EXCEPT ![e0] = epi[e0]]
      /\ UNCHANGED <<head, mode, cat, index, cur, epi, link, prov, noted, job, wake, trouble>>
      /\ TypeOK /\ EventsFit /\ wake \in Wake
  BY InvParts DEF Refresh, Lagging, Stages, TypeOK
<1>2. EventFit(e0) /\ epi[e0] # Absent
  BY <1>1 DEF EventsFit, EventFit
<1>3. /\ caps' \in [Events -> EpisodeStatus \cup {Absent}] /\ caps'[e0] = epi[e0]
      /\ \A e \in Events \ {e0} : caps'[e] = caps[e]
  BY <1>1 DEF TypeOK
<1>4. ASSUME NEW e \in Events PROVE EventFit(e)'
  <2>1. EventFit(e)
    BY <1>1 DEF EventsFit
  <2>2. CASE e # e0
    BY <1>1, <1>3, <2>1, <2>2, EventKept
  <2>3. CASE e = e0
    BY <1>1, <1>2, <1>3, <2>3 DEF EventFit, Admitted
  <2> QED BY <2>2, <2>3
<1> QED BY <1>1, <1>2, <1>3, <1>4, StoreStep DEF TypeOK, Stages

LEMMA ReviewSound ==
    ASSUME IInv, NEW e0 \in Events, Supersede(e0) \/ Enqueue(e0)
    PROVE  IInv'
<1>1. /\ wake.at \in {"supersede", "review"}
      /\ epi[e0] = "eligible" \/ job[e0] # Absent
      /\ job' = [job EXCEPT ![e0] = caps[e0]]
      /\ UNCHANGED <<head, mode, cat, index, cur, epi, link, caps, prov, noted, wake, trouble>>
      /\ TypeOK /\ EventsFit /\ wake \in Wake
  BY InvParts DEF Supersede, Enqueue, Reviewable, Stale, TypeOK
<1>2. EventFit(e0) /\ epi[e0] = "eligible" /\ caps[e0] \in EpisodeStatus \cup {Absent}
  BY <1>1 DEF EventsFit, EventFit, TypeOK
<1>3. caps[e0] # Absent => caps[e0] \in {"eligible", "settling", "held"}
  BY <1>2 DEF EventFit, EpisodeStatus
<1>4. /\ job' \in [Events -> EpisodeStatus \cup {Absent}] /\ job'[e0] = caps[e0]
      /\ \A e \in Events \ {e0} : job'[e] = job[e]
  BY <1>1 DEF TypeOK
<1>5. ASSUME NEW e \in Events PROVE EventFit(e)'
  <2>1. EventFit(e)
    BY <1>1 DEF EventsFit
  <2>2. CASE e # e0
    BY <1>1, <1>4, <2>1, <2>2, EventKept
  <2>3. CASE e = e0
    BY <1>1, <1>2, <1>3, <1>4, <2>3 DEF EventFit, Admitted
  <2> QED BY <2>2, <2>3
<1> QED BY <1>1, <1>4, <1>5, StoreStep DEF TypeOK

-----------------------------------------------------------------------------
(* The catch-up quantum                                                    *)

\* What a quantum may do to the progress of one resource: an event the continuous
\* cursor has passed stays accounted for.
Advances(s, d, h) ==
    /\ d.base = s.base /\ d.tomb = s.tomb /\ d.seen = s.seen
    /\ s.status = "complete" => d.status = "complete"
    /\ s.pos # None => d.pos # None
    /\ \/ d.pos = s.pos /\ d.hist = s.hist /\ d.target = s.target
          /\ \/ d.status = s.status
             \/ s.status = "unknown" /\ d.status = "target-pending"
       \/ /\ d.pos = h /\ d.hist = 0 /\ d.target = h
          /\ d.status = IF h = 0 THEN "complete" ELSE "historical-pending"

\* A step of the quantum or of the recovery that moves cursors only.
LEMMA CursorStep ==
    ASSUME IInv, UNCHANGED <<head, mode, stores, trouble>>,
           wake' \in Wake, wake'.todo = wake.todo, wake'.at = "pass",
           cat' \in {"inventory", "draining", "caught-up"}, index' \in 0..IndexCycle - 1,
           cur' \in [Resources -> Progress],
           \A r \in Resources : CursorFit(cur'[r], head[r]) /\ Advances(cur[r], cur'[r], head[r])
    PROVE  IInv'
<1>1. /\ TypeOK /\ CursorsFit /\ EventsFit /\ Reached /\ wake.todo \subseteq Known
      /\ \A e \in Events : e[1] \in Resources /\ e[2] \in Positions
  BY InvParts DEF WakeFit, Events
<1>2. CursorsFit'
  BY DEF CursorsFit
<1>3. TypeOK'
  <2>1. \A r \in Historical' : cur'[r].hist < cur'[r].target
    BY DEF CursorFit, Historical
  <2> QED BY <1>1, <2>1 DEF TypeOK, stores
<1>4. WakeFit'
  BY <1>1 DEF WakeFit, PageFit, Known, Advances
<1>5. \A e \in Events : Admitted(e)' = Admitted(e)
  BY DEF Admitted, stores
<1>6. EventsFit'
  BY <1>1, <1>5 DEF EventsFit, EventFit, Advances, stores
<1>7. Reached'
  <2> SUFFICES ASSUME NEW e \in Events, cur'[e[1]].pos # None, e[2] <= cur'[e[1]].pos
               PROVE  Admitted(e)' \/ Owed(e)' \/ GivenUp(e)'
    BY DEF Reached
  <2> DEFINE s == cur[e[1]]
             d == cur'[e[1]]
             h == head[e[1]]
  <2>1. Advances(s, d, h) /\ CursorFit(d, h) /\ CursorFit(s, h) /\ h \in 0..MaxPos
    BY <1>1 DEF CursorsFit, TypeOK
  <2>2. CASE d.pos = h /\ d.hist = 0 /\ d.target = h
             /\ d.status = IF h = 0 THEN "complete" ELSE "historical-pending"
    BY <1>1, <2>1, <2>2, AdmissionAssumption DEF Owed, Positions
  <2>3. CASE d.pos = s.pos /\ d.hist = s.hist /\ d.target = s.target
             /\ \/ d.status = s.status
                \/ s.status = "unknown" /\ d.status = "target-pending"
    <3>1. Admitted(e) \/ Owed(e) \/ GivenUp(e)
      BY <1>1, <2>3 DEF Reached
    <3>2. (Owed(e) => Owed(e)') /\ (GivenUp(e) => GivenUp(e)')
      BY <2>1, <2>3 DEF Owed, GivenUp, Advances
    <3> QED BY <1>5, <3>1, <3>2
  <2> QED BY <2>1, <2>2, <2>3 DEF Advances
<1> QED BY <1>2, <1>3, <1>4, <1>6, <1>7 DEF IInv

LEMMA InventorySound ==
    ASSUME IInv, Inventory
    PROVE  IInv'
<1>1. PICK listed \in SUBSET Resources :
          cur' = [r \in Resources |->
                    IF r \notin listed THEN cur[r]
                    ELSE [cur[r] EXCEPT !.sample = None,
                                        !.status = IF @ = "unknown" THEN "target-pending" ELSE @]]
  BY DEF Inventory
<1>2. /\ UNCHANGED <<head, mode, index, stores, trouble>> /\ wake' = Donate
      /\ cat' = IF Ready(cur') THEN "caught-up" ELSE "draining"
      /\ TypeOK /\ CursorsFit
  BY InvParts DEF Inventory
<1>3. ASSUME NEW r \in Resources
      PROVE  /\ cur'[r] \in Progress
             /\ CursorFit(cur'[r], head[r]) /\ Advances(cur[r], cur'[r], head[r])
  <2> DEFINE s == cur[r]
             d == cur'[r]
             status == IF s.status = "unknown" THEN "target-pending" ELSE s.status
  <2>1. s \in Progress /\ CursorFit(s, head[r])
    BY <1>2 DEF TypeOK, CursorsFit
  <2>2. CASE r \notin listed
    <3>1. d = s
      BY <1>1, <2>2
    <3> QED BY <2>1, <3>1 DEF Advances
  <2>3. CASE r \in listed
    <3>1. d = [s EXCEPT !.sample = None, !.status = status]
      BY <1>1, <2>3
    <3> HIDE DEF s, d
    <3>2. /\ d \in Progress /\ d.status = status
          /\ d.pos = s.pos /\ d.base = s.base /\ d.target = s.target /\ d.hist = s.hist
          /\ d.tomb = s.tomb /\ d.seen = s.seen
      BY <2>1, <3>1 DEF Progress
    <3>3. CursorFit(d, head[r]) /\ Advances(s, d, head[r])
      BY <2>1, <3>2 DEF CursorFit, Advances
    <3> QED BY <3>2, <3>3 DEF s, d
  <2> QED BY <2>2, <2>3
<1>4. cur' \in [Resources -> Progress]
  BY <1>1, <1>3
<1>5. wake' \in Wake /\ wake'.todo = wake.todo /\ wake'.at = "pass"
  BY <1>2, DonateTypes
<1> QED BY <1>2, <1>3, <1>4, <1>5, CursorStep DEF TypeOK

LEMMA StabilitySound ==
    ASSUME IInv, Stability
    PROVE  IInv'
<1>1. PICK r \in Selected(Pending) :
          IF cur[r].sample = head[r]
          THEN /\ cur' = [cur EXCEPT ![r].pos = Higher(@, head[r]), ![r].target = head[r],
                                     ![r].sample = None, ![r].hist = 0,
                                     ![r].status = IF head[r] = 0 THEN "complete"
                                                   ELSE "historical-pending"]
               /\ UNCHANGED index
          ELSE /\ cur' = [cur EXCEPT ![r].sample = head[r]]
               /\ index' = (index + 1) % IndexCycle
  BY DEF Stability
<1>2. /\ UNCHANGED <<head, mode, stores, trouble>> /\ wake' = Donate /\ cat' = Catalog(cur')
      /\ TypeOK /\ CursorsFit
  BY InvParts DEF Stability
<1> DEFINE s == cur[r]
           d == cur'[r]
           h == head[r]
<1>3. /\ r \in Resources /\ s.status = "target-pending" /\ s \in Progress
      /\ CursorFit(s, h) /\ h \in 0..MaxPos /\ cur \in [Resources -> Progress]
  BY <1>1, <1>2, SelectedIn DEF Pending, TypeOK, CursorsFit
<1>4. \A g \in Resources \ {r} : cur'[g] = cur[g]
  BY <1>1, <1>3
<1>5. index' \in 0..IndexCycle - 1
  BY <1>1, <1>2, AdmissionAssumption DEF TypeOK
<1>6. cur' \in [Resources -> Progress] /\ CursorFit(d, h) /\ Advances(s, d, h)
  <2>1. CASE s.sample = h
    <3>1. Higher(s.pos, h) = h
      BY <1>3, AdmissionAssumption DEF Higher, CursorFit, Progress
    <3>2. cur' = [cur EXCEPT ![r].pos = Higher(@, h), ![r].target = h,
                             ![r].sample = None, ![r].hist = 0,
                             ![r].status = IF h = 0 THEN "complete" ELSE "historical-pending"]
      BY <1>1, <2>1
    <3>3. /\ cur' \in [Resources -> Progress]
          /\ d.pos = Higher(s.pos, h) /\ d.target = h /\ d.hist = 0
          /\ d.status = IF h = 0 THEN "complete" ELSE "historical-pending"
          /\ d.base = s.base /\ d.tomb = s.tomb /\ d.seen = s.seen
      <4> HIDE DEF h
      <4>1. Higher(s.pos, h) \in 0..MaxPos /\ 0 \in 0..MaxPos
        BY <1>3, <3>1, AdmissionAssumption
      <4> QED BY <1>3, <3>2, <4>1 DEF Progress
    <3> HIDE DEF s, d, h
    <3> QED BY <1>3, <3>1, <3>3, AdmissionAssumption DEF CursorFit, Advances
  <2>2. CASE s.sample # h
    <3>1. cur' = [cur EXCEPT ![r].sample = h]
      BY <1>1, <2>2
    <3>2. /\ cur' \in [Resources -> Progress]
          /\ d.pos = s.pos /\ d.target = s.target /\ d.hist = s.hist
          /\ d.status = s.status
          /\ d.base = s.base /\ d.tomb = s.tomb /\ d.seen = s.seen
      <4> HIDE DEF h
      <4> QED BY <1>3, <3>1 DEF Progress
    <3> HIDE DEF s, d, h
    <3> QED BY <1>3, <3>2 DEF CursorFit, Advances
  <2> QED BY <2>1, <2>2
<1>7. \A g \in Resources : CursorFit(cur'[g], head[g]) /\ Advances(cur[g], cur'[g], head[g])
  <2> SUFFICES ASSUME NEW g \in Resources, g # r
               PROVE  CursorFit(cur'[g], head[g]) /\ Advances(cur[g], cur'[g], head[g])
    BY <1>6
  <2>1. cur'[g] = cur[g] /\ CursorFit(cur[g], head[g])
    BY <1>2, <1>4 DEF CursorsFit
  <2> QED BY <2>1 DEF Advances
<1>8. wake' \in Wake /\ wake'.todo = wake.todo /\ wake'.at = "pass"
  BY <1>2, DonateTypes
<1> QED BY <1>2, <1>5, <1>6, <1>7, <1>8, CatalogType, CursorStep

-----------------------------------------------------------------------------
(* The world around the wakes                                              *)

LEMMA AppendSound ==
    ASSUME IInv, NEW r \in Resources, Append(r)
    PROVE  IInv'
<1>1. /\ head[r] < MaxPos /\ head' = [head EXCEPT ![r] = @ + 1]
      /\ UNCHANGED <<mode, cat, index, cur, stores, wake>>
      /\ trouble < MaxTrouble /\ trouble' = trouble + 1
      /\ TypeOK /\ CursorsFit /\ EventsFit /\ Reached /\ WakeFit
  BY InvParts DEF Append, Trouble
<1>2. head' \in [Resources -> 0..MaxPos] /\ \A g \in Resources : head[g] <= head'[g]
  BY <1>1, AdmissionAssumption DEF TypeOK
<1>3. CursorsFit'
  <2> SUFFICES ASSUME NEW g \in Resources PROVE CursorFit(cur[g], head'[g])
    BY <1>1 DEF CursorsFit
  <2>1. CursorFit(cur[g], head[g]) /\ cur[g].pos \in 0..MaxPos \cup {None}
        /\ head[g] \in 0..MaxPos /\ head'[g] \in 0..MaxPos /\ head[g] <= head'[g]
    BY <1>1, <1>2 DEF CursorsFit, TypeOK, Progress
  <2>2. cur[g].pos # None => cur[g].pos <= head'[g]
    BY <2>1, AdmissionAssumption DEF CursorFit
  <2> QED BY <2>1, <2>2 DEF CursorFit
<1>4. WakeFit'
  <2>1. /\ Page' = Page /\ Continuous' = Continuous /\ Source' = Source /\ Event' = Event
        /\ Known' = Known
    BY <1>1 DEF Page, Continuous, Source, Event, Known
  <2>2. /\ \A p : Stored(<<Page.resource, p>>)' = Stored(<<Page.resource, p>>)
        /\ \A p : Admitted(<<Page.resource, p>>)' = Admitted(<<Page.resource, p>>)
    BY <1>1, <2>1 DEF Stored, Admitted, stores
  <2>3. /\ Page.resource \in Resources /\ Page.to \in 0..MaxPos
        /\ head[Page.resource] \in 0..MaxPos /\ head'[Page.resource] \in 0..MaxPos
    BY <1>1, <1>2, WakeTypes DEF TypeOK
  <2>4. Page.to <= head[Page.resource] => Page.to <= head'[Page.resource]
    BY <1>2, <2>3
  <2> QED BY <1>1, <2>1, <2>2, <2>4 DEF WakeFit, PageFit, stores
<1>5. TypeOK'
  BY <1>1, <1>2, AdmissionAssumption DEF TypeOK, stores, Historical
<1> QED BY <1>1, <1>3, <1>4, <1>5, StoresKept DEF IInv

LEMMA SwitchSound ==
    ASSUME IInv, Switch
    PROVE  IInv'
<1>1. /\ UNCHANGED <<head, cat, index, cur, stores, wake>>
      /\ trouble < MaxTrouble /\ trouble' = trouble + 1
      /\ TypeOK /\ CursorsFit /\ EventsFit /\ Reached /\ WakeFit
  BY InvParts DEF Switch, Trouble
<1>2. mode' \in Modes
  <2>1. \E m \in Modes : m # mode
    BY <1>1 DEF Modes
  <2>2. mode' = CHOOSE m \in Modes : m # mode
    BY DEF Switch
  <2> QED BY <2>1, <2>2
<1>3. TypeOK'
  BY <1>1, <1>2, AdmissionAssumption DEF TypeOK, stores, Historical
<1>4. WakeFit'
  BY <1>1 DEF WakeFit, PageFit, Page, Continuous, Source, Event, Known, Stored, Admitted, stores
<1> QED BY <1>1, <1>3, <1>4, StoresKept DEF IInv, CursorsFit

LEMMA CrashSound ==
    ASSUME IInv, Crash
    PROVE  IInv'
<1>1. /\ wake' = Idle /\ noted' = {}
      /\ UNCHANGED <<head, mode, cat, index, cur, epi, link, caps, prov, job>>
      /\ trouble < MaxTrouble /\ trouble' = trouble + 1
      /\ TypeOK /\ EventsFit
  BY InvParts DEF Crash, Trouble
<1>2. \A e \in Events : Admitted(e) => Admitted(e)'
  BY <1>1 DEF Admitted
<1>3. CursorsFit' /\ Reached' /\ Historical' = Historical
  BY <1>1, <1>2, StoresGrow
<1>4. EventsFit'
  BY <1>1, EventKept DEF EventsFit
<1>5. WakeFit'
  BY <1>1, IdleTypes DEF WakeFit, PageFit
<1>6. TypeOK'
  BY <1>1, <1>3, IdleTypes, AdmissionAssumption DEF TypeOK
<1> QED BY <1>3, <1>4, <1>5, <1>6 DEF IInv

\* The history that is given up: unread events are in the tombstoned range.
LEMMA RebaselineSound ==
    ASSUME IInv, NEW recorded \in BOOLEAN, Rebaseline(recorded)
    PROVE  IInv'
<1>1. /\ trouble < MaxTrouble /\ trouble' = trouble + 1 /\ wake.at \notin Locked
      /\ cur' = [r \in Resources |->
                   IF r \notin Unresolved THEN cur[r]
                   ELSE [cur[r] EXCEPT !.status = "abandoned", !.tomb = head[r],
                                       !.pos = Higher(@, head[r])]]
      /\ cat' = Catalog(cur')
      /\ epi' = [e \in Events |->
                   IF recorded /\ e \in link /\ epi[e] = "held" /\ cur'[e[1]].status = "abandoned"
                   THEN "abandoned" ELSE epi[e]]
      /\ UNCHANGED <<head, mode, index, link, caps, prov, noted, job, wake>>
      /\ TypeOK /\ CursorsFit /\ EventsFit /\ Reached /\ wake.todo \subseteq Known
  BY InvParts DEF Rebaseline, Trouble, WakeFit
<1>2. ASSUME NEW r \in Resources
      PROVE  /\ cur'[r] \in Progress /\ CursorFit(cur'[r], head[r])
             /\ cur'[r].seen = cur[r].seen /\ cur'[r].hist = cur[r].hist
             /\ cur[r].pos # None => cur'[r].pos # None
             /\ cur[r].status = "complete" => cur'[r].status = "complete"
             /\ \/ cur'[r] = cur[r]
                \/ /\ cur[r].status \in {"target-pending", "historical-pending"}
                   /\ cur'[r].status = "abandoned" /\ cur'[r].tomb = head[r]
                   /\ cur'[r].pos = head[r]
  <2> DEFINE s == cur[r]
             d == cur'[r]
             h == head[r]
  <2>1. s \in Progress /\ CursorFit(s, h) /\ h \in 0..MaxPos
    BY <1>1 DEF TypeOK, CursorsFit
  <2>2. CASE r \notin Unresolved
    <3>1. d = s
      BY <1>1, <2>2
    <3> QED BY <2>1, <3>1
  <2>3. CASE r \in Unresolved
    <3>1. s.status \in {"target-pending", "historical-pending"}
      BY <2>3 DEF Unresolved, Pending, Historical
    <3>2. Higher(s.pos, h) = h
      BY <2>1, AdmissionAssumption DEF Higher, CursorFit, Progress
    <3>3. d = [s EXCEPT !.status = "abandoned", !.tomb = h, !.pos = Higher(@, h)]
      BY <1>1, <2>3
    <3> HIDE DEF s, d, h
    <3>4. /\ d \in Progress /\ d.status = "abandoned" /\ d.tomb = h
          /\ d.pos = Higher(s.pos, h) /\ d.seen = s.seen /\ d.hist = s.hist
      BY <2>1, <3>2, <3>3 DEF Progress
    <3>5. CursorFit(d, h)
      BY <2>1, <3>2, <3>4, AdmissionAssumption DEF CursorFit
    <3> QED BY <2>1, <3>1, <3>2, <3>4, <3>5, AdmissionAssumption DEF s, d, h
  <2> QED BY <2>2, <2>3
<1>3. cur' \in [Resources -> Progress]
  BY <1>1, <1>2
<1>4. CursorsFit' /\ Known \subseteq Known'
  BY <1>1, <1>2 DEF CursorsFit, Known
<1>5. \A e \in Events : e[1] \in Resources /\ e[2] \in Positions
  BY DEF Events
<1>6. ASSUME NEW e \in Events
      PROVE  /\ epi'[e] \in EpisodeStatus \cup {Absent}
             /\ Admitted(e) => Admitted(e)'
             /\ EventFit(e)'
  <2>1. /\ EventFit(e) /\ epi[e] \in EpisodeStatus \cup {Absent} /\ e[1] \in Resources
        /\ \/ epi'[e] = epi[e]
           \/ epi[e] = "held" /\ epi'[e] = "abandoned"
    BY <1>1, <1>5 DEF EventsFit, TypeOK
  <2>2. Admitted(e) => Admitted(e)'
    BY <1>1, <2>1 DEF Admitted, Absent
  <2>3. EventFit(e)'
    BY <1>1, <1>2, <2>1, <2>2 DEF EventFit, Absent
  <2> QED BY <2>1, <2>2, <2>3 DEF EpisodeStatus
<1>7. Reached'
  <2> SUFFICES ASSUME NEW e \in Events, cur'[e[1]].pos # None, e[2] <= cur'[e[1]].pos
               PROVE  Admitted(e)' \/ Owed(e)' \/ GivenUp(e)'
    BY DEF Reached
  <2> DEFINE s == cur[e[1]]
             d == cur'[e[1]]
             h == head[e[1]]
  <2>1. /\ s \in Progress /\ CursorFit(s, h) /\ h \in 0..MaxPos /\ e[2] \in 1..MaxPos
        /\ (Admitted(e) => Admitted(e)') /\ d.hist = s.hist
    BY <1>1, <1>2, <1>5, <1>6 DEF TypeOK, CursorsFit, Positions
  <2>2. CASE d = s
    <3>1. Owed(e)' = Owed(e) /\ GivenUp(e)' = GivenUp(e)
      BY <2>2 DEF Owed, GivenUp
    <3> QED BY <1>1, <2>1, <2>2, <3>1 DEF Reached
  <2>3. CASE /\ s.status \in {"target-pending", "historical-pending"}
             /\ d.status = "abandoned" /\ d.tomb = h /\ d.pos = h
    <3>1. s.hist \in 0..MaxPos /\ s.target \in 0..MaxPos /\ s.pos \in 0..MaxPos \cup {None}
      BY <2>1 DEF Progress
    <3>2. CASE s.hist < e[2]
      BY <2>1, <2>3, <3>2 DEF GivenUp
    <3>3. CASE ~(s.hist < e[2])
      <4>1. s.status = "historical-pending" /\ s.pos # None /\ e[2] <= s.pos
        BY <2>1, <2>3, <3>1, <3>3, AdmissionAssumption DEF CursorFit
      <4>2. ~Owed(e) /\ ~GivenUp(e)
        BY <3>3, <4>1 DEF Owed, GivenUp
      <4> QED BY <1>1, <2>1, <4>1, <4>2 DEF Reached
    <3> QED BY <3>2, <3>3
  <2> QED BY <1>2, <1>5, <2>2, <2>3
<1>8. WakeFit'
  BY <1>1, <1>4 DEF WakeFit, PageFit, Locked
<1>9. TypeOK'
  <2>1. \A r \in Historical' : cur'[r].hist < cur'[r].target
    BY <1>4 DEF CursorsFit, CursorFit, Historical
  <2>2. epi' \in [Events -> EpisodeStatus \cup {Absent}]
    BY <1>1, <1>6
  <2>3. trouble' \in 0..MaxTrouble
    <3>1. trouble \in 0..MaxTrouble /\ trouble < MaxTrouble /\ trouble' = trouble + 1
      BY <1>1 DEF TypeOK
    <3> QED BY <3>1, AdmissionAssumption
  <2>4. cat' \in {"inventory", "draining", "caught-up"}
    BY <1>1 DEF TypeOK, Catalog
  <2> QED BY <1>1, <1>3, <2>1, <2>2, <2>3, <2>4 DEF TypeOK
<1> QED BY <1>4, <1>6, <1>7, <1>8, <1>9 DEF IInv, EventsFit

-----------------------------------------------------------------------------
(* The theorems                                                            *)

LEMMA InitSound == Init => IInv
<1> SUFFICES ASSUME Init PROVE IInv
  OBVIOUS
<1>1. TypeOK
  <2>1. \A r \in Resources : cur[r] \in Progress /\ cur[r].status = "unknown"
    BY AdmissionAssumption DEF Init, Progress
  <2>2. cur \in [Resources -> Progress] /\ Historical = {}
    BY <2>1 DEF Init, Historical
  <2>3. /\ epi \in [Events -> EpisodeStatus \cup {Absent}]
        /\ caps \in [Events -> EpisodeStatus \cup {Absent}]
        /\ job \in [Events -> EpisodeStatus \cup {Absent}]
    BY DEF Init
  <2>4. index \in 0..IndexCycle - 1 /\ trouble \in 0..MaxTrouble
    BY AdmissionAssumption DEF Init
  <2>5. wake \in Wake
    BY IdleTypes DEF Init
  <2> QED BY <2>2, <2>3, <2>4, <2>5 DEF Init, TypeOK
<1>2. CursorsFit
  BY DEF Init, CursorsFit, CursorFit
<1>3. EventsFit /\ Reached
  BY DEF Init, EventsFit, EventFit, Reached, Admitted, Absent, Events
<1>4. WakeFit
  BY IdleTypes DEF Init, WakeFit, PageFit
<1> QED BY <1>1, <1>2, <1>3, <1>4 DEF IInv

LEMMA NextSound == IInv /\ [Next]_vars => IInv'
<1> SUFFICES ASSUME IInv, [Next]_vars PROVE IInv'
  OBVIOUS
<1>1. CASE UNCHANGED vars
  <2>1. UNCHANGED <<head, mode, cat, index, cur, stores, trouble, wake>>
    BY <1>1 DEF vars
  <2>2. TypeOK /\ WakeFit
    BY InvParts
  <2>3. WakeFit'
    BY <2>1, <2>2 DEF WakeFit, PageFit, Page, Continuous, Source, Event, Known, Stored,
                      Admitted, stores
  <2> QED BY <2>1, <2>2, <2>3, WakeOnly DEF TypeOK
<1>2. CASE \E kind \in {"full", "continuation", "targeted"} : Begin(kind)
  BY <1>2, BeginSound
<1>3. CASE WakeStep
  <2>1. CASE Discover \/ StartRead \/ EndPass \/ Inventory \/ Stability \/ StartPage
             \/ CommitEpisode \/ CommitCapsule \/ Flush \/ Acknowledge
    BY <2>1, DiscoverSound, StartReadSound, EndPassSound, InventorySound, StabilitySound,
       StartPageSound, CommitEpisodeSound, CommitCapsuleSound, FlushSound, AcknowledgeSound
  <2>2. CASE SkipQuantum \/ ReadNothing \/ TargetsDone \/ StageDone \/ SupersedeDone \/ EndWake
    BY <2>2, QuietSound
  <2>3. CASE \E to \in Positions : ReadReady(to)
    BY <2>3, ReadReadySound
  <2>4. CASE \E r \in Resources : ReconcileTarget(r)
    BY <2>4, ReconcileTargetSound
  <2>5. CASE \E S \in SUBSET Events : Settle(S)
    BY <2>5, SettleSound
  <2>6. CASE \E e \in Events : Refresh(e) \/ Supersede(e) \/ Enqueue(e)
    BY <2>6, RefreshSound, ReviewSound
  <2> QED BY <1>3, <2>1, <2>2, <2>3, <2>4, <2>5, <2>6 DEF WakeStep
<1>4. CASE Environment
  <2>1. CASE \E r \in Resources : Append(r)
    BY <2>1, AppendSound
  <2>2. CASE \E recorded \in BOOLEAN : Rebaseline(recorded)
    BY <2>2, RebaselineSound
  <2>3. CASE Fail \/ \E e \in Events : RefreshFails(e)
    BY <2>3, QuietSound
  <2> QED BY <1>4, <2>1, <2>2, <2>3, SwitchSound, CrashSound DEF Environment
<1> QED BY <1>1, <1>2, <1>3, <1>4 DEF Next

\* The state between two steps of a wake, of the recovery and of the provider.
THEOREM Invariance == Spec => []IInv
BY InitSound, NextSound, PTL DEF Spec

\* Every variable stays in its set, and a pending target has something left to read.
THEOREM TypeCorrect == Spec => []TypeOK
<1>1. IInv => TypeOK
  BY InvParts
<1> QED BY <1>1, Invariance, PTL

\* No cursor of either lane ever passes an event that the three stores do not hold, that
\* the historical lane does not owe, or that was not given up on the record.
THEOREM CoveredHolds == Spec => []Covered
<1>1. IInv => Covered
  BY InvParts DEF Covered, Reached, EventsFit, EventFit, TypeOK
<1> QED BY <1>1, Invariance, PTL

\* Only an event that matured has a review job, and evidence that lags behind says so.
THEOREM HonestReviewHolds == Spec => []HonestReview
<1>1. IInv => HonestReview
  BY InvParts DEF HonestReview, EventsFit, EventFit
<1> QED BY <1>1, Invariance, PTL

=============================================================================
