------------------------- MODULE AgentSession_proofs -------------------------
(***************************************************************************)
(* Theorems about AgentSession, for any number of session objects,         *)
(* messages, commands, crashes and failures, and any environment:          *)
(*  - type correctness;                                                    *)
(*  - a session is busy exactly while a turn is suspended on it;           *)
(*  - a turn stopped before its result leaves no reply.                    *)
(***************************************************************************)
EXTENDS AgentSession, TLAPS

\* What TypeOK needs to be inductive: a handler has an input and fetches no
\* further than what is posted, and only a handler's session is busy.
SessionsOK == mem \in [Session -> Memory]
HandlersOK == handler \in [Session -> Handler]
FilesOK    == disk \subseteq Item /\ recorded \subseteq Item /\ erased \subseteq Item
InputsOK   == stopped \subseteq Input /\ received \subseteq Input
BoundsOK ==
    /\ current \in Session \cup {NoSession}
    /\ posted \in 0..MaxRemote /\ boundary \in 0..posted /\ cursor \in 0..posted
    /\ injected \in 0..MaxInject
    /\ commands \in 0..MaxCommand /\ crashes \in 0..MaxCrash /\ faults \in 0..MaxFault
BusyOK   == \A s \in Session : mem[s].busy <=> handler[s].pc \in TurnPc
WorkOK   == \A s \in Session : handler[s].pc # "idle" => handler[s].input \in Input
TargetOK == \A s \in Session : handler[s].target <= posted

TypeInv ==
    /\ SessionsOK /\ HandlersOK /\ FilesOK /\ InputsOK /\ BoundsOK
    /\ BusyOK /\ WorkOK /\ TargetOK

LEMMA TypeInvImplies == TypeInv => TypeOK
BY DEF TypeInv, TypeOK, SessionsOK, HandlersOK, FilesOK, InputsOK, BoundsOK

-----------------------------------------------------------------------------
(* Values                                                                  *)

LEMMA ItemType ==
    /\ \A u \in Input : In(u) \in Item /\ Out(u) \in Item
    /\ \A r \in 1..MaxRemote : Msg(r) \in Item
BY DEF Item, In, Out, Msg

LEMMA ValueType ==
    /\ Empty \in Context /\ Absent \in Memory /\ Resting \in Handler
    /\ Absent.busy = FALSE /\ Resting.pc = "idle" /\ Resting.target = 0
<1>1. Empty \in Context
  BY DEF Empty, Context
<1>2. Absent \in Memory /\ Absent.busy = FALSE
  BY <1>1 DEF Absent, Memory
<1>3. Resting \in Handler /\ Resting.pc = "idle" /\ Resting.target = 0
  BY <1>1, SessionAssumption DEF Resting, Handler, Pc
<1> QED BY <1>1, <1>2, <1>3

LEMMA OpenedType ==
    ASSUME TypeInv, NEW s \in Session, GetOrCreate(s)
    PROVE  /\ Opened(s) \in Memory
           /\ Opened(s).busy <=> handler[s].pc \in TurnPc
<1>1. mem[s] \in Memory
  BY DEF TypeInv, SessionsOK
<1>2. [Absent EXCEPT !.pending = disk] \in Memory
  BY ValueType DEF TypeInv, FilesOK, Memory
<1>3. ~[Absent EXCEPT !.pending = disk].busy
  BY ValueType DEF Absent
<1>4. s = current \/ handler[s].pc = "idle"
  BY DEF GetOrCreate, Idle
<1>5. "idle" \notin TurnPc
  BY DEF TurnPc
<1> QED BY <1>1, <1>2, <1>3, <1>4, <1>5 DEF Opened, TypeInv, BusyOK

LEMMA InitType == Init => TypeInv
<1> SUFFICES ASSUME Init PROVE TypeInv
  OBVIOUS
<1>1. SessionsOK /\ HandlersOK
  BY ValueType DEF Init, SessionsOK, HandlersOK
<1>2. FilesOK /\ InputsOK /\ BoundsOK
  BY SessionAssumption DEF Init, FilesOK, InputsOK, BoundsOK
<1>3. BusyOK /\ WorkOK /\ TargetOK
  BY ValueType DEF Init, BusyOK, WorkOK, TargetOK, TurnPc
<1> QED BY <1>1, <1>2, <1>3 DEF TypeInv

-----------------------------------------------------------------------------
(* A step of one session: nothing else changes, what does has its type and *)
(* agrees with itself.                                                     *)
OnlyAt(s) == \A t \in Session : t # s => mem'[t] = mem[t] /\ handler'[t] = handler[t]
Agree(m, h) ==
    /\ m.busy <=> h.pc \in TurnPc
    /\ h.pc # "idle" => h.input \in Input
Sound(s) ==
    /\ mem' \in [Session -> Memory] /\ handler' \in [Session -> Handler]
    /\ OnlyAt(s)
    /\ Agree(mem'[s], handler'[s])
    /\ handler'[s].target <= posted

LEMMA SoundType ==
    ASSUME TypeInv, NEW s \in Session, Sound(s), posted' = posted
    PROVE  SessionsOK' /\ HandlersOK' /\ BusyOK' /\ WorkOK' /\ TargetOK'
<1>1. SessionsOK' /\ HandlersOK'
  BY DEF Sound, SessionsOK, HandlersOK
<1>2. BusyOK' /\ WorkOK'
  BY DEF Sound, OnlyAt, Agree, TypeInv, BusyOK, WorkOK
<1>3. TargetOK'
  BY DEF Sound, OnlyAt, TypeInv, TargetOK
<1> QED BY <1>1, <1>2, <1>3

LEMMA UpdateSound ==
    ASSUME TypeInv, NEW s \in Session, NEW m \in Memory, NEW h \in Handler,
           \/ mem' = [mem EXCEPT ![s] = m]
           \/ mem' = mem /\ m = mem[s],
           \/ handler' = [handler EXCEPT ![s] = h]
           \/ handler' = handler /\ h = handler[s],
           Agree(m, h), h.target <= posted
    PROVE  Sound(s) /\ mem'[s] = m /\ handler'[s] = h
<1>1. /\ mem' \in [Session -> Memory] /\ mem'[s] = m
      /\ \A t \in Session : t # s => mem'[t] = mem[t]
  BY DEF TypeInv, SessionsOK
<1>2. /\ handler' \in [Session -> Handler] /\ handler'[s] = h
      /\ \A t \in Session : t # s => handler'[t] = handler[t]
  BY DEF TypeInv, HandlersOK
<1> QED BY <1>1, <1>2 DEF Sound, OnlyAt

\* The session and the handler that a step finds.
LEMMA SessionType ==
    ASSUME TypeInv, NEW s \in Session
    PROVE  /\ mem[s] \in Memory /\ handler[s] \in Handler
           /\ Agree(mem[s], handler[s]) /\ handler[s].target <= posted
BY DEF TypeInv, SessionsOK, HandlersOK, BusyOK, WorkOK, TargetOK, Agree

LEMMA TurnOfType ==
    ASSUME NEW u \in Input, NEW m \in Memory
    PROVE  /\ TurnOf(u, m) \in Handler /\ TurnOf(u, m).pc = "prep"
           /\ TurnOf(u, m).input = u /\ TurnOf(u, m).target = 0
<1>2. m.gen \in Nat
  BY DEF Memory
<1>3. "prep" \in Pc
  BY DEF Pc, TurnPc
<1> QED BY <1>2, <1>3, ValueType DEF TurnOf, Handler

LEMMA ReceiveSound ==
    ASSUME TypeInv, NEW u \in Input, NEW s \in Session, Receive(u, s)
    PROVE  Sound(s)
<1>1. Opened(s) \in Memory /\ GetOrCreate(s) /\ Idle(s)
  BY OpenedType DEF Receive, Free
<1>2. ~Opened(s).busy
  BY <1>1, OpenedType DEF Idle, TurnPc
<1>3. posted \in 0..MaxRemote
  BY DEF TypeInv, BoundsOK
<1>4. CASE mem' = [mem EXCEPT ![s] = Busy(Opened(s))]
           /\ handler' = [handler EXCEPT ![s] = TurnOf(u, Opened(s))]
  <2>1. Busy(Opened(s)) \in Memory /\ Busy(Opened(s)).busy
    BY <1>1 DEF Busy, Memory
  <2>2. /\ TurnOf(u, Opened(s)) \in Handler /\ TurnOf(u, Opened(s)).pc = "prep"
        /\ TurnOf(u, Opened(s)).input = u /\ TurnOf(u, Opened(s)).target = 0
    BY <1>1, TurnOfType
  <2>3. Agree(Busy(Opened(s)), TurnOf(u, Opened(s)))
    BY <2>1, <2>2 DEF Agree, TurnPc
  <2>4. TurnOf(u, Opened(s)).target <= posted
    BY <1>3, <2>2
  <2> QED BY <1>4, <2>1, <2>2, <2>3, <2>4, UpdateSound
<1>5. CASE mem' = [mem EXCEPT ![s] = Opened(s)]
           /\ handler' = [handler EXCEPT ![s] =
                [Resting EXCEPT !.pc = "fetch", !.input = u,
                                !.gen = Opened(s).gen, !.target = posted]]
  <2> DEFINE h == [Resting EXCEPT !.pc = "fetch", !.input = u,
                                  !.gen = Opened(s).gen, !.target = posted]
  <2>1. h \in Handler /\ h.pc = "fetch" /\ h.input = u /\ h.target = posted
    <3>1. Opened(s).gen \in Nat
      BY <1>1 DEF Memory
    <3>2. "fetch" \in Pc
      BY DEF Pc, AppendPc
    <3> QED BY <1>3, <3>1, <3>2, ValueType DEF Handler
  <2>2. Agree(Opened(s), h)
    BY <1>2, <2>1 DEF Agree, TurnPc
  <2>3. h.target <= posted
    BY <1>3, <2>1
  <2>4. handler' = [handler EXCEPT ![s] = h]
    BY <1>5
  <2> HIDE DEF h
  <2> QED BY <1>1, <1>5, <2>1, <2>2, <2>3, <2>4, UpdateSound
<1> QED BY <1>4, <1>5 DEF Receive

\* Changes of one field, of which the others keep their type.
LEMMA FieldType ==
    /\ \A m \in Memory, c \in Context :
          /\ [m EXCEPT !.ctx = c] \in Memory
          /\ [m EXCEPT !.ctx = c].busy = m.busy
          /\ [m EXCEPT !.ctx = c, !.busy = FALSE] \in Memory
          /\ [m EXCEPT !.ctx = c, !.busy = FALSE].busy = FALSE
    /\ \A h \in Handler, p \in Pc :
          /\ [h EXCEPT !.pc = p] \in Handler /\ [h EXCEPT !.pc = p].pc = p
          /\ [h EXCEPT !.pc = p].input = h.input
          /\ [h EXCEPT !.pc = p].target = h.target
          /\ \A c \in Context :
                /\ [h EXCEPT !.pc = p, !.snap = c] \in Handler
                /\ [h EXCEPT !.pc = p, !.snap = c].pc = p
                /\ [h EXCEPT !.pc = p, !.snap = c].input = h.input
                /\ [h EXCEPT !.pc = p, !.snap = c].target = h.target
<1>1. \A m \in Memory, c \in Context :
          /\ [m EXCEPT !.ctx = c] \in Memory
          /\ [m EXCEPT !.ctx = c].busy = m.busy
  BY DEF Memory
<1>2. \A m \in Memory, c \in Context :
          /\ [m EXCEPT !.ctx = c, !.busy = FALSE] \in Memory
          /\ [m EXCEPT !.ctx = c, !.busy = FALSE].busy = FALSE
  BY DEF Memory
<1>3. \A h \in Handler, p \in Pc :
          /\ [h EXCEPT !.pc = p] \in Handler /\ [h EXCEPT !.pc = p].pc = p
          /\ [h EXCEPT !.pc = p].input = h.input
          /\ [h EXCEPT !.pc = p].target = h.target
  BY DEF Handler
<1>4. \A h \in Handler, p \in Pc :
          /\ [h EXCEPT !.pc = p] \in Handler /\ [h EXCEPT !.pc = p].pc = p
          /\ [h EXCEPT !.pc = p].input = h.input
          /\ [h EXCEPT !.pc = p].target = h.target
          /\ \A c \in Context :
                /\ [h EXCEPT !.pc = p, !.snap = c] \in Handler
                /\ [h EXCEPT !.pc = p, !.snap = c].pc = p
                /\ [h EXCEPT !.pc = p, !.snap = c].input = h.input
                /\ [h EXCEPT !.pc = p, !.snap = c].target = h.target
  <2> SUFFICES ASSUME NEW h \in Handler, NEW p \in Pc, NEW c \in Context
               PROVE  /\ [h EXCEPT !.pc = p, !.snap = c] \in Handler
                      /\ [h EXCEPT !.pc = p, !.snap = c].pc = p
                      /\ [h EXCEPT !.pc = p, !.snap = c].input = h.input
                      /\ [h EXCEPT !.pc = p, !.snap = c].target = h.target
    BY <1>3
  <2> QED BY DEF Handler
<1> QED BY <1>1, <1>2, <1>4

(* A step of one session, for the history of stopped turns: its handler    *)
(* goes on with its own input or rests, it does not take back an interrupt *)
(* of its turn, and it brings no reply to where there was none.            *)
LacksAt(x, m, h) ==
    /\ x \notin m.ctx.hist /\ x \notin m.pending
    /\ x \notin h.snap.hist /\ x \notin h.before.hist
Lacks(x) ==
    /\ x \notin disk
    /\ \A t \in Session : LacksAt(x, mem[t], handler[t])

Continues(m, h, m2, h2) ==
    h2.pc # "idle" =>
        /\ h.pc # "idle" /\ h2.input = h.input
        /\ h2.pc \in AppendPc => h.pc \in AppendPc
        /\ h.pc \in TurnPc /\ m.interrupt => m2.interrupt
Silent(m, h) == \A u \in Input : Lacks(Out(u)) => LacksAt(Out(u), m, h)
SilentDisk == \A u \in Input : Lacks(Out(u)) => Out(u) \notin disk'

Good(s) ==
    /\ Sound(s) /\ SilentDisk
    /\ Continues(mem[s], handler[s], mem'[s], handler'[s])
    /\ Silent(mem'[s], handler'[s])

LEMMA UpdateGood ==
    ASSUME TypeInv, NEW s \in Session, NEW m \in Memory, NEW h \in Handler,
           \/ mem' = [mem EXCEPT ![s] = m]
           \/ mem' = mem /\ m = mem[s],
           \/ handler' = [handler EXCEPT ![s] = h]
           \/ handler' = handler /\ h = handler[s],
           Agree(m, h), h.target <= posted,
           Continues(mem[s], handler[s], m, h), Silent(m, h), SilentDisk
    PROVE  Good(s)
BY UpdateSound DEF Good

LEMMA LacksNow ==
    \A s \in Session, u \in Input : Lacks(Out(u)) =>
        /\ Out(u) \notin disk
        /\ Out(u) \notin mem[s].ctx.hist /\ Out(u) \notin mem[s].pending
        /\ Out(u) \notin handler[s].snap.hist /\ Out(u) \notin handler[s].before.hist
BY DEF Lacks, LacksAt

LEMMA NothingHeld ==
    /\ Empty.hist = {} /\ Absent.ctx = Empty /\ Absent.pending = {}
    /\ Resting.snap = Empty /\ Resting.before = Empty /\ Absent.interrupt = FALSE
BY DEF Empty, Absent, Resting

\* A handler that is done, on a session that is free.
LEMMA RestGood ==
    ASSUME TypeInv, NEW s \in Session, NEW m \in Memory, ~m.busy,
           mem' = [mem EXCEPT ![s] = Collected(s, m)],
           handler' = [handler EXCEPT ![s] = Resting],
           Silent(m, Resting), SilentDisk
    PROVE  Good(s)
<1>1. Collected(s, m) \in Memory /\ ~Collected(s, m).busy
  BY ValueType DEF Collected
<1>2. Agree(Collected(s, m), Resting)
  BY <1>1, ValueType DEF Agree, TurnPc
<1>3. Resting.target <= posted
  BY ValueType, SessionAssumption DEF TypeInv, BoundsOK
<1>4. Continues(mem[s], handler[s], Collected(s, m), Resting)
  BY ValueType DEF Continues
<1>5. Silent(Absent, Resting)
  BY NothingHeld DEF Silent, LacksAt
<1>6. Silent(Collected(s, m), Resting)
  BY <1>5 DEF Collected
<1> QED BY <1>1, <1>2, <1>3, <1>4, <1>6, ValueType, UpdateGood

LEMMA FinishGood ==
    ASSUME TypeInv, NEW s \in Session, NEW ctx \in Context, Finish(s, ctx),
           \A u \in Input : Lacks(Out(u)) => Out(u) \notin ctx.hist, SilentDisk
    PROVE  Good(s)
<1> DEFINE m == [mem[s] EXCEPT !.ctx = ctx, !.busy = FALSE]
<1>1. m \in Memory /\ ~m.busy
  BY SessionType, FieldType
<1>2. mem' = [mem EXCEPT ![s] = Collected(s, m)] /\ handler' = [handler EXCEPT ![s] = Resting]
  BY DEF Finish
<1>3. m.ctx = ctx /\ m.pending = mem[s].pending
  BY SessionType DEF Memory
<1> HIDE DEF m
<1>4. Silent(m, Resting)
  BY <1>3, LacksNow, NothingHeld DEF Silent, LacksAt
<1> QED BY <1>1, <1>2, <1>4, RestGood

LEMMA AbandonGood ==
    ASSUME TypeInv, NEW s \in Session, handler[s].pc \in AppendPc, Abandon(s),
           SilentDisk
    PROVE  Good(s)
<1>1. mem[s] \in Memory /\ ~mem[s].busy
  BY SessionType DEF Agree, AppendPc, TurnPc
<1>2. mem' = [mem EXCEPT ![s] = Collected(s, mem[s])] /\ handler' = [handler EXCEPT ![s] = Resting]
  BY DEF Abandon
<1>3. Silent(mem[s], Resting)
  BY LacksNow, NothingHeld DEF Silent, LacksAt
<1> QED BY <1>1, <1>2, <1>3, RestGood

\* The turn of a message whose hydration is done.
LEMMA StartTurnGood ==
    ASSUME TypeInv, NEW s \in Session, handler[s].pc \in AppendPc,
           StartTurn(s, mem[s]), SilentDisk
    PROVE  Good(s)
<1> DEFINE m == Busy(mem[s])
           h == TurnOf(handler[s].input, mem[s])
<1>1. handler[s].input \in Input /\ mem[s] \in Memory
  BY SessionType DEF Agree, AppendPc
<1>2. m \in Memory /\ m.busy /\ m.ctx = mem[s].ctx /\ m.pending = mem[s].pending
  BY <1>1 DEF Busy, Memory
<1>3. /\ h \in Handler /\ h.pc = "prep" /\ h.input = handler[s].input /\ h.target = 0
      /\ h.snap = Resting.snap /\ h.before = Resting.before
  <2>1. h.snap = Resting.snap /\ h.before = Resting.before
    BY ValueType DEF TurnOf, Handler
  <2> QED BY <1>1, <2>1, TurnOfType
<1>4. mem' = [mem EXCEPT ![s] = m] /\ handler' = [handler EXCEPT ![s] = h]
  BY DEF StartTurn
<1> HIDE DEF m, h
<1>5. Agree(m, h) /\ h.target <= posted
  <2>1. posted \in 0..MaxRemote
    BY DEF TypeInv, BoundsOK
  <2> QED BY <1>1, <1>2, <1>3, <2>1, SessionAssumption DEF Agree, TurnPc
<1>6. Continues(mem[s], handler[s], m, h)
  BY <1>3 DEF Continues, AppendPc, TurnPc
<1>7. Silent(m, h)
  BY <1>2, <1>3, LacksNow, NothingHeld DEF Silent, LacksAt
<1> QED BY <1>2, <1>3, <1>4, <1>5, <1>6, <1>7, UpdateGood

\* A handler that goes on at another await, with the session unchanged.
LEMMA GotoGood ==
    ASSUME TypeInv, NEW s \in Session, NEW p \in TurnPc \cup AppendPc,
           handler[s].pc \in TurnPc \cup AppendPc,
           handler[s].pc \in TurnPc <=> p \in TurnPc,
           handler' = [handler EXCEPT ![s].pc = p], mem' = mem, disk' = disk
    PROVE  Good(s)
<1> DEFINE h == [handler[s] EXCEPT !.pc = p]
<1>1. handler[s] \in Handler /\ mem[s] \in Memory /\ p \in Pc
  BY SessionType DEF Pc
<1>2. /\ h \in Handler /\ h.pc = p /\ h.input = handler[s].input
      /\ h.target = handler[s].target /\ h.snap = handler[s].snap /\ h.before = handler[s].before
  BY <1>1 DEF Handler
<1>3. handler' = [handler EXCEPT ![s] = h]
  OBVIOUS
<1> HIDE DEF h
<1>4. Agree(mem[s], h) /\ h.target <= posted
  BY <1>2, SessionType DEF Agree, TurnPc, AppendPc
<1>5. Continues(mem[s], handler[s], mem[s], h)
  BY <1>2 DEF Continues, TurnPc, AppendPc
<1>6. Silent(mem[s], h) /\ SilentDisk
  BY <1>2, LacksNow DEF Silent, LacksAt, SilentDisk
<1> QED BY <1>1, <1>2, <1>3, <1>4, <1>5, <1>6, UpdateGood

-----------------------------------------------------------------------------
(* The other variables                                                     *)
Same == posted' = posted /\ stopped' = stopped /\ received' = received
Typed == FilesOK' /\ InputsOK' /\ BoundsOK'

LEMMA HistoryType ==
    ASSUME TypeInv, NEW s \in Session
    PROVE  /\ mem[s].ctx \in Context /\ handler[s].snap \in Context /\ handler[s].before \in Context
           /\ mem[s].ctx.hist \subseteq Item /\ mem[s].pending \subseteq Item
           /\ handler[s].snap.hist \subseteq Item /\ handler[s].before.hist \subseteq Item
<1>1. mem[s] \in Memory /\ handler[s] \in Handler
  BY SessionType
<1>2. mem[s].ctx \in Context /\ handler[s].snap \in Context /\ handler[s].before \in Context
  BY <1>1 DEF Memory, Handler
<1>3. \A c \in Context : c.hist \subseteq Item
  BY DEF Context
<1>4. mem[s].pending \subseteq Item
  BY <1>1 DEF Memory
<1> QED BY <1>2, <1>3, <1>4

LEMMA SaveType ==
    ASSUME TypeInv, NEW hist \in SUBSET Item, Save(hist) \/ NoSave
    PROVE  /\ disk' \subseteq Item /\ recorded' \subseteq Item /\ faults' \in 0..MaxFault
           /\ disk' = hist \/ disk' = disk
<1>1. /\ disk \subseteq Item /\ recorded \subseteq Item
      /\ faults \in 0..MaxFault
  BY DEF TypeInv, FilesOK, BoundsOK
<1>2. CASE SaveOk(hist) /\ UNCHANGED faults
  BY <1>1, <1>2 DEF SaveOk
<1>3. CASE SaveFails
  BY <1>1, <1>3, SessionAssumption DEF SaveFails
<1>4. CASE NoSave
  BY <1>1, <1>4 DEF NoSave
<1> QED BY <1>2, <1>3, <1>4 DEF Save

\* A step that may write a context and touches no other variable.
LEMMA WriteTyped ==
    ASSUME TypeInv, NEW hist \in SUBSET Item, Save(hist) \/ NoSave,
           cursor' \in 0..posted,
           UNCHANGED <<current, env, erased, stopped, commands, crashes>>
    PROVE  Typed /\ Same
<1>1. FilesOK'
  BY SaveType DEF TypeInv, FilesOK
<1>2. InputsOK' /\ Same
  BY DEF TypeInv, InputsOK, env, Same
<1>3. BoundsOK'
  BY SaveType DEF TypeInv, BoundsOK, env
<1> QED BY <1>1, <1>2, <1>3 DEF Typed

LEMMA NoWriteTyped ==
    ASSUME TypeInv, UNCHANGED <<current, disk, cursor, env, ghost, count>>
    PROVE  Typed /\ Same
<1>1. FilesOK' /\ InputsOK' /\ Same
  BY DEF TypeInv, FilesOK, InputsOK, Same, env, ghost
<1>2. BoundsOK'
  BY DEF TypeInv, BoundsOK, env, count
<1> QED BY <1>1, <1>2 DEF Typed

LEMMA SaveSilent ==
    ASSUME TypeInv, NEW hist \in SUBSET Item, Save(hist) \/ NoSave,
           \A u \in Input : Lacks(Out(u)) => Out(u) \notin hist
    PROVE  SilentDisk
BY SaveType DEF SilentDisk, Lacks

-----------------------------------------------------------------------------
(* The parts of handlers                                                   *)
LEMMA InitializedType ==
    ASSUME NEW m \in Memory
    PROVE  /\ Initialized(m) \in Memory /\ Initialized(m).busy = m.busy
           /\ Initialized(m).interrupt = m.interrupt /\ Initialized(m).pending = {}
           /\ Initialized(m).ctx \in Context
           /\ Initialized(m).ctx.hist = m.ctx.hist \cup m.pending
<1> DEFINE c == [sys |-> m.ctx.sys + 1, hist |-> m.ctx.hist \cup m.pending, inj |-> {}]
<1>1. m.ctx \in Context /\ m.pending \in SUBSET Item
  BY DEF Memory
<1>2. c \in Context /\ c.hist = m.ctx.hist \cup m.pending
  BY <1>1 DEF Context
<1>3. Initialized(m) = [m EXCEPT !.initialized = TRUE, !.ctx = c, !.pending = {}]
  BY DEF Initialized
<1> HIDE DEF c
<1> QED BY <1>1, <1>2, <1>3 DEF Memory

LEMMA InjectedAgainType ==
    ASSUME NEW m \in Memory, NEW h \in Handler
    PROVE  /\ InjectedAgain(m, h) \in Memory /\ InjectedAgain(m, h).busy = m.busy
           /\ InjectedAgain(m, h).interrupt = m.interrupt
           /\ InjectedAgain(m, h).pending = m.pending
           /\ InjectedAgain(m, h).ctx.hist = m.ctx.hist
<1> DEFINE c == [m.ctx EXCEPT !.inj = @ \cup h.inj]
<1>1. m.ctx \in Context /\ h.inj \in SUBSET (1..MaxInject)
  BY DEF Memory, Handler
<1>2. c \in Context /\ c.hist = m.ctx.hist
  BY <1>1 DEF Context
<1>3. InjectedAgain(m, h) = [m EXCEPT !.ctx = c]
  BY DEF InjectedAgain
<1> HIDE DEF c
<1> QED BY <1>1, <1>2, <1>3 DEF Memory

LEMMA InitResumesGood ==
    ASSUME TypeInv, NEW s \in Session, NEW waiting \in TurnPc \cup AppendPc,
           NEW done \in TurnPc \cup AppendPc,
           handler[s].pc \in TurnPc \cup AppendPc,
           handler[s].pc \in TurnPc <=> waiting \in TurnPc,
           handler[s].pc \in TurnPc <=> done \in TurnPc,
           InitResumes(s, waiting, done), disk' = disk
    PROVE  Good(s)
<1>1. CASE Dropped(s)
  BY <1>1, GotoGood DEF InitResumes
<1> DEFINE m == Initialized(mem[s])
           h == [handler[s] EXCEPT !.inj = mem[s].ctx.inj]
<1>2. mem[s] \in Memory /\ handler[s] \in Handler /\ done \in Pc /\ waiting \in Pc
  BY SessionType DEF Pc
<1>3. /\ m \in Memory /\ m.busy = mem[s].busy /\ m.interrupt = mem[s].interrupt
      /\ m.pending = {} /\ m.ctx \in Context /\ m.ctx.hist = mem[s].ctx.hist \cup mem[s].pending
  BY <1>2, InitializedType
<1>4. /\ h \in Handler /\ h.pc = handler[s].pc /\ h.input = handler[s].input
      /\ h.target = handler[s].target /\ h.snap = handler[s].snap /\ h.before = handler[s].before
  <2>1. mem[s].ctx.inj \in SUBSET (1..MaxInject)
    BY <1>2 DEF Memory, Context
  <2> QED BY <1>2, <2>1 DEF Handler
<1>5. SilentDisk
  BY DEF SilentDisk, Lacks
<1>6. CASE /\ mem' = [mem EXCEPT ![s] = InjectedAgain(m, h)]
           /\ handler' = [handler EXCEPT ![s].pc = done]
  <2> DEFINE m2 == InjectedAgain(m, h)
             h2 == [handler[s] EXCEPT !.pc = done]
  <2>1. /\ m2 \in Memory /\ m2.busy = mem[s].busy /\ m2.interrupt = mem[s].interrupt
        /\ m2.pending = {} /\ m2.ctx.hist = mem[s].ctx.hist \cup mem[s].pending
    <3> HIDE DEF m, h
    <3> QED BY <1>3, <1>4, InjectedAgainType
  <2>2. /\ h2 \in Handler /\ h2.pc = done /\ h2.input = handler[s].input
        /\ h2.target = handler[s].target /\ h2.snap = handler[s].snap
        /\ h2.before = handler[s].before
    BY <1>2 DEF Handler
  <2>3. mem' = [mem EXCEPT ![s] = m2] /\ handler' = [handler EXCEPT ![s] = h2]
    BY <1>6
  <2> HIDE DEF m, h, m2, h2
  <2>4. Agree(m2, h2) /\ h2.target <= posted
    BY <2>1, <2>2, SessionType DEF Agree, TurnPc, AppendPc
  <2>5. Continues(mem[s], handler[s], m2, h2)
    BY <2>1, <2>2 DEF Continues, TurnPc, AppendPc
  <2>6. Silent(m2, h2)
    BY <2>1, <2>2, LacksNow DEF Silent, LacksAt
  <2> QED BY <1>5, <2>1, <2>2, <2>3, <2>4, <2>5, <2>6, UpdateGood
<1>7. CASE /\ mem' = [mem EXCEPT ![s] = m]
           /\ handler' = [handler EXCEPT ![s] = [h EXCEPT !.pc = waiting, !.snap = m.ctx]]
  <2> DEFINE h2 == [h EXCEPT !.pc = waiting, !.snap = m.ctx]
  <2>1. handler' = [handler EXCEPT ![s] = h2]
    BY <1>7
  <2>2. /\ h2 \in Handler /\ h2.pc = waiting /\ h2.input = handler[s].input
        /\ h2.target = handler[s].target /\ h2.snap = m.ctx /\ h2.before = handler[s].before
    <3> HIDE DEF m, h
    <3> QED BY <1>2, <1>3, <1>4 DEF Handler
  <2>3. mem' = [mem EXCEPT ![s] = m]
    BY <1>7
  <2> HIDE DEF m, h, h2
  <2>4. Agree(m, h2) /\ h2.target <= posted
    BY <1>3, <2>2, SessionType DEF Agree, TurnPc, AppendPc
  <2>5. Continues(mem[s], handler[s], m, h2)
    BY <1>3, <2>2 DEF Continues, TurnPc, AppendPc
  <2>6. Silent(m, h2)
    BY <1>3, <2>2, LacksNow DEF Silent, LacksAt
  <2> QED BY <1>3, <1>5, <2>1, <2>2, <2>3, <2>4, <2>5, <2>6, UpdateGood
<1> QED BY <1>1, <1>6, <1>7 DEF InitResumes

LEMMA RestoreResumesGood ==
    ASSUME TypeInv, NEW s \in Session, NEW done \in TurnPc \cup AppendPc,
           handler[s].pc \in TurnPc \cup AppendPc,
           handler[s].pc \in TurnPc <=> done \in TurnPc,
           RestoreResumes(s, done)
    PROVE  Good(s)
<1> DEFINE m == [mem[s] EXCEPT !.ctx = handler[s].snap]
           h == [handler[s] EXCEPT !.pc = done, !.snap = Empty, !.inj = {}]
<1>1. mem[s] \in Memory /\ handler[s] \in Handler /\ done \in Pc
  BY SessionType DEF Pc
<1>2. handler[s].snap \in Context /\ handler[s].snap.hist \in SUBSET Item
  BY HistoryType
<1>3. /\ h \in Handler /\ h.pc = done /\ h.input = handler[s].input
      /\ h.target = handler[s].target /\ h.snap = Empty /\ h.before = handler[s].before
  BY <1>1, ValueType DEF Handler
<1>4. handler' = [handler EXCEPT ![s] = h]
  BY <1>1 DEF RestoreResumes, Handler
<1>5. /\ m \in Memory /\ m.busy = mem[s].busy /\ m.interrupt = mem[s].interrupt
      /\ m.pending = mem[s].pending /\ m.ctx = handler[s].snap
  BY <1>1, <1>2 DEF Memory
<1>6. CASE Dropped(s)
  <2>1. mem' = mem /\ disk' = disk
    BY <1>6 DEF RestoreResumes, NoSave
  <2> HIDE DEF h, m
  <2>2. Agree(mem[s], h) /\ h.target <= posted
    BY <1>3, SessionType DEF Agree, TurnPc, AppendPc
  <2>3. Continues(mem[s], handler[s], mem[s], h)
    BY <1>3 DEF Continues, TurnPc, AppendPc
  <2>4. Silent(mem[s], h) /\ SilentDisk
    BY <1>3, <2>1, LacksNow, NothingHeld DEF Silent, LacksAt, SilentDisk
  <2> QED BY <1>1, <1>3, <1>4, <2>1, <2>2, <2>3, <2>4, UpdateGood
<1>7. CASE ~Dropped(s)
  <2> DEFINE m2 == InjectedAgain(m, handler[s])
  <2>1. /\ Save(handler[s].snap.hist) \/ NoSave
        /\ mem' = [mem EXCEPT ![s] = m2]
    BY <1>7 DEF RestoreResumes
  <2> HIDE DEF h, m
  <2>2. /\ m2 \in Memory /\ m2.busy = mem[s].busy /\ m2.interrupt = mem[s].interrupt
        /\ m2.pending = mem[s].pending /\ m2.ctx.hist = handler[s].snap.hist
    BY <1>1, <1>5, InjectedAgainType
  <2> HIDE DEF m2
  <2>3. Agree(m2, h) /\ h.target <= posted
    BY <1>3, <2>2, SessionType DEF Agree, TurnPc, AppendPc
  <2>4. Continues(mem[s], handler[s], m2, h)
    BY <1>3, <2>2 DEF Continues, TurnPc, AppendPc
  <2>5. Silent(m2, h)
    BY <1>3, <2>2, LacksNow, NothingHeld DEF Silent, LacksAt
  <2>6. SilentDisk
    BY <1>2, <2>1, LacksNow, SaveSilent
  <2> QED BY <1>3, <1>4, <2>1, <2>2, <2>3, <2>4, <2>5, <2>6, UpdateGood
<1> QED BY <1>6, <1>7

\* A write of a context that the session or its handler holds.
LEMMA SaveHeld ==
    ASSUME TypeInv, NEW s \in Session, NEW hist,
           hist = mem[s].ctx.hist \/ hist = handler[s].snap.hist,
           Save(hist) \/ NoSave
    PROVE  /\ SilentDisk
           /\ UNCHANGED <<current, cursor, env, erased, stopped, commands, crashes>>
                => Typed /\ Same
<1>1. hist \in SUBSET Item
  BY HistoryType
<1>2. SilentDisk
  BY <1>1, LacksNow, SaveSilent
<1>3. ASSUME UNCHANGED <<current, cursor, env, erased, stopped, commands, crashes>>
      PROVE  Typed /\ Same
  <2>1. cursor' \in 0..posted
    BY <1>3 DEF TypeInv, BoundsOK
  <2> QED BY <1>1, <1>3, <2>1, WriteTyped
<1> QED BY <1>2, <1>3

-----------------------------------------------------------------------------
(* Hydration                                                               *)
Step(s) == Good(s) /\ Typed /\ Same

LEMMA FetchStep ==
    ASSUME TypeInv, NEW s \in Session, FetchReturns(s)
    PROVE  Step(s)
<1>1. handler[s].pc \in AppendPc /\ handler[s].pc \notin TurnPc
  BY DEF FetchReturns, At, AppendPc, TurnPc
<1>2. Typed /\ Same /\ disk' = disk
  BY NoWriteTyped DEF FetchReturns
<1>3. SilentDisk
  BY <1>2 DEF SilentDisk, Lacks
<1>4. CASE Stale(s)
  BY <1>1, <1>3, <1>4, AbandonGood, <1>2 DEF FetchReturns, Step
<1>5. CASE ~Stale(s)
  <2> DEFINE p == IF mem[s].initialized THEN "aEntries" ELSE "aPrompt"
  <2>1. p \in TurnPc \cup AppendPc /\ p \notin TurnPc
    BY DEF AppendPc, TurnPc
  <2>2. handler' = [handler EXCEPT ![s].pc = p] /\ mem' = mem
    BY <1>5 DEF FetchReturns
  <2> HIDE DEF p
  <2> QED BY <1>1, <1>2, <2>1, <2>2, GotoGood DEF Step
<1> QED BY <1>4, <1>5

LEMMA AppendPromptStep ==
    ASSUME TypeInv, NEW s \in Session, AppendPromptReturns(s)
    PROVE  Step(s)
<1>1. handler[s].pc = "aPrompt" /\ InitResumes(s, "aRestore", "aEntries")
  BY DEF AppendPromptReturns, At
<1>2. Typed /\ Same /\ disk' = disk
  BY NoWriteTyped DEF AppendPromptReturns
<1>3. /\ {"aPrompt", "aRestore", "aEntries"} \subseteq AppendPc
      /\ \A p \in {"aPrompt", "aRestore", "aEntries"} : p \notin TurnPc
  BY DEF AppendPc, TurnPc
<1> QED BY <1>1, <1>2, <1>3, InitResumesGood DEF Step

LEMMA RestoreTyped ==
    ASSUME TypeInv, NEW s \in Session, NEW done, RestoreResumes(s, done),
           UNCHANGED <<current, cursor, env, erased, stopped, commands, crashes>>
    PROVE  Typed /\ Same
<1>1. Save(handler[s].snap.hist) \/ NoSave
  BY DEF RestoreResumes
<1> QED BY <1>1, SaveHeld

LEMMA AppendRestoreStep ==
    ASSUME TypeInv, NEW s \in Session, AppendRestoreReturns(s)
    PROVE  Step(s)
<1>1. /\ handler[s].pc = "aRestore" /\ RestoreResumes(s, "aEntries")
      /\ UNCHANGED <<current, cursor, env, erased, stopped, commands, crashes>>
  BY DEF AppendRestoreReturns, At
<1>2. /\ {"aRestore", "aEntries"} \subseteq AppendPc
      /\ \A p \in {"aRestore", "aEntries"} : p \notin TurnPc
  BY DEF AppendPc, TurnPc
<1>3. Good(s)
  BY <1>1, <1>2, RestoreResumesGood
<1> QED BY <1>1, <1>3, RestoreTyped DEF Step

LEMMA AppendEntriesStep ==
    ASSUME TypeInv, NEW s \in Session, AppendEntries(s)
    PROVE  Step(s)
<1>1. handler[s].pc \in AppendPc /\ handler[s].pc \notin TurnPc
  BY DEF AppendEntries, At, AppendPc, TurnPc
<1>2. Typed /\ Same /\ disk' = disk
  BY NoWriteTyped DEF AppendEntries
<1>3. SilentDisk
  BY <1>2 DEF SilentDisk, Lacks
<1>4. CASE Stale(s)
  BY <1>1, <1>2, <1>3, <1>4, AbandonGood DEF AppendEntries, Step
<1>5. CASE ~Stale(s)
  <2> DEFINE new == Fetched(s) \ mem[s].ctx.hist
             c == [mem[s].ctx EXCEPT !.hist = @ \cup new]
             p == IF new = {} THEN "aCursor" ELSE "aCompact"
             m == [mem[s] EXCEPT !.ctx = c]
             h == [handler[s] EXCEPT !.pc = p, !.snap = c, !.before = mem[s].ctx]
  <2>1. mem[s] \in Memory /\ handler[s] \in Handler /\ mem[s].ctx \in Context
        /\ mem[s].ctx.hist \subseteq Item
    BY SessionType, HistoryType
  <2>2. new \subseteq Item /\ \A u \in Input : Out(u) \notin new
    <3>1. handler[s].target <= posted /\ posted \in 0..MaxRemote /\ handler[s].target \in Int
      BY <2>1, SessionType DEF TypeInv, BoundsOK, Handler
    <3>2. \A r \in 1..handler[s].target : Msg(r) \in Item
      BY <3>1, ItemType, SessionAssumption
    <3>3. \A r, u : Msg(r) # Out(u)
      BY DEF Msg, Out
    <3> QED BY <3>2, <3>3 DEF Fetched
  <2>3. c \in Context /\ c.hist = mem[s].ctx.hist \cup new
    <3> HIDE DEF new
    <3> QED BY <2>1, <2>2 DEF Context
  <2>4. p \in AppendPc /\ p \notin TurnPc /\ p \in Pc /\ p # "idle"
    BY DEF AppendPc, TurnPc, Pc
  <2>5. /\ mem' = [mem EXCEPT ![s] = m]
        /\ handler' = [handler EXCEPT ![s] = h]
    <3>1. /\ mem' = [mem EXCEPT ![s].ctx = c]
          /\ handler' = [handler EXCEPT ![s].pc = p, ![s].snap = c, ![s].before = mem[s].ctx]
      BY <1>5 DEF AppendEntries
    <3> HIDE DEF c, p
    <3> QED BY <3>1, <2>1 DEF TypeInv, SessionsOK, HandlersOK, Handler
  <2> HIDE DEF c, p
  <2>6. m \in Memory /\ m.busy = mem[s].busy /\ m.ctx = c /\ m.pending = mem[s].pending
    BY <2>1, <2>3 DEF Memory
  <2>7. /\ h \in Handler /\ h.pc = p /\ h.input = handler[s].input
        /\ h.target = handler[s].target /\ h.snap = c /\ h.before = mem[s].ctx
    BY <2>1, <2>3, <2>4 DEF Handler
  <2> HIDE DEF m, h, new
  <2>8. Agree(m, h) /\ h.target <= posted
    BY <1>1, <2>4, <2>6, <2>7, SessionType DEF Agree, AppendPc
  <2>9. Continues(mem[s], handler[s], m, h)
    BY <1>1, <2>4, <2>7 DEF Continues, AppendPc, TurnPc
  <2>10. Silent(m, h)
    BY <2>2, <2>3, <2>6, <2>7, LacksNow DEF Silent, LacksAt
  <2> QED BY <1>2, <1>3, <2>5, <2>6, <2>7, <2>8, <2>9, <2>10, UpdateGood DEF Step
<1> QED BY <1>4, <1>5

\* The entries are taken back, and the handler gives up.
LEMMA RollbackGood ==
    ASSUME TypeInv, NEW s \in Session, handler[s].pc \in AppendPc, SilentDisk,
           mem' = [mem EXCEPT ![s] = Collected(s, [@ EXCEPT !.ctx = handler[s].before])],
           handler' = [handler EXCEPT ![s] = Resting]
    PROVE  Good(s)
<1> DEFINE m == [mem[s] EXCEPT !.ctx = handler[s].before]
<1>1. mem[s] \in Memory /\ ~mem[s].busy /\ handler[s].before \in Context
  BY SessionType, HistoryType DEF Agree, AppendPc, TurnPc
<1>2. m \in Memory /\ ~m.busy /\ m.ctx = handler[s].before /\ m.pending = mem[s].pending
  BY <1>1 DEF Memory
<1>3. mem' = [mem EXCEPT ![s] = Collected(s, m)]
  OBVIOUS
<1> HIDE DEF m
<1>4. Silent(m, Resting)
  BY <1>2, LacksNow, NothingHeld DEF Silent, LacksAt
<1> QED BY <1>2, <1>3, <1>4, RestGood

LEMMA AppendCompactStep ==
    ASSUME TypeInv, NEW s \in Session, AppendCompactReturns(s)
    PROVE  Step(s)
<1>1. handler[s].pc \in AppendPc /\ handler[s].pc \notin TurnPc
  BY DEF AppendCompactReturns, At, AppendPc, TurnPc
<1>2. Save(handler[s].snap.hist) \/ NoSave
  BY DEF AppendCompactReturns, Save
<1>3. SilentDisk /\ Typed /\ Same
  BY <1>2, SaveHeld DEF AppendCompactReturns
<1>4. CASE Abandon(s)
  BY <1>1, <1>3, <1>4, AbandonGood DEF Step
<1>5. CASE /\ mem' = [mem EXCEPT ![s].ctx = handler[s].snap]
           /\ handler' = [handler EXCEPT ![s].pc = "aCursor"]
  <2> DEFINE m == [mem[s] EXCEPT !.ctx = handler[s].snap]
             h == [handler[s] EXCEPT !.pc = "aCursor"]
  <2>1. mem[s] \in Memory /\ handler[s] \in Handler /\ handler[s].snap \in Context
    BY SessionType, HistoryType
  <2>2. m \in Memory /\ m.busy = mem[s].busy /\ m.ctx = handler[s].snap /\ m.pending = mem[s].pending
    BY <2>1 DEF Memory
  <2>3. "aCursor" \in AppendPc /\ "aCursor" \notin TurnPc /\ "aCursor" \in Pc
    BY DEF AppendPc, TurnPc, Pc
  <2>4. /\ h \in Handler /\ h.pc = "aCursor" /\ h.input = handler[s].input
        /\ h.target = handler[s].target /\ h.snap = handler[s].snap /\ h.before = handler[s].before
    BY <2>1, <2>3 DEF Handler
  <2>5. mem' = [mem EXCEPT ![s] = m] /\ handler' = [handler EXCEPT ![s] = h]
    BY <1>5
  <2> HIDE DEF m, h
  <2>6. Agree(m, h) /\ h.target <= posted
    BY <1>1, <2>2, <2>3, <2>4, SessionType DEF Agree, AppendPc
  <2>7. Continues(mem[s], handler[s], m, h)
    BY <1>1, <2>3, <2>4 DEF Continues, AppendPc
  <2>8. Silent(m, h)
    BY <2>2, <2>4, LacksNow DEF Silent, LacksAt
  <2> QED BY <1>3, <2>2, <2>4, <2>5, <2>6, <2>7, <2>8, UpdateGood DEF Step
<1>6. CASE /\ mem' = [mem EXCEPT ![s] = Collected(s, [@ EXCEPT !.ctx = handler[s].before])]
           /\ handler' = [handler EXCEPT ![s] = Resting]
  BY <1>1, <1>3, <1>6, RollbackGood DEF Step
<1> QED BY <1>4, <1>5, <1>6 DEF AppendCompactReturns

LEMMA AppendCursorSavedStep ==
    ASSUME TypeInv, NEW s \in Session, AppendCursorSaved(s)
    PROVE  Step(s)
<1>1. handler[s].pc \in AppendPc
  BY DEF AppendCursorSaved, At, AppendPc
<1>2. NoSave /\ UNCHANGED <<current, env, erased, stopped, commands, crashes>>
  BY DEF AppendCursorSaved
<1>3. cursor' \in 0..posted
  <2>1. handler[s].target \in 0..MaxRemote
    BY SessionType DEF Handler
  <2> QED BY <2>1, SessionType, SessionAssumption DEF AppendCursorSaved, TypeInv, BoundsOK
<1>4. {} \in SUBSET Item
  OBVIOUS
<1>5. Typed /\ Same
  BY <1>2, <1>3, <1>4, WriteTyped
<1>6. SilentDisk
  BY <1>2 DEF NoSave, SilentDisk, Lacks
<1> QED BY <1>1, <1>5, <1>6, StartTurnGood DEF AppendCursorSaved, Step

LEMMA AppendCursorFailsStep ==
    ASSUME TypeInv, NEW s \in Session, AppendCursorFails(s)
    PROVE  Step(s)
<1>1. handler[s].pc \in AppendPc
  BY DEF AppendCursorFails, At, AppendPc
<1>2. /\ UNCHANGED <<current, cursor, env, erased, stopped, commands, crashes>>
      /\ disk' = disk \/ disk' = handler[s].before.hist
      /\ recorded' \subseteq recorded
      /\ \/ faults < MaxFault /\ faults' = faults + 1
         \/ faults + 1 < MaxFault /\ faults' = faults + 2
  BY DEF AppendCursorFails
<1>3. FilesOK' /\ InputsOK' /\ Same
  BY <1>2, HistoryType DEF TypeInv, FilesOK, InputsOK, Same, env
<1>4. BoundsOK'
  <2>1. faults' \in 0..MaxFault
    BY <1>2, SessionAssumption DEF TypeInv, BoundsOK
  <2> QED BY <1>2, <2>1 DEF TypeInv, BoundsOK, env
<1>5. SilentDisk
  BY <1>2, LacksNow DEF SilentDisk
<1>6. Good(s)
  BY <1>1, <1>5, RollbackGood DEF AppendCursorFails
<1> QED BY <1>3, <1>4, <1>6 DEF Step, Typed

-----------------------------------------------------------------------------
(* The turn                                                                *)
LEMMA CancelStep ==
    ASSUME TypeInv, NEW s \in Session, Cancel(s)
    PROVE  Step(s)
<1>1. Save(mem[s].ctx.hist) \/ NoSave
  BY DEF Cancel
<1>2. SilentDisk /\ Typed /\ Same
  BY <1>1, SaveHeld DEF Cancel
<1>3. Finish(s, mem[s].ctx) /\ mem[s].ctx \in Context
  BY HistoryType DEF Cancel
<1>4. Good(s)
  BY <1>2, <1>3, LacksNow, FinishGood
<1> QED BY <1>2, <1>4 DEF Step

\* A result that brings no reply: the context or the copy is kept.
LEMMA SettleStep ==
    ASSUME TypeInv, NEW s \in Session, NEW ctx,
           ctx = mem[s].ctx \/ ctx = handler[s].snap, Settle(s, ctx)
    PROVE  Step(s)
<1>1. SilentDisk /\ Typed /\ Same
  BY SaveHeld DEF Settle
<1>2. ctx \in Context /\ \A u \in Input : Lacks(Out(u)) => Out(u) \notin ctx.hist
  BY HistoryType, LacksNow
<1>3. Good(s)
  BY <1>1, <1>2, FinishGood DEF Settle
<1> QED BY <1>1, <1>3 DEF Step

\* The handler goes on in its turn with a context that brings no reply.
LEMMA TurnGood ==
    ASSUME TypeInv, NEW s \in Session, NEW p \in TurnPc, NEW c \in Context,
           NEW sn \in Context, handler[s].pc \in TurnPc,
           mem' = [mem EXCEPT ![s].ctx = c],
           handler' = [handler EXCEPT ![s].pc = p, ![s].snap = sn],
           \A u \in Input : Lacks(Out(u)) => Out(u) \notin c.hist /\ Out(u) \notin sn.hist,
           SilentDisk
    PROVE  Good(s)
<1> DEFINE m == [mem[s] EXCEPT !.ctx = c]
           h == [handler[s] EXCEPT !.pc = p, !.snap = sn]
<1>1. mem[s] \in Memory /\ handler[s] \in Handler
  BY SessionType
<1>2. /\ m \in Memory /\ m.busy = mem[s].busy /\ m.ctx = c
      /\ m.pending = mem[s].pending /\ m.interrupt = mem[s].interrupt
  BY <1>1 DEF Memory
<1>3. p \in Pc /\ p \notin AppendPc /\ p # "idle" /\ handler[s].pc # "idle"
  BY DEF Pc, AppendPc, TurnPc
<1>4. /\ h \in Handler /\ h.pc = p /\ h.input = handler[s].input
      /\ h.target = handler[s].target /\ h.snap = sn /\ h.before = handler[s].before
  BY <1>1, <1>3 DEF Handler
<1>5. mem' = [mem EXCEPT ![s] = m] /\ handler' = [handler EXCEPT ![s] = h]
  BY <1>1 DEF TypeInv, SessionsOK, HandlersOK, Handler
<1> HIDE DEF m, h
<1>6. Agree(m, h) /\ h.target <= posted
  BY <1>2, <1>3, <1>4, SessionType DEF Agree
<1>7. Continues(mem[s], handler[s], m, h)
  BY <1>2, <1>3, <1>4 DEF Continues
<1>8. Silent(m, h)
  BY <1>2, <1>4, LacksNow DEF Silent, LacksAt
<1> QED BY <1>2, <1>4, <1>5, <1>6, <1>7, <1>8, UpdateGood

LEMMA PrepStep ==
    ASSUME TypeInv, NEW s \in Session, PrepReturns(s)
    PROVE  Step(s)
<1>1. handler[s].pc \in TurnPc
  BY DEF PrepReturns, At, TurnPc
<1>2. Typed /\ Same /\ disk' = disk
  BY NoWriteTyped DEF PrepReturns
<1>3. SilentDisk
  BY <1>2 DEF SilentDisk, Lacks
<1>4. PICK reload \in {FALSE, "reload" \in Event} :
        LET m == mem[s]
            ctx == IF reload /\ m.initialized /\ ~Dropped(s) /\ m.ctx.sys = 0
                   THEN [m.ctx EXCEPT !.sys = 1] ELSE m.ctx
        IN /\ mem' = [mem EXCEPT ![s].ctx = ctx]
           /\ \/ handler' = [handler EXCEPT ![s].pc = "ready"]
              \/ /\ ctx.hist # {}
                 /\ handler' = [handler EXCEPT ![s].pc = "pre", ![s].snap = ctx]
  BY DEF PrepReturns
<1> DEFINE c == IF reload /\ mem[s].initialized /\ ~Dropped(s) /\ mem[s].ctx.sys = 0
                THEN [mem[s].ctx EXCEPT !.sys = 1] ELSE mem[s].ctx
<1>5. /\ mem' = [mem EXCEPT ![s].ctx = c]
      /\ \/ handler' = [handler EXCEPT ![s].pc = "ready"]
         \/ handler' = [handler EXCEPT ![s].pc = "pre", ![s].snap = c]
  BY <1>4
<1>6. c \in Context /\ c.hist = mem[s].ctx.hist
  BY HistoryType DEF Context
<1> HIDE DEF c
<1>7. "ready" \in TurnPc /\ "pre" \in TurnPc /\ handler[s].snap \in Context
  BY HistoryType DEF TurnPc
<1>8. CASE handler' = [handler EXCEPT ![s].pc = "ready"]
  <2>1. handler' = [handler EXCEPT ![s].pc = "ready", ![s].snap = handler[s].snap]
    BY <1>8 DEF TypeInv, HandlersOK, Handler
  <2> QED BY <1>1, <1>3, <1>5, <1>6, <1>7, <2>1, LacksNow, TurnGood, <1>2 DEF Step
<1>9. CASE handler' = [handler EXCEPT ![s].pc = "pre", ![s].snap = c]
  BY <1>1, <1>3, <1>5, <1>6, <1>7, <1>9, LacksNow, TurnGood, <1>2 DEF Step
<1> QED BY <1>5, <1>8, <1>9

LEMMA PreCompactionStep ==
    ASSUME TypeInv, NEW s \in Session, PreCompactionReturns(s)
    PROVE  Step(s)
<1>1. handler[s].pc \in TurnPc
  BY DEF PreCompactionReturns, At, TurnPc
<1>2. CASE mem[s].interrupt
  BY <1>2, CancelStep DEF PreCompactionReturns
<1>3. CASE ~mem[s].interrupt
  <2>1. /\ Save(handler[s].snap.hist) \/ NoSave
        /\ mem' = [mem EXCEPT ![s].ctx = handler[s].snap]
        /\ handler' = [handler EXCEPT ![s].pc = "ready", ![s].snap = Empty]
        /\ UNCHANGED <<current, cursor, env, erased, stopped, commands, crashes>>
    BY <1>3 DEF PreCompactionReturns
  <2>2. SilentDisk /\ Typed /\ Same
    BY <2>1, SaveHeld
  <2>3. "ready" \in TurnPc /\ handler[s].snap \in Context /\ Empty \in Context
    BY HistoryType, ValueType DEF TurnPc
  <2>4. \A u \in Input : Lacks(Out(u)) =>
            Out(u) \notin handler[s].snap.hist /\ Out(u) \notin Empty.hist
    BY LacksNow, NothingHeld
  <2>5. Good(s)
    BY <1>1, <2>1, <2>2, <2>3, <2>4, TurnGood
  <2> QED BY <2>2, <2>5 DEF Step
<1> QED BY <1>2, <1>3

LEMMA ReadyStep ==
    ASSUME TypeInv, NEW s \in Session, Ready(s)
    PROVE  Step(s)
<1>1. handler[s].pc \in TurnPc
  BY DEF Ready, At, TurnPc
<1>2. CASE mem[s].interrupt
  BY <1>2, CancelStep DEF Ready
<1>3. CASE ~mem[s].interrupt
  <2> DEFINE p == IF mem[s].initialized THEN "run" ELSE "prompt"
  <2>1. p \in TurnPc
    BY DEF TurnPc
  <2>2. /\ handler' = [handler EXCEPT ![s].pc = p] /\ mem' = mem
        /\ UNCHANGED <<current, disk, cursor, env, ghost, count>>
    BY <1>3 DEF Ready
  <2> HIDE DEF p
  <2>3. Typed /\ Same /\ disk' = disk
    BY <2>2, NoWriteTyped
  <2> QED BY <1>1, <2>1, <2>2, <2>3, GotoGood DEF Step
<1> QED BY <1>2, <1>3

LEMMA PromptStep ==
    ASSUME TypeInv, NEW s \in Session, PromptReturns(s)
    PROVE  Step(s)
<1>1. handler[s].pc = "prompt" /\ InitResumes(s, "restore", "run")
  BY DEF PromptReturns, At
<1>2. Typed /\ Same /\ disk' = disk
  BY NoWriteTyped DEF PromptReturns
<1>3. {"prompt", "restore", "run"} \subseteq TurnPc
  BY DEF TurnPc
<1> QED BY <1>1, <1>2, <1>3, InitResumesGood DEF Step

LEMMA PromptFailsStep ==
    ASSUME TypeInv, NEW s \in Session, PromptFails(s)
    PROVE  Step(s)
<1>1. CASE mem[s].interrupt
  BY <1>1, CancelStep DEF PromptFails
<1>2. CASE ~mem[s].interrupt
  <2>1. /\ SaveOk(mem[s].ctx.hist) /\ faults < MaxFault /\ faults' = faults + 1
        /\ Finish(s, mem[s].ctx)
        /\ UNCHANGED <<current, cursor, env, erased, stopped, commands, crashes>>
    BY <1>2 DEF PromptFails
  <2>2. disk' = mem[s].ctx.hist /\ recorded' = recorded \cup mem[s].ctx.hist
    BY <2>1 DEF SaveOk
  <2>3. FilesOK' /\ InputsOK' /\ Same
    BY <2>1, <2>2, HistoryType DEF TypeInv, FilesOK, InputsOK, Same, env
  <2>4. BoundsOK'
    <3>1. faults' \in 0..MaxFault
      BY <2>1, SessionAssumption DEF TypeInv, BoundsOK
    <3> QED BY <2>1, <3>1 DEF TypeInv, BoundsOK, env
  <2>5. SilentDisk
    BY <2>2, LacksNow DEF SilentDisk
  <2>6. Good(s)
    BY <2>1, <2>5, HistoryType, LacksNow, FinishGood
  <2> QED BY <2>3, <2>4, <2>6 DEF Step, Typed
<1> QED BY <1>1, <1>2

LEMMA RestoreStep ==
    ASSUME TypeInv, NEW s \in Session, RestoreReturns(s)
    PROVE  Step(s)
<1>1. /\ handler[s].pc = "restore" /\ RestoreResumes(s, "run")
      /\ UNCHANGED <<current, cursor, env, erased, stopped, commands, crashes>>
  BY DEF RestoreReturns, At
<1>2. {"restore", "run"} \subseteq TurnPc
  BY DEF TurnPc
<1>3. Good(s)
  BY <1>1, <1>2, RestoreResumesGood
<1> QED BY <1>1, <1>3, RestoreTyped DEF Step

LEMMA BeginRunStep ==
    ASSUME TypeInv, NEW s \in Session, BeginRun(s)
    PROVE  Step(s)
<1>1. handler[s].pc \in TurnPc
  BY DEF BeginRun, At, TurnPc
<1>2. CASE mem[s].interrupt
  BY <1>2, CancelStep DEF BeginRun
<1>3. CASE ~mem[s].interrupt
  <2> DEFINE c == [mem[s].ctx EXCEPT !.hist = @ \cup {In(handler[s].input)}]
  <2>1. /\ mem' = [mem EXCEPT ![s].ctx = c]
        /\ handler' = [handler EXCEPT ![s].pc = "model", ![s].snap = c]
        /\ UNCHANGED <<current, disk, cursor, env, ghost, count>>
    BY <1>3 DEF BeginRun
  <2>2. Typed /\ Same /\ disk' = disk
    BY <2>1, NoWriteTyped
  <2>3. SilentDisk
    BY <2>2 DEF SilentDisk, Lacks
  <2>4. In(handler[s].input) \in Item
    <3>1. handler[s].input \in Input
      BY <1>1, SessionType DEF Agree, TurnPc
    <3> QED BY <3>1, ItemType
  <2>5. c \in Context /\ c.hist = mem[s].ctx.hist \cup {In(handler[s].input)}
    BY <2>4, HistoryType DEF Context
  <2>6. \A u : Out(u) # In(handler[s].input)
    BY DEF Out, In
  <2>7. "model" \in TurnPc
    BY DEF TurnPc
  <2> HIDE DEF c
  <2>8. \A u \in Input : Lacks(Out(u)) => Out(u) \notin c.hist
    BY <2>5, <2>6, LacksNow
  <2>9. Good(s)
    BY <1>1, <2>1, <2>3, <2>5, <2>7, <2>8, TurnGood
  <2> QED BY <2>2, <2>9 DEF Step
<1> QED BY <1>2, <1>3

LEMMA ModelFailsStep ==
    ASSUME TypeInv, NEW s \in Session, ModelFails(s)
    PROVE  Step(s)
<1>1. CASE mem[s].interrupt
  BY <1>1, CancelStep DEF ModelFails
<1>2. CASE ~mem[s].interrupt
  BY <1>2, SettleStep DEF ModelFails
<1> QED BY <1>1, <1>2

LEMMA MidTurnStep ==
    ASSUME TypeInv, NEW s \in Session, MidTurnCompacts(s) \/ StatusReturns(s)
    PROVE  Step(s)
<1>1. /\ Save(handler[s].snap.hist) \/ NoSave
      /\ UNCHANGED <<current, cursor, env, erased, stopped, commands, crashes>>
      /\ mem' = mem
  BY DEF MidTurnCompacts, StatusReturns
<1>2. SilentDisk /\ Typed /\ Same
  BY <1>1, SaveHeld
<1>3. PICK p \in TurnPc : /\ handler[s].pc \in TurnPc
                          /\ handler' = [handler EXCEPT ![s].pc = p]
  <2>1. "model" \in TurnPc /\ "status" \in TurnPc
    BY DEF TurnPc
  <2>2. handler[s].pc = "model" \/ handler[s].pc = "status"
    BY DEF MidTurnCompacts, StatusReturns, At
  <2>3. \/ handler' = [handler EXCEPT ![s].pc = "status"]
        \/ handler' = [handler EXCEPT ![s].pc = "model"]
        \/ handler' = handler /\ handler[s].pc = "model"
    BY DEF MidTurnCompacts, StatusReturns, At
  <2>4. handler = [handler EXCEPT ![s].pc = handler[s].pc]
    BY DEF TypeInv, HandlersOK, Handler
  <2> QED BY <2>1, <2>2, <2>3, <2>4
<1>4. handler' = [handler EXCEPT ![s].pc = p, ![s].snap = handler[s].snap]
  BY <1>3 DEF TypeInv, HandlersOK, Handler
<1>5. mem' = [mem EXCEPT ![s].ctx = mem[s].ctx]
  BY <1>1 DEF TypeInv, SessionsOK, Memory
<1>6. Good(s)
  BY <1>2, <1>3, <1>4, <1>5, HistoryType, LacksNow, TurnGood
<1> QED BY <1>2, <1>6 DEF Step

\* The one step that brings a reply: the handler's own, when it is not
\* interrupted.
Kept(W) == \A u \in W : Lacks(Out(u)) => Lacks(Out(u))'

LEMMA GoodKept ==
    ASSUME NEW s \in Session, Good(s)
    PROVE  Kept(Input)
<1> SUFFICES ASSUME NEW u \in Input, Lacks(Out(u))
             PROVE  Lacks(Out(u))'
  BY DEF Kept
<1>1. Out(u) \notin disk'
  BY DEF Good, SilentDisk
<1>2. \A t \in Session : LacksAt(Out(u), mem'[t], handler'[t])
  BY DEF Good, Sound, OnlyAt, Silent, Lacks
<1> QED BY <1>1, <1>2 DEF Lacks, Out, LacksAt

Answers(s) ==
    /\ handler[s].pc = "model" /\ ~mem[s].interrupt
    /\ Sound(s) /\ handler'[s].pc = "idle"
    /\ Kept(Input \ {handler[s].input})
    /\ Typed /\ Same

LEMMA ModelStep ==
    ASSUME TypeInv, NEW s \in Session, ModelReturns(s)
    PROVE  Step(s) \/ Answers(s)
<1>1. CASE mem[s].interrupt
  BY <1>1, CancelStep DEF ModelReturns
<1>2. CASE ~mem[s].interrupt
  <2> DEFINE reply == Out(handler[s].input)
             c == [handler[s].snap EXCEPT !.hist = @ \cup {reply}]
             m == [mem[s] EXCEPT !.ctx = c, !.busy = FALSE]
  <2>1. handler[s].pc = "model" /\ Save(c.hist) /\ Finish(s, c)
        /\ UNCHANGED <<current, cursor, env, erased, stopped, commands, crashes>>
    BY <1>2 DEF ModelReturns, Settle, At
  <2>2. reply \in Item
    <3>1. handler[s].input \in Input
      BY <2>1, SessionType DEF Agree
    <3> QED BY <3>1, ItemType
  <2>3. c \in Context /\ c.hist = handler[s].snap.hist \cup {reply} /\ c.hist \in SUBSET Item
    BY <2>2, HistoryType DEF Context
  <2>4. mem' = [mem EXCEPT ![s] = Collected(s, m)] /\ handler' = [handler EXCEPT ![s] = Resting]
    BY <2>1 DEF Finish
  <2> HIDE DEF c
  <2>5. Typed /\ Same
    <3>1. cursor' \in 0..posted
      BY <2>1 DEF TypeInv, BoundsOK
    <3> QED BY <2>1, <2>3, <3>1, WriteTyped
  <2>6. mem[s] \in Memory /\ m \in Memory /\ ~m.busy
    BY <2>3, SessionType, FieldType
  <2>7. m.ctx = c /\ m.pending = mem[s].pending
    BY <2>6 DEF Memory
  <2> HIDE DEF m
  <2>8. Collected(s, m) \in Memory /\ ~Collected(s, m).busy
    BY <2>6, ValueType DEF Collected
  <2>9. Agree(Collected(s, m), Resting) /\ Resting.target <= posted
    BY <2>8, ValueType, SessionAssumption DEF Agree, TurnPc, TypeInv, BoundsOK
  <2>10. Sound(s) /\ mem'[s] = Collected(s, m) /\ handler'[s] = Resting
    BY <2>4, <2>8, <2>9, ValueType, UpdateSound
  <2>11. ASSUME NEW u \in Input \ {handler[s].input}, Lacks(Out(u))
         PROVE  Lacks(Out(u))'
    <3>1. Out(u) # reply
      BY DEF Out
    <3> HIDE DEF reply
    <3>2. Out(u) \notin c.hist
      BY <2>3, <2>11, <3>1, LacksNow
    <3>3. Out(u) \notin disk'
      BY <2>1, <2>3, <2>11, <3>2, SaveType, LacksNow
    <3>4. LacksAt(Out(u), m, Resting) /\ LacksAt(Out(u), Absent, Resting)
      BY <2>7, <2>11, <3>2, LacksNow, NothingHeld DEF LacksAt
    <3>5. LacksAt(Out(u), mem'[s], handler'[s])
      BY <2>10, <3>4 DEF Collected
    <3>6. \A t \in Session : LacksAt(Out(u), mem'[t], handler'[t])
      BY <2>10, <2>11, <3>5 DEF Sound, OnlyAt, Lacks
    <3> QED BY <3>3, <3>6 DEF Lacks, Out, LacksAt
  <2> QED BY <1>2, <2>1, <2>5, <2>10, <2>11, ValueType DEF Answers, Kept
<1> QED BY <1>1, <1>2

-----------------------------------------------------------------------------
(* Commands, injections, expiry                                            *)
\* A step that changes the session object and lets its handler wait.
LEMMA MemoryGood ==
    ASSUME TypeInv, NEW s \in Session, NEW m \in Memory,
           mem' = [mem EXCEPT ![s] = m], handler' = handler,
           m.busy <=> handler[s].pc \in TurnPc,
           handler[s].pc \in TurnPc /\ mem[s].interrupt => m.interrupt,
           \A u \in Input : Lacks(Out(u)) =>
              Out(u) \notin m.ctx.hist /\ Out(u) \notin m.pending,
           SilentDisk
    PROVE  Good(s)
<1>1. Agree(m, handler[s]) /\ handler[s].target <= posted /\ handler[s] \in Handler
  BY SessionType DEF Agree
<1>2. Continues(mem[s], handler[s], m, handler[s])
  BY DEF Continues
<1>3. Silent(m, handler[s])
  BY LacksNow DEF Silent, LacksAt
<1> QED BY <1>1, <1>2, <1>3, UpdateGood

\* The object a command finds brings no reply either.
LEMMA OpenedSilent ==
    ASSUME TypeInv, NEW s \in Session, GetOrCreate(s)
    PROVE  /\ Opened(s) \in Memory
           /\ Opened(s).busy <=> handler[s].pc \in TurnPc
           /\ mem[s].busy => Opened(s) = mem[s]
           /\ handler[s].pc \in TurnPc /\ mem[s].interrupt => Opened(s).interrupt
           /\ \A u \in Input : Lacks(Out(u)) =>
                Out(u) \notin Opened(s).ctx.hist /\ Out(u) \notin Opened(s).pending
<1>1. Opened(s) \in Memory /\ (Opened(s).busy <=> handler[s].pc \in TurnPc)
  BY OpenedType
<1>2. CASE s = current
  <2>1. Opened(s) = mem[s]
    BY <1>2 DEF Opened
  <2> QED BY <1>1, <2>1, LacksNow
<1>3. CASE s # current
  <2>1. handler[s].pc \notin TurnPc /\ ~mem[s].busy
    BY <1>3, SessionType DEF GetOrCreate, Idle, TurnPc, Agree
  <2> DEFINE m == [Absent EXCEPT !.pending = disk]
  <2>2. Opened(s) = m
    BY <1>3 DEF Opened
  <2>3. m.ctx = Absent.ctx /\ m.pending = disk
    BY ValueType DEF Memory
  <2> HIDE DEF m
  <2>4. \A u \in Input : Lacks(Out(u)) =>
            Out(u) \notin Opened(s).ctx.hist /\ Out(u) \notin Opened(s).pending
    BY <2>2, <2>3, LacksNow, NothingHeld
  <2> QED BY <1>1, <2>1, <2>4
<1> QED BY <1>2, <1>3

LEMMA InterruptedType ==
    ASSUME NEW m \in Memory
    PROVE  /\ Interrupted(m) \in Memory /\ Interrupted(m).busy = m.busy
           /\ Interrupted(m).ctx = m.ctx /\ Interrupted(m).pending = m.pending
           /\ m.interrupt => Interrupted(m).interrupt
           /\ m.busy => Interrupted(m).interrupt
           /\ Reset(m) \in Memory /\ Reset(m).busy = m.busy
           /\ Reset(m).interrupt = m.interrupt
           /\ Reset(m).ctx = Empty /\ Reset(m).pending = {}
<1>1. /\ Interrupted(m) \in Memory /\ Interrupted(m).busy = m.busy
      /\ Interrupted(m).ctx = m.ctx /\ Interrupted(m).pending = m.pending
      /\ m.interrupt => Interrupted(m).interrupt
      /\ m.busy => Interrupted(m).interrupt
  BY DEF Interrupted, Memory
<1>2. /\ Reset(m) \in Memory /\ Reset(m).busy = m.busy
      /\ Reset(m).interrupt = m.interrupt
      /\ Reset(m).ctx = Empty /\ Reset(m).pending = {}
  <2>1. m.gen \in Nat /\ m.gen + 1 \in Nat /\ Empty \in Context /\ {} \in SUBSET Item
    BY ValueType DEF Memory
  <2> QED BY <2>1 DEF Reset, Memory
<1> QED BY <1>1, <1>2

\* A command that interrupts stops the turn under way, if there is one.
Stops(s) ==
    /\ Good(s) /\ Typed /\ handler' = handler
    /\ posted' = posted /\ received' = received
    /\ \/ stopped' = stopped
       \/ /\ stopped' = stopped \cup {handler[s].input}
          /\ handler[s].pc \in TurnPc /\ mem'[s].interrupt

LEMMA StopsOnce ==
    ASSUME TypeInv, NEW s \in Session, GetOrCreate(s), StopsTurn(s),
           NEW m \in Memory, mem' = [mem EXCEPT ![s] = m],
           m.interrupt = Interrupted(Opened(s)).interrupt
    PROVE  /\ stopped' \subseteq Input
           /\ \/ stopped' = stopped
              \/ /\ stopped' = stopped \cup {handler[s].input}
                 /\ handler[s].pc \in TurnPc /\ mem'[s].interrupt
           /\ handler[s].pc \in TurnPc /\ mem[s].interrupt => m.interrupt
<1>1. mem[s].busy => handler[s].pc \in TurnPc /\ m.interrupt
  BY OpenedSilent, InterruptedType, SessionType DEF Agree
<1>2. handler[s].pc \in TurnPc => handler[s].input \in Input
  BY SessionType DEF Agree, TurnPc
<1>3. mem'[s] = m
  BY DEF TypeInv, SessionsOK
<1>4. handler[s].pc \in TurnPc /\ mem[s].interrupt => m.interrupt
  BY OpenedSilent, InterruptedType
<1>5. stopped \subseteq Input
  BY DEF TypeInv, InputsOK
<1> QED BY <1>1, <1>2, <1>3, <1>4, <1>5 DEF StopsTurn

LEMMA CommandType ==
    ASSUME TypeInv, NEW s \in Session, NEW name, Command(name, s)
    PROVE  /\ GetOrCreate(s) /\ current' \in Session \cup {NoSession}
           /\ commands' \in 0..MaxCommand
BY SessionAssumption DEF Command, TypeInv, BoundsOK

LEMMA StopStep ==
    ASSUME TypeInv, NEW s \in Session, Stop(s)
    PROVE  Stops(s)
<1> DEFINE m == Interrupted(Opened(s))
<1>1. /\ Command("stop", s) /\ mem' = [mem EXCEPT ![s] = m] /\ StopsTurn(s)
      /\ UNCHANGED <<handler, disk, cursor, env, recorded, erased, crashes, faults>>
  BY DEF Stop
<1>2. GetOrCreate(s) /\ current' \in Session \cup {NoSession} /\ commands' \in 0..MaxCommand
  BY <1>1, CommandType
<1>3. /\ m \in Memory /\ m.busy = Opened(s).busy
      /\ m.ctx = Opened(s).ctx /\ m.pending = Opened(s).pending
  BY <1>2, OpenedSilent, InterruptedType
<1>4. m.interrupt = Interrupted(Opened(s)).interrupt
  OBVIOUS
<1> HIDE DEF m
<1>5. /\ stopped' \subseteq Input
      /\ \/ stopped' = stopped
         \/ /\ stopped' = stopped \cup {handler[s].input}
            /\ handler[s].pc \in TurnPc /\ mem'[s].interrupt
      /\ handler[s].pc \in TurnPc /\ mem[s].interrupt => m.interrupt
  BY <1>1, <1>2, <1>3, <1>4, StopsOnce
<1>6. Typed
  <2>1. FilesOK' /\ InputsOK'
    BY <1>1, <1>5 DEF TypeInv, FilesOK, InputsOK, env
  <2>2. BoundsOK'
    BY <1>1, <1>2 DEF TypeInv, BoundsOK, env
  <2> QED BY <2>1, <2>2 DEF Typed
<1>7. SilentDisk
  BY <1>1 DEF SilentDisk, Lacks
<1>8. Good(s)
  BY <1>1, <1>2, <1>3, <1>5, <1>7, OpenedSilent, MemoryGood
<1> QED BY <1>1, <1>5, <1>6, <1>8 DEF Stops, env

LEMMA KnownType ==
    ASSUME TypeInv, NEW s \in Session, GetOrCreate(s)
    PROVE  Known(s) \subseteq Item
<1>1. disk \subseteq Item /\ handler[s].snap.hist \subseteq Item
  BY HistoryType DEF TypeInv, FilesOK
<1>2. Opened(s).ctx.hist \subseteq Item /\ Opened(s).pending \subseteq Item
  <2>1. Opened(s) \in Memory
    BY OpenedType
  <2>2. Opened(s).ctx \in Context /\ Opened(s).pending \in SUBSET Item
    BY <2>1 DEF Memory
  <2> QED BY <2>2 DEF Context
<1>3. ~Idle(s) => In(handler[s].input) \in Item /\ Out(handler[s].input) \in Item
  BY SessionType, ItemType DEF Agree, Idle
<1>4. \A r \in 1..posted : Msg(r) \in Item
  BY ItemType, SessionAssumption DEF TypeInv, BoundsOK
<1> QED BY <1>1, <1>2, <1>3, <1>4 DEF Known

\* /clear and /clear --all reset the session, the disk may go with it.
LEMMA ResetStep ==
    ASSUME TypeInv, NEW s \in Session, NEW name, Command(name, s),
           mem' = [mem EXCEPT ![s] = Reset(Interrupted(Opened(s)))],
           StopsTurn(s), boundary' = ClearBoundary, recorded' = recorded \ Known(s),
           cursor' = cursor \/ cursor' = 0,
           \/ disk' = {} /\ erased' = erased \cup Known(s)
           \/ UNCHANGED <<disk, erased>>,
           faults' \in 0..MaxFault,
           UNCHANGED <<handler, posted, injected, received, crashes>>
    PROVE  Stops(s)
<1> DEFINE m == Reset(Interrupted(Opened(s)))
<1>1. mem' = [mem EXCEPT ![s] = m]
  OBVIOUS
<1>2. GetOrCreate(s) /\ current' \in Session \cup {NoSession} /\ commands' \in 0..MaxCommand
  BY CommandType
<1>3. /\ m \in Memory /\ m.busy = Opened(s).busy
      /\ m.interrupt = Interrupted(Opened(s)).interrupt
      /\ m.ctx = Empty /\ m.pending = {}
  BY <1>2, OpenedSilent, InterruptedType
<1> HIDE DEF m
<1>4. /\ stopped' \subseteq Input
      /\ \/ stopped' = stopped
         \/ /\ stopped' = stopped \cup {handler[s].input}
            /\ handler[s].pc \in TurnPc /\ mem'[s].interrupt
      /\ handler[s].pc \in TurnPc /\ mem[s].interrupt => m.interrupt
  BY <1>1, <1>2, <1>3, StopsOnce
<1>5. Typed
  <2>1. FilesOK' /\ InputsOK'
    BY <1>2, <1>4, KnownType DEF TypeInv, FilesOK, InputsOK
  <2>2. boundary' \in 0..posted /\ cursor' \in 0..posted
    BY SessionAssumption DEF TypeInv, BoundsOK, ClearBoundary
  <2>3. BoundsOK'
    BY <1>2, <2>2 DEF TypeInv, BoundsOK
  <2> QED BY <2>1, <2>3 DEF Typed
<1>6. SilentDisk
  BY DEF SilentDisk, Lacks
<1>7. Good(s)
  BY <1>1, <1>2, <1>3, <1>4, <1>6, OpenedSilent, NothingHeld, MemoryGood
<1> QED BY <1>4, <1>5, <1>7 DEF Stops

LEMMA ClearStep ==
    ASSUME TypeInv, NEW s \in Session, Clear(s) \/ ClearAll(s)
    PROVE  Stops(s)
<1>1. faults' \in 0..MaxFault
  BY SessionAssumption DEF Clear, ClearAll, TypeInv, BoundsOK
<1>2. CASE Clear(s)
  BY <1>1, <1>2, ResetStep DEF Clear
<1>3. CASE ClearAll(s)
  BY <1>1, <1>3, ResetStep DEF ClearAll
<1> QED BY <1>2, <1>3

LEMMA ExitStep ==
    ASSUME TypeInv, NEW s \in Session, Exit(s)
    PROVE  Step(s)
<1> DEFINE m == [Opened(s) EXCEPT !.ctx = Empty]
<1>1. /\ Command("exit", s) /\ mem' = [mem EXCEPT ![s] = m]
      /\ UNCHANGED <<handler, disk, cursor, env, ghost, crashes, faults>>
  BY DEF Exit
<1>2. GetOrCreate(s) /\ current' \in Session \cup {NoSession} /\ commands' \in 0..MaxCommand
  BY <1>1, CommandType
<1>3. /\ m \in Memory /\ m.busy = Opened(s).busy /\ m.interrupt = Opened(s).interrupt
      /\ m.ctx = Empty /\ m.pending = Opened(s).pending
  BY <1>2, OpenedType, ValueType DEF Memory
<1> HIDE DEF m
<1>4. Typed /\ Same
  <2>1. FilesOK' /\ InputsOK' /\ Same
    BY <1>1 DEF TypeInv, FilesOK, InputsOK, Same, env, ghost
  <2>2. BoundsOK'
    BY <1>1, <1>2 DEF TypeInv, BoundsOK, env
  <2> QED BY <2>1, <2>2 DEF Typed
<1>5. SilentDisk
  BY <1>1 DEF SilentDisk, Lacks
<1>6. Good(s)
  BY <1>1, <1>2, <1>3, <1>5, OpenedSilent, NothingHeld, MemoryGood
<1> QED BY <1>4, <1>6 DEF Step

LEMMA InjectStep ==
    ASSUME TypeInv, NEW s \in Session, Inject(s)
    PROVE  Step(s)
<1> DEFINE i == Limited(Opened(s).ctx.inj \cup {injected + 1})
           c == [Opened(s).ctx EXCEPT !.inj = i]
           m == [Opened(s) EXCEPT !.ctx = c]
<1>1. /\ GetOrCreate(s) /\ current' = s /\ injected < MaxInject /\ injected' = injected + 1
      /\ UNCHANGED <<handler, disk, cursor, posted, boundary, received, ghost, count>>
  BY DEF Inject
<1>2. Opened(s) \in Memory /\ Opened(s).ctx \in Context
  BY <1>1, OpenedType DEF Memory
<1>3. i \in SUBSET (1..MaxInject)
  <2>1. injected + 1 \in 1..MaxInject
    BY <1>1, SessionAssumption DEF TypeInv, BoundsOK
  <2>2. Opened(s).ctx.inj \subseteq 1..MaxInject
    BY <1>2 DEF Context
  <2> QED BY <2>1, <2>2 DEF Limited
<1>4. mem' = [mem EXCEPT ![s] = m]
  BY DEF Inject
<1> HIDE DEF i
<1>5. c \in Context /\ c.hist = Opened(s).ctx.hist
  BY <1>2, <1>3 DEF Context
<1> HIDE DEF c
<1>6. /\ m \in Memory /\ m.busy = Opened(s).busy /\ m.interrupt = Opened(s).interrupt
      /\ m.ctx = c /\ m.pending = Opened(s).pending
  BY <1>2, <1>5 DEF Memory
<1> HIDE DEF m
<1>7. Typed /\ Same
  <2>1. FilesOK' /\ InputsOK' /\ Same
    BY <1>1 DEF TypeInv, FilesOK, InputsOK, Same, ghost
  <2>2. BoundsOK'
    BY <1>1, SessionAssumption DEF TypeInv, BoundsOK, count
  <2> QED BY <2>1, <2>2 DEF Typed
<1>8. SilentDisk
  BY <1>1 DEF SilentDisk, Lacks
<1>9. Good(s)
  BY <1>1, <1>4, <1>5, <1>6, <1>8, OpenedSilent, MemoryGood
<1> QED BY <1>7, <1>9 DEF Step

LEMMA ExpireStep ==
    ASSUME TypeInv, NEW s \in Session, Expire(s)
    PROVE  Step(s)
<1>1. /\ current' = NoSession
      /\ Save(mem[s].ctx.hist) \/ NoSave
      /\ UNCHANGED <<handler, cursor, env, erased, stopped, commands, crashes>>
  BY DEF Expire, Save
<1>2. mem[s].ctx.hist \in SUBSET Item
  BY HistoryType
<1>3. SilentDisk
  BY <1>1, <1>2, LacksNow, SaveSilent
<1>4. Typed /\ Same
  <2>1. FilesOK' /\ InputsOK' /\ Same
    BY <1>1, <1>2, SaveType DEF TypeInv, FilesOK, InputsOK, Same, env
  <2>2. faults' \in 0..MaxFault
    BY <1>1, <1>2, SaveType
  <2>3. BoundsOK'
    BY <1>1, <2>2 DEF TypeInv, BoundsOK, env
  <2> QED BY <2>1, <2>3 DEF Typed
<1>5. mem[s] \in Memory /\ Cleaned(s) \in Memory /\ Cleaned(s).busy = mem[s].busy
      /\ Cleaned(s).interrupt = mem[s].interrupt /\ Cleaned(s).ctx = Empty
      /\ Cleaned(s).pending = mem[s].pending
  BY SessionType, ValueType DEF Cleaned, Memory
<1>6. PICK m \in {Absent, mem[s], Cleaned(s)} :
        /\ mem' = [mem EXCEPT ![s] = m]
        /\ (m = Absent /\ Idle(s)) \/ m = mem[s] \/ m = Cleaned(s)
  BY DEF Expire
<1>7. CASE m = Absent /\ Idle(s)
  <2>1. ~Absent.busy /\ handler[s].pc \notin TurnPc
    BY <1>7, ValueType DEF Idle, TurnPc
  <2> QED BY <1>1, <1>3, <1>4, <1>6, <1>7, <2>1, ValueType, NothingHeld, MemoryGood DEF Step
<1>8. CASE m = mem[s] \/ m = Cleaned(s)
  <2>1. /\ m \in Memory /\ m.busy = mem[s].busy /\ m.interrupt = mem[s].interrupt
        /\ m.ctx = mem[s].ctx \/ m.ctx = Empty
        /\ m.pending = mem[s].pending
    BY <1>5, <1>8
  <2>2. mem[s].busy <=> handler[s].pc \in TurnPc
    BY SessionType DEF Agree
  <2> QED BY <1>1, <1>3, <1>4, <1>6, <2>1, <2>2, LacksNow, NothingHeld, MemoryGood DEF Step
<1> QED BY <1>6, <1>7, <1>8

-----------------------------------------------------------------------------
(* Arrival, crash, and the type theorem                                    *)
\* A new message: the session may be a new object, the handler is fresh.
Arrives(u, s) ==
    /\ u \notin received /\ received' = received \cup {u}
    /\ Sound(s) /\ Kept(Input) /\ Typed
    /\ posted' = posted /\ stopped' = stopped
    /\ handler'[s].input = u

LEMMA ReceiveStep ==
    ASSUME TypeInv, NEW u \in Input, NEW s \in Session, Receive(u, s)
    PROVE  Arrives(u, s)
<1>1. Sound(s)
  BY ReceiveSound
<1>2. /\ GetOrCreate(s) /\ u \notin received /\ received' = received \cup {u} /\ current' = s
      /\ UNCHANGED <<disk, cursor, posted, boundary, injected, ghost, count>>
  BY DEF Receive
<1>3. Typed
  <2>1. FilesOK' /\ InputsOK'
    BY <1>2 DEF TypeInv, FilesOK, InputsOK, ghost
  <2>2. BoundsOK'
    BY <1>2 DEF TypeInv, BoundsOK, count
  <2> QED BY <2>1, <2>2 DEF Typed
<1>4. Opened(s) \in Memory
  BY <1>2, OpenedType
<1>5. /\ mem'[s].ctx = Opened(s).ctx /\ mem'[s].pending = Opened(s).pending
      /\ handler'[s].snap = Empty /\ handler'[s].before = Empty
      /\ handler'[s].input = u
  <2>1. CASE /\ mem' = [mem EXCEPT ![s] = Busy(Opened(s))]
             /\ handler' = [handler EXCEPT ![s] = TurnOf(u, Opened(s))]
    <3>1. mem'[s] = Busy(Opened(s)) /\ handler'[s] = TurnOf(u, Opened(s))
      BY <2>1 DEF TypeInv, SessionsOK, HandlersOK
    <3>2. /\ TurnOf(u, Opened(s)).snap = Resting.snap
          /\ TurnOf(u, Opened(s)).before = Resting.before
          /\ TurnOf(u, Opened(s)).input = u
      BY ValueType DEF TurnOf, Handler
    <3>3. Busy(Opened(s)).ctx = Opened(s).ctx /\ Busy(Opened(s)).pending = Opened(s).pending
      BY <1>4 DEF Busy, Memory
    <3> QED BY <3>1, <3>2, <3>3, NothingHeld
  <2>2. CASE /\ mem' = [mem EXCEPT ![s] = Opened(s)]
             /\ handler' = [handler EXCEPT ![s] =
                  [Resting EXCEPT !.pc = "fetch", !.input = u,
                                  !.gen = Opened(s).gen, !.target = posted]]
    <3> DEFINE h == [Resting EXCEPT !.pc = "fetch", !.input = u,
                                    !.gen = Opened(s).gen, !.target = posted]
    <3>1. mem'[s] = Opened(s) /\ handler'[s] = h
      BY <2>2 DEF TypeInv, SessionsOK, HandlersOK
    <3>2. h.snap = Resting.snap /\ h.before = Resting.before /\ h.input = u
      BY ValueType DEF Handler
    <3> HIDE DEF h
    <3> QED BY <3>1, <3>2, NothingHeld
  <2> QED BY <2>1, <2>2 DEF Receive
<1>6. ASSUME NEW v \in Input, Lacks(Out(v))
      PROVE  Lacks(Out(v))'
  <2>1. Out(v) \notin Opened(s).ctx.hist /\ Out(v) \notin Opened(s).pending
    BY <1>2, <1>6, OpenedSilent
  <2>2. LacksAt(Out(v), mem'[s], handler'[s])
    BY <1>5, <2>1, NothingHeld DEF LacksAt
  <2>3. \A t \in Session : LacksAt(Out(v), mem'[t], handler'[t])
    BY <1>1, <1>6, <2>2 DEF Sound, OnlyAt, Lacks
  <2>4. Out(v) \notin disk'
    BY <1>2, <1>6 DEF Lacks
  <2> QED BY <2>3, <2>4 DEF Lacks, Out, LacksAt
<1>7. stopped' = stopped /\ posted' = posted
  BY <1>2 DEF ghost
<1> QED BY <1>1, <1>2, <1>3, <1>5, <1>6, <1>7 DEF Arrives, Kept

\* What a step of the specification is, for the invariants.
Moves(s) == Step(s) \/ Answers(s) \/ Stops(s) \/ \E u \in Input : Arrives(u, s)

LEMMA ResumeMoves ==
    ASSUME TypeInv, NEW s \in Session, Resume(s)
    PROVE  Moves(s)
BY FetchStep, AppendPromptStep, AppendRestoreStep, AppendEntriesStep, AppendCompactStep,
   AppendCursorSavedStep, AppendCursorFailsStep, PrepStep, PreCompactionStep, ReadyStep,
   PromptStep, RestoreStep, BeginRunStep, ModelStep, MidTurnStep DEF Resume, Moves

LEMMA EnvironmentMoves ==
    ASSUME TypeInv, NEW s \in Session, Environment(s)
    PROVE  Moves(s)
BY ReceiveStep, PromptFailsStep, ModelFailsStep, MidTurnStep, StopStep, ClearStep,
   ExitStep, InjectStep, ExpireStep DEF Environment, Moves

LEMMA MovesType ==
    ASSUME TypeInv, NEW s \in Session, Moves(s)
    PROVE  TypeInv'
<1>1. Sound(s) /\ Typed /\ posted' = posted
  BY DEF Moves, Step, Answers, Stops, Arrives, Good, Same
<1> QED BY <1>1, SoundType DEF TypeInv, Typed

LEMMA PostType ==
    ASSUME TypeInv, Post
    PROVE  TypeInv'
<1>1. /\ posted < MaxRemote /\ posted' = posted + 1
      /\ UNCHANGED <<current, mem, handler, disk, cursor, boundary, injected,
                     received, ghost, count>>
  BY DEF Post
<1>2. SessionsOK' /\ HandlersOK' /\ FilesOK' /\ InputsOK'
  BY <1>1 DEF TypeInv, SessionsOK, HandlersOK, FilesOK, InputsOK, ghost
<1>3. BoundsOK'
  BY <1>1, SessionAssumption DEF TypeInv, BoundsOK, count
<1>4. BusyOK' /\ WorkOK'
  BY <1>1 DEF TypeInv, BusyOK, WorkOK
<1>5. TargetOK'
  <2>1. \A s \in Session : handler[s].target \in Int
    BY SessionType DEF Handler
  <2> QED BY <1>1, <2>1 DEF TypeInv, TargetOK, BoundsOK
<1> QED BY <1>2, <1>3, <1>4, <1>5 DEF TypeInv

LEMMA CrashType ==
    ASSUME TypeInv, Crash
    PROVE  TypeInv'
<1>1. /\ crashes < MaxCrash /\ crashes' = crashes + 1 /\ current' = NoSession
      /\ mem' = [s \in Session |-> Absent] /\ handler' = [s \in Session |-> Resting]
      /\ UNCHANGED <<disk, cursor, env, ghost, commands, faults>>
  BY DEF Crash
<1>2. SessionsOK' /\ HandlersOK'
  BY <1>1, ValueType DEF SessionsOK, HandlersOK
<1>3. FilesOK' /\ InputsOK'
  BY <1>1 DEF TypeInv, FilesOK, InputsOK, ghost, env
<1>4. BoundsOK'
  BY <1>1, SessionAssumption DEF TypeInv, BoundsOK, env
<1>5. BusyOK' /\ WorkOK' /\ TargetOK'
  BY <1>1, ValueType, SessionAssumption
  DEF BusyOK, WorkOK, TargetOK, TurnPc, env, TypeInv, BoundsOK
<1> QED BY <1>2, <1>3, <1>4, <1>5 DEF TypeInv

LEMMA StutterType ==
    ASSUME TypeInv, UNCHANGED vars
    PROVE  TypeInv'
<1>1. /\ UNCHANGED <<current, mem, handler, disk, cursor, posted, boundary, injected, received>>
      /\ UNCHANGED <<recorded, erased, stopped, commands, crashes, faults>>
  BY DEF vars, env, ghost, count
<1> QED BY <1>1 DEF TypeInv, SessionsOK, HandlersOK, FilesOK, InputsOK, BoundsOK,
                    BusyOK, WorkOK, TargetOK

LEMMA NextType == TypeInv /\ [Next]_vars => TypeInv'
<1> SUFFICES ASSUME TypeInv, [Next]_vars PROVE TypeInv'
  OBVIOUS
<1>1. CASE \E s \in Session : Resume(s) \/ Environment(s)
  BY <1>1, ResumeMoves, EnvironmentMoves, MovesType
<1>2. CASE Post
  BY <1>2, PostType
<1>3. CASE Crash
  BY <1>3, CrashType
<1>4. CASE UNCHANGED vars
  BY <1>4, StutterType
<1> QED BY <1>1, <1>2, <1>3, <1>4 DEF Next

(* In every reachable state the variables have their types (the fields of  *)
(* AgentSession, the file and the cursor of SessionStore).                 *)
THEOREM TypeCorrect == Spec => []TypeOK
<1>1. Init => TypeInv
  BY InitType
<1>2. TypeInv /\ [Next]_vars => TypeInv'
  BY NextType
<1>3. TypeInv => TypeOK
  BY TypeInvImplies
<1> QED BY <1>1, <1>2, <1>3, PTL DEF Spec

(* A session is busy exactly while a turn is suspended on it, whatever     *)
(* comes in between: the flag that handleInput and requestInterrupt test   *)
(* is neither left set by an exit from the turn nor cleared under it.      *)
THEOREM BusyWhileTurn == Spec => []BusyOK
<1>1. Init => TypeInv
  BY InitType
<1>2. TypeInv /\ [Next]_vars => TypeInv'
  BY NextType
<1>3. TypeInv => BusyOK
  BY DEF TypeInv
<1> QED BY <1>1, <1>2, <1>3, PTL DEF Spec

-----------------------------------------------------------------------------
(* A stopped turn leaves no reply.  NoStaleReply speaks of the file and of *)
(* the contexts only; what makes it inductive is that the reply is not     *)
(* waiting in a pending history, a snapshot or a rollback context either,  *)
(* that the turn of a stopped message is still interrupted if it is under  *)
(* way, and that no two handlers work on one message.                      *)
StoppedLacks == \A u \in stopped : Lacks(Out(u))
StoppedInterrupted == \A s \in Session :
    handler[s].pc \in TurnPc /\ handler[s].input \in stopped => mem[s].interrupt
HydratesUnstopped == \A s \in Session :
    handler[s].pc \in AppendPc => handler[s].input \notin stopped
WorkLacks == \A s \in Session :
    handler[s].pc # "idle" => handler[s].input \in received /\ Lacks(Out(handler[s].input))
WorkDistinct == \A s, t \in Session :
    s # t /\ handler[s].pc # "idle" /\ handler[t].pc # "idle"
        => handler[s].input # handler[t].input
UnseenLacks ==
    /\ stopped \subseteq received
    /\ \A u \in Input \ received : Lacks(Out(u))

StopInv ==
    /\ StoppedLacks /\ StoppedInterrupted /\ HydratesUnstopped
    /\ WorkLacks /\ WorkDistinct /\ UnseenLacks

LEMMA StopInvImplies == StopInv => NoStaleReply
BY DEF StopInv, StoppedLacks, NoStaleReply, Lacks, LacksAt

LEMMA InitLacks ==
    ASSUME Init, NEW x
    PROVE  Lacks(x)
<1>1. disk = {} /\ \A t \in Session : mem[t] = Absent /\ handler[t] = Resting
  BY DEF Init
<1> QED BY <1>1, NothingHeld DEF Lacks, LacksAt

LEMMA InitStop == Init => StopInv
<1> SUFFICES ASSUME Init PROVE StopInv
  OBVIOUS
<1>1. stopped = {} /\ received = {} /\ \A t \in Session : handler[t].pc = "idle"
  BY ValueType DEF Init
<1>2. StoppedLacks /\ StoppedInterrupted /\ HydratesUnstopped /\ WorkLacks /\ WorkDistinct
  BY <1>1 DEF StoppedLacks, StoppedInterrupted, HydratesUnstopped, WorkLacks,
              WorkDistinct, TurnPc, AppendPc
<1>3. UnseenLacks
  BY <1>1, InitLacks DEF UnseenLacks
<1> QED BY <1>2, <1>3 DEF StopInv

\* A handler at work is at one of the awaits of a hydration or of a turn.
LEMMA PcType ==
    /\ \A p \in Pc : p # "idle" <=> p \in TurnPc \cup AppendPc
    /\ \A p \in TurnPc : p \notin AppendPc
BY DEF Pc, TurnPc, AppendPc

\* A step that lets the handler go on with what it has, and stops nothing.
LEMMA GoodStop ==
    ASSUME TypeInv, TypeInv', StopInv, NEW s \in Session, Good(s),
           received' = received, stopped' = stopped
    PROVE  StopInv'
<1>1. \A u \in Input : Lacks(Out(u)) => Lacks(Out(u))'
  BY GoodKept DEF Kept
<1>2. \A t \in Session : t # s => mem'[t] = mem[t] /\ handler'[t] = handler[t]
  BY DEF Good, Sound, OnlyAt
<1>3. Continues(mem[s], handler[s], mem'[s], handler'[s])
  BY DEF Good
<1>4. stopped \subseteq Input /\ received \subseteq Input
  BY DEF TypeInv, InputsOK
<1>5. \A t \in Session : /\ handler[t].pc \in Pc /\ handler'[t].pc \in Pc
                         /\ handler[t].pc # "idle" => handler[t].input \in Input
  <2>1. \A t \in Session : handler[t] \in Handler /\ handler'[t] \in Handler
    BY DEF TypeInv, HandlersOK
  <2>2. \A t \in Session : handler[t].pc # "idle" => handler[t].input \in Input
    BY DEF TypeInv, WorkOK
  <2> QED BY <2>1, <2>2 DEF Handler
<1>6. StoppedLacks'
  BY <1>1, <1>4 DEF StopInv, StoppedLacks, Lacks, LacksAt, Out
<1>7. StoppedInterrupted'
  BY <1>2, <1>3, <1>5, PcType DEF StopInv, StoppedInterrupted, HydratesUnstopped, Continues
<1>8. HydratesUnstopped'
  BY <1>2, <1>3, <1>5, PcType DEF StopInv, HydratesUnstopped, Continues
<1>9. \A t \in Session : handler'[t].pc # "idle" =>
          handler[t].pc # "idle" /\ handler'[t].input = handler[t].input
  BY <1>2, <1>3 DEF Continues
<1>10. WorkLacks'
  <2> SUFFICES ASSUME NEW t \in Session, handler'[t].pc # "idle"
               PROVE  handler'[t].input \in received' /\ Lacks(Out(handler[t].input))'
    BY <1>9 DEF WorkLacks, Lacks, LacksAt, Out
  <2> QED BY <1>1, <1>5, <1>9 DEF StopInv, WorkLacks
<1>11. WorkDistinct'
  BY <1>9 DEF StopInv, WorkDistinct
<1>12. UnseenLacks'
  BY <1>1 DEF StopInv, UnseenLacks, Lacks, LacksAt, Out
<1> QED BY <1>6, <1>7, <1>8, <1>10, <1>11, <1>12 DEF StopInv

\* A step that stops the turn under way.
LEMMA StopsStop ==
    ASSUME TypeInv, TypeInv', StopInv, NEW s \in Session, Stops(s)
    PROVE  StopInv'
<1>1. CASE stopped' = stopped
  BY <1>1, GoodStop DEF Stops
<1>2. CASE /\ stopped' = stopped \cup {handler[s].input}
           /\ handler[s].pc \in TurnPc /\ mem'[s].interrupt
  <2>1. Good(s) /\ handler' = handler /\ received' = received
    BY DEF Stops
  <2>2. \A u \in Input : Lacks(Out(u)) => Lacks(Out(u))'
    BY <2>1, GoodKept DEF Kept
  <2>3. \A t \in Session : t # s => mem'[t] = mem[t]
    BY <2>1 DEF Good, Sound, OnlyAt
  <2>4. /\ handler[s].pc # "idle" /\ handler[s].input \in Input
        /\ handler[s].input \in received /\ Lacks(Out(handler[s].input))
    BY <1>2 DEF TypeInv, WorkOK, StopInv, WorkLacks, TurnPc
  <2>5. \A t \in Session : t # s /\ handler[t].pc # "idle" =>
            handler[t].input # handler[s].input
    BY <2>4 DEF StopInv, WorkDistinct
  <2>6. \A t \in Session : handler[t].pc \in TurnPc \cup AppendPc => handler[t].pc # "idle"
    BY DEF TurnPc, AppendPc
  <2>7. \A u \in stopped' : Lacks(Out(u))'
    BY <1>2, <2>2, <2>4 DEF StopInv, StoppedLacks, TypeInv, InputsOK
  <2>8. StoppedLacks'
    BY <2>7 DEF StoppedLacks, Lacks, LacksAt, Out
  <2>9. StoppedInterrupted'
    BY <1>2, <2>1, <2>3, <2>5, <2>6 DEF StopInv, StoppedInterrupted
  <2>10. HydratesUnstopped'
    <3>1. handler[s].pc \notin AppendPc
      BY <1>2 DEF TurnPc, AppendPc
    <3> QED BY <1>2, <2>1, <2>5, <2>6, <3>1 DEF StopInv, HydratesUnstopped
  <2>11. WorkLacks'
    <3>1. \A t \in Session : handler[t].pc # "idle" => Lacks(Out(handler[t].input))'
      BY <2>1, <2>2 DEF StopInv, WorkLacks, TypeInv, WorkOK
    <3> QED BY <2>1, <3>1 DEF StopInv, WorkLacks, Lacks, LacksAt, Out
  <2>12. WorkDistinct'
    BY <2>1 DEF StopInv, WorkDistinct
  <2>13. UnseenLacks'
    BY <1>2, <2>1, <2>2, <2>4 DEF StopInv, UnseenLacks, Lacks, LacksAt, Out
  <2> QED BY <2>8, <2>9, <2>10, <2>11, <2>12, <2>13 DEF StopInv
<1> QED BY <1>1, <1>2 DEF Stops

\* The answer of a turn that was not interrupted, and so is not stopped.
LEMMA AnswersStop ==
    ASSUME TypeInv, TypeInv', StopInv, NEW s \in Session, Answers(s)
    PROVE  StopInv'
<1> DEFINE u0 == handler[s].input
<1>1. /\ handler[s].pc = "model" /\ ~mem[s].interrupt /\ handler'[s].pc = "idle"
      /\ stopped' = stopped /\ received' = received
      /\ \A t \in Session : t # s => mem'[t] = mem[t] /\ handler'[t] = handler[t]
      /\ \A u \in Input \ {u0} : Lacks(Out(u)) => Lacks(Out(u))'
  BY DEF Answers, Same, Kept, Sound, OnlyAt
<1>2. u0 \in received /\ u0 \notin stopped
  <2>1. handler[s].pc \in TurnPc /\ handler[s].pc # "idle"
    BY <1>1 DEF TurnPc
  <2> QED BY <1>1, <2>1 DEF StopInv, WorkLacks, StoppedInterrupted
<1>3. \A t \in Session : t # s /\ handler[t].pc # "idle" => handler[t].input # u0
  BY <1>1 DEF StopInv, WorkDistinct
<1> HIDE DEF u0
<1>4. StoppedLacks'
  <2>1. \A u \in stopped : Lacks(Out(u))'
    BY <1>1, <1>2 DEF StopInv, StoppedLacks, TypeInv, InputsOK
  <2> QED BY <1>1, <2>1 DEF StoppedLacks, Lacks, LacksAt, Out
<1>5. StoppedInterrupted' /\ HydratesUnstopped' /\ WorkDistinct'
  BY <1>1 DEF StopInv, StoppedInterrupted, HydratesUnstopped, WorkDistinct, TurnPc, AppendPc
<1>6. WorkLacks'
  <2>1. \A t \in Session : handler'[t].pc # "idle" =>
            /\ t # s /\ handler'[t] = handler[t] /\ handler[t].input \in received
            /\ Lacks(Out(handler[t].input))'
    BY <1>1, <1>3 DEF StopInv, WorkLacks, TypeInv, WorkOK
  <2> QED BY <1>1, <2>1 DEF WorkLacks, Lacks, LacksAt, Out
<1>7. UnseenLacks'
  <2>1. \A u \in Input \ received : Lacks(Out(u))'
    BY <1>1, <1>2 DEF StopInv, UnseenLacks
  <2> QED BY <1>1, <2>1 DEF StopInv, UnseenLacks, Lacks, LacksAt, Out
<1> QED BY <1>4, <1>5, <1>6, <1>7 DEF StopInv

\* A message that no handler works on and no context knows.
LEMMA ArrivesStop ==
    ASSUME TypeInv, TypeInv', StopInv, NEW u \in Input, NEW s \in Session, Arrives(u, s)
    PROVE  StopInv'
<1>1. /\ u \notin received /\ received' = received \cup {u} /\ stopped' = stopped
      /\ handler'[s].input = u
      /\ \A t \in Session : t # s => mem'[t] = mem[t] /\ handler'[t] = handler[t]
      /\ \A v \in Input : Lacks(Out(v)) => Lacks(Out(v))'
  BY DEF Arrives, Sound, OnlyAt, Kept
<1>2. u \notin stopped /\ Lacks(Out(u))'
  BY <1>1 DEF StopInv, UnseenLacks
<1>3. StoppedLacks'
  <2>1. \A v \in stopped : Lacks(Out(v))'
    BY <1>1 DEF StopInv, StoppedLacks, TypeInv, InputsOK
  <2> QED BY <1>1, <2>1 DEF StoppedLacks, Lacks, LacksAt, Out
<1>4. StoppedInterrupted' /\ HydratesUnstopped'
  BY <1>1, <1>2 DEF StopInv, StoppedInterrupted, HydratesUnstopped
<1>5. WorkLacks'
  <2> SUFFICES ASSUME NEW t \in Session, handler'[t].pc # "idle"
               PROVE  handler'[t].input \in received' /\ Lacks(Out(handler[t].input))'
    BY DEF WorkLacks, Lacks, LacksAt, Out
  <2>1. CASE t = s
    BY <1>1, <1>2, <2>1 DEF Lacks, LacksAt, Out
  <2>2. CASE t # s
    <3>1. /\ handler'[t] = handler[t] /\ handler[t].input \in received
          /\ handler[t].input \in Input /\ Lacks(Out(handler[t].input))
      BY <1>1, <2>2 DEF StopInv, WorkLacks, TypeInv, WorkOK
    <3>2. Lacks(Out(handler[t].input))'
      <4>1. \A v \in Input : Lacks(Out(v)) =>
                /\ Out(v) \notin disk'
                /\ \A r \in Session : LacksAt(Out(v), mem'[r], handler'[r])
        BY <1>1 DEF Lacks, LacksAt, Out
      <4> QED BY <3>1, <4>1 DEF Lacks, LacksAt, Out
    <3> QED BY <1>1, <3>1, <3>2
  <2> QED BY <2>1, <2>2
<1>6. WorkDistinct'
  BY <1>1 DEF StopInv, WorkDistinct, WorkLacks
<1>7. UnseenLacks'
  BY <1>1 DEF StopInv, UnseenLacks, Lacks, LacksAt, Out
<1> QED BY <1>3, <1>4, <1>5, <1>6, <1>7 DEF StopInv

LEMMA MovesStop ==
    ASSUME TypeInv, TypeInv', StopInv, NEW s \in Session, Moves(s)
    PROVE  StopInv'
<1>1. CASE Step(s)
  BY <1>1, GoodStop DEF Step, Same
<1> QED BY <1>1, AnswersStop, StopsStop, ArrivesStop DEF Moves

LEMMA CrashStop ==
    ASSUME TypeInv, StopInv, Crash
    PROVE  StopInv'
<1>1. /\ mem' = [t \in Session |-> Absent] /\ handler' = [t \in Session |-> Resting]
      /\ disk' = disk /\ stopped' = stopped /\ received' = received
  BY DEF Crash, env, ghost
<1>2. \A t \in Session : handler'[t].pc = "idle"
  BY <1>1, ValueType
<1>3. ASSUME NEW u \in Input, Lacks(Out(u))
      PROVE  Lacks(Out(u))'
  <2>1. \A t \in Session : LacksAt(Out(u), mem'[t], handler'[t])
    BY <1>1, NothingHeld DEF LacksAt
  <2> QED BY <1>1, <1>3, <2>1 DEF Lacks, LacksAt, Out
<1>4. StoppedLacks'
  <2>1. \A u \in stopped : Lacks(Out(u))'
    BY <1>3 DEF StopInv, StoppedLacks, TypeInv, InputsOK
  <2> QED BY <1>1, <2>1 DEF StoppedLacks, Lacks, LacksAt, Out
<1>5. StoppedInterrupted' /\ HydratesUnstopped' /\ WorkLacks' /\ WorkDistinct'
  BY <1>2 DEF StoppedInterrupted, HydratesUnstopped, WorkLacks, WorkDistinct, TurnPc, AppendPc
<1>6. UnseenLacks'
  <2>1. \A u \in Input \ received : Lacks(Out(u))'
    BY <1>3 DEF StopInv, UnseenLacks
  <2> QED BY <1>1, <2>1 DEF StopInv, UnseenLacks, Lacks, LacksAt, Out
<1> QED BY <1>4, <1>5, <1>6 DEF StopInv

LEMMA NextStop == TypeInv /\ StopInv /\ [Next]_vars => StopInv'
<1> SUFFICES ASSUME TypeInv, StopInv, [Next]_vars PROVE StopInv'
  OBVIOUS
<1>1. TypeInv'
  BY NextType
<1>2. CASE \E s \in Session : Resume(s) \/ Environment(s)
  BY <1>1, <1>2, ResumeMoves, EnvironmentMoves, MovesStop
<1>3. CASE Crash
  BY <1>3, CrashStop
<1>4. CASE Post \/ UNCHANGED vars
  <2>1. UNCHANGED <<mem, handler, disk, stopped, received>>
    BY <1>4 DEF Post, vars, env, ghost
  <2> QED BY <2>1 DEF StopInv, StoppedLacks, StoppedInterrupted, HydratesUnstopped,
             WorkLacks, WorkDistinct, UnseenLacks, Lacks
<1> QED BY <1>2, <1>3, <1>4 DEF Next

(* Whatever is interleaved with a turn (a stop, a clear, an expiry, a      *)
(* crash, a second object of the same key), the reply of a turn that was   *)
(* stopped before its result is in no context of a session and not in the  *)
(* file (the interrupt checks after the awaits of handleInput).            *)
THEOREM NoStaleReplyHolds == Spec => []NoStaleReply
<1>1. Init => TypeInv /\ StopInv
  BY InitType, InitStop
<1>2. TypeInv /\ StopInv /\ [Next]_vars => (TypeInv /\ StopInv)'
  BY NextType, NextStop
<1>3. TypeInv /\ StopInv => NoStaleReply
  BY StopInvImplies
<1> QED BY <1>1, <1>2, <1>3, PTL DEF Spec
=============================================================================
