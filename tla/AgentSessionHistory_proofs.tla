---------------------- MODULE AgentSessionHistory_proofs ----------------------
(***************************************************************************)
(* Theorems about the history of a conversation (AgentSession), each for   *)
(* any number of session objects, messages, commands, crashes and failures *)
(* and for the environments its hypothesis names:                          *)
(*  - the model is never asked without its system prompt;                  *)
(*  - what a clear erased never comes back;                                *)
(*  - what was written stays, and the remote cursor skips nothing.         *)
(***************************************************************************)
EXTENDS AgentSession_proofs

\* The session is still in the generation in which its handler started.
Fresh(m, h) == m.gen = h.gen

\* The awaits at which the handler holds a copy of the context.
Copying == {"pre", "restore", "aRestore", "aCompact", "aCursor", "model", "status"}

-----------------------------------------------------------------------------
(* What the steps do to the session object and its handler                 *)

\* The object keeps its generation, its flags and its pending history.
SameObject(m, m2) ==
    /\ m2.gen = m.gen /\ m2.interrupt = m.interrupt
    /\ m2.initialized = m.initialized /\ m2.pending = m.pending

\* The handler goes on at p with the copy snap, the object's context is ctx.
Becomes(s, p, ctx, snap) ==
    /\ OnlyAt(s) /\ SameObject(mem[s], mem'[s]) /\ mem'[s].ctx = ctx
    /\ handler'[s].pc = p /\ handler'[s].snap = snap
    /\ handler'[s].gen = handler[s].gen /\ handler'[s].input = handler[s].input
    /\ handler'[s].target = handler[s].target /\ handler'[s].before = handler[s].before

\* The handler is done and leaves the context ctx, on an object that may be given up.
Rests(s, ctx) ==
    /\ OnlyAt(s) /\ handler'[s] = Resting
    /\ \/ current # s /\ mem'[s] = Absent
       \/ current = s /\ SameObject(mem[s], mem'[s]) /\ mem'[s].ctx = ctx

LEMMA Updated ==
    ASSUME TypeInv, NEW s \in Session, NEW m, NEW h,
           mem' = [mem EXCEPT ![s] = m], handler' = [handler EXCEPT ![s] = h]
    PROVE  OnlyAt(s) /\ mem'[s] = m /\ handler'[s] = h
BY DEF TypeInv, SessionsOK, HandlersOK, OnlyAt

LEMMA ContextFields ==
    ASSUME TypeInv, NEW s \in Session, NEW c
    PROVE  LET m == [mem[s] EXCEPT !.ctx = c]
           IN SameObject(mem[s], m) /\ m.ctx = c
BY SessionType DEF Memory, SameObject

\* The handler moves on and nothing is copied.
LEMMA GotoBecomes ==
    ASSUME TypeInv, NEW s \in Session, NEW p, mem' = mem,
           handler' = [handler EXCEPT ![s].pc = p]
    PROVE  Becomes(s, p, mem[s].ctx, handler[s].snap)
<1> DEFINE h == [handler[s] EXCEPT !.pc = p]
<1>1. /\ h.pc = p /\ h.gen = handler[s].gen /\ h.input = handler[s].input
      /\ h.target = handler[s].target /\ h.snap = handler[s].snap
      /\ h.before = handler[s].before
  BY SessionType DEF Handler
<1>2. handler' = [handler EXCEPT ![s] = h]
  OBVIOUS
<1> HIDE DEF h
<1>3. OnlyAt(s) /\ mem'[s] = mem[s] /\ handler'[s] = h
  BY <1>2 DEF TypeInv, HandlersOK, OnlyAt
<1> QED BY <1>1, <1>3 DEF Becomes, SameObject

\* The handler moves on with a copy, and the context is ctx.
LEMMA CopyBecomes ==
    ASSUME TypeInv, NEW s \in Session, NEW p, NEW c, NEW snap,
           mem' = [mem EXCEPT ![s].ctx = c],
           handler' = [handler EXCEPT ![s].pc = p, ![s].snap = snap]
    PROVE  Becomes(s, p, c, snap)
<1> DEFINE h == [handler[s] EXCEPT !.pc = p, !.snap = snap]
           m == [mem[s] EXCEPT !.ctx = c]
<1>1. /\ h.pc = p /\ h.gen = handler[s].gen /\ h.input = handler[s].input
      /\ h.target = handler[s].target /\ h.snap = snap /\ h.before = handler[s].before
  BY SessionType DEF Handler
<1>2. SameObject(mem[s], m) /\ m.ctx = c
  BY ContextFields
<1>3. mem' = [mem EXCEPT ![s] = m] /\ handler' = [handler EXCEPT ![s] = h]
  BY SessionType DEF TypeInv, HandlersOK, Handler
<1> HIDE DEF h, m
<1>4. OnlyAt(s) /\ mem'[s] = m /\ handler'[s] = h
  BY <1>3 DEF TypeInv, SessionsOK, HandlersOK, OnlyAt
<1> QED BY <1>1, <1>2, <1>4 DEF Becomes

LEMMA CollectedRests ==
    ASSUME TypeInv, NEW s \in Session, NEW m, NEW c, SameObject(mem[s], m), m.ctx = c,
           mem' = [mem EXCEPT ![s] = Collected(s, m)],
           handler' = [handler EXCEPT ![s] = Resting]
    PROVE  Rests(s, c)
<1>1. OnlyAt(s) /\ mem'[s] = Collected(s, m) /\ handler'[s] = Resting
  BY Updated
<1> QED BY <1>1 DEF Rests, Collected

LEMMA AbandonRests ==
    ASSUME TypeInv, NEW s \in Session, Abandon(s)
    PROVE  Rests(s, mem[s].ctx)
<1>1. mem' = [mem EXCEPT ![s] = Collected(s, mem[s])] /\ handler' = [handler EXCEPT ![s] = Resting]
  BY DEF Abandon
<1> QED BY <1>1, CollectedRests DEF SameObject

LEMMA FinishRests ==
    ASSUME TypeInv, NEW s \in Session, NEW c, Finish(s, c)
    PROVE  Rests(s, c)
<1> DEFINE m == [mem[s] EXCEPT !.ctx = c, !.busy = FALSE]
<1>1. SameObject(mem[s], m) /\ m.ctx = c
  BY SessionType DEF Memory, SameObject
<1>2. mem' = [mem EXCEPT ![s] = Collected(s, m)] /\ handler' = [handler EXCEPT ![s] = Resting]
  BY DEF Finish
<1> HIDE DEF m
<1> QED BY <1>1, <1>2, CollectedRests

\* The hydration takes its entries back.
LEMMA RollbackRests ==
    ASSUME TypeInv, NEW s \in Session, NEW c,
           mem' = [mem EXCEPT ![s] = Collected(s, [@ EXCEPT !.ctx = c])],
           handler' = [handler EXCEPT ![s] = Resting]
    PROVE  Rests(s, c)
<1> DEFINE m == [mem[s] EXCEPT !.ctx = c]
<1>1. SameObject(mem[s], m) /\ m.ctx = c
  BY ContextFields
<1>2. mem' = [mem EXCEPT ![s] = Collected(s, m)]
  OBVIOUS
<1> HIDE DEF m
<1> QED BY <1>1, <1>2, CollectedRests

LEMMA FetchEffect ==
    ASSUME TypeInv, NEW s \in Session, FetchReturns(s)
    PROVE  /\ handler[s].pc = "fetch"
           /\ UNCHANGED <<current, disk, cursor, env, ghost, count>>
           /\ \/ ~Fresh(mem[s], handler[s]) /\ Rests(s, mem[s].ctx)
              \/ /\ Fresh(mem[s], handler[s])
                 /\ Becomes(s, IF mem[s].initialized THEN "aEntries" ELSE "aPrompt",
                            mem[s].ctx, handler[s].snap)
<1>1. CASE Stale(s)
  BY <1>1, AbandonRests DEF FetchReturns, Stale, Fresh, At
<1>2. CASE ~Stale(s)
  BY <1>2, GotoBecomes DEF FetchReturns, Stale, Fresh, At
<1> QED BY <1>1, <1>2

\* init() takes the pending history into the context, under one more system prompt.
Initializes(s, p) ==
    /\ OnlyAt(s)
    /\ mem'[s].gen = mem[s].gen /\ mem'[s].interrupt = mem[s].interrupt
    /\ mem'[s].initialized = TRUE /\ mem'[s].pending = {}
    /\ mem'[s].ctx.sys = mem[s].ctx.sys + 1
    /\ mem'[s].ctx.hist = mem[s].ctx.hist \cup mem[s].pending
    /\ handler'[s].pc = p
    /\ handler'[s].gen = handler[s].gen /\ handler'[s].input = handler[s].input
    /\ handler'[s].target = handler[s].target /\ handler'[s].before = handler[s].before

LEMMA InitializedFields ==
    ASSUME TypeInv, NEW s \in Session
    PROVE  LET m == Initialized(mem[s])
           IN /\ m.gen = mem[s].gen /\ m.interrupt = mem[s].interrupt
              /\ m.initialized = TRUE /\ m.pending = {}
              /\ m.ctx.sys = mem[s].ctx.sys + 1
              /\ m.ctx.hist = mem[s].ctx.hist \cup mem[s].pending
<1> DEFINE c == [sys |-> mem[s].ctx.sys + 1, hist |-> mem[s].ctx.hist \cup mem[s].pending,
                 inj |-> {}]
<1>1. Initialized(mem[s]) = [mem[s] EXCEPT !.initialized = TRUE, !.ctx = c, !.pending = {}]
  BY SessionType DEF Initialized, Memory
<1>2. c.sys = mem[s].ctx.sys + 1 /\ c.hist = mem[s].ctx.hist \cup mem[s].pending
  OBVIOUS
<1> HIDE DEF c
<1> QED BY <1>1, <1>2, SessionType DEF Memory

LEMMA AgainFields ==
    ASSUME NEW m \in Memory, NEW h
    PROVE  LET m2 == InjectedAgain(m, h)
           IN SameObject(m, m2) /\ m2.ctx.sys = m.ctx.sys /\ m2.ctx.hist = m.ctx.hist
<1> DEFINE c == [m.ctx EXCEPT !.inj = @ \cup h.inj]
<1>1. c.sys = m.ctx.sys /\ c.hist = m.ctx.hist
  BY DEF Memory, Context
<1>2. InjectedAgain(m, h) = [m EXCEPT !.ctx = c]
  BY DEF InjectedAgain
<1> HIDE DEF c
<1> QED BY <1>1, <1>2 DEF Memory, SameObject

LEMMA InitEffect ==
    ASSUME TypeInv, NEW s \in Session, NEW waiting, NEW done, InitResumes(s, waiting, done)
    PROVE  \/ Dropped(s) /\ Becomes(s, done, mem[s].ctx, handler[s].snap)
           \/ /\ ~Dropped(s)
              /\ \/ Initializes(s, done) /\ handler'[s].snap = handler[s].snap
                 \/ Initializes(s, waiting) /\ handler'[s].snap = mem'[s].ctx
<1>1. CASE Dropped(s)
  BY <1>1, GotoBecomes DEF InitResumes
<1> DEFINE m == Initialized(mem[s])
           h == [handler[s] EXCEPT !.inj = mem[s].ctx.inj]
<1>2. CASE /\ mem' = [mem EXCEPT ![s] = InjectedAgain(m, h)]
           /\ handler' = [handler EXCEPT ![s].pc = done]
  <2> DEFINE h2 == [handler[s] EXCEPT !.pc = done]
             m2 == InjectedAgain(m, h)
  <2>1. /\ h2.pc = done /\ h2.gen = handler[s].gen /\ h2.input = handler[s].input
        /\ h2.target = handler[s].target /\ h2.before = handler[s].before
        /\ h2.snap = handler[s].snap
    BY SessionType DEF Handler
  <2>2. m \in Memory
    BY SessionType, InitializedType
  <2>3. SameObject(m, m2) /\ m2.ctx.sys = m.ctx.sys /\ m2.ctx.hist = m.ctx.hist
    <3> HIDE DEF m, h
    <3> QED BY <2>2, AgainFields
  <2>4. mem' = [mem EXCEPT ![s] = m2] /\ handler' = [handler EXCEPT ![s] = h2]
    BY <1>2
  <2> HIDE DEF h2, m2
  <2>5. OnlyAt(s) /\ mem'[s] = m2 /\ handler'[s] = h2
    BY <2>4, Updated
  <2>6. Initializes(s, done) /\ handler'[s].snap = handler[s].snap
    BY <2>1, <2>3, <2>5, InitializedFields DEF Initializes, SameObject
  <2>7. CASE Dropped(s)
    BY <1>1, <2>7
  <2> QED BY <2>6, <2>7
<1>3. CASE /\ mem' = [mem EXCEPT ![s] = m]
           /\ handler' = [handler EXCEPT ![s] = [h EXCEPT !.pc = waiting, !.snap = m.ctx]]
  <2> DEFINE h2 == [h EXCEPT !.pc = waiting, !.snap = m.ctx]
  <2>1. /\ h2.pc = waiting /\ h2.gen = handler[s].gen /\ h2.input = handler[s].input
        /\ h2.target = handler[s].target /\ h2.before = handler[s].before /\ h2.snap = m.ctx
    <3> HIDE DEF m
    <3> QED BY SessionType DEF Handler
  <2>2. mem' = [mem EXCEPT ![s] = m] /\ handler' = [handler EXCEPT ![s] = h2]
    BY <1>3
  <2> HIDE DEF h2
  <2>3. OnlyAt(s) /\ mem'[s] = m /\ handler'[s] = h2
    <3> HIDE DEF m
    <3> QED BY <2>2, Updated
  <2>4. Initializes(s, waiting) /\ handler'[s].snap = mem'[s].ctx
    BY <2>1, <2>3, InitializedFields DEF Initializes
  <2>5. CASE Dropped(s)
    BY <1>1, <2>5
  <2> QED BY <2>4, <2>5
<1> QED BY <1>1, <1>2, <1>3 DEF InitResumes

LEMMA RestoreEffect ==
    ASSUME TypeInv, NEW s \in Session, NEW done, RestoreResumes(s, done)
    PROVE  \/ Dropped(s) /\ NoSave /\ Becomes(s, done, mem[s].ctx, Empty)
           \/ /\ ~Dropped(s)
              /\ Save(handler[s].snap.hist) \/ NoSave
              /\ Becomes(s, done, mem'[s].ctx, Empty)
              /\ mem'[s].ctx.sys = handler[s].snap.sys
              /\ mem'[s].ctx.hist = handler[s].snap.hist
<1> DEFINE h == [handler[s] EXCEPT !.pc = done, !.snap = Empty, !.inj = {}]
           m == [mem[s] EXCEPT !.ctx = handler[s].snap]
           m2 == InjectedAgain(m, handler[s])
<1>1. /\ h.pc = done /\ h.gen = handler[s].gen /\ h.input = handler[s].input
      /\ h.target = handler[s].target /\ h.before = handler[s].before /\ h.snap = Empty
  BY SessionType DEF Handler
<1>2. handler' = [handler EXCEPT ![s] = h]
  BY SessionType DEF RestoreResumes, Handler
<1>3. CASE Dropped(s)
  <2>1. NoSave /\ mem' = mem
    BY <1>3 DEF RestoreResumes
  <2> HIDE DEF h
  <2>2. OnlyAt(s) /\ mem'[s] = mem[s] /\ handler'[s] = h
    BY <1>2, <2>1 DEF TypeInv, HandlersOK, OnlyAt
  <2> QED BY <1>1, <1>3, <2>1, <2>2 DEF Becomes, SameObject
<1>4. CASE ~Dropped(s)
  <2>1. (Save(handler[s].snap.hist) \/ NoSave) /\ mem' = [mem EXCEPT ![s] = m2]
    BY <1>4 DEF RestoreResumes
  <2>2. m \in Memory /\ SameObject(mem[s], m) /\ m.ctx = handler[s].snap
    BY SessionType, HistoryType DEF Memory, SameObject
  <2> HIDE DEF h, m
  <2>3. SameObject(m, m2) /\ m2.ctx.sys = m.ctx.sys /\ m2.ctx.hist = m.ctx.hist
    BY <2>2, AgainFields
  <2> HIDE DEF m2
  <2>4. OnlyAt(s) /\ mem'[s] = m2 /\ handler'[s] = h
    BY <1>2, <2>1, Updated
  <2> QED BY <1>1, <1>4, <2>1, <2>2, <2>3, <2>4 DEF Becomes, SameObject
<1> QED BY <1>3, <1>4

LEMMA EntriesEffect ==
    ASSUME TypeInv, NEW s \in Session, AppendEntries(s)
    PROVE  /\ handler[s].pc = "aEntries"
           /\ UNCHANGED <<current, disk, cursor, env, ghost, count>>
           /\ \/ ~Fresh(mem[s], handler[s]) /\ Rests(s, mem[s].ctx)
              \/ /\ Fresh(mem[s], handler[s])
                 /\ OnlyAt(s) /\ SameObject(mem[s], mem'[s])
                 /\ mem'[s].ctx.sys = mem[s].ctx.sys
                 /\ mem'[s].ctx.hist = mem[s].ctx.hist \cup Fetched(s)
                 /\ handler'[s].snap = mem'[s].ctx /\ handler'[s].before = mem[s].ctx
                 /\ handler'[s].pc = IF Fetched(s) \subseteq mem[s].ctx.hist
                                     THEN "aCursor" ELSE "aCompact"
                 /\ handler'[s].gen = handler[s].gen /\ handler'[s].input = handler[s].input
                 /\ handler'[s].target = handler[s].target
<1>1. CASE Stale(s)
  BY <1>1, AbandonRests DEF AppendEntries, Stale, Fresh, At
<1>2. CASE ~Stale(s)
  <2> DEFINE new == Fetched(s) \ mem[s].ctx.hist
             c == [mem[s].ctx EXCEPT !.hist = @ \cup new]
             p == IF new = {} THEN "aCursor" ELSE "aCompact"
             m == [mem[s] EXCEPT !.ctx = c]
             h == [handler[s] EXCEPT !.pc = p, !.snap = c, !.before = mem[s].ctx]
  <2>1. /\ mem' = [mem EXCEPT ![s].ctx = c]
        /\ handler' = [handler EXCEPT ![s].pc = p, ![s].snap = c, ![s].before = mem[s].ctx]
    BY <1>2 DEF AppendEntries
  <2>2. c.sys = mem[s].ctx.sys /\ c.hist = mem[s].ctx.hist \cup Fetched(s)
    <3>1. c.sys = mem[s].ctx.sys /\ c.hist = mem[s].ctx.hist \cup new
      <4> HIDE DEF new
      <4> QED BY HistoryType DEF Context
    <3> QED BY <3>1
  <2>3. p = IF Fetched(s) \subseteq mem[s].ctx.hist THEN "aCursor" ELSE "aCompact"
    OBVIOUS
  <2> HIDE DEF c, p
  <2>4. SameObject(mem[s], m) /\ m.ctx = c
    BY ContextFields
  <2>5. /\ h.pc = p /\ h.gen = handler[s].gen /\ h.input = handler[s].input
        /\ h.target = handler[s].target /\ h.snap = c /\ h.before = mem[s].ctx
    BY SessionType DEF Handler
  <2>6. mem' = [mem EXCEPT ![s] = m] /\ handler' = [handler EXCEPT ![s] = h]
    BY <2>1, SessionType DEF TypeInv, HandlersOK, Handler
  <2> HIDE DEF m, h
  <2>7. OnlyAt(s) /\ mem'[s] = m /\ handler'[s] = h
    BY <2>6, Updated
  <2> QED BY <1>2, <2>2, <2>3, <2>4, <2>5, <2>7 DEF AppendEntries, Stale, Fresh, At
<1> QED BY <1>1, <1>2

LEMMA CompactEffect ==
    ASSUME TypeInv, NEW s \in Session, AppendCompactReturns(s)
    PROVE  /\ handler[s].pc = "aCompact"
           /\ UNCHANGED <<current, cursor, env, erased, stopped, commands, crashes>>
           /\ \/ ~Fresh(mem[s], handler[s]) /\ Rests(s, mem[s].ctx) /\ NoSave
              \/ /\ Fresh(mem[s], handler[s])
                 /\ SaveOk(handler[s].snap.hist)
                 /\ Becomes(s, "aCursor", handler[s].snap, handler[s].snap)
              \/ /\ Fresh(mem[s], handler[s])
                 /\ SaveFails /\ Rests(s, handler[s].before)
<1>1. CASE Stale(s)
  BY <1>1, AbandonRests DEF AppendCompactReturns, Stale, Fresh, At
<1>2. CASE /\ ~Stale(s) /\ SaveOk(handler[s].snap.hist)
           /\ mem' = [mem EXCEPT ![s].ctx = handler[s].snap]
           /\ handler' = [handler EXCEPT ![s].pc = "aCursor"]
  <2>1. handler' = [handler EXCEPT ![s].pc = "aCursor", ![s].snap = handler[s].snap]
    BY <1>2, SessionType DEF TypeInv, HandlersOK, Handler
  <2>2. Becomes(s, "aCursor", handler[s].snap, handler[s].snap)
    BY <1>2, <2>1, CopyBecomes
  <2> QED BY <1>2, <2>2 DEF AppendCompactReturns, Stale, Fresh, At
<1>3. CASE /\ ~Stale(s) /\ SaveFails
           /\ mem' = [mem EXCEPT ![s] = Collected(s, [@ EXCEPT !.ctx = handler[s].before])]
           /\ handler' = [handler EXCEPT ![s] = Resting]
  BY <1>3, RollbackRests DEF AppendCompactReturns, Stale, Fresh, At
<1> QED BY <1>1, <1>2, <1>3 DEF AppendCompactReturns

\* A turn begins: the session is busy and nobody has interrupted it.
TurnBegins(s, u, m) ==
    /\ OnlyAt(s)
    /\ mem'[s].ctx = m.ctx /\ mem'[s].gen = m.gen /\ mem'[s].interrupt = FALSE
    /\ mem'[s].initialized = m.initialized /\ mem'[s].pending = m.pending
    /\ handler'[s].pc = "prep" /\ handler'[s].gen = m.gen /\ handler'[s].input = u
    /\ handler'[s].target = 0 /\ handler'[s].snap = Empty /\ handler'[s].before = Empty

LEMMA BusyBegins ==
    ASSUME TypeInv, NEW s \in Session, NEW u, NEW m \in Memory,
           mem' = [mem EXCEPT ![s] = Busy(m)],
           handler' = [handler EXCEPT ![s] = TurnOf(u, m)]
    PROVE  TurnBegins(s, u, m)
<1>1. OnlyAt(s) /\ mem'[s] = Busy(m) /\ handler'[s] = TurnOf(u, m)
  BY Updated
<1>2. /\ Busy(m).ctx = m.ctx /\ Busy(m).gen = m.gen /\ Busy(m).interrupt = FALSE
      /\ Busy(m).initialized = m.initialized /\ Busy(m).pending = m.pending
  BY DEF Busy, Memory
<1>3. /\ TurnOf(u, m).pc = "prep" /\ TurnOf(u, m).gen = m.gen /\ TurnOf(u, m).input = u
      /\ TurnOf(u, m).target = 0
      /\ TurnOf(u, m).snap = Empty /\ TurnOf(u, m).before = Empty
  BY ValueType, NothingHeld DEF TurnOf, Handler
<1> QED BY <1>1, <1>2, <1>3 DEF TurnBegins

LEMMA CursorSavedEffect ==
    ASSUME TypeInv, NEW s \in Session, AppendCursorSaved(s)
    PROVE  /\ handler[s].pc = "aCursor" /\ TurnBegins(s, handler[s].input, mem[s])
           /\ cursor' = IF handler[s].target > cursor THEN handler[s].target ELSE cursor
           /\ NoSave /\ UNCHANGED <<current, env, erased, stopped, commands, crashes>>
<1>1. mem' = [mem EXCEPT ![s] = Busy(mem[s])]
  BY DEF AppendCursorSaved, StartTurn
<1>2. handler' = [handler EXCEPT ![s] = TurnOf(handler[s].input, mem[s])]
  BY DEF AppendCursorSaved, StartTurn
<1> QED BY <1>1, <1>2, SessionType, BusyBegins DEF AppendCursorSaved, At

LEMMA CursorFailsEffect ==
    ASSUME TypeInv, NEW s \in Session, AppendCursorFails(s)
    PROVE  /\ handler[s].pc = "aCursor" /\ Rests(s, handler[s].before)
           /\ UNCHANGED <<current, cursor, env, erased, stopped, commands, crashes>>
           /\ recorded' = recorded \ (handler[s].snap.hist \ handler[s].before.hist)
           /\ \/ disk' = disk
              \/ disk' = handler[s].before.hist
BY RollbackRests DEF AppendCursorFails, At

LEMMA CancelEffect ==
    ASSUME TypeInv, NEW s \in Session, Cancel(s)
    PROVE  /\ Rests(s, mem[s].ctx)
           /\ IF Fresh(mem[s], handler[s]) THEN Save(mem[s].ctx.hist) ELSE NoSave
           /\ UNCHANGED <<current, cursor, env, erased, stopped, commands, crashes>>
BY FinishRests DEF Cancel, Stale, Fresh

LEMMA PrepEffect ==
    ASSUME TypeInv, NEW s \in Session, PrepReturns(s)
    PROVE  /\ handler[s].pc = "prep"
           /\ UNCHANGED <<current, disk, cursor, env, ghost, count>>
           /\ mem'[s].ctx.hist = mem[s].ctx.hist
           /\ \/ mem'[s].ctx = mem[s].ctx
              \/ mem[s].initialized /\ mem[s].ctx.sys = 0 /\ mem'[s].ctx.sys = 1
           /\ \/ Becomes(s, "ready", mem'[s].ctx, handler[s].snap)
              \/ mem'[s].ctx.hist # {} /\ Becomes(s, "pre", mem'[s].ctx, mem'[s].ctx)
<1>1. PICK reload \in {FALSE, "reload" \in Event} :
          LET m == mem[s]
              ctx == IF reload /\ m.initialized /\ ~Dropped(s) /\ m.ctx.sys = 0
                     THEN [m.ctx EXCEPT !.sys = 1] ELSE m.ctx
          IN /\ mem' = [mem EXCEPT ![s].ctx = ctx]
             /\ \/ handler' = [handler EXCEPT ![s].pc = "ready"]
                \/ /\ ctx.hist # {}
                   /\ handler' = [handler EXCEPT ![s].pc = "pre", ![s].snap = ctx]
  BY DEF PrepReturns
<1> DEFINE c == IF reload /\ mem[s].initialized /\ ~Dropped(s) /\ mem[s].ctx.sys = 0
                THEN [mem[s].ctx EXCEPT !.sys = 1] ELSE mem[s].ctx
<1>2. /\ c.hist = mem[s].ctx.hist
      /\ \/ c = mem[s].ctx
         \/ mem[s].initialized /\ mem[s].ctx.sys = 0 /\ c.sys = 1
  BY HistoryType DEF Context
<1>3. /\ mem' = [mem EXCEPT ![s].ctx = c]
      /\ \/ handler' = [handler EXCEPT ![s].pc = "ready"]
         \/ c.hist # {} /\ handler' = [handler EXCEPT ![s].pc = "pre", ![s].snap = c]
  BY <1>1
<1> HIDE DEF c
<1>4. CASE handler' = [handler EXCEPT ![s].pc = "ready"]
  <2>1. handler' = [handler EXCEPT ![s].pc = "ready", ![s].snap = handler[s].snap]
    BY <1>4, SessionType DEF TypeInv, HandlersOK, Handler
  <2>2. Becomes(s, "ready", c, handler[s].snap)
    BY <1>3, <2>1, CopyBecomes
  <2> QED BY <1>2, <2>2 DEF PrepReturns, At, Becomes
<1>5. CASE c.hist # {} /\ handler' = [handler EXCEPT ![s].pc = "pre", ![s].snap = c]
  <2>1. Becomes(s, "pre", c, c)
    BY <1>3, <1>5, CopyBecomes
  <2> QED BY <1>2, <1>5, <2>1 DEF PrepReturns, At, Becomes
<1> QED BY <1>3, <1>4, <1>5

LEMMA PreEffect ==
    ASSUME TypeInv, NEW s \in Session, PreCompactionReturns(s)
    PROVE  /\ handler[s].pc = "pre"
           /\ \/ mem[s].interrupt /\ Cancel(s)
              \/ /\ ~mem[s].interrupt
                 /\ Save(handler[s].snap.hist) \/ NoSave
                 /\ Becomes(s, "ready", handler[s].snap, Empty)
                 /\ UNCHANGED <<current, cursor, env, erased, stopped, commands, crashes>>
BY CopyBecomes DEF PreCompactionReturns, At

LEMMA ReadyEffect ==
    ASSUME TypeInv, NEW s \in Session, Ready(s)
    PROVE  /\ handler[s].pc = "ready"
           /\ \/ mem[s].interrupt /\ Cancel(s)
              \/ /\ ~mem[s].interrupt
                 /\ Becomes(s, IF mem[s].initialized THEN "run" ELSE "prompt",
                            mem[s].ctx, handler[s].snap)
                 /\ UNCHANGED <<current, disk, cursor, env, ghost, count>>
<1>1. CASE mem[s].interrupt
  BY <1>1 DEF Ready, At
<1>2. CASE ~mem[s].interrupt
  <2> DEFINE p == IF mem[s].initialized THEN "run" ELSE "prompt"
  <2>1. mem' = mem /\ handler' = [handler EXCEPT ![s].pc = p]
    BY <1>2 DEF Ready
  <2> HIDE DEF p
  <2>2. Becomes(s, p, mem[s].ctx, handler[s].snap)
    BY <2>1, GotoBecomes
  <2> QED BY <1>2, <2>2 DEF Ready, At, p
<1> QED BY <1>1, <1>2

LEMMA RunEffect ==
    ASSUME TypeInv, NEW s \in Session, BeginRun(s)
    PROVE  /\ handler[s].pc = "run"
           /\ \/ mem[s].interrupt /\ Cancel(s)
              \/ /\ ~mem[s].interrupt
                 /\ Becomes(s, "model", mem'[s].ctx, mem'[s].ctx)
                 /\ mem'[s].ctx.sys = mem[s].ctx.sys
                 /\ mem'[s].ctx.hist = mem[s].ctx.hist \cup {In(handler[s].input)}
                 /\ UNCHANGED <<current, disk, cursor, env, ghost, count>>
<1>1. CASE mem[s].interrupt
  BY <1>1 DEF BeginRun, At
<1>2. CASE ~mem[s].interrupt
  <2> DEFINE c == [mem[s].ctx EXCEPT !.hist = @ \cup {In(handler[s].input)}]
  <2>1. c.sys = mem[s].ctx.sys /\ c.hist = mem[s].ctx.hist \cup {In(handler[s].input)}
    BY HistoryType DEF Context
  <2>2. /\ mem' = [mem EXCEPT ![s].ctx = c]
        /\ handler' = [handler EXCEPT ![s].pc = "model", ![s].snap = c]
    BY <1>2 DEF BeginRun
  <2> HIDE DEF c
  <2>3. Becomes(s, "model", c, c)
    BY <2>2, CopyBecomes
  <2> QED BY <1>2, <2>1, <2>3 DEF BeginRun, At, Becomes
<1> QED BY <1>1, <1>2

\* The turn has its result, or its failure.
Ends(s, c) ==
    /\ Rests(s, c) /\ Save(c.hist)
    /\ UNCHANGED <<current, cursor, env, erased, stopped, commands, crashes>>

LEMMA SettleEnds ==
    ASSUME TypeInv, NEW s \in Session, NEW c, Settle(s, c)
    PROVE  Ends(s, c)
BY FinishRests DEF Settle, Ends

LEMMA ModelEffect ==
    ASSUME TypeInv, NEW s \in Session, ModelReturns(s) \/ ModelFails(s)
    PROVE  /\ handler[s].pc = "model"
           /\ \/ mem[s].interrupt /\ Cancel(s)
              \/ /\ ~mem[s].interrupt
                 /\ \E c : /\ Ends(s, c)
                           /\ \/ c = mem[s].ctx
                              \/ c = handler[s].snap
                              \/ /\ c.sys = handler[s].snap.sys
                                 /\ c.hist = handler[s].snap.hist
                                               \cup {Out(handler[s].input)}
<1>1. handler[s].pc = "model"
  BY DEF ModelReturns, ModelFails, At
<1>2. CASE mem[s].interrupt
  BY <1>1, <1>2 DEF ModelReturns, ModelFails
<1>3. CASE ~mem[s].interrupt
  <2> DEFINE c == [handler[s].snap EXCEPT !.hist = @ \cup {Out(handler[s].input)}]
  <2>1. /\ c.sys = handler[s].snap.sys
        /\ c.hist = handler[s].snap.hist \cup {Out(handler[s].input)}
    BY HistoryType DEF Context
  <2>2. Settle(s, c) \/ Settle(s, handler[s].snap) \/ Settle(s, mem[s].ctx)
    BY <1>3 DEF ModelReturns, ModelFails
  <2> HIDE DEF c
  <2> QED BY <1>1, <1>3, <2>1, <2>2, SettleEnds
<1> QED BY <1>1, <1>2, <1>3

LEMMA PromptFailsEffect ==
    ASSUME TypeInv, NEW s \in Session, PromptFails(s)
    PROVE  /\ handler[s].pc = "prompt" /\ "promptError" \in Event
           /\ \/ mem[s].interrupt /\ Cancel(s)
              \/ /\ ~mem[s].interrupt
                 /\ Rests(s, mem[s].ctx) /\ SaveOk(mem[s].ctx.hist)
                 /\ UNCHANGED <<current, cursor, env, erased, stopped, commands, crashes>>
BY FinishRests DEF PromptFails, At

LEMMA StatusEffect ==
    ASSUME TypeInv, NEW s \in Session, MidTurnCompacts(s) \/ StatusReturns(s)
    PROVE  /\ handler[s].pc \in {"model", "status"}
           /\ handler[s].pc = "model" => ~mem[s].interrupt
           /\ \/ /\ handler[s].pc = "model" /\ "status" \in Event
                 /\ Becomes(s, "status", mem[s].ctx, handler[s].snap) /\ NoSave
              \/ /\ Becomes(s, "model", mem[s].ctx, handler[s].snap)
                 /\ Save(handler[s].snap.hist)
           /\ UNCHANGED <<current, cursor, env, erased, stopped, commands, crashes>>
<1>1. CASE MidTurnCompacts(s) /\ "status" \in Event
  BY <1>1, GotoBecomes DEF MidTurnCompacts, At
<1>2. CASE MidTurnCompacts(s) /\ "status" \notin Event
  <2>1. mem' = mem /\ handler' = handler /\ handler[s].pc = "model"
    BY <1>2 DEF MidTurnCompacts, At
  <2>2. Becomes(s, "model", mem[s].ctx, handler[s].snap)
    BY <2>1 DEF Becomes, OnlyAt, SameObject
  <2> QED BY <1>2, <2>1, <2>2 DEF MidTurnCompacts
<1>3. CASE StatusReturns(s)
  BY <1>3, GotoBecomes DEF StatusReturns, At
<1> QED BY <1>1, <1>2, <1>3

-----------------------------------------------------------------------------
(* What the environment does to the session object                         *)

\* A new object: the file waits to be restored.
New(o) ==
    /\ o.ctx = Empty /\ o.pending = disk /\ o.gen = 0
    /\ o.initialized = FALSE /\ o.interrupt = FALSE /\ o.busy = FALSE

LEMMA OpenedFields ==
    ASSUME TypeInv, NEW s \in Session, GetOrCreate(s)
    PROVE  /\ Opened(s) \in Memory
           /\ \/ s = current /\ Opened(s) = mem[s]
              \/ s # current /\ current = NoSession /\ Idle(s) /\ New(Opened(s))
<1>1. Opened(s) \in Memory
  BY OpenedType
<1>2. CASE s = current
  BY <1>1, <1>2 DEF Opened
<1>3. CASE s # current
  <2>1. current = NoSession /\ Idle(s)
    BY <1>3 DEF GetOrCreate
  <2>2. Opened(s) = [Absent EXCEPT !.pending = disk]
    BY <1>3 DEF Opened
  <2>3. New([Absent EXCEPT !.pending = disk])
    BY DEF New, Absent
  <2> QED BY <1>1, <1>3, <2>1, <2>2, <2>3
<1> QED BY <1>2, <1>3

LEMMA ReceiveEffect ==
    ASSUME TypeInv, NEW u \in Input, NEW s \in Session, Receive(u, s)
    PROVE  /\ GetOrCreate(s) /\ Idle(s) /\ u \notin received
           /\ received' = received \cup {u} /\ current' = s
           /\ UNCHANGED <<disk, cursor, posted, boundary, injected, ghost, count>>
           /\ \/ TurnBegins(s, u, Opened(s))
              \/ /\ OnlyAt(s) /\ mem'[s] = Opened(s)
                 /\ handler'[s].pc = "fetch" /\ handler'[s].gen = Opened(s).gen
                 /\ handler'[s].input = u /\ handler'[s].target = posted
                 /\ handler'[s].snap = Empty /\ handler'[s].before = Empty
<1>1. /\ GetOrCreate(s) /\ Idle(s) /\ u \notin received
      /\ received' = received \cup {u} /\ current' = s
      /\ UNCHANGED <<disk, cursor, posted, boundary, injected, ghost, count>>
  BY DEF Receive, Free
<1>2. CASE /\ mem' = [mem EXCEPT ![s] = Busy(Opened(s))]
           /\ handler' = [handler EXCEPT ![s] = TurnOf(u, Opened(s))]
  <2>1. TurnBegins(s, u, Opened(s))
    BY <1>1, <1>2, OpenedFields, BusyBegins
  <2> QED BY <1>1, <2>1
<1>3. CASE /\ mem' = [mem EXCEPT ![s] = Opened(s)]
           /\ handler' = [handler EXCEPT ![s] =
                [Resting EXCEPT !.pc = "fetch", !.input = u,
                                !.gen = Opened(s).gen, !.target = posted]]
  <2> DEFINE h == [Resting EXCEPT !.pc = "fetch", !.input = u,
                                  !.gen = Opened(s).gen, !.target = posted]
  <2>1. /\ h.pc = "fetch" /\ h.gen = Opened(s).gen /\ h.input = u /\ h.target = posted
        /\ h.snap = Empty /\ h.before = Empty
    BY DEF Resting
  <2>2. handler' = [handler EXCEPT ![s] = h]
    BY <1>3
  <2> HIDE DEF h
  <2>3. OnlyAt(s) /\ mem'[s] = Opened(s) /\ handler'[s] = h
    BY <1>3, <2>2, Updated
  <2> QED BY <1>1, <2>1, <2>3
<1> QED BY <1>1, <1>2, <1>3 DEF Receive

\* The handler waits, the object becomes m.
Turns(s, m) == handler' = handler /\ OnlyAt(s) /\ mem'[s] = m

LEMMA TurnsObject ==
    ASSUME TypeInv, NEW s \in Session, NEW m,
           mem' = [mem EXCEPT ![s] = m], handler' = handler
    PROVE  Turns(s, m)
BY DEF TypeInv, SessionsOK, OnlyAt, Turns

LEMMA InterruptedFields ==
    ASSUME NEW o \in Memory
    PROVE  /\ Interrupted(o) \in Memory
           /\ Interrupted(o).ctx = o.ctx /\ Interrupted(o).pending = o.pending
           /\ Interrupted(o).gen = o.gen /\ Interrupted(o).initialized = o.initialized
           /\ Interrupted(o).interrupt = (o.busy \/ o.interrupt)
<1>1. CASE o.busy
  BY <1>1 DEF Interrupted, Memory
<1>2. CASE ~o.busy
  BY <1>2 DEF Interrupted, Memory
<1> QED BY <1>1, <1>2

LEMMA ResetFields ==
    ASSUME NEW o \in Memory
    PROVE  /\ Reset(o).ctx = Empty /\ Reset(o).pending = {}
           /\ Reset(o).gen = o.gen + 1 /\ Reset(o).initialized = FALSE
           /\ Reset(o).interrupt = o.interrupt
BY DEF Reset, Memory

\* /stop: the object a command finds is interrupted.
LEMMA StopEffect ==
    ASSUME TypeInv, NEW s \in Session, Stop(s)
    PROVE  /\ GetOrCreate(s) /\ Suspended /\ current' = s /\ "stop" \in Event
           /\ Turns(s, Interrupted(Opened(s)))
           /\ UNCHANGED <<disk, cursor, env, recorded, erased, crashes, faults>>
BY TurnsObject DEF Stop, Command

LEMMA ClearEffect ==
    ASSUME TypeInv, NEW s \in Session, Clear(s) \/ ClearAll(s)
    PROVE  /\ GetOrCreate(s) /\ Suspended /\ current' = s
           /\ Turns(s, Reset(Interrupted(Opened(s))))
           /\ boundary' = ClearBoundary /\ cursor' \in {0, cursor}
           /\ recorded' = recorded \ Known(s)
           /\ \/ disk' = {} /\ erased' = erased \cup Known(s)
              \/ UNCHANGED <<disk, erased>>
           /\ UNCHANGED <<posted, injected, received, crashes>>
<1>1. CASE Clear(s)
  BY <1>1, TurnsObject DEF Clear, Command
<1>2. CASE ClearAll(s)
  BY <1>2, TurnsObject DEF ClearAll, Command
<1> QED BY <1>1, <1>2

LEMMA ExitEffect ==
    ASSUME TypeInv, NEW s \in Session, Exit(s)
    PROVE  /\ GetOrCreate(s) /\ Suspended /\ current' = s /\ "exit" \in Event
           /\ OnlyAt(s) /\ handler' = handler
           /\ SameObject(Opened(s), mem'[s]) /\ mem'[s].ctx = Empty
           /\ UNCHANGED <<disk, cursor, env, ghost, crashes, faults>>
<1> DEFINE m == [Opened(s) EXCEPT !.ctx = Empty]
<1>1. /\ GetOrCreate(s) /\ Suspended /\ current' = s /\ "exit" \in Event
      /\ mem' = [mem EXCEPT ![s] = m] /\ handler' = handler
      /\ UNCHANGED <<disk, cursor, env, ghost, crashes, faults>>
  BY DEF Exit, Command
<1>2. SameObject(Opened(s), m) /\ m.ctx = Empty
  BY <1>1, OpenedFields DEF Memory, SameObject
<1> HIDE DEF m
<1> QED BY <1>1, <1>2, TurnsObject DEF Turns

LEMMA InjectEffect ==
    ASSUME TypeInv, NEW s \in Session, Inject(s)
    PROVE  /\ GetOrCreate(s) /\ Suspended /\ current' = s /\ "inject" \in Event
           /\ OnlyAt(s) /\ handler' = handler
           /\ SameObject(Opened(s), mem'[s])
           /\ mem'[s].ctx.sys = Opened(s).ctx.sys /\ mem'[s].ctx.hist = Opened(s).ctx.hist
           /\ UNCHANGED <<disk, cursor, posted, boundary, received, ghost, count>>
<1> DEFINE c == [Opened(s).ctx EXCEPT !.inj = Limited(@ \cup {injected + 1})]
           m == [Opened(s) EXCEPT !.ctx = c]
<1>1. /\ GetOrCreate(s) /\ Suspended /\ current' = s /\ "inject" \in Event
      /\ mem' = [mem EXCEPT ![s] = m] /\ handler' = handler
      /\ UNCHANGED <<disk, cursor, posted, boundary, received, ghost, count>>
  BY DEF Inject
<1>2. c.sys = Opened(s).ctx.sys /\ c.hist = Opened(s).ctx.hist
  BY <1>1, OpenedFields DEF Memory, Context
<1> HIDE DEF c
<1>3. SameObject(Opened(s), m) /\ m.ctx = c
  BY <1>1, OpenedFields DEF Memory, SameObject
<1> HIDE DEF m
<1> QED BY <1>1, <1>2, <1>3, TurnsObject DEF Turns

\* The manager gives the object up when nobody works on it.
LEMMA ExpireEffect ==
    ASSUME TypeInv, NEW s \in Session, Expire(s), "longTurn" \notin Event
    PROVE  /\ current = s /\ Suspended /\ Idle(s) /\ current' = NoSession
           /\ Turns(s, Absent)
           /\ \/ NoSave
              \/ mem[s].ctx # Empty /\ SaveOk(mem[s].ctx.hist)
              \/ SaveFails
           /\ UNCHANGED <<cursor, env, erased, stopped, commands, crashes>>
<1>1. mem' = [mem EXCEPT ![s] = Absent] /\ handler' = handler
  BY DEF Expire
<1> QED BY <1>1, TurnsObject DEF Expire

-----------------------------------------------------------------------------
(* The system prompt.  A handler of an older generation never gets to the  *)
(* model: its session is interrupted.  A handler of the present generation *)
(* holds a copy with as many prompts as the context, and an object is      *)
(* initialised exactly when it has one.                                    *)
GenFit(m, h) ==
    /\ h.pc # "idle" => h.gen <= m.gen
    /\ h.pc \in TurnPc /\ ~Fresh(m, h) => m.interrupt
    /\ h.pc = "aCursor" => Fresh(m, h)

PromptFit(m, h) ==
    /\ m.ctx.sys = IF m.initialized THEN 1 ELSE 0
    /\ h.pc \in Copying /\ Fresh(m, h) => h.snap.sys = m.ctx.sys
    /\ h.pc \in {"aCompact", "aCursor"} /\ Fresh(m, h) => h.before.sys = m.ctx.sys
    /\ h.pc \in {"prompt", "aPrompt"} /\ Fresh(m, h) => ~m.initialized
    /\ h.pc \in {"run", "model", "status"} /\ ~m.interrupt => m.initialized
    /\ h.pc \in {"restore", "aRestore"} /\ Fresh(m, h) => m.initialized

GenInv == \A s \in Session : GenFit(mem[s], handler[s])
PromptInv == GenInv /\ \A s \in Session : PromptFit(mem[s], handler[s])

\* Whatever the environment does, short of leaving the conversation and of expiring a
\* session at work.
PromptEvents == "exit" \notin Event /\ "longTurn" \notin Event

LEMMA PromptInvImplies == PromptInv => PromptFirst
BY DEF PromptInv, GenInv, GenFit, PromptFit, PromptFirst, At, Copying, TurnPc

LEMMA RestFields ==
    /\ Resting.pc = "idle" /\ Resting.snap = Empty /\ Resting.before = Empty
    /\ Absent.ctx = Empty /\ Absent.initialized = FALSE /\ Absent.pending = {}
    /\ Absent.gen = 0 /\ Absent.interrupt = FALSE
    /\ Empty.sys = 0 /\ Empty.hist = {}
BY DEF Resting, Absent, Empty

\* An idle handler asks nothing of the generation.
LEMMA IdleFits ==
    ASSUME NEW m, NEW h, h.pc = "idle"
    PROVE  GenFit(m, h) /\ (m.ctx.sys = (IF m.initialized THEN 1 ELSE 0) => PromptFit(m, h))
BY DEF GenFit, PromptFit, TurnPc, Copying

\* A step of one session keeps what holds of the others.
LEMMA GenMoves ==
    ASSUME GenInv, NEW s \in Session, OnlyAt(s), GenFit(mem'[s], handler'[s])
    PROVE  GenInv'
BY DEF GenInv, OnlyAt

LEMMA PromptMoves ==
    ASSUME PromptInv, NEW s \in Session, OnlyAt(s),
           GenFit(mem'[s], handler'[s]), PromptFit(mem'[s], handler'[s])
    PROVE  PromptInv'
BY GenMoves DEF PromptInv, OnlyAt

\* The generations after each kind of step.
LEMMA GenBecomes ==
    ASSUME TypeInv, NEW s \in Session, GenFit(mem[s], handler[s]), NEW p, NEW c, NEW d,
           Becomes(s, p, c, d), handler[s].pc # "idle",
           p \in TurnPc => handler[s].pc \in TurnPc,
           p = "aCursor" => Fresh(mem[s], handler[s])
    PROVE  GenFit(mem'[s], handler'[s])
BY DEF GenFit, Becomes, SameObject, Fresh

LEMMA GenInitializes ==
    ASSUME TypeInv, NEW s \in Session, GenFit(mem[s], handler[s]), NEW p,
           Initializes(s, p), handler[s].pc # "idle",
           p \in TurnPc => handler[s].pc \in TurnPc, p # "aCursor"
    PROVE  GenFit(mem'[s], handler'[s])
BY DEF GenFit, Initializes, Fresh

LEMMA GenBegins ==
    ASSUME NEW s \in Session, NEW u, NEW m \in Memory, TurnBegins(s, u, m)
    PROVE  GenFit(mem'[s], handler'[s])
BY DEF GenFit, TurnBegins, Fresh, Memory, TurnPc

LEMMA RestsFit ==
    ASSUME NEW s \in Session, NEW c, Rests(s, c)
    PROVE  /\ GenFit(mem'[s], handler'[s])
           /\ c.sys = (IF mem[s].initialized THEN 1 ELSE 0) => PromptFit(mem'[s], handler'[s])
BY IdleFits, RestFields DEF Rests, SameObject

\* What the handler does, and what is done to the session.
HandlerStep(s) == Resume(s) \/ PromptFails(s) \/ ModelFails(s) \/ MidTurnCompacts(s)
OutsideStep(s) ==
    \/ \E u \in Input : Receive(u, s)
    \/ Stop(s) \/ Clear(s) \/ ClearAll(s) \/ Exit(s) \/ Inject(s) \/ Expire(s)

LEMMA StepKinds ==
    ASSUME NEW s \in Session, Resume(s) \/ Environment(s)
    PROVE  HandlerStep(s) \/ OutsideStep(s)
BY DEF HandlerStep, OutsideStep, Environment

\* Every step of a handler leaves it at an await of a known kind.
LEMMA HandlerGen ==
    ASSUME TypeInv, NEW s \in Session, GenFit(mem[s], handler[s]), HandlerStep(s)
    PROVE  OnlyAt(s) /\ GenFit(mem'[s], handler'[s])
<1> DEFINE m == mem[s]
           h == handler[s]
<1>1. ASSUME NEW c, Rests(s, c)
      PROVE  OnlyAt(s) /\ GenFit(mem'[s], handler'[s])
  BY <1>1, RestsFit DEF Rests
<1>2. ASSUME NEW p, NEW c, NEW d, Becomes(s, p, c, d), h.pc # "idle",
             p \in TurnPc => h.pc \in TurnPc, p = "aCursor" => Fresh(m, h)
      PROVE  OnlyAt(s) /\ GenFit(mem'[s], handler'[s])
  BY <1>2, GenBecomes DEF Becomes
<1>3. ASSUME Cancel(s)
      PROVE  OnlyAt(s) /\ GenFit(mem'[s], handler'[s])
  BY <1>1, <1>3, CancelEffect
<1>4. CASE FetchReturns(s)
  BY <1>1, <1>2, <1>4, FetchEffect DEF TurnPc
<1>5. ASSUME NEW waiting, NEW done, InitResumes(s, waiting, done),
             \/ h.pc = "aPrompt" /\ waiting = "aRestore" /\ done = "aEntries"
             \/ h.pc = "prompt" /\ waiting = "restore" /\ done = "run"
      PROVE  OnlyAt(s) /\ GenFit(mem'[s], handler'[s])
  <2>1. CASE Becomes(s, done, m.ctx, h.snap)
    BY <1>2, <1>5, <2>1 DEF TurnPc
  <2>2. CASE Initializes(s, done) \/ Initializes(s, waiting)
    BY <1>5, <2>2, GenInitializes DEF TurnPc, Initializes
  <2> QED BY <1>5, <2>1, <2>2, InitEffect
<1>6. CASE AppendPromptReturns(s) \/ PromptReturns(s)
  BY <1>5, <1>6 DEF AppendPromptReturns, PromptReturns, At
<1>7. ASSUME NEW done, RestoreResumes(s, done),
             \/ h.pc = "aRestore" /\ done = "aEntries"
             \/ h.pc = "restore" /\ done = "run"
      PROVE  OnlyAt(s) /\ GenFit(mem'[s], handler'[s])
  BY <1>2, <1>7, RestoreEffect DEF TurnPc
<1>8. CASE AppendRestoreReturns(s) \/ RestoreReturns(s)
  BY <1>7, <1>8 DEF AppendRestoreReturns, RestoreReturns, At
<1>9. CASE AppendEntries(s)
  <2>1. CASE ~Rests(s, m.ctx)
    BY <1>9, <2>1, EntriesEffect DEF GenFit, SameObject, Fresh, TurnPc
  <2> QED BY <1>1, <2>1
<1>10. CASE AppendCompactReturns(s)
  BY <1>1, <1>2, <1>10, CompactEffect DEF TurnPc
<1>11. CASE AppendCursorSaved(s)
  BY <1>11, CursorSavedEffect, SessionType, GenBegins DEF TurnBegins
<1>12. CASE AppendCursorFails(s)
  BY <1>1, <1>12, CursorFailsEffect
<1>13. CASE PrepReturns(s)
  BY <1>2, <1>13, PrepEffect DEF TurnPc
<1>14. CASE PreCompactionReturns(s)
  BY <1>2, <1>3, <1>14, PreEffect DEF TurnPc
<1>15. CASE Ready(s)
  BY <1>2, <1>3, <1>15, ReadyEffect DEF TurnPc
<1>16. CASE BeginRun(s)
  BY <1>2, <1>3, <1>16, RunEffect DEF TurnPc
<1>17. CASE ModelReturns(s) \/ ModelFails(s)
  BY <1>1, <1>3, <1>17, ModelEffect DEF Ends
<1>18. CASE PromptFails(s)
  BY <1>1, <1>3, <1>18, PromptFailsEffect
<1>19. CASE MidTurnCompacts(s) \/ StatusReturns(s)
  BY <1>2, <1>19, StatusEffect DEF TurnPc
<1> QED BY <1>4, <1>6, <1>8, <1>9, <1>10, <1>11, <1>12, <1>13, <1>14, <1>15, <1>16, <1>17,
           <1>18, <1>19 DEF HandlerStep, Resume

\* The object a command or a message finds is of no older generation than its handler.
LEMMA OpenedGen ==
    ASSUME TypeInv, GenInv, NEW s \in Session, GetOrCreate(s)
    PROVE  /\ Opened(s) \in Memory /\ Opened(s).gen \in Nat /\ handler[s].gen \in Nat
           /\ GenFit(Opened(s), handler[s])
<1>1. Opened(s) \in Memory /\ handler[s] \in Handler
  BY OpenedFields, SessionType
<1>2. CASE s = current /\ Opened(s) = mem[s]
  BY <1>1, <1>2 DEF GenInv, Memory, Handler
<1>3. CASE Idle(s)
  BY <1>1, <1>3, IdleFits DEF Idle, Memory, Handler
<1> QED BY <1>2, <1>3, OpenedFields

\* A clear: nobody is at work on the generation that begins.
LEMMA ClearGen ==
    ASSUME TypeInv, GenInv, NEW s \in Session, Clear(s) \/ ClearAll(s)
    PROVE  /\ OnlyAt(s) /\ handler' = handler /\ GenFit(mem'[s], handler[s])
           /\ handler[s].pc # "idle" => ~Fresh(mem'[s], handler[s])
           /\ handler[s].pc \in TurnPc => mem'[s].interrupt
           /\ handler[s].pc \notin Running
           /\ mem'[s].ctx = Empty /\ mem'[s].pending = {} /\ mem'[s].initialized = FALSE
           /\ mem'[s].interrupt => mem[s].interrupt \/ handler[s].pc \in TurnPc
<1> DEFINE o == Opened(s)
           h == handler[s]
           m == Reset(Interrupted(o))
<1>1. GetOrCreate(s) /\ Suspended /\ Turns(s, m)
  BY ClearEffect
<1>2. o \in Memory /\ o.gen \in Nat /\ h.gen \in Nat /\ GenFit(o, h)
  BY <1>1, OpenedGen
<1>3. o.busy <=> h.pc \in TurnPc
  BY <1>1, OpenedType
<1>4. o.interrupt => mem[s].interrupt
  BY <1>1, OpenedFields DEF New
<1> HIDE DEF o
<1>5. /\ m.ctx = Empty /\ m.pending = {} /\ m.initialized = FALSE /\ m.gen = o.gen + 1
      /\ m.interrupt = (o.busy \/ o.interrupt)
  <2>1. Interrupted(o) \in Memory
    BY <1>2, InterruptedFields
  <2> QED BY <1>2, <2>1, ResetFields, InterruptedFields
<1> HIDE DEF m
<1>6. h.pc # "idle" => ~Fresh(m, h) /\ h.gen <= m.gen
  BY <1>2, <1>5 DEF GenFit, Fresh
<1>7. h.pc \notin Running
  BY <1>1 DEF Suspended
<1>8. h.pc \in TurnPc => m.interrupt
  BY <1>3, <1>5
<1>9. m.interrupt => mem[s].interrupt \/ h.pc \in TurnPc
  BY <1>3, <1>4, <1>5
<1>10. GenFit(m, h)
  BY <1>6, <1>7, <1>8 DEF GenFit, Running
<1> QED BY <1>1, <1>5, <1>6, <1>7, <1>8, <1>9, <1>10 DEF Turns

LEMMA OutsideGen ==
    ASSUME TypeInv, GenInv, "longTurn" \notin Event, NEW s \in Session, OutsideStep(s)
    PROVE  OnlyAt(s) /\ GenFit(mem'[s], handler'[s])
<1> DEFINE o == Opened(s)
           h == handler[s]
<1>1. ASSUME GetOrCreate(s)
      PROVE  o \in Memory /\ o.gen \in Nat /\ GenFit(o, h) /\ h.gen \in Nat
  BY <1>1, OpenedGen
<1> HIDE DEF o
<1>2. CASE \E u \in Input : Receive(u, s)
  <2>1. PICK u \in Input : Receive(u, s)
    BY <1>2
  <2>2. o \in Memory
    BY <1>1, <2>1, ReceiveEffect
  <2>3. CASE TurnBegins(s, u, o)
    BY <2>2, <2>3, GenBegins DEF TurnBegins
  <2>4. CASE /\ OnlyAt(s) /\ mem'[s] = o
             /\ handler'[s].pc = "fetch" /\ handler'[s].gen = o.gen
    BY <2>2, <2>4 DEF GenFit, Fresh, TurnPc, Memory
  <2> QED BY <2>1, <2>3, <2>4, ReceiveEffect DEF o
<1>3. CASE Stop(s)
  <2> DEFINE m == Interrupted(o)
  <2>1. GetOrCreate(s) /\ Turns(s, m)
    BY <1>3, StopEffect DEF o
  <2>2. m.gen = o.gen /\ (o.interrupt => m.interrupt)
    BY <1>1, <2>1, InterruptedFields
  <2> HIDE DEF m
  <2> QED BY <1>1, <2>1, <2>2 DEF Turns, GenFit, Fresh
<1>4. CASE Clear(s) \/ ClearAll(s)
  BY <1>4, ClearGen
<1>5. CASE Inject(s) \/ Exit(s)
  <2>1. GetOrCreate(s) /\ OnlyAt(s) /\ handler' = handler /\ SameObject(o, mem'[s])
    BY <1>5, InjectEffect, ExitEffect DEF o
  <2> QED BY <1>1, <2>1 DEF SameObject, GenFit, Fresh
<1>6. CASE Expire(s)
  <2>1. Idle(s) /\ Turns(s, Absent)
    BY <1>6, ExpireEffect
  <2> QED BY <2>1, IdleFits DEF Turns, Idle
<1> QED BY <1>2, <1>3, <1>4, <1>5, <1>6 DEF OutsideStep

\* What a step of a handler means for the prompt.
LEMMA HandlerPrompt ==
    ASSUME TypeInv, PromptInv, NEW s \in Session, HandlerStep(s)
    PROVE  PromptInv'
<1> DEFINE m == mem[s]
           h == handler[s]
<1>1. GenFit(m, h) /\ PromptFit(m, h)
  BY DEF PromptInv, GenInv
<1>2. SUFFICES PromptFit(mem'[s], handler'[s])
  BY <1>1, HandlerGen, PromptMoves
<1>3. CASE FetchReturns(s)
  <2>1. CASE Rests(s, m.ctx)
    BY <1>1, <2>1, RestsFit DEF PromptFit, Rests
  <2>2. CASE Fresh(m, h) /\ Becomes(s, IF m.initialized THEN "aEntries" ELSE "aPrompt", m.ctx, h.snap)
    <3>1. handler[s].pc = "fetch"
      BY <1>3, FetchEffect
    <3> QED BY <1>1, <2>2 DEF PromptFit, Becomes, SameObject, Fresh, Copying
  <2> QED BY <1>3, <2>1, <2>2, FetchEffect
<1>4. ASSUME NEW waiting, NEW done, InitResumes(s, waiting, done),
             \/ h.pc = "aPrompt" /\ waiting = "aRestore" /\ done = "aEntries"
             \/ h.pc = "prompt" /\ waiting = "restore" /\ done = "run"
      PROVE  PromptFit(mem'[s], handler'[s])
  <2>1. CASE Dropped(s) /\ Becomes(s, done, m.ctx, h.snap)
    <3>2. h.pc = "prompt" => m.interrupt
      BY <1>1, <2>1 DEF Dropped, Stale, GenFit, Fresh, TurnPc
    <3> QED BY <1>1, <1>4, <2>1, <3>2 DEF PromptFit, Becomes, SameObject, Fresh, Copying
  <2>2. ASSUME ~Dropped(s) PROVE Fresh(m, h) /\ m.ctx.sys = 0 /\ m.ctx.sys + 1 = 1
    BY <1>1, <1>4, <2>2 DEF Dropped, Stale, Fresh, PromptFit
  <2>3. CASE ~Dropped(s) /\ Initializes(s, done)
    BY <1>4, <2>2, <2>3 DEF PromptFit, Initializes, Copying
  <2>4. CASE ~Dropped(s) /\ Initializes(s, waiting) /\ handler'[s].snap = mem'[s].ctx
    BY <1>4, <2>2, <2>4 DEF PromptFit, Initializes, Copying
  <2> QED BY <1>4, <2>1, <2>3, <2>4, InitEffect
<1>5. CASE AppendPromptReturns(s) \/ PromptReturns(s)
  BY <1>4, <1>5 DEF AppendPromptReturns, PromptReturns, At
<1>6. ASSUME NEW done, RestoreResumes(s, done),
             \/ h.pc = "aRestore" /\ done = "aEntries"
             \/ h.pc = "restore" /\ done = "run"
      PROVE  PromptFit(mem'[s], handler'[s])
  <2>1. PICK c : Becomes(s, done, c, Empty)
    BY <1>6, RestoreEffect
  <2>3. CASE Dropped(s) /\ Becomes(s, done, m.ctx, Empty)
    <3>1. h.pc = "restore" => m.interrupt
      BY <1>1, <2>3 DEF Dropped, Stale, GenFit, Fresh, TurnPc
    <3> QED BY <1>1, <1>6, <2>3, <3>1 DEF PromptFit, Becomes, SameObject, Fresh, Copying
  <2>4. CASE ~Dropped(s) /\ mem'[s].ctx.sys = h.snap.sys
    <3>1. Fresh(m, h)
      BY <2>4 DEF Dropped, Stale, Fresh
    <3>2. m.initialized /\ h.snap.sys = m.ctx.sys /\ m.ctx.sys = 1
      BY <1>1, <1>6, <3>1 DEF PromptFit, Copying
    <3> QED BY <1>6, <2>1, <2>4, <3>1, <3>2 DEF PromptFit, Becomes, SameObject, Fresh, Copying
  <2> QED BY <1>6, <2>3, <2>4, RestoreEffect
<1>7. CASE AppendRestoreReturns(s) \/ RestoreReturns(s)
  BY <1>6, <1>7 DEF AppendRestoreReturns, RestoreReturns, At
<1>8. CASE AppendEntries(s)
  <2>1. CASE Rests(s, m.ctx)
    BY <1>1, <2>1, RestsFit DEF PromptFit, Rests
  <2>2. CASE ~Rests(s, m.ctx)
    BY <1>1, <1>8, <2>2, EntriesEffect
       DEF GenFit, PromptFit, SameObject, Fresh, Copying, TurnPc
  <2> QED BY <2>1, <2>2
<1>9. CASE AppendCompactReturns(s)
  <2>1. CASE Rests(s, m.ctx)
    BY <1>1, <2>1, RestsFit DEF PromptFit, Rests
  <2>2. CASE Fresh(m, h) /\ Rests(s, h.before)
    <3>1. handler[s].pc = "aCompact"
      BY <1>9, CompactEffect
    <3> QED BY <1>1, <2>2, <3>1, RestsFit DEF PromptFit, Rests
  <2>3. CASE Fresh(m, h) /\ Becomes(s, "aCursor", h.snap, h.snap)
    <3>1. handler[s].pc = "aCompact"
      BY <1>9, CompactEffect
    <3> QED BY <1>1, <2>3, <3>1 DEF PromptFit, Becomes, SameObject, Fresh, Copying
  <2> QED BY <1>9, <2>1, <2>2, <2>3, CompactEffect
<1>10. CASE AppendCursorSaved(s)
  <2>1. TurnBegins(s, h.input, m) /\ m \in Memory
    BY <1>10, CursorSavedEffect, SessionType
  <2> QED BY <1>1, <2>1 DEF PromptFit, TurnBegins, Copying
<1>11. CASE AppendCursorFails(s)
  <2>1. h.pc = "aCursor" /\ Rests(s, h.before)
    BY <1>11, CursorFailsEffect
  <2>2. h.before.sys = m.ctx.sys
    BY <1>1, <2>1 DEF GenFit, PromptFit
  <2> QED BY <1>1, <2>1, <2>2, RestsFit DEF PromptFit, Rests
<1>12. CASE PrepReturns(s)
  <2>1. h.pc = "prep" /\ mem'[s].ctx = m.ctx
    BY <1>1, <1>12, PrepEffect DEF PromptFit
  <2>2. CASE Becomes(s, "ready", m.ctx, h.snap)
    BY <1>1, <2>2 DEF PromptFit, Becomes, SameObject, Copying
  <2>3. CASE Becomes(s, "pre", m.ctx, m.ctx)
    BY <1>1, <2>3 DEF PromptFit, Becomes, SameObject, Copying
  <2> QED BY <1>12, <2>1, <2>2, <2>3, PrepEffect
<1>13. ASSUME Cancel(s)
       PROVE  PromptFit(mem'[s], handler'[s])
  <2>1. Rests(s, m.ctx)
    BY <1>13, CancelEffect
  <2> QED BY <1>1, <2>1, RestsFit DEF PromptFit, Rests
<1>14. CASE PreCompactionReturns(s)
  <2>1. CASE ~m.interrupt /\ Becomes(s, "ready", h.snap, Empty)
    <3>1. h.pc = "pre"
      BY <1>14, PreEffect
    <3>2. h.snap.sys = m.ctx.sys
      BY <1>1, <2>1, <3>1 DEF PromptFit, GenFit, Copying, TurnPc
    <3> QED BY <1>1, <2>1, <3>2 DEF PromptFit, Becomes, SameObject, Copying
  <2> QED BY <1>13, <1>14, <2>1, PreEffect
<1>15. CASE Ready(s)
  <2>1. CASE ~m.interrupt /\ Becomes(s, IF m.initialized THEN "run" ELSE "prompt", m.ctx, h.snap)
    <3>1. h.pc = "ready"
      BY <1>15, ReadyEffect
    <3> QED BY <1>1, <2>1 DEF PromptFit, Becomes, SameObject, Copying
  <2> QED BY <1>13, <1>15, <2>1, ReadyEffect
<1>16. CASE BeginRun(s)
  <2>1. CASE ~m.interrupt /\ Becomes(s, "model", mem'[s].ctx, mem'[s].ctx)
             /\ mem'[s].ctx.sys = m.ctx.sys
    <3>1. h.pc = "run"
      BY <1>16, RunEffect
    <3> QED BY <1>1, <2>1, <3>1 DEF PromptFit, Becomes, SameObject, Copying
  <2> QED BY <1>13, <1>16, <2>1, RunEffect
<1>17. CASE ModelReturns(s) \/ ModelFails(s)
  <2>1. CASE ~m.interrupt /\ \E c : Rests(s, c) /\ (c.sys = m.ctx.sys \/ c.sys = h.snap.sys)
    <3>1. h.pc = "model"
      BY <1>17, ModelEffect
    <3>2. h.snap.sys = m.ctx.sys
      BY <1>1, <2>1, <3>1 DEF PromptFit, GenFit, Copying, TurnPc
    <3>3. PICK c : Rests(s, c) /\ c.sys = m.ctx.sys
      BY <2>1, <3>2
    <3> QED BY <1>1, <3>3, RestsFit DEF PromptFit, Rests
  <2> QED BY <1>13, <1>17, <2>1, ModelEffect DEF Ends
<1>18. CASE PromptFails(s)
  <2>1. Rests(s, m.ctx)
    BY <1>18, PromptFailsEffect, CancelEffect
  <2> QED BY <1>1, <2>1, RestsFit DEF PromptFit, Rests
<1>19. CASE MidTurnCompacts(s) \/ StatusReturns(s)
  <2>1. h.pc \in {"model", "status"}
    BY <1>19, StatusEffect
  <2>2. PICK p \in {"model", "status"} : Becomes(s, p, m.ctx, h.snap)
    BY <1>19, StatusEffect
  <2> QED BY <1>1, <2>1, <2>2 DEF PromptFit, Becomes, SameObject, Copying, Fresh
<1> QED BY <1>3, <1>5, <1>7, <1>8, <1>9, <1>10, <1>11, <1>12, <1>14, <1>15, <1>16, <1>17,
           <1>18, <1>19 DEF HandlerStep, Resume

\* What is done to the session means nothing for the prompt, unless it is left.
LEMMA OutsidePrompt ==
    ASSUME TypeInv, PromptInv, PromptEvents, NEW s \in Session, OutsideStep(s)
    PROVE  PromptInv'
<1> DEFINE o == Opened(s)
           h == handler[s]
<1>1. SUFFICES PromptFit(mem'[s], handler'[s])
  BY OutsideGen, PromptMoves DEF PromptInv, PromptEvents
<1>2. ASSUME GetOrCreate(s)
      PROVE  o \in Memory /\ PromptFit(o, h)
  <2>1. CASE s = current /\ o = mem[s]
    BY <2>1, <1>2, OpenedFields DEF PromptInv
  <2>2. CASE Idle(s) /\ New(o)
    BY <2>2, <1>2, OpenedFields, IdleFits, RestFields DEF Idle, New
  <2> QED BY <1>2, <2>1, <2>2, OpenedFields
<1> HIDE DEF o
<1>3. CASE \E u \in Input : Receive(u, s)
  <2>1. PICK u \in Input : Receive(u, s)
    BY <1>3
  <2>2. PromptFit(o, h)
    BY <1>2, <2>1, ReceiveEffect
  <2>3. CASE TurnBegins(s, u, o)
    BY <2>2, <2>3 DEF PromptFit, TurnBegins, Copying
  <2>4. CASE mem'[s] = o /\ handler'[s].pc = "fetch"
    BY <2>2, <2>4 DEF PromptFit, Copying
  <2> QED BY <2>1, <2>3, <2>4, ReceiveEffect DEF o
<1>4. CASE Stop(s)
  <2> DEFINE m == Interrupted(o)
  <2>1. GetOrCreate(s) /\ Turns(s, m)
    BY <1>4, StopEffect DEF o
  <2>2. /\ m.ctx = o.ctx /\ m.gen = o.gen /\ m.initialized = o.initialized
        /\ o.interrupt => m.interrupt
    BY <1>2, <2>1, InterruptedFields
  <2> HIDE DEF m
  <2> QED BY <1>2, <2>1, <2>2 DEF Turns, PromptFit, Fresh
<1>5. CASE Clear(s) \/ ClearAll(s)
  BY <1>5, ClearGen, RestFields DEF PromptInv, PromptFit, Copying, TurnPc, Running
<1>6. CASE Inject(s)
  <2>1. /\ GetOrCreate(s) /\ handler' = handler /\ SameObject(o, mem'[s])
        /\ mem'[s].ctx.sys = o.ctx.sys
    BY <1>6, InjectEffect DEF o
  <2> QED BY <1>2, <2>1 DEF SameObject, PromptFit, Fresh
<1>7. CASE Exit(s)
  BY <1>7, ExitEffect DEF PromptEvents
<1>8. CASE Expire(s)
  <2>1. Idle(s) /\ Turns(s, Absent)
    BY <1>8, ExpireEffect DEF PromptEvents
  <2> QED BY <2>1, IdleFits, RestFields DEF Turns, Idle
<1> QED BY <1>3, <1>4, <1>5, <1>6, <1>7, <1>8 DEF OutsideStep

\* No object and no handler, at the start and after a crash.
LEMMA NothingFits ==
    ASSUME \A s \in Session : mem[s] = Absent /\ handler[s] = Resting
    PROVE  PromptInv
BY IdleFits, RestFields DEF PromptInv, GenInv

LEMMA NextPrompt ==
    ASSUME TypeInv, PromptInv, PromptEvents, [Next]_vars
    PROVE  PromptInv'
<1>1. CASE \E s \in Session : Resume(s) \/ Environment(s)
  BY <1>1, StepKinds, HandlerPrompt, OutsidePrompt
<1>2. CASE Post \/ UNCHANGED vars
  <2>1. mem' = mem /\ handler' = handler
    BY <1>2 DEF Post, vars
  <2> QED BY <2>1 DEF PromptInv, GenInv
<1>3. CASE Crash
  <2>1. \A s \in Session : mem'[s] = Absent /\ handler'[s] = Resting
    BY <1>3 DEF Crash
  <2> QED BY <2>1, IdleFits, RestFields DEF PromptInv, GenInv
<1> QED BY <1>1, <1>2, <1>3 DEF Next

(* In a conversation nobody leaves by /exit, and that does not expire under *)
(* a turn, the model is never asked without exactly one system prompt,      *)
(* whatever stops, clears, failures and crashes come between (init,         *)
(* refreshSystemPromptIfNeeded and reset of agent-session.ts).              *)
THEOREM PromptFirstHolds == PromptEvents => (Spec => []PromptFirst)
<1> SUFFICES ASSUME PromptEvents PROVE Spec => []PromptFirst
  OBVIOUS
<1>1. Init => TypeInv /\ PromptInv
  BY InitType, NothingFits DEF Init
<1>2. TypeInv /\ PromptInv /\ [Next]_vars => (TypeInv /\ PromptInv)'
  BY NextType, NextPrompt
<1>3. PromptInv => PromptFirst
  BY PromptInvImplies
<1> QED BY <1>1, <1>2, <1>3, PTL DEF Spec

-----------------------------------------------------------------------------
(* The clear.  What it erased was known to the session, so it speaks of    *)
(* messages already received and of group messages before the boundary;    *)
(* and whatever is later written comes from a context or from a copy of    *)
(* the present generation, in which nothing erased is left.                *)
Clean(X) == X \cap erased = {}
Seen(X)  == \A x \in X : IF x.kind = "remote" THEN x.of <= posted ELSE x.of \in received

\* What the turn of a handler may add to the history.
Asked(h) == IF h.pc = "idle" THEN {} ELSE {In(h.input), Out(h.input)}

ClearFit(m, h) ==
    /\ Clean(m.ctx.hist) /\ Clean(m.pending)
    /\ Fresh(m, h) => Clean(Asked(h))
    /\ h.pc \in Copying /\ Fresh(m, h) => Clean(h.snap.hist)
    /\ h.pc \in {"aCompact", "aCursor"} /\ Fresh(m, h) => Clean(h.before.hist)
    /\ h.pc # "status"

SeenFit(m, h) ==
    /\ Seen(m.ctx.hist) /\ Seen(m.pending) /\ Seen(Asked(h))
    /\ Seen(h.snap.hist) /\ Seen(h.before.hist)

\* Only the current object exists, and a handler at rest holds nothing.
Alone == \A t \in Session :
    /\ t # current => mem[t] = Absent
    /\ t # current \/ Idle(t) => handler[t] = Resting

ErasedFit == \A x \in erased :
    IF x.kind = "remote" THEN x.of <= boundary ELSE x.of \in received

ClearInv ==
    /\ GenInv /\ Alone /\ ErasedFit /\ Clean(disk) /\ Seen(disk)
    /\ \A s \in Session : ClearFit(mem[s], handler[s]) /\ SeenFit(mem[s], handler[s])
    /\ Reserves \/ posted = 0

\* Whatever the environment does, short of expiring a session at work and of a
\* checkpoint that is saved only after the user was told.
ClearEvents == "status" \notin Event /\ "longTurn" \notin Event

LEMMA ClearInvImplies == ClearInv => ClearIsFinal
BY DEF ClearInv, ClearIsFinal, ClearFit, Clean

LEMMA CleanParts ==
    /\ Clean({}) /\ Seen({})
    /\ \A X, Y : Clean(X) /\ Clean(Y) => Clean(X \cup Y)
    /\ \A X, Y : Seen(X) /\ Seen(Y) => Seen(X \cup Y)
    /\ \A X, Y : X \subseteq Y /\ Clean(Y) => Clean(X)
    /\ \A X, Y : X \subseteq Y /\ Seen(Y) => Seen(X)
BY DEF Clean, Seen

LEMMA AloneMoves ==
    ASSUME Alone, NEW s \in Session, OnlyAt(s), s = current \/ current = NoSession,
           Idle(s)' => handler'[s] = Resting,
           \/ current' = s
           \/ current' = NoSession /\ mem'[s] = Absent /\ handler'[s] = Resting
    PROVE  Alone'
BY SessionAssumption DEF Alone, OnlyAt, Idle

\* Only the current object has a handler at work.
LEMMA AtWork ==
    ASSUME Alone, NEW s \in Session, handler[s].pc # "idle"
    PROVE  s = current
BY RestFields DEF Alone

\* What a handler does with the history, in terms of the sets it holds.
LEMMA RestsClear ==
    ASSUME NEW s \in Session, NEW c, Rests(s, c), Clean(c.hist), Seen(c.hist),
           Clean(mem[s].pending), Seen(mem[s].pending)
    PROVE  ClearFit(mem'[s], handler'[s]) /\ SeenFit(mem'[s], handler'[s])
BY CleanParts, RestFields DEF Rests, SameObject, ClearFit, SeenFit, Asked, Copying

LEMMA BecomesClear ==
    ASSUME NEW s \in Session, ClearFit(mem[s], handler[s]), SeenFit(mem[s], handler[s]),
           NEW p, NEW c, NEW d, Becomes(s, p, c, d), handler[s].pc # "idle", p # "idle",
           Clean(c.hist), Seen(c.hist), Seen(d.hist), p # "status",
           p \in Copying /\ Fresh(mem[s], handler[s]) => Clean(d.hist),
           p \in {"aCompact", "aCursor"} => handler[s].pc \in {"aCompact", "aCursor"}
    PROVE  ClearFit(mem'[s], handler'[s]) /\ SeenFit(mem'[s], handler'[s])
BY DEF Becomes, SameObject, ClearFit, SeenFit, Asked, Fresh

LEMMA BeginsClear ==
    ASSUME NEW s \in Session, NEW u, NEW m, TurnBegins(s, u, m),
           Clean(m.ctx.hist), Clean(m.pending), Clean({In(u), Out(u)}),
           Seen(m.ctx.hist), Seen(m.pending), Seen({In(u), Out(u)})
    PROVE  ClearFit(mem'[s], handler'[s]) /\ SeenFit(mem'[s], handler'[s])
BY CleanParts, RestFields DEF TurnBegins, ClearFit, SeenFit, Asked, Copying

LEMMA SaveClean ==
    ASSUME NEW X, Clean(X), Seen(X), Clean(disk), Seen(disk),
           Save(X) \/ NoSave \/ SaveOk(X) \/ SaveFails
    PROVE  Clean(disk') /\ Seen(disk')
BY DEF Save, NoSave, SaveOk, SaveFails

LEMMA FetchedClear ==
    ASSUME TypeInv, ErasedFit, NEW s \in Session
    PROVE  Clean(Fetched(s)) /\ Seen(Fetched(s))
<1>1. handler[s].target \in Int /\ handler[s].target <= posted /\ posted \in Int /\ boundary \in Int
  BY SessionType DEF Handler, TypeInv, BoundsOK
<1>2. \A r : Msg(r).kind = "remote" /\ Msg(r).of = r
  BY DEF Msg
<1>3. \A x \in Fetched(s) : x.kind = "remote" /\ x.of \in Int /\ x.of <= posted /\ x.of > boundary
  BY <1>1, <1>2 DEF Fetched
<1> QED BY <1>1, <1>3 DEF Clean, Seen, ErasedFit

\* The clears and the group are not what a handler changes.
Unmoved == UNCHANGED <<current, posted, boundary, received, erased>>

\* A step of a handler brings nothing back that was erased.
LEMMA HandlerClear ==
    ASSUME TypeInv, ClearInv, "status" \notin Event, NEW s \in Session, HandlerStep(s)
    PROVE  /\ ClearFit(mem'[s], handler'[s]) /\ SeenFit(mem'[s], handler'[s])
           /\ Clean(disk') /\ Seen(disk') /\ Unmoved
<1> DEFINE m == mem[s]
           h == handler[s]
           Goal == /\ ClearFit(mem'[s], handler'[s]) /\ SeenFit(mem'[s], handler'[s])
                   /\ Clean(disk') /\ Seen(disk') /\ Unmoved
<1>1. /\ GenFit(m, h) /\ ClearFit(m, h) /\ SeenFit(m, h)
      /\ Clean(disk) /\ Seen(disk) /\ ErasedFit
  BY DEF ClearInv, GenInv
<1>2. /\ Clean(m.ctx.hist) /\ Seen(m.ctx.hist) /\ Clean(m.pending) /\ Seen(m.pending)
      /\ Seen(h.snap.hist) /\ Seen(h.before.hist)
  BY <1>1 DEF ClearFit, SeenFit
<1>3. ASSUME UNCHANGED <<current, disk, cursor, env, ghost, count>>
      PROVE  Clean(disk') /\ Seen(disk') /\ Unmoved
  BY <1>1, <1>3 DEF env, ghost, Unmoved
<1>4. ASSUME UNCHANGED <<current, cursor, env, erased, stopped, commands, crashes>>
      PROVE  Unmoved
  BY <1>4 DEF env, Unmoved
<1>5. ASSUME h.pc \in TurnPc, ~m.interrupt PROVE Fresh(m, h)
  BY <1>1, <1>5 DEF GenFit
<1>6. ASSUME NEW p, NEW c, Becomes(s, p, c, h.snap), h.pc # "idle", p # "idle", p # "status",
             Clean(c.hist), Seen(c.hist), p \notin Copying \/ h.pc \in Copying,
             p \notin {"aCompact", "aCursor"}
      PROVE  ClearFit(mem'[s], handler'[s]) /\ SeenFit(mem'[s], handler'[s])
  BY <1>1, <1>2, <1>6, BecomesClear DEF ClearFit
<1>7. ASSUME Cancel(s) PROVE Goal
  <2>1. Rests(s, m.ctx) /\ (Save(m.ctx.hist) \/ NoSave)
    BY <1>7, CancelEffect
  <2>2. UNCHANGED <<current, cursor, env, erased, stopped, commands, crashes>>
    BY <1>7, CancelEffect
  <2> QED BY <1>1, <1>2, <1>4, <2>1, <2>2, RestsClear, SaveClean
<1>8. CASE FetchReturns(s)
  <2>1. CASE Rests(s, m.ctx)
    BY <1>2, <1>3, <1>8, <2>1, FetchEffect, RestsClear
  <2>2. CASE Becomes(s, IF m.initialized THEN "aEntries" ELSE "aPrompt", m.ctx, h.snap)
    BY <1>2, <1>3, <1>6, <1>8, <2>2, FetchEffect DEF Copying
  <2> QED BY <1>8, <2>1, <2>2, FetchEffect
<1>9. ASSUME NEW waiting, NEW done, InitResumes(s, waiting, done),
             \/ h.pc = "aPrompt" /\ waiting = "aRestore" /\ done = "aEntries"
             \/ h.pc = "prompt" /\ waiting = "restore" /\ done = "run"
      PROVE  ClearFit(mem'[s], handler'[s]) /\ SeenFit(mem'[s], handler'[s])
  <2>1. CASE Becomes(s, done, m.ctx, h.snap)
    BY <1>2, <1>6, <1>9, <2>1 DEF Copying
  <2>2. Clean(m.ctx.hist \cup m.pending) /\ Seen(m.ctx.hist \cup m.pending)
    BY <1>2, CleanParts
  <2>3. CASE Initializes(s, done) /\ handler'[s].snap = h.snap
    BY <1>1, <1>9, <2>2, <2>3, CleanParts
       DEF Initializes, ClearFit, SeenFit, Asked, Fresh, Copying
  <2>4. CASE Initializes(s, waiting) /\ handler'[s].snap = mem'[s].ctx
    BY <1>1, <1>9, <2>2, <2>4, CleanParts
       DEF Initializes, ClearFit, SeenFit, Asked, Fresh, Copying
  <2> QED BY <1>9, <2>1, <2>3, <2>4, InitEffect
<1>10. CASE AppendPromptReturns(s) \/ PromptReturns(s)
  BY <1>3, <1>9, <1>10 DEF AppendPromptReturns, PromptReturns, At
<1>11. ASSUME NEW done, RestoreResumes(s, done),
             \/ h.pc = "aRestore" /\ done = "aEntries"
             \/ h.pc = "restore" /\ done = "run"
      PROVE  /\ ClearFit(mem'[s], handler'[s]) /\ SeenFit(mem'[s], handler'[s])
             /\ Clean(disk') /\ Seen(disk')
  <2>1. Clean(Empty.hist) /\ Seen(Empty.hist)
    BY CleanParts, RestFields
  <2>2. CASE Becomes(s, done, m.ctx, Empty) /\ NoSave
    <3>1. ClearFit(mem'[s], handler'[s]) /\ SeenFit(mem'[s], handler'[s])
      BY <1>1, <1>2, <1>11, <2>1, <2>2, BecomesClear DEF Copying
    <3> QED BY <1>1, <2>2, <3>1 DEF NoSave
  <2>3. CASE /\ ~Dropped(s) /\ (Save(h.snap.hist) \/ NoSave)
             /\ Becomes(s, done, mem'[s].ctx, Empty) /\ mem'[s].ctx.hist = h.snap.hist
    <3>1. Clean(h.snap.hist)
      BY <1>1, <1>11, <2>3 DEF Dropped, Stale, Fresh, ClearFit, Copying
    <3>2. ClearFit(mem'[s], handler'[s]) /\ SeenFit(mem'[s], handler'[s])
      BY <1>1, <1>2, <1>11, <2>1, <2>3, <3>1, BecomesClear DEF Copying
    <3> QED BY <1>1, <1>2, <2>3, <3>1, <3>2, SaveClean
  <2> QED BY <1>11, <2>2, <2>3, RestoreEffect
<1>12. CASE AppendRestoreReturns(s) \/ RestoreReturns(s)
  BY <1>4, <1>11, <1>12 DEF AppendRestoreReturns, RestoreReturns, At
<1>13. CASE AppendEntries(s)
  <2>1. CASE Rests(s, m.ctx)
    BY <1>2, <1>3, <1>13, <2>1, EntriesEffect, RestsClear
  <2>2. CASE ~Rests(s, m.ctx)
    <3>1. Clean(m.ctx.hist \cup Fetched(s)) /\ Seen(m.ctx.hist \cup Fetched(s))
      BY <1>1, <1>2, CleanParts, FetchedClear
    <3>2. ClearFit(mem'[s], handler'[s]) /\ SeenFit(mem'[s], handler'[s])
      BY <1>1, <1>2, <1>13, <2>2, <3>1, EntriesEffect
         DEF SameObject, ClearFit, SeenFit, Asked, Fresh, Copying
    <3> QED BY <1>3, <1>13, <3>2, EntriesEffect
  <2> QED BY <2>1, <2>2
<1>14. CASE AppendCompactReturns(s)
  <2>1. h.pc = "aCompact" /\ Unmoved
    BY <1>4, <1>14, CompactEffect
  <2>2. CASE Rests(s, m.ctx) /\ NoSave
    BY <1>1, <1>2, <2>1, <2>2, RestsClear, SaveClean
  <2>3. CASE Fresh(m, h) /\ SaveFails /\ Rests(s, h.before)
    <3>1. Clean(h.before.hist)
      BY <1>1, <2>1, <2>3 DEF ClearFit
    <3> QED BY <1>1, <1>2, <2>1, <2>3, <3>1, RestsClear, SaveClean
  <2>4. CASE /\ Fresh(m, h) /\ SaveOk(h.snap.hist)
             /\ Becomes(s, "aCursor", h.snap, h.snap)
    <3>1. Clean(h.snap.hist)
      BY <1>1, <2>1, <2>4 DEF ClearFit, Copying
    <3>2. ClearFit(mem'[s], handler'[s]) /\ SeenFit(mem'[s], handler'[s])
      BY <1>1, <1>2, <2>1, <2>4, <3>1, BecomesClear
    <3> QED BY <1>1, <1>2, <2>1, <2>4, <3>1, <3>2, SaveClean
  <2> QED BY <1>14, <2>2, <2>3, <2>4, CompactEffect
<1>15. CASE AppendCursorSaved(s)
  <2>1. /\ h.pc = "aCursor" /\ TurnBegins(s, h.input, m) /\ NoSave /\ Unmoved
    BY <1>15, CursorSavedEffect DEF env, Unmoved
  <2>2. Clean({In(h.input), Out(h.input)}) /\ Seen({In(h.input), Out(h.input)})
    BY <1>1, <2>1 DEF GenFit, ClearFit, SeenFit, Asked
  <2>3. ClearFit(mem'[s], handler'[s]) /\ SeenFit(mem'[s], handler'[s])
    BY <1>2, <2>1, <2>2, BeginsClear
  <2> QED BY <1>1, <2>1, <2>3 DEF NoSave
<1>16. CASE AppendCursorFails(s)
  <2>1. /\ h.pc = "aCursor" /\ Rests(s, h.before) /\ Unmoved
        /\ disk' = disk \/ disk' = h.before.hist
    BY <1>4, <1>16, CursorFailsEffect
  <2>2. Clean(h.before.hist)
    BY <1>1, <2>1 DEF GenFit, ClearFit
  <2> QED BY <1>1, <1>2, <2>1, <2>2, RestsClear
<1>17. CASE PrepReturns(s)
  <2>1. Clean(mem'[s].ctx.hist) /\ Seen(mem'[s].ctx.hist) /\ h.pc = "prep"
    BY <1>2, <1>17, PrepEffect
  <2>2. Clean(disk') /\ Seen(disk') /\ Unmoved
    BY <1>3, <1>17, PrepEffect
  <2>3. CASE Becomes(s, "ready", mem'[s].ctx, h.snap)
    BY <1>6, <2>1, <2>2, <2>3 DEF Copying
  <2>4. CASE Becomes(s, "pre", mem'[s].ctx, mem'[s].ctx)
    BY <1>1, <2>1, <2>2, <2>4, BecomesClear
  <2> QED BY <1>17, <2>3, <2>4, PrepEffect
<1>18. CASE PreCompactionReturns(s)
  <2>1. CASE /\ ~m.interrupt /\ (Save(h.snap.hist) \/ NoSave)
             /\ Becomes(s, "ready", h.snap, Empty)
             /\ UNCHANGED <<current, cursor, env, erased, stopped, commands, crashes>>
    <3>1. h.pc = "pre"
      BY <1>18, PreEffect
    <3>2. Clean(h.snap.hist)
      BY <1>1, <1>5, <2>1, <3>1 DEF ClearFit, Copying, TurnPc
    <3>3. Clean(Empty.hist) /\ Seen(Empty.hist)
      BY CleanParts, RestFields
    <3>4. ClearFit(mem'[s], handler'[s]) /\ SeenFit(mem'[s], handler'[s])
      BY <1>1, <1>2, <2>1, <3>1, <3>2, <3>3, BecomesClear
    <3> QED BY <1>1, <1>2, <1>4, <2>1, <3>2, <3>4, SaveClean
  <2> QED BY <1>7, <1>18, <2>1, PreEffect
<1>19. CASE Ready(s)
  <2>1. CASE /\ Becomes(s, IF m.initialized THEN "run" ELSE "prompt", m.ctx, h.snap)
             /\ UNCHANGED <<current, disk, cursor, env, ghost, count>>
    <3>1. h.pc = "ready"
      BY <1>19, ReadyEffect
    <3> QED BY <1>2, <1>3, <1>6, <2>1, <3>1 DEF Copying
  <2> QED BY <1>7, <1>19, <2>1, ReadyEffect
<1>20. CASE BeginRun(s)
  <2>1. CASE /\ ~m.interrupt /\ Becomes(s, "model", mem'[s].ctx, mem'[s].ctx)
             /\ mem'[s].ctx.hist = m.ctx.hist \cup {In(h.input)}
             /\ UNCHANGED <<current, disk, cursor, env, ghost, count>>
    <3>1. h.pc = "run"
      BY <1>20, RunEffect
    <3>2. Fresh(m, h)
      BY <1>5, <2>1, <3>1 DEF TurnPc
    <3>3. Clean({In(h.input)}) /\ Seen({In(h.input)})
      BY <1>1, <3>1, <3>2 DEF ClearFit, SeenFit, Asked, Clean, Seen
    <3>4. Clean(mem'[s].ctx.hist) /\ Seen(mem'[s].ctx.hist)
      BY <1>2, <2>1, <3>3, CleanParts
    <3>5. ClearFit(mem'[s], handler'[s]) /\ SeenFit(mem'[s], handler'[s])
      BY <1>1, <2>1, <3>1, <3>4, BecomesClear
    <3> QED BY <1>3, <2>1, <3>5
  <2> QED BY <1>7, <1>20, <2>1, RunEffect
<1>21. CASE ModelReturns(s) \/ ModelFails(s)
  <2>1. h.pc = "model"
    BY <1>21, ModelEffect
  <2>2. ASSUME ~m.interrupt, NEW c, Ends(s, c),
               \/ c = m.ctx
               \/ c = h.snap
               \/ c.hist = h.snap.hist \cup {Out(h.input)}
        PROVE  Goal
    <3>1. Clean(h.snap.hist) /\ Clean({Out(h.input)}) /\ Seen({Out(h.input)})
      BY <1>1, <1>5, <2>1, <2>2 DEF ClearFit, SeenFit, Asked, Copying, TurnPc, Clean, Seen
    <3>2. Clean(c.hist) /\ Seen(c.hist)
      BY <1>2, <2>2, <3>1, CleanParts
    <3> QED BY <1>1, <1>2, <1>4, <2>2, <3>2, RestsClear, SaveClean DEF Ends
  <2> QED BY <1>7, <1>21, <2>2, ModelEffect
<1>22. CASE PromptFails(s)
  <2>1. CASE /\ Rests(s, m.ctx) /\ SaveOk(m.ctx.hist)
             /\ UNCHANGED <<current, cursor, env, erased, stopped, commands, crashes>>
    BY <1>1, <1>2, <1>4, <2>1, RestsClear, SaveClean
  <2> QED BY <1>7, <1>22, <2>1, PromptFailsEffect
<1>23. CASE MidTurnCompacts(s) \/ StatusReturns(s)
  <2>1. h.pc = "model" /\ ~m.interrupt
    BY <1>1, <1>23, StatusEffect DEF ClearFit
  <2>2. Becomes(s, "model", m.ctx, h.snap) /\ Save(h.snap.hist) /\ Unmoved
    BY <1>4, <1>23, StatusEffect
  <2>3. Clean(h.snap.hist)
    BY <1>1, <1>5, <2>1 DEF ClearFit, Copying, TurnPc
  <2>4. ClearFit(mem'[s], handler'[s]) /\ SeenFit(mem'[s], handler'[s])
    BY <1>2, <1>6, <2>1, <2>2 DEF Copying
  <2> QED BY <1>1, <1>2, <2>2, <2>3, <2>4, SaveClean
<1> QED BY <1>8, <1>10, <1>12, <1>13, <1>14, <1>15, <1>16, <1>17, <1>18, <1>19, <1>20, <1>21,
           <1>22, <1>23 DEF HandlerStep, Resume


\* A handler's step is one of the current object, and it goes to rest or to an await.
LEMMA HandlerShape ==
    ASSUME TypeInv, NEW s \in Session, HandlerStep(s)
    PROVE  /\ OnlyAt(s) /\ handler[s].pc # "idle" /\ UNCHANGED <<current, posted>>
           /\ handler'[s] = Resting \/ handler'[s].pc # "idle"
<1>1. ASSUME NEW c, Rests(s, c) PROVE OnlyAt(s) /\ handler'[s] = Resting
  BY <1>1 DEF Rests
<1>2. ASSUME NEW p, NEW c, NEW d, Becomes(s, p, c, d), p # "idle"
      PROVE  OnlyAt(s) /\ handler'[s].pc # "idle"
  BY <1>2 DEF Becomes
<1>3. ASSUME NEW p, Initializes(s, p), p # "idle"
      PROVE  OnlyAt(s) /\ handler'[s].pc # "idle"
  BY <1>3 DEF Initializes
<1>4. ASSUME Cancel(s) PROVE OnlyAt(s) /\ handler'[s] = Resting /\ UNCHANGED <<current, posted>>
  BY <1>1, <1>4, CancelEffect DEF env
<1>5. CASE FetchReturns(s)
  BY <1>1, <1>2, <1>5, FetchEffect DEF env
<1>6. CASE AppendPromptReturns(s)
  <2>1. InitResumes(s, "aRestore", "aEntries")
    BY <1>6 DEF AppendPromptReturns
  <2>2. handler[s].pc = "aPrompt" /\ UNCHANGED <<current, posted>>
    BY <1>6 DEF AppendPromptReturns, At, env
  <2> QED BY <1>2, <1>3, <2>1, <2>2, InitEffect
<1>7. CASE PromptReturns(s)
  <2>1. InitResumes(s, "restore", "run")
    BY <1>7 DEF PromptReturns
  <2>2. handler[s].pc = "prompt" /\ UNCHANGED <<current, posted>>
    BY <1>7 DEF PromptReturns, At, env
  <2> QED BY <1>2, <1>3, <2>1, <2>2, InitEffect
<1>8. CASE AppendRestoreReturns(s)
  <2>1. RestoreResumes(s, "aEntries") /\ handler[s].pc = "aRestore" /\ UNCHANGED <<current, posted>>
    BY <1>8 DEF AppendRestoreReturns, At, env
  <2> QED BY <1>2, <2>1, RestoreEffect
<1>9. CASE RestoreReturns(s)
  <2>1. RestoreResumes(s, "run") /\ handler[s].pc = "restore" /\ UNCHANGED <<current, posted>>
    BY <1>9 DEF RestoreReturns, At, env
  <2> QED BY <1>2, <2>1, RestoreEffect
<1>10. CASE AppendEntries(s)
  BY <1>1, <1>10, EntriesEffect DEF env
<1>11. CASE AppendCompactReturns(s)
  BY <1>1, <1>2, <1>11, CompactEffect DEF env
<1>12. CASE AppendCursorSaved(s)
  BY <1>12, CursorSavedEffect DEF env, TurnBegins
<1>13. CASE AppendCursorFails(s)
  BY <1>1, <1>13, CursorFailsEffect DEF env
<1>14. CASE PrepReturns(s)
  BY <1>2, <1>14, PrepEffect DEF env
<1>15. CASE PreCompactionReturns(s)
  BY <1>2, <1>4, <1>15, PreEffect DEF env
<1>16. CASE Ready(s)
  BY <1>2, <1>4, <1>16, ReadyEffect DEF env
<1>17. CASE BeginRun(s)
  BY <1>2, <1>4, <1>17, RunEffect DEF env
<1>18. CASE ModelReturns(s) \/ ModelFails(s)
  BY <1>1, <1>4, <1>18, ModelEffect DEF env, Ends
<1>19. CASE PromptFails(s)
  BY <1>1, <1>4, <1>19, PromptFailsEffect DEF env
<1>20. CASE MidTurnCompacts(s) \/ StatusReturns(s)
  BY <1>2, <1>20, StatusEffect DEF env
<1> QED BY <1>5, <1>6, <1>7, <1>8, <1>9, <1>10, <1>11, <1>12, <1>13, <1>14, <1>15, <1>16, <1>17,
           <1>18, <1>19, <1>20 DEF HandlerStep, Resume

LEMMA HandlerAlone ==
    ASSUME TypeInv, Alone, NEW s \in Session, HandlerStep(s)
    PROVE  Alone'
BY HandlerShape, AtWork, AloneMoves DEF Idle

LEMMA HandlerClears ==
    ASSUME TypeInv, ClearInv, ClearEvents, NEW s \in Session, HandlerStep(s)
    PROVE  ClearInv'
<1>1. GenInv' /\ Alone'
  BY HandlerGen, GenMoves, HandlerAlone DEF ClearInv, GenInv
<1>2. /\ ClearFit(mem'[s], handler'[s]) /\ SeenFit(mem'[s], handler'[s])
      /\ Clean(disk') /\ Seen(disk') /\ Unmoved
  BY HandlerClear DEF ClearEvents
<1>3. OnlyAt(s)
  BY HandlerShape
<1>4. \A t \in Session : ClearFit(mem'[t], handler'[t]) /\ SeenFit(mem'[t], handler'[t])
  BY <1>2, <1>3 DEF OnlyAt, ClearInv
<1>5. \A t \in Session : ClearFit(mem[t], handler[t])' /\ SeenFit(mem[t], handler[t])'
  BY <1>2, <1>4 DEF Unmoved, ClearFit, SeenFit, Clean, Seen, Asked, Fresh
<1>6. Clean(disk)' /\ Seen(disk)' /\ ErasedFit' /\ (Reserves \/ posted = 0)'
  BY <1>2 DEF Unmoved, Clean, Seen, ErasedFit, ClearInv
<1> QED BY <1>1, <1>5, <1>6 DEF ClearInv

\* The object that a message or a command finds.
LEMMA OpenedClear ==
    ASSUME TypeInv, ClearInv, NEW s \in Session, GetOrCreate(s)
    PROVE  /\ Opened(s) \in Memory
           /\ s = current \/ current = NoSession
           /\ ClearFit(Opened(s), handler[s]) /\ SeenFit(Opened(s), handler[s])
<1>1. CASE s = current /\ Opened(s) = mem[s]
  BY <1>1, OpenedFields DEF ClearInv
<1>2. CASE s # current /\ current = NoSession /\ Idle(s) /\ New(Opened(s))
  <2>1. handler[s] = Resting
    BY <1>2 DEF ClearInv, Alone
  <2>2. Clean(disk) /\ Seen(disk)
    BY DEF ClearInv
  <2> QED BY <1>2, <2>1, <2>2, OpenedFields, CleanParts, RestFields
          DEF New, ClearFit, SeenFit, Asked, Copying
<1> QED BY <1>1, <1>2, OpenedFields

\* A step of one object that erases nothing.
LEMMA ClearMoves ==
    ASSUME ClearInv, GenInv', NEW s \in Session, OnlyAt(s),
           s = current \/ current = NoSession,
           Idle(s)' => handler'[s] = Resting,
           \/ current' = s
           \/ current' = NoSession /\ mem'[s] = Absent /\ handler'[s] = Resting,
           UNCHANGED <<posted, boundary, erased>>, received \subseteq received',
           ClearFit(mem'[s], handler'[s]), SeenFit(mem[s], handler[s])',
           Clean(disk'), Seen(disk')
    PROVE  ClearInv'
<1>1. Alone'
  BY AloneMoves DEF ClearInv
<1>2. \A X : (Clean(X) => X \cap erased' = {})
  BY DEF Clean
<1>3. \A x : (IF x.kind = "remote" THEN x.of <= posted ELSE x.of \in received)
              => (IF x.kind = "remote" THEN x.of <= posted' ELSE x.of \in received')
  OBVIOUS
<1>4. ErasedFit'
  BY DEF ErasedFit, ClearInv
<1>5. \A t \in Session : ClearFit(mem'[t], handler'[t])
  BY DEF OnlyAt, ClearInv
<1>6. \A t \in Session : ClearFit(mem[t], handler[t])'
  BY <1>5 DEF ClearFit, Clean, Asked, Fresh
<1>7. ASSUME NEW t \in Session PROVE SeenFit(mem[t], handler[t])'
  <2>1. CASE t = s
    BY <2>1
  <2>2. CASE t # s
    <3>1. mem'[t] = mem[t] /\ handler'[t] = handler[t] /\ SeenFit(mem[t], handler[t])
      BY <2>2 DEF OnlyAt, ClearInv
    <3> QED BY <1>3, <3>1 DEF SeenFit, Seen, Asked
  <2> QED BY <2>1, <2>2
<1>8. Clean(disk)' /\ Seen(disk)' /\ (Reserves \/ posted = 0)'
  BY <1>3 DEF Clean, Seen, ClearInv
<1> QED BY <1>1, <1>4, <1>6, <1>7, <1>8 DEF ClearInv

\* A clear leaves nobody at work in the generation that begins, and erases what was known.
LEMMA ClearErases ==
    ASSUME TypeInv, ClearInv, NEW s \in Session, Clear(s) \/ ClearAll(s)
    PROVE  ClearInv'
<1> DEFINE o == Opened(s)
           h == handler[s]
<1>1. /\ GetOrCreate(s) /\ Suspended /\ current' = s /\ boundary' = ClearBoundary
      /\ \/ disk' = {} /\ erased' = erased \cup Known(s)
         \/ UNCHANGED <<disk, erased>>
      /\ UNCHANGED <<posted, received>>
  BY ClearEffect
<1>2. s = current \/ current = NoSession
  BY <1>1, OpenedClear
<1>3. ClearFit(o, h) /\ SeenFit(o, h)
  BY <1>1, OpenedClear
<1>4. /\ OnlyAt(s) /\ handler' = handler /\ GenFit(mem'[s], handler[s])
      /\ h.pc # "idle" => ~Fresh(mem'[s], h)
      /\ mem'[s].ctx = Empty /\ mem'[s].pending = {}
  BY ClearGen DEF ClearInv
<1>5. GenInv'
  BY <1>4, GenMoves DEF ClearInv
<1>6. Alone'
  <2>1. Idle(s)' => handler'[s] = Resting
    BY <1>4 DEF Idle, ClearInv, Alone
  <2> QED BY <1>1, <1>2, <1>4, <2>1, AloneMoves DEF ClearInv
<1>7. \A t \in Session : t # s => mem'[t] = Absent /\ handler'[t] = Resting
  BY <1>2, <1>4, SessionAssumption DEF OnlyAt, ClearInv, Alone
<1>8. \A t \in Session : ClearFit(mem[t], handler[t])' /\ SeenFit(mem[t], handler[t])'
  <2>1. ASSUME NEW t \in Session, t # s
        PROVE  ClearFit(mem[t], handler[t])' /\ SeenFit(mem[t], handler[t])'
    BY <1>7, <2>1, RestFields DEF ClearFit, SeenFit, Clean, Seen, Asked, Copying
  <2>2. ClearFit(mem[s], handler[s])'
    <3>1. h.pc # "status" /\ handler'[s] = h
      BY <1>3, <1>4 DEF ClearFit
    <3>2. CASE h.pc = "idle"
      BY <1>4, <3>1, <3>2, RestFields DEF ClearFit, Clean, Asked, Copying
    <3>3. CASE h.pc # "idle"
      BY <1>4, <3>1, <3>3, RestFields DEF ClearFit, Clean, Fresh
    <3> QED BY <3>2, <3>3
  <2>3. SeenFit(mem[s], handler[s])'
    BY <1>1, <1>3, <1>4, RestFields DEF SeenFit, Seen, Asked
  <2> QED BY <2>1, <2>2, <2>3
<1>9. Clean(disk)' /\ Seen(disk)' /\ (Reserves \/ posted = 0)'
  BY <1>1 DEF Clean, Seen, ClearInv
<1>10. ErasedFit'
  <2>1. boundary \in Int /\ posted \in Int /\ boundary <= posted /\ boundary' = posted
    BY <1>1 DEF TypeInv, BoundsOK, ClearBoundary, ClearInv
  <2>2. \A x \in erased : x.kind = "remote" => x.of \in Int
    BY DEF TypeInv, FilesOK, Item
  <2>3. ASSUME NEW x \in Known(s)
        PROVE  IF x.kind = "remote" THEN x.of <= posted ELSE x.of \in received
    <3>1. CASE x \in disk
      BY <3>1 DEF ClearInv, Seen
    <3>2. CASE x \in o.ctx.hist \/ x \in o.pending \/ x \in h.snap.hist
      BY <1>3, <3>2 DEF SeenFit, Seen
    <3>3. CASE ~Idle(s) /\ x \in {In(h.input), Out(h.input)}
      BY <1>3, <3>3 DEF SeenFit, Seen, Asked, Idle
    <3>4. CASE \E r \in 1..posted : x = Msg(r)
      BY <3>4 DEF Msg
    <3> QED BY <2>3, <3>1, <3>2, <3>3, <3>4 DEF Known
  <2>4. \A x \in erased : IF x.kind = "remote" THEN x.of <= posted ELSE x.of \in received
    BY <2>1, <2>2 DEF ClearInv, ErasedFit
  <2> QED BY <1>1, <2>1, <2>3, <2>4 DEF ErasedFit
<1> QED BY <1>5, <1>6, <1>8, <1>9, <1>10 DEF ClearInv

\* A message or another command.
LEMMA OutsideClears ==
    ASSUME TypeInv, ClearInv, ClearEvents, NEW s \in Session, OutsideStep(s)
    PROVE  ClearInv'
<1> DEFINE o == Opened(s)
           h == handler[s]
<1>1. GenInv' /\ OnlyAt(s)
  BY OutsideGen, GenMoves DEF ClearInv, ClearEvents
<1>2. Clean(disk) /\ Seen(disk) /\ ErasedFit /\ (Idle(s) => h = Resting)
  BY DEF ClearInv, Alone
<1>3. ASSUME GetOrCreate(s)
      PROVE  /\ o \in Memory /\ ClearFit(o, h) /\ SeenFit(o, h)
             /\ s = current \/ current = NoSession
  BY <1>3, OpenedClear
<1> HIDE DEF o
<1>4. ASSUME GetOrCreate(s), current' = s, handler' = handler,
             UNCHANGED <<disk, posted, boundary, erased, received>>,
             ClearFit(mem'[s], h), SeenFit(mem'[s], h)
      PROVE  ClearInv'
  <2>1. ClearFit(mem'[s], handler'[s]) /\ SeenFit(mem[s], handler[s])'
    BY <1>4 DEF SeenFit, Seen, Asked
  <2>2. Idle(s)' => handler'[s] = Resting
    BY <1>2, <1>4 DEF Idle
  <2>3. Clean(disk') /\ Seen(disk')
    BY <1>2, <1>4
  <2>4. s = current \/ current = NoSession
    BY <1>3, <1>4
  <2> QED BY <1>1, <1>4, <2>1, <2>2, <2>3, <2>4, ClearMoves
<1>5. CASE \E u \in Input : Receive(u, s)
  <2>1. PICK u \in Input : Receive(u, s)
    BY <1>5
  <2>2. /\ GetOrCreate(s) /\ Idle(s) /\ u \notin received
        /\ received' = received \cup {u} /\ current' = s
        /\ UNCHANGED <<disk, posted, boundary, erased>>
    BY <2>1, ReceiveEffect DEF ghost
  <2>3. ClearFit(o, h) /\ SeenFit(o, h) /\ (s = current \/ current = NoSession)
    BY <1>3, <2>2
  <2>4. Clean({In(u), Out(u)})
    BY <1>2, <2>2 DEF Clean, ErasedFit, In, Out
  <2>5. \A x : (IF x.kind = "remote" THEN x.of <= posted ELSE x.of \in received)
                => (IF x.kind = "remote" THEN x.of <= posted' ELSE x.of \in received')
    BY <2>2
  <2>6. /\ handler'[s].pc \in {"prep", "fetch"} /\ handler'[s].input = u
        /\ handler'[s].snap = Empty /\ handler'[s].before = Empty
        /\ mem'[s].ctx = o.ctx /\ mem'[s].pending = o.pending
    BY <2>1, ReceiveEffect DEF TurnBegins, o
  <2>7. ClearFit(mem'[s], handler'[s])
    BY <2>3, <2>4, <2>6 DEF ClearFit, Asked, Copying
  <2>8. SeenFit(mem[s], handler[s])'
    <3>1. Seen(o.ctx.hist) /\ Seen(o.pending)
      BY <2>3 DEF SeenFit
    <3>2. Seen(mem[s].ctx.hist)' /\ Seen(mem[s].pending)'
      BY <2>5, <2>6, <3>1 DEF Seen
    <3>3. Seen(Asked(handler[s]))'
      BY <2>2, <2>6 DEF Seen, Asked, In, Out
    <3>4. Seen(handler[s].snap.hist)' /\ Seen(handler[s].before.hist)'
      BY <2>6, RestFields DEF Seen
    <3> QED BY <3>2, <3>3, <3>4 DEF SeenFit
  <2>9. Clean(disk') /\ Seen(disk')
    BY <1>2, <2>2
  <2> QED BY <1>1, <2>2, <2>3, <2>6, <2>7, <2>8, <2>9, ClearMoves DEF Idle
<1>6. CASE Stop(s)
  <2> DEFINE m == Interrupted(o)
  <2>1. /\ GetOrCreate(s) /\ current' = s /\ Turns(s, m)
        /\ UNCHANGED <<disk, posted, boundary, erased, received>>
    BY <1>6, StopEffect DEF o, env
  <2>2. m.ctx = o.ctx /\ m.gen = o.gen /\ m.pending = o.pending
    BY <1>3, <2>1, InterruptedFields
  <2> HIDE DEF m
  <2>3. ClearFit(mem'[s], h) /\ SeenFit(mem'[s], h)
    BY <1>3, <2>1, <2>2 DEF Turns, ClearFit, SeenFit, Fresh
  <2> QED BY <1>4, <2>1, <2>3 DEF Turns
<1>7. CASE Clear(s) \/ ClearAll(s)
  BY <1>7, ClearErases
<1>8. CASE Inject(s)
  <2>1. /\ GetOrCreate(s) /\ current' = s /\ handler' = handler /\ SameObject(o, mem'[s])
        /\ mem'[s].ctx.hist = o.ctx.hist
        /\ UNCHANGED <<disk, posted, boundary, erased, received>>
    BY <1>8, InjectEffect DEF o, ghost
  <2>2. ClearFit(mem'[s], h) /\ SeenFit(mem'[s], h)
    BY <1>3, <2>1 DEF SameObject, ClearFit, SeenFit, Fresh
  <2> QED BY <1>4, <2>1, <2>2
<1>9. CASE Exit(s)
  <2>1. /\ GetOrCreate(s) /\ current' = s /\ handler' = handler /\ SameObject(o, mem'[s])
        /\ mem'[s].ctx = Empty
        /\ UNCHANGED <<disk, posted, boundary, erased, received>>
    BY <1>9, ExitEffect DEF o, ghost, env
  <2>2. ClearFit(mem'[s], h) /\ SeenFit(mem'[s], h)
    BY <1>3, <2>1, CleanParts, RestFields DEF SameObject, ClearFit, SeenFit, Fresh
  <2> QED BY <1>4, <2>1, <2>2
<1>10. CASE Expire(s)
  <2>1. /\ current = s /\ Idle(s) /\ current' = NoSession /\ Turns(s, Absent)
        /\ NoSave \/ SaveOk(mem[s].ctx.hist) \/ SaveFails
        /\ UNCHANGED <<posted, boundary, erased, received>>
    BY <1>10, ExpireEffect DEF ClearEvents, env
  <2>2. Clean(mem[s].ctx.hist) /\ Seen(mem[s].ctx.hist)
    BY DEF ClearInv, ClearFit, SeenFit
  <2>3. Clean(disk') /\ Seen(disk')
    BY <1>2, <2>1, <2>2, SaveClean
  <2>4. mem'[s] = Absent /\ handler'[s] = Resting
    BY <1>2, <2>1 DEF Turns
  <2>5. ClearFit(mem'[s], handler'[s]) /\ SeenFit(mem[s], handler[s])'
    BY <2>4, RestFields DEF ClearFit, SeenFit, Clean, Seen, Asked, Copying
  <2> QED BY <1>1, <2>1, <2>3, <2>4, <2>5, ClearMoves
<1> QED BY <1>5, <1>6, <1>7, <1>8, <1>9, <1>10 DEF OutsideStep

LEMMA NextClear ==
    ASSUME TypeInv, ClearInv, ClearEvents, [Next]_vars
    PROVE  ClearInv'
<1>1. CASE \E s \in Session : Resume(s) \/ Environment(s)
  BY <1>1, StepKinds, HandlerClears, OutsideClears
<1>2. CASE Post
  <2>1. /\ Reserves /\ mem' = mem /\ handler' = handler /\ posted' = posted + 1
        /\ UNCHANGED <<current, disk, boundary, received, erased>>
    BY <1>2 DEF Post, ghost
  <2>2. GenInv' /\ Alone' /\ ErasedFit' /\ Clean(disk)' /\ (Reserves \/ posted = 0)'
    BY <2>1 DEF ClearInv, GenInv, Alone, Idle, ErasedFit, Clean
  <2>3. \A s \in Session : ClearFit(mem[s], handler[s])'
    BY <2>1 DEF ClearInv, ClearFit, Clean, Asked, Fresh
  <2>4. posted \in Int
    BY DEF TypeInv, BoundsOK
  <2>5. ASSUME NEW X \in SUBSET Item, Seen(X) PROVE Seen(X)'
    BY <2>1, <2>4, <2>5 DEF Seen, Item
  <2>6. ASSUME NEW s \in Session PROVE SeenFit(mem[s], handler[s])'
    <3>1. /\ mem[s].ctx.hist \in SUBSET Item /\ mem[s].pending \in SUBSET Item
          /\ handler[s].snap.hist \in SUBSET Item /\ handler[s].before.hist \in SUBSET Item
      BY SessionType DEF Memory, Handler, Context
    <3>2. Asked(handler[s]) \in SUBSET Item
      BY ItemType DEF Asked, TypeInv, WorkOK
    <3>3. SeenFit(mem[s], handler[s])
      BY DEF ClearInv
    <3> QED BY <2>1, <2>5, <3>1, <3>2, <3>3 DEF SeenFit
  <2>7. Seen(disk)'
    BY <2>1, <2>5 DEF ClearInv, TypeInv, FilesOK
  <2> QED BY <2>2, <2>3, <2>6, <2>7 DEF ClearInv
<1>3. CASE Crash
  <2>1. /\ \A s \in Session : mem'[s] = Absent /\ handler'[s] = Resting
        /\ UNCHANGED <<disk, posted, boundary, received, erased>>
    BY <1>3 DEF Crash, env, ghost
  <2>2. GenInv' /\ Alone'
    BY <2>1, IdleFits, RestFields DEF GenInv, Alone
  <2>3. ErasedFit' /\ Clean(disk)' /\ Seen(disk)' /\ (Reserves \/ posted = 0)'
    BY <2>1 DEF ClearInv, ErasedFit, Clean, Seen
  <2>4. \A s \in Session : ClearFit(mem[s], handler[s])' /\ SeenFit(mem[s], handler[s])'
    BY <2>1, RestFields DEF ClearFit, SeenFit, Clean, Seen, Asked, Copying
  <2> QED BY <2>2, <2>3, <2>4 DEF ClearInv
<1>4. CASE UNCHANGED vars
  BY <1>4 DEF vars, env, ghost, ClearInv, GenInv, Alone, Idle, ErasedFit, ClearFit, SeenFit,
              Clean, Seen, Asked, Fresh
<1> QED BY <1>1, <1>2, <1>3, <1>4 DEF Next

(* In a conversation that does not expire under a turn, and whose checkpoints *)
(* are saved when they are made, nothing that a clear erased is ever written  *)
(* again or back in the session, whatever was in flight at the clear          *)
(* (lifecycleGeneration of agent-session.ts).                                 *)
THEOREM ClearIsFinalHolds == ClearEvents => (Spec => []ClearIsFinal)
<1> SUFFICES ASSUME ClearEvents PROVE Spec => []ClearIsFinal
  OBVIOUS
<1>1. Init => TypeInv /\ ClearInv
  <2> SUFFICES ASSUME Init PROVE ClearInv
    BY InitType
  <2>1. /\ \A s \in Session : mem[s] = Absent /\ handler[s] = Resting
        /\ disk = {} /\ erased = {} /\ posted = 0
    BY DEF Init
  <2>2. GenInv /\ Alone
    BY <2>1, IdleFits, RestFields DEF GenInv, Alone
  <2>3. \A s \in Session : ClearFit(mem[s], handler[s]) /\ SeenFit(mem[s], handler[s])
    BY <2>1, RestFields DEF ClearFit, SeenFit, Clean, Seen, Asked, Copying
  <2> QED BY <2>1, <2>2, <2>3 DEF ClearInv, ErasedFit, Clean, Seen
<1>2. TypeInv /\ ClearInv /\ [Next]_vars => (TypeInv /\ ClearInv)'
  BY NextType, NextClear
<1>3. ClearInv => ClearIsFinal
  BY ClearInvImplies
<1> QED BY <1>1, <1>2, <1>3, PTL DEF Spec

-----------------------------------------------------------------------------
(* What was written.  The current object holds all that was once in the    *)
(* file and all the cursor has passed, in its context or waiting to be     *)
(* restored; while it waits, nothing is written.  A group message that the *)
(* context has is in the file, unless its hydration is under way.          *)

\* The group messages that the cursor has passed since the clear.
Due == {Msg(r) : r \in {n \in 1..cursor : n > boundary}}
Keeps(X) == recorded \subseteq X /\ Due \subseteq X

\* The group messages since the clear in X are in the file.
Written(X) == \A r \in 1..MaxRemote : r > boundary /\ Msg(r) \in X => Msg(r) \in disk

Appending(m, h) == h.pc \in {"aCompact", "aCursor"} /\ Fresh(m, h)

ShapeFit(m, h) ==
    /\ m.pending # {} => m.ctx = Empty /\ ~m.initialized /\ ~m.interrupt
    /\ h.pc \in TurnPc /\ m.interrupt => ~Fresh(m, h)
    /\ h.pc \in Copying \cup {"aEntries", "run"} /\ Fresh(m, h) => m.pending = {}
    /\ h.pc \in Copying /\ Fresh(m, h) => h.snap.hist = m.ctx.hist
    /\ Appending(m, h) => h.before.hist \subseteq h.snap.hist
    /\ h.pc # "status"

FileFit(m, h) ==
    /\ Keeps(m.ctx.hist \cup m.pending)
    /\ m.pending \subseteq disk
    /\ ~(h.pc = "aCompact" /\ Fresh(m, h)) => Written(m.ctx.hist)
    /\ Appending(m, h) =>
          /\ Due \subseteq h.before.hist /\ Written(h.before.hist)
          /\ \A r \in 1..h.target : r > cursor /\ r > boundary => Msg(r) \in h.snap.hist
    /\ h.pc = "aCompact" /\ Fresh(m, h) => recorded \subseteq h.before.hist

HistoryInv ==
    /\ GenInv /\ Alone /\ Keeps(disk)
    /\ \A s \in Session : s = current =>
          ShapeFit(mem[s], handler[s]) /\ FileFit(mem[s], handler[s])
    /\ Reserves \/ posted = 0

\* What never loses a written history: no stop, no /exit, no broadcast, no failing prompt
\* provider, no checkpoint that waits for the user to be told, no expiry of a session at work.
HistoryEvents == Event \cap {"stop", "exit", "inject", "promptError", "status", "longTurn"} = {}

LEMMA HistoryInvImplies ==
    ASSUME TypeInv, HistoryInv
    PROVE  HistoryKept /\ CursorCovered
<1>1. HistoryKept
  BY DEF HistoryInv, Keeps, HistoryKept
<1>2. ASSUME NEW r \in 1..cursor PROVE Msg(r) \in disk \/ r <= boundary
  <2>1. boundary \in Int /\ r \in Int
    BY DEF TypeInv, BoundsOK
  <2>2. CASE r > boundary
    BY <2>2 DEF HistoryInv, Keeps, Due
  <2> QED BY <2>1, <2>2
<1> QED BY <1>1, <1>2 DEF CursorCovered

LEMMA KeepParts ==
    /\ \A X, Y : X \subseteq Y /\ Keeps(X) => Keeps(Y)
    /\ \A X : X \subseteq disk => Written(X)
    /\ \A X, Y : Written(X) /\ Written(Y) => Written(X \cup Y)
    /\ \A u : Written({In(u)}) /\ Written({Out(u)})
BY DEF Keeps, Written, In, Out, Msg

\* Nothing is written, or the whole context is.
LEMMA FileQuiet ==
    ASSUME UNCHANGED <<disk, recorded, cursor, boundary>>, NEW s \in Session,
           FileFit(mem'[s], handler'[s]), Keeps(disk)
    PROVE  FileFit(mem[s], handler[s])' /\ Keeps(disk)'
BY DEF FileFit, Keeps, Due, Written, Appending, Fresh

LEMMA FileWritten ==
    ASSUME NEW X, Save(X) \/ SaveOk(X) \/ SaveFails \/ NoSave, UNCHANGED <<cursor, boundary>>,
           NEW s \in Session, Keeps(disk), Keeps(X), Written(X),
           mem'[s].ctx.hist = X, mem'[s].pending = {},
           handler'[s].pc \notin {"aCompact", "aCursor"}
    PROVE  FileFit(mem[s], handler[s])' /\ Keeps(disk)'
<1>1. CASE UNCHANGED <<disk, recorded>>
  BY <1>1 DEF FileFit, Keeps, Due, Written, Appending
<1>2. CASE disk' = X /\ recorded' = recorded \cup X
  BY <1>2 DEF FileFit, Keeps, Due, Written, Appending
<1> QED BY <1>1, <1>2 DEF Save, SaveOk, SaveFails, NoSave

LEMMA RestsHistory ==
    ASSUME NEW s \in Session, s = current, NEW c, Rests(s, c),
           ShapeFit(mem[s], handler[s]), mem[s].pending # {} => c = mem[s].ctx
    PROVE  /\ ShapeFit(mem'[s], handler'[s])
           /\ mem'[s].ctx = c /\ mem'[s].pending = mem[s].pending /\ handler'[s].pc = "idle"
BY RestFields DEF Rests, SameObject, ShapeFit, Appending, Copying, TurnPc

LEMMA IdleFile ==
    ASSUME NEW m, NEW h, h.pc = "idle", Keeps(m.ctx.hist \cup m.pending),
           m.pending \subseteq disk, Written(m.ctx.hist)
    PROVE  FileFit(m, h)
BY DEF FileFit, Appending

LEMMA BecomesShape ==
    ASSUME NEW s \in Session, ShapeFit(mem[s], handler[s]), NEW p, NEW c, NEW d,
           Becomes(s, p, c, d), mem[s].pending # {} => c = mem[s].ctx,
           p \in TurnPc => handler[s].pc \in TurnPc,
           p \in Copying /\ Fresh(mem[s], handler[s]) => d.hist = c.hist,
           p \in Copying \cup {"aEntries", "run"} /\ Fresh(mem[s], handler[s])
             => mem[s].pending = {},
           p \notin {"aCompact", "aCursor", "status"}
    PROVE  ShapeFit(mem'[s], handler'[s])
BY DEF ShapeFit, Becomes, SameObject, Appending, Fresh

LEMMA BecomesFile ==
    ASSUME NEW s \in Session, FileFit(mem[s], handler[s]), NEW p, NEW c, NEW d,
           Becomes(s, p, c, d), c.hist = mem[s].ctx.hist, handler[s].pc # "aCompact",
           p \notin {"aCompact", "aCursor"}
    PROVE  FileFit(mem'[s], handler'[s])
BY DEF FileFit, Becomes, SameObject, Appending

\* A step of a handler writes all that has to stay, or nothing.
LEMMA HandlerHistory ==
    ASSUME TypeInv, HistoryInv, HistoryEvents, NEW s \in Session, HandlerStep(s)
    PROVE  /\ ShapeFit(mem'[s], handler'[s])
           /\ FileFit(mem[s], handler[s])' /\ Keeps(disk)'
<1> DEFINE m == mem[s]
           h == handler[s]
           Goal == /\ ShapeFit(mem'[s], handler'[s])
                   /\ FileFit(mem[s], handler[s])' /\ Keeps(disk)'
<1>1. /\ s = current /\ ShapeFit(m, h) /\ FileFit(m, h) /\ Keeps(disk) /\ GenFit(m, h)
  BY HandlerShape, AtWork DEF HistoryInv, GenInv
<1>2. Keeps(m.ctx.hist \cup m.pending) /\ m.pending \subseteq disk
  BY <1>1 DEF FileFit
<1>3. ASSUME h.pc # "aCompact" \/ ~Fresh(m, h) PROVE Written(m.ctx.hist)
  BY <1>1, <1>3 DEF FileFit
<1>4. ASSUME h.pc \in TurnPc, ~m.interrupt PROVE Fresh(m, h)
  BY <1>1, <1>4 DEF GenFit
<1>5. ASSUME h.pc \in Copying, Fresh(m, h)
      PROVE  h.snap.hist = m.ctx.hist /\ m.pending = {} /\ Keeps(h.snap.hist)
  <2>1. h.snap.hist = m.ctx.hist /\ m.pending = {}
    BY <1>1, <1>5 DEF ShapeFit
  <2>2. m.ctx.hist \cup m.pending = m.ctx.hist
    BY <2>1
  <2> QED BY <1>2, <2>1, <2>2
<1>6. ASSUME UNCHANGED <<current, disk, cursor, env, ghost, count>>
      PROVE  UNCHANGED <<disk, recorded, cursor, boundary>>
  BY <1>6 DEF env, ghost
<1>7. ASSUME UNCHANGED <<current, cursor, env, erased, stopped, commands, crashes>>
      PROVE  UNCHANGED <<cursor, boundary>>
  BY <1>7 DEF env
<1>8. ASSUME Rests(s, m.ctx), UNCHANGED <<disk, recorded, cursor, boundary>>, Written(m.ctx.hist)
      PROVE  Goal
  <2>1. /\ ShapeFit(mem'[s], handler'[s]) /\ mem'[s].ctx = m.ctx /\ mem'[s].pending = m.pending
        /\ handler'[s].pc = "idle"
    BY <1>1, <1>8, RestsHistory
  <2>2. FileFit(mem'[s], handler'[s])
    BY <1>2, <1>8, <2>1, IdleFile
  <2> QED BY <1>1, <1>8, <2>1, <2>2, FileQuiet
<1>9. ASSUME Cancel(s), m.interrupt, h.pc \in TurnPc PROVE Goal
  <2>1. ~Fresh(m, h)
    BY <1>1, <1>9 DEF ShapeFit
  <2>2. Rests(s, m.ctx) /\ NoSave
    BY <1>9, <2>1, CancelEffect
  <2>3. UNCHANGED <<cursor, boundary>>
    BY <1>7, <1>9, CancelEffect
  <2>4. UNCHANGED <<disk, recorded, cursor, boundary>>
    BY <2>2, <2>3 DEF NoSave
  <2> QED BY <1>3, <1>8, <2>1, <2>2, <2>4
<1>10. ASSUME NEW p, NEW c, NEW d, Becomes(s, p, c, d), c.hist = m.ctx.hist,
              h.pc # "aCompact", p \notin {"aCompact", "aCursor", "status"},
              m.pending # {} => c = m.ctx,
              p \in TurnPc => h.pc \in TurnPc,
              p \in Copying /\ Fresh(m, h) => d.hist = c.hist,
              p \in Copying \cup {"aEntries", "run"} /\ Fresh(m, h) => m.pending = {},
              UNCHANGED <<disk, recorded, cursor, boundary>>
       PROVE  Goal
  <2>1. ShapeFit(mem'[s], handler'[s])
    BY <1>1, <1>10, BecomesShape
  <2>2. FileFit(mem'[s], handler'[s])
    BY <1>1, <1>10, BecomesFile
  <2> QED BY <1>1, <1>10, <2>1, <2>2, FileQuiet
<1>11. ASSUME NEW X, Save(X) \/ SaveOk(X) \/ SaveFails \/ NoSave,
              UNCHANGED <<cursor, boundary>>, Keeps(X), Written(X),
              mem'[s].ctx.hist = X, mem'[s].pending = {},
              handler'[s].pc \notin {"aCompact", "aCursor"}, ShapeFit(mem'[s], handler'[s])
       PROVE  Goal
  BY <1>1, <1>11, FileWritten
<1>12. CASE FetchReturns(s)
  <2>1. h.pc = "fetch" /\ UNCHANGED <<disk, recorded, cursor, boundary>>
    BY <1>6, <1>12, FetchEffect
  <2>2. CASE Rests(s, m.ctx)
    BY <1>3, <1>8, <2>1, <2>2
  <2>3. CASE Becomes(s, IF m.initialized THEN "aEntries" ELSE "aPrompt", m.ctx, h.snap)
    <3>1. m.initialized => m.pending = {}
      BY <1>1 DEF ShapeFit
    <3> QED BY <1>10, <2>1, <2>3, <3>1 DEF Copying, TurnPc
  <2> QED BY <1>12, <2>2, <2>3, FetchEffect
<1>13. ASSUME NEW waiting, NEW done, InitResumes(s, waiting, done),
              \/ h.pc = "aPrompt" /\ waiting = "aRestore" /\ done = "aEntries"
              \/ h.pc = "prompt" /\ waiting = "restore" /\ done = "run",
              UNCHANGED <<disk, recorded, cursor, boundary>>
       PROVE  Goal
  <2>1. CASE Dropped(s) /\ Becomes(s, done, m.ctx, h.snap)
    <3>1. Fresh(m, h) => m.pending = {}
      BY <1>1, <2>1 DEF Dropped, Stale, Fresh, ShapeFit
    <3> QED BY <1>10, <1>13, <2>1, <3>1 DEF Copying, TurnPc
  <2>2. ASSUME NEW p, ~Dropped(s), Initializes(s, p), p \notin {"aCompact", "aCursor", "status"},
               p \in Copying => handler'[s].snap = mem'[s].ctx
        PROVE  Goal
    <3>1. ShapeFit(mem'[s], handler'[s])
      BY <2>2 DEF Dropped, Initializes, ShapeFit, Appending
    <3>2. Written(m.ctx.hist \cup m.pending)
      BY <1>2, <1>3, <1>13, KeepParts
    <3>3. FileFit(mem'[s], handler'[s])
      BY <1>2, <2>2, <3>2 DEF Initializes, FileFit, Appending
    <3> QED BY <1>1, <1>13, <3>1, <3>3, FileQuiet
  <2>3. CASE ~Dropped(s) /\ Initializes(s, done) /\ handler'[s].snap = h.snap
    BY <1>13, <2>2, <2>3 DEF Copying
  <2>4. CASE ~Dropped(s) /\ Initializes(s, waiting) /\ handler'[s].snap = mem'[s].ctx
    BY <1>13, <2>2, <2>4
  <2> QED BY <1>13, <2>1, <2>3, <2>4, InitEffect
<1>14. CASE AppendPromptReturns(s) \/ PromptReturns(s)
  BY <1>6, <1>13, <1>14 DEF AppendPromptReturns, PromptReturns, At
<1>15. ASSUME NEW done, RestoreResumes(s, done),
              \/ h.pc = "aRestore" /\ done = "aEntries"
              \/ h.pc = "restore" /\ done = "run",
              UNCHANGED <<cursor, boundary>>
       PROVE  Goal
  <2>1. h.pc \in Copying /\ h.pc # "aCompact"
    BY <1>15 DEF Copying
  <2>2. CASE Becomes(s, done, m.ctx, Empty) /\ NoSave
    <3>1. Fresh(m, h) => m.pending = {}
      BY <1>5, <2>1
    <3> QED BY <1>10, <1>15, <2>1, <2>2, <3>1 DEF Copying, TurnPc, NoSave
  <2>3. CASE /\ ~Dropped(s) /\ (Save(h.snap.hist) \/ NoSave)
             /\ Becomes(s, done, mem'[s].ctx, Empty) /\ mem'[s].ctx.hist = h.snap.hist
    <3>1. Fresh(m, h)
      BY <2>3 DEF Dropped, Stale, Fresh
    <3>2. h.snap.hist = m.ctx.hist /\ m.pending = {} /\ Keeps(h.snap.hist)
      BY <1>5, <2>1, <3>1
    <3>3. Written(h.snap.hist)
      BY <1>3, <2>1, <3>2
    <3>4. ShapeFit(mem'[s], handler'[s])
      BY <1>1, <1>15, <2>3, <3>2, BecomesShape DEF Copying, TurnPc
    <3>5. mem'[s].pending = {} /\ handler'[s].pc = done
      BY <2>3, <3>2 DEF Becomes, SameObject
    <3> QED BY <1>11, <1>15, <2>3, <3>2, <3>3, <3>4, <3>5
  <2> QED BY <1>15, <2>2, <2>3, RestoreEffect
<1>16. CASE AppendRestoreReturns(s) \/ RestoreReturns(s)
  BY <1>7, <1>15, <1>16 DEF AppendRestoreReturns, RestoreReturns, At
<1>17. CASE AppendEntries(s)
  <2>1. h.pc = "aEntries" /\ UNCHANGED <<disk, recorded, cursor, boundary>>
    BY <1>6, <1>17, EntriesEffect
  <2>2. CASE Rests(s, m.ctx)
    BY <1>3, <1>8, <2>1, <2>2
  <2>3. CASE ~Rests(s, m.ctx)
    <3>1. /\ Fresh(m, h) /\ SameObject(m, mem'[s])
          /\ mem'[s].ctx.hist = m.ctx.hist \cup Fetched(s)
          /\ handler'[s].snap = mem'[s].ctx /\ handler'[s].before = m.ctx
          /\ handler'[s].pc = IF Fetched(s) \subseteq m.ctx.hist THEN "aCursor" ELSE "aCompact"
          /\ handler'[s].gen = h.gen /\ handler'[s].target = h.target
      BY <1>17, <2>3, EntriesEffect
    <3>2. m.pending = {}
      BY <1>1, <2>1, <3>1 DEF ShapeFit
    <3>3. ShapeFit(mem'[s], handler'[s])
      BY <3>1, <3>2 DEF SameObject, ShapeFit, TurnPc
    <3>4. Keeps(m.ctx.hist) /\ Written(m.ctx.hist)
      BY <1>2, <1>3, <2>1, <3>2, KeepParts
    <3>5. \A r \in 1..h.target : r > cursor /\ r > boundary => Msg(r) \in mem'[s].ctx.hist
      BY <3>1 DEF Fetched
    <3>6. handler'[s].pc # "aCompact" => Written(mem'[s].ctx.hist)
      <4>1. Fetched(s) \subseteq m.ctx.hist => mem'[s].ctx.hist = m.ctx.hist
        BY <3>1
      <4> QED BY <3>1, <3>4, <4>1
    <3>7. FileFit(mem'[s], handler'[s])
      <4>1. Keeps(mem'[s].ctx.hist \cup mem'[s].pending) /\ mem'[s].pending \subseteq disk
        BY <3>1, <3>2, <3>4, KeepParts DEF SameObject
      <4>2. Due \subseteq m.ctx.hist /\ recorded \subseteq m.ctx.hist
        BY <3>4 DEF Keeps
      <4>3. ~(handler'[s].pc = "aCompact" /\ Fresh(mem'[s], handler'[s])) => Written(mem'[s].ctx.hist)
        BY <3>1, <3>6 DEF Fresh, SameObject
      <4> QED BY <3>1, <3>4, <3>5, <4>1, <4>2, <4>3 DEF FileFit
    <3> QED BY <1>1, <2>1, <3>3, <3>7, FileQuiet
  <2> QED BY <2>2, <2>3
<1>18. CASE AppendCompactReturns(s)
  <2>1. h.pc = "aCompact" /\ UNCHANGED <<cursor, boundary>>
    BY <1>7, <1>18, CompactEffect
  <2>2. CASE ~Fresh(m, h) /\ Rests(s, m.ctx) /\ NoSave
    BY <1>3, <1>8, <2>1, <2>2 DEF NoSave
  <2>3. ASSUME Fresh(m, h)
        PROVE  /\ h.before.hist \subseteq h.snap.hist /\ recorded \subseteq h.before.hist
               /\ Due \subseteq h.before.hist /\ Written(h.before.hist)
               /\ \A r \in 1..h.target : r > cursor /\ r > boundary => Msg(r) \in h.snap.hist
               /\ m.pending = {}
    BY <1>1, <2>1, <2>3 DEF ShapeFit, FileFit, Appending, Copying
  <2>4. CASE Fresh(m, h) /\ SaveFails /\ Rests(s, h.before)
    <3>1. Keeps(h.before.hist)
      BY <2>3, <2>4 DEF Keeps
    <3>2. /\ ShapeFit(mem'[s], handler'[s]) /\ mem'[s].ctx = h.before /\ mem'[s].pending = {}
          /\ handler'[s].pc = "idle"
      BY <1>1, <2>3, <2>4, RestsHistory
    <3> QED BY <1>11, <2>1, <2>3, <2>4, <3>1, <3>2
  <2>5. CASE Fresh(m, h) /\ SaveOk(h.snap.hist) /\ Becomes(s, "aCursor", h.snap, h.snap)
    <3>1. disk' = h.snap.hist /\ recorded' = h.snap.hist
      BY <2>3, <2>5 DEF SaveOk
    <3>2. /\ mem'[s].ctx = h.snap /\ mem'[s].pending = {} /\ mem'[s].gen = m.gen
          /\ handler'[s].pc = "aCursor" /\ handler'[s].snap = h.snap
          /\ handler'[s].before = h.before /\ handler'[s].target = h.target
          /\ handler'[s].gen = h.gen
      BY <2>3, <2>5 DEF Becomes, SameObject
    <3>3. ShapeFit(mem'[s], handler'[s])
      BY <2>3, <2>5, <3>2 DEF ShapeFit, TurnPc
    <3>4. Due' = Due
      BY <2>1 DEF Due
    <3>5. Keeps(disk)' /\ Keeps(mem[s].ctx.hist \cup mem[s].pending)'
      BY <2>3, <2>5, <3>1, <3>2, <3>4 DEF Keeps
    <3>6. Written(mem[s].ctx.hist)' /\ Written(handler[s].before.hist)'
      BY <2>3, <2>5, <3>1, <3>2 DEF Written
    <3>7. FileFit(mem[s], handler[s])'
      BY <2>1, <2>3, <2>5, <3>2, <3>4, <3>5, <3>6 DEF FileFit
    <3> QED BY <3>3, <3>5, <3>7
  <2> QED BY <1>18, <2>2, <2>4, <2>5, CompactEffect
<1>19. CASE AppendCursorSaved(s) \/ AppendCursorFails(s)
  <2>1. h.pc = "aCursor" /\ Fresh(m, h)
    BY <1>1, <1>19, CursorSavedEffect, CursorFailsEffect DEF GenFit
  <2>2. /\ h.before.hist \subseteq h.snap.hist /\ Due \subseteq h.before.hist
        /\ Written(h.before.hist) /\ Written(h.snap.hist) /\ recorded \subseteq h.snap.hist
        /\ h.snap.hist = m.ctx.hist /\ m.pending = {}
        /\ \A r \in 1..h.target : r > cursor /\ r > boundary => Msg(r) \in h.snap.hist
    <3>1. h.snap.hist = m.ctx.hist /\ m.pending = {} /\ Keeps(h.snap.hist)
      BY <1>5, <2>1 DEF Copying
    <3> QED BY <1>1, <1>3, <2>1, <3>1 DEF ShapeFit, FileFit, Appending, Keeps
  <2>3. CASE AppendCursorSaved(s)
    <3>1. /\ TurnBegins(s, h.input, m) /\ NoSave /\ boundary' = boundary
          /\ cursor' = IF h.target > cursor THEN h.target ELSE cursor
      BY <2>3, CursorSavedEffect DEF env
    <3>2. /\ mem'[s].ctx = m.ctx /\ mem'[s].pending = {} /\ mem'[s].interrupt = FALSE
          /\ handler'[s].pc = "prep"
      BY <2>2, <3>1 DEF TurnBegins
    <3>3. ShapeFit(mem'[s], handler'[s])
      BY <3>2 DEF ShapeFit, Appending, Copying
    <3>4. ASSUME NEW r \in 1..cursor', r > boundary
          PROVE  Msg(r) \in m.ctx.hist /\ Msg(r) \in disk
      <4>1. /\ h.target \in Int /\ cursor \in Int /\ posted \in Int /\ MaxRemote \in Int
            /\ h.target <= posted /\ posted <= MaxRemote /\ r \in Int /\ r >= 1
        BY <3>1, SessionType, SessionAssumption DEF Handler, TypeInv, BoundsOK, TargetOK
      <4>2. CASE r <= cursor
        <5>1. Msg(r) \in Due
          BY <3>4, <4>1, <4>2 DEF Due
        <5> QED BY <1>1, <2>2, <5>1 DEF Keeps
      <4>3. CASE r > cursor
        <5>1. r \in 1..h.target /\ r \in 1..MaxRemote
          BY <3>1, <3>4, <4>1, <4>3
        <5>2. Msg(r) \in m.ctx.hist
          BY <2>2, <3>4, <4>3, <5>1
        <5> QED BY <2>2, <3>4, <5>1, <5>2 DEF Written
      <4> QED BY <4>1, <4>2, <4>3
    <3>5. Due' \subseteq m.ctx.hist /\ Due' \subseteq disk
      BY <3>1, <3>4 DEF Due
    <3>6. Keeps(disk)'
      BY <1>1, <3>1, <3>5 DEF Keeps, NoSave
    <3>7. Keeps(mem[s].ctx.hist \cup mem[s].pending)'
      BY <2>2, <3>1, <3>2, <3>5 DEF Keeps, NoSave
    <3>8. Written(mem[s].ctx.hist)'
      BY <2>2, <3>1, <3>2 DEF Written, NoSave
    <3>9. FileFit(mem[s], handler[s])'
      BY <3>2, <3>7, <3>8 DEF FileFit, Appending
    <3> QED BY <3>3, <3>6, <3>9
  <2>4. CASE AppendCursorFails(s)
    <3>1. /\ Rests(s, h.before) /\ UNCHANGED <<cursor, boundary>>
          /\ recorded' = recorded \ (h.snap.hist \ h.before.hist)
          /\ disk' = disk \/ disk' = h.before.hist
      BY <2>4, CursorFailsEffect DEF env
    <3>2. /\ ShapeFit(mem'[s], handler'[s]) /\ mem'[s].ctx = h.before /\ mem'[s].pending = {}
          /\ handler'[s].pc = "idle"
      BY <1>1, <2>2, <3>1, RestsHistory
    <3>3. Due' = Due /\ recorded' \subseteq h.before.hist /\ recorded' \subseteq recorded
      BY <2>2, <3>1 DEF Due
    <3>4. Keeps(disk)' /\ Keeps(mem[s].ctx.hist \cup mem[s].pending)'
      BY <1>1, <2>2, <3>1, <3>2, <3>3 DEF Keeps
    <3>5. Written(mem[s].ctx.hist)'
      BY <2>2, <3>1, <3>2 DEF Written
    <3>6. FileFit(mem[s], handler[s])'
      BY <3>2, <3>4, <3>5 DEF FileFit, Appending
    <3> QED BY <3>2, <3>4, <3>6
  <2> QED BY <1>19, <2>3, <2>4
<1>20. CASE PrepReturns(s)
  <2>1. /\ h.pc = "prep" /\ mem'[s].ctx.hist = m.ctx.hist
        /\ UNCHANGED <<disk, recorded, cursor, boundary>>
    BY <1>6, <1>20, PrepEffect
  <2>2. m.pending # {} => mem'[s].ctx = m.ctx /\ m.ctx.hist = {}
    BY <1>1, <1>20, PrepEffect, RestFields DEF ShapeFit
  <2>3. CASE Becomes(s, "ready", mem'[s].ctx, h.snap)
    BY <1>10, <2>1, <2>2, <2>3 DEF Copying, TurnPc
  <2>4. CASE mem'[s].ctx.hist # {} /\ Becomes(s, "pre", mem'[s].ctx, mem'[s].ctx)
    BY <1>10, <2>1, <2>2, <2>4 DEF Copying, TurnPc
  <2> QED BY <1>20, <2>3, <2>4, PrepEffect
<1>21. CASE PreCompactionReturns(s)
  <2>1. h.pc = "pre" /\ h.pc \in Copying /\ h.pc \in TurnPc
    BY <1>21, PreEffect DEF Copying, TurnPc
  <2>2. CASE /\ ~m.interrupt /\ (Save(h.snap.hist) \/ NoSave)
             /\ Becomes(s, "ready", h.snap, Empty)
             /\ UNCHANGED <<current, cursor, env, erased, stopped, commands, crashes>>
    <3>1. h.snap.hist = m.ctx.hist /\ m.pending = {} /\ Keeps(h.snap.hist)
      BY <1>4, <1>5, <2>1, <2>2
    <3>2. Written(h.snap.hist)
      BY <1>3, <2>1, <3>1
    <3>3. ShapeFit(mem'[s], handler'[s])
      BY <1>1, <2>1, <2>2, <3>1, BecomesShape DEF Copying, TurnPc
    <3>4. mem'[s].ctx.hist = h.snap.hist /\ mem'[s].pending = {} /\ handler'[s].pc = "ready"
      BY <2>2, <3>1 DEF Becomes, SameObject
    <3> QED BY <1>7, <1>11, <2>2, <3>1, <3>2, <3>3, <3>4
  <2> QED BY <1>9, <1>21, <2>1, <2>2, PreEffect
<1>22. CASE Ready(s)
  <2>1. h.pc = "ready" /\ h.pc \in TurnPc
    BY <1>22, ReadyEffect DEF TurnPc
  <2>2. CASE /\ Becomes(s, IF m.initialized THEN "run" ELSE "prompt", m.ctx, h.snap)
             /\ UNCHANGED <<current, disk, cursor, env, ghost, count>>
    <3>1. m.initialized => m.pending = {}
      BY <1>1 DEF ShapeFit
    <3> QED BY <1>6, <1>10, <2>1, <2>2, <3>1 DEF Copying, TurnPc
  <2> QED BY <1>9, <1>22, <2>1, <2>2, ReadyEffect
<1>23. CASE BeginRun(s)
  <2>1. h.pc = "run" /\ h.pc \in TurnPc
    BY <1>23, RunEffect DEF TurnPc
  <2>2. CASE /\ ~m.interrupt /\ Becomes(s, "model", mem'[s].ctx, mem'[s].ctx)
             /\ mem'[s].ctx.hist = m.ctx.hist \cup {In(h.input)}
             /\ UNCHANGED <<current, disk, cursor, env, ghost, count>>
    <3>1. m.pending = {}
      BY <1>1, <1>4, <2>1, <2>2 DEF ShapeFit
    <3>2. ShapeFit(mem'[s], handler'[s])
      BY <1>1, <2>1, <2>2, <3>1, BecomesShape DEF TurnPc
    <3>3. Keeps(mem'[s].ctx.hist \cup mem'[s].pending) /\ Written(mem'[s].ctx.hist)
      <4>1. m.ctx.hist \cup m.pending \subseteq mem'[s].ctx.hist \cup mem'[s].pending
        BY <2>2, <3>1
      <4>2. Written(m.ctx.hist)
        BY <1>3, <2>1
      <4>3. Keeps(mem'[s].ctx.hist \cup mem'[s].pending)
        BY <1>2, <4>1, KeepParts
      <4>4. Written({In(h.input)})
        BY KeepParts
      <4>5. Written(mem'[s].ctx.hist)
        BY <2>2, <4>2, <4>4, KeepParts
      <4> QED BY <4>3, <4>5
    <3>4. mem'[s].pending = {} /\ handler'[s].pc = "model"
      BY <2>2, <3>1 DEF Becomes, SameObject
    <3>5. FileFit(mem'[s], handler'[s])
      BY <3>3, <3>4 DEF FileFit, Appending
    <3> QED BY <1>1, <1>6, <2>2, <3>2, <3>5, FileQuiet
  <2> QED BY <1>9, <1>23, <2>1, <2>2, RunEffect
<1>24. CASE ModelReturns(s) \/ ModelFails(s)
  <2>1. h.pc = "model" /\ h.pc \in TurnPc /\ h.pc \in Copying
    BY <1>24, ModelEffect DEF TurnPc, Copying
  <2>2. ASSUME ~m.interrupt, NEW c, Ends(s, c),
               \/ c = m.ctx
               \/ c = h.snap
               \/ c.hist = h.snap.hist \cup {Out(h.input)}
        PROVE  Goal
    <3>1. h.snap.hist = m.ctx.hist /\ m.pending = {} /\ Keeps(h.snap.hist) /\ Written(h.snap.hist)
      BY <1>3, <1>4, <1>5, <2>1, <2>2
    <3>2. c.hist = h.snap.hist \/ c.hist = h.snap.hist \cup {Out(h.input)}
      BY <2>2, <3>1
    <3>3. Keeps(c.hist) /\ Written(c.hist)
      BY <3>1, <3>2, KeepParts
    <3>4. /\ ShapeFit(mem'[s], handler'[s]) /\ mem'[s].ctx = c /\ mem'[s].pending = {}
          /\ handler'[s].pc = "idle"
      BY <1>1, <2>2, <3>1, RestsHistory DEF Ends
    <3> QED BY <1>7, <1>11, <2>2, <3>3, <3>4 DEF Ends
  <2> QED BY <1>9, <1>24, <2>1, <2>2, ModelEffect
<1>25. CASE PromptFails(s)
  BY <1>25, PromptFailsEffect DEF HistoryEvents
<1>26. CASE MidTurnCompacts(s) \/ StatusReturns(s)
  <2>1. h.pc = "model" /\ ~m.interrupt /\ h.pc \in TurnPc /\ h.pc \in Copying
    BY <1>1, <1>26, StatusEffect DEF ShapeFit, TurnPc, Copying
  <2>2. /\ Becomes(s, "model", m.ctx, h.snap) /\ Save(h.snap.hist)
        /\ UNCHANGED <<cursor, boundary>>
    BY <1>7, <1>26, StatusEffect DEF HistoryEvents
  <2>3. h.snap.hist = m.ctx.hist /\ m.pending = {} /\ Keeps(h.snap.hist) /\ Written(h.snap.hist)
    BY <1>3, <1>4, <1>5, <2>1
  <2>4. ShapeFit(mem'[s], handler'[s])
    BY <1>1, <2>1, <2>2, <2>3, BecomesShape DEF TurnPc
  <2>5. mem'[s].ctx.hist = h.snap.hist /\ mem'[s].pending = {} /\ handler'[s].pc = "model"
    BY <2>2, <2>3 DEF Becomes, SameObject
  <2> QED BY <1>11, <2>2, <2>3, <2>4, <2>5
<1> QED BY <1>12, <1>14, <1>16, <1>17, <1>18, <1>19, <1>20, <1>21, <1>22, <1>23, <1>24, <1>25,
           <1>26 DEF HandlerStep, Resume

\* A step of one object after which the file and the object hold what has to stay.
LEMMA HistoryMoves ==
    ASSUME HistoryInv, GenInv', NEW s \in Session, OnlyAt(s),
           s = current \/ current = NoSession,
           Idle(s)' => handler'[s] = Resting,
           \/ current' = s
           \/ current' = NoSession /\ mem'[s] = Absent /\ handler'[s] = Resting,
           current' = s => ShapeFit(mem'[s], handler'[s]) /\ FileFit(mem[s], handler[s])',
           Keeps(disk)', posted' = posted
    PROVE  HistoryInv'
<1>1. Alone'
  BY AloneMoves DEF HistoryInv
<1>2. ASSUME NEW t \in Session, t = current'
      PROVE  ShapeFit(mem'[t], handler'[t]) /\ FileFit(mem[t], handler[t])'
  BY <1>2, SessionAssumption
<1>3. ASSUME NEW t \in Session, t = current' PROVE ShapeFit(mem[t], handler[t])'
  BY <1>2, <1>3 DEF ShapeFit, Appending, Fresh
<1> QED BY <1>1, <1>2, <1>3 DEF HistoryInv

LEMMA HandlerKeeps ==
    ASSUME TypeInv, HistoryInv, HistoryEvents, NEW s \in Session, HandlerStep(s)
    PROVE  HistoryInv'
<1>1. GenInv' /\ OnlyAt(s)
  BY HandlerGen, GenMoves DEF HistoryInv, GenInv
<1>2. /\ UNCHANGED <<current, posted>> /\ s = current
      /\ Idle(s)' => handler'[s] = Resting
  BY HandlerShape, AtWork DEF HistoryInv, Idle
<1>3. /\ ShapeFit(mem'[s], handler'[s])
      /\ FileFit(mem[s], handler[s])' /\ Keeps(disk)'
  BY HandlerHistory
<1> QED BY <1>1, <1>2, <1>3, HistoryMoves

\* The object that a message or a command finds.
LEMMA OpenedHistory ==
    ASSUME TypeInv, HistoryInv, NEW s \in Session, GetOrCreate(s)
    PROVE  /\ Opened(s) \in Memory
           /\ s = current \/ current = NoSession
           /\ ShapeFit(Opened(s), handler[s]) /\ FileFit(Opened(s), handler[s])
<1>1. CASE s = current /\ Opened(s) = mem[s]
  BY <1>1, OpenedFields DEF HistoryInv
<1>2. CASE s # current /\ current = NoSession /\ Idle(s) /\ New(Opened(s))
  <2>1. handler[s].pc = "idle"
    BY <1>2 DEF Idle
  <2>2. ShapeFit(Opened(s), handler[s])
    BY <1>2, <2>1 DEF New, ShapeFit, Appending, Copying, TurnPc
  <2>3. Keeps(Opened(s).ctx.hist \cup Opened(s).pending) /\ Opened(s).pending \subseteq disk
    BY <1>2, KeepParts, RestFields DEF New, HistoryInv
  <2>4. Written(Opened(s).ctx.hist)
    BY <1>2, KeepParts, RestFields DEF New
  <2> QED BY <1>2, <2>1, <2>2, <2>3, <2>4, IdleFile, OpenedFields
<1> QED BY <1>1, <1>2, OpenedFields

\* After a clear nothing has to stay: all that was written was known to it.
LEMMA ClearForgets ==
    ASSUME TypeInv, HistoryInv, NEW s \in Session, Clear(s) \/ ClearAll(s)
    PROVE  HistoryInv'
<1> DEFINE h == handler[s]
<1>1. /\ GetOrCreate(s) /\ current' = s /\ boundary' = ClearBoundary
      /\ cursor' \in {0, cursor} /\ recorded' = recorded \ Known(s) /\ posted' = posted
  BY ClearEffect
<1>2. /\ OnlyAt(s) /\ handler' = handler /\ GenFit(mem'[s], handler[s])
      /\ h.pc # "idle" => ~Fresh(mem'[s], h)
      /\ mem'[s].ctx = Empty /\ mem'[s].pending = {}
  BY ClearGen DEF HistoryInv
<1>3. GenInv' /\ (s = current \/ current = NoSession)
  BY <1>1, <1>2, GenMoves, OpenedHistory DEF HistoryInv
<1>4. recorded' = {}
  BY <1>1 DEF HistoryInv, Keeps, Known
<1>5. Due' = {}
  <2>1. boundary' \in Int /\ cursor' \in Int /\ cursor' <= boundary'
    <3>1. /\ cursor \in Int /\ 0 <= cursor /\ cursor <= posted /\ posted \in Int
          /\ boundary \in Int /\ 0 <= boundary
      BY DEF TypeInv, BoundsOK
    <3>2. boundary' = posted \/ (posted = 0 /\ boundary' = boundary)
      BY <1>1 DEF ClearBoundary, HistoryInv
    <3> QED BY <1>1, <3>1, <3>2
  <2>2. {n \in 1..cursor' : n > boundary'} = {}
    BY <2>1
  <2> QED BY <2>2 DEF Due
<1>6. \A X : recorded' \subseteq X /\ Due' \subseteq X
  BY <1>4, <1>5
<1>7. Keeps(disk)' /\ Keeps(mem[s].ctx.hist \cup mem[s].pending)'
  BY <1>6 DEF Keeps
<1>8. ShapeFit(mem'[s], handler'[s])
  <2>1. h.pc # "status"
    BY <1>1, OpenedHistory DEF ShapeFit
  <2>2. CASE h.pc = "idle"
    BY <1>2, <2>2 DEF ShapeFit, Appending, Copying, TurnPc
  <2>3. CASE h.pc # "idle"
    BY <1>2, <2>1, <2>3 DEF ShapeFit, Appending
  <2> QED BY <2>2, <2>3
<1>9. FileFit(mem[s], handler[s])'
  <2>1. ~Appending(mem'[s], h)
    BY <1>2 DEF Appending
  <2>2. ~Appending(mem[s], handler[s])'
    BY <1>2, <2>1 DEF Appending, Fresh
  <2>3. Written(mem[s].ctx.hist)'
    BY <1>2, RestFields DEF Written
  <2> QED BY <1>2, <1>7, <2>2, <2>3 DEF FileFit, Appending
<1>10. Idle(s)' => handler'[s] = Resting
  <2>1. Idle(s) => h = Resting
    BY DEF HistoryInv, Alone
  <2> QED BY <1>2, <2>1 DEF Idle
<1> QED BY <1>1, <1>2, <1>3, <1>7, <1>8, <1>9, <1>10, HistoryMoves

LEMMA OutsideKeeps ==
    ASSUME TypeInv, HistoryInv, HistoryEvents, NEW s \in Session, OutsideStep(s)
    PROVE  HistoryInv'
<1> DEFINE o == Opened(s)
           h == handler[s]
<1>1. GenInv' /\ OnlyAt(s)
  BY OutsideGen, GenMoves DEF HistoryInv, HistoryEvents
<1>2. CASE \E u \in Input : Receive(u, s)
  <2>1. PICK u \in Input : Receive(u, s)
    BY <1>2
  <2>2. /\ GetOrCreate(s) /\ Idle(s) /\ current' = s /\ posted' = posted
        /\ UNCHANGED <<disk, recorded, cursor, boundary>>
    BY <2>1, ReceiveEffect DEF ghost
  <2>3. /\ ShapeFit(o, h) /\ FileFit(o, h) /\ o \in Memory
        /\ s = current \/ current = NoSession
    BY <2>2, OpenedHistory
  <2>4. /\ mem'[s].ctx = o.ctx /\ mem'[s].pending = o.pending
        /\ mem'[s].initialized = o.initialized
        /\ \/ handler'[s].pc = "prep" /\ mem'[s].interrupt = FALSE
           \/ handler'[s].pc = "fetch" /\ mem'[s].interrupt = o.interrupt
    BY <2>1, ReceiveEffect DEF TurnBegins
  <2> HIDE DEF o
  <2>5. ShapeFit(mem'[s], handler'[s])
    BY <2>3, <2>4 DEF ShapeFit, Appending, Copying, TurnPc
  <2>6. FileFit(mem'[s], handler'[s])
    BY <2>2, <2>3, <2>4 DEF FileFit, Appending, Idle
  <2>7. FileFit(mem[s], handler[s])' /\ Keeps(disk)'
    BY <2>2, <2>6, FileQuiet DEF HistoryInv
  <2> QED BY <1>1, <2>2, <2>3, <2>4, <2>5, <2>7, HistoryMoves DEF Idle
<1>3. CASE Clear(s) \/ ClearAll(s)
  BY <1>3, ClearForgets
<1>4. CASE Stop(s) \/ Exit(s) \/ Inject(s)
  BY <1>4, StopEffect, ExitEffect, InjectEffect DEF HistoryEvents
<1>5. CASE Expire(s)
  <2>1. /\ current = s /\ Idle(s) /\ current' = NoSession /\ Turns(s, Absent)
        /\ \/ NoSave
           \/ mem[s].ctx # Empty /\ SaveOk(mem[s].ctx.hist)
           \/ SaveFails
        /\ UNCHANGED <<cursor, boundary, posted>>
    BY <1>5, ExpireEffect DEF HistoryEvents, env
  <2>2. handler'[s] = Resting /\ mem'[s] = Absent
    BY <2>1 DEF Turns, HistoryInv, Alone
  <2>3. Keeps(disk) /\ ShapeFit(mem[s], h) /\ FileFit(mem[s], h)
    BY <2>1 DEF HistoryInv
  <2>4. Due' = Due
    BY <2>1 DEF Due
  <2>5. CASE UNCHANGED <<disk, recorded>>
    <3>1. Keeps(disk)'
      BY <2>3, <2>4, <2>5 DEF Keeps
    <3> QED BY <1>1, <2>1, <2>2, <3>1, HistoryMoves, SessionAssumption
  <2>6. CASE mem[s].ctx # Empty /\ SaveOk(mem[s].ctx.hist)
    <3>1. mem[s].pending = {}
      BY <2>3, <2>6 DEF ShapeFit
    <3>2. recorded \subseteq mem[s].ctx.hist /\ Due \subseteq mem[s].ctx.hist
      BY <2>3, <3>1 DEF FileFit, Keeps
    <3>3. Keeps(disk)'
      BY <2>4, <2>6, <3>2 DEF Keeps, SaveOk
    <3> QED BY <1>1, <2>1, <2>2, <3>3, HistoryMoves, SessionAssumption
  <2> QED BY <2>1, <2>5, <2>6 DEF NoSave, SaveFails
<1> QED BY <1>2, <1>3, <1>4, <1>5 DEF OutsideStep

LEMMA NextHistory ==
    ASSUME TypeInv, HistoryInv, HistoryEvents, [Next]_vars
    PROVE  HistoryInv'
<1>1. CASE \E s \in Session : Resume(s) \/ Environment(s)
  BY <1>1, StepKinds, HandlerKeeps, OutsideKeeps
<1>2. CASE Post \/ UNCHANGED vars
  <2>1. /\ UNCHANGED <<current, mem, handler, disk, recorded, cursor, boundary>>
        /\ (Reserves \/ posted = 0)'
    BY <1>2 DEF Post, vars, env, ghost, HistoryInv
  <2> QED BY <2>1 DEF HistoryInv, GenInv, Alone, Idle, ShapeFit, FileFit, Appending, Keeps, Due,
                      Written, Fresh
<1>3. CASE Crash
  <2>1. /\ \A s \in Session : mem'[s] = Absent /\ handler'[s] = Resting
        /\ current' = NoSession
        /\ UNCHANGED <<disk, recorded, cursor, posted, boundary>>
    BY <1>3 DEF Crash, env, ghost
  <2>2. GenInv' /\ Alone'
    BY <2>1, IdleFits, RestFields DEF GenInv, Alone
  <2>3. Keeps(disk)' /\ (Reserves \/ posted = 0)'
    BY <2>1 DEF HistoryInv, Keeps, Due
  <2> QED BY <2>1, <2>2, <2>3, SessionAssumption DEF HistoryInv
<1> QED BY <1>1, <1>2, <1>3 DEF Next

\* The inductive invariant of both theorems below.
LEMMA HistoryStays == HistoryEvents => (Spec => [](TypeInv /\ HistoryInv))
<1> SUFFICES ASSUME HistoryEvents PROVE Spec => [](TypeInv /\ HistoryInv)
  OBVIOUS
<1>1. Init => TypeInv /\ HistoryInv
  <2> SUFFICES ASSUME Init PROVE HistoryInv
    BY InitType
  <2>1. /\ \A s \in Session : mem[s] = Absent /\ handler[s] = Resting
        /\ current = NoSession /\ recorded = {} /\ cursor = 0 /\ posted = 0
    BY DEF Init
  <2>2. GenInv /\ Alone
    BY <2>1, IdleFits, RestFields DEF GenInv, Alone
  <2>3. Keeps(disk)
    BY <2>1 DEF Keeps, Due
  <2> QED BY <2>1, <2>2, <2>3, SessionAssumption DEF HistoryInv
<1>2. TypeInv /\ HistoryInv /\ [Next]_vars => (TypeInv /\ HistoryInv)'
  BY NextType, NextHistory
<1> QED BY <1>1, <1>2, PTL DEF Spec

(* In an environment without the six events that are known to lose it, what  *)
(* was once written to the context file stays there until a clear, whatever  *)
(* clears, expiries, failed writes, failed models and crashes come at        *)
(* whichever await (saveContext, appendDurableContext and cleanup).          *)
THEOREM HistoryKeptHolds == HistoryEvents => (Spec => []HistoryKept)
<1> SUFFICES ASSUME HistoryEvents PROVE Spec => []HistoryKept
  OBVIOUS
<1>1. TypeInv /\ HistoryInv => HistoryKept
  BY HistoryInvImplies
<1> QED BY <1>1, HistoryStays, PTL

(* In the same environment the remote cursor never passes a group message    *)
(* that is neither in the file nor before a clear: a crash between the two   *)
(* writes of a hydration skips nothing (appendDurableContext).               *)
THEOREM CursorCoveredHolds == HistoryEvents => (Spec => []CursorCovered)
<1> SUFFICES ASSUME HistoryEvents PROVE Spec => []CursorCovered
  OBVIOUS
<1>1. TypeInv /\ HistoryInv => CursorCovered
  BY HistoryInvImplies
<1> QED BY <1>1, HistoryStays, PTL

=============================================================================
