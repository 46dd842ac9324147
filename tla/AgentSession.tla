---------------------------- MODULE AgentSession ----------------------------
(***************************************************************************)
(* One conversation key of the message connectors: the AgentSession        *)
(* objects that serve it one after another, the MessageSessionManager map  *)
(* that holds the current one, and the durable context file and remote     *)
(* cursor of SessionStore.                                                 *)
(*                                                                         *)
(* The program is a single-threaded event loop: a handler runs without     *)
(* interruption from one await to the next, so every action below is the   *)
(* code between two awaits, and the pc of a handler names the await it is  *)
(* suspended at.  A command, an injected broadcast, an expiry or a crash   *)
(* can come at any await; every hazard of this component comes from there. *)
(*                                                                         *)
(* A context is abstracted to what the properties tell apart: how many     *)
(* system prompts it starts with, which history items it carries and which *)
(* transient injections.  A checkpoint summary carries the items it        *)
(* replaces, so compaction changes no history set; what it does change is  *)
(* modelled: it suspends the handler on a snapshot of the context and      *)
(* writes the file.                                                        *)
(***************************************************************************)
EXTENDS Integers, FiniteSets

CONSTANTS
    Session,       \* identities of AgentSession objects
    Input,         \* user messages
    NoSession,     \* no object, no message
    MaxRemote,     \* group messages recorded by the server
    MaxInject,     \* broadcasts injected into the session
    InjectLimit,   \* MAX_INJECTED_CONTEXT
    MaxCommand,    \* slash commands issued
    MaxCrash,      \* crashes of the process
    MaxFault,      \* failures of a write, a delete or the prompt provider
    Event          \* what the environment of this instance does

Events == {"hydrate", "inject", "stop", "clear", "clearAll", "exit", "expire", "promptError",
           "longTurn", "midTurn", "status", "modelError", "reload"}

ASSUME SessionAssumption ==
    /\ NoSession \notin Session /\ NoSession \notin Input
    /\ MaxRemote \in Nat /\ MaxInject \in Nat /\ InjectLimit \in Nat
    /\ MaxCommand \in Nat /\ MaxCrash \in Nat /\ MaxFault \in Nat
    /\ Event \subseteq Events

(* History items: the input and the reply of a turn, and group messages.   *)
In(u)  == [kind |-> "in", of |-> u]
Out(u) == [kind |-> "out", of |-> u]
Msg(r) == [kind |-> "remote", of |-> r]

Item    == [kind : {"in", "out"}, of : Input]
             \cup [kind : {"remote"}, of : 1..MaxRemote]
Context == [sys : Nat, hist : SUBSET Item, inj : SUBSET (1..MaxInject)]
Empty   == [sys |-> 0, hist |-> {}, inj |-> {}]

TurnPc   == {"prep", "pre", "ready", "prompt", "restore", "run", "model", "status"}
AppendPc == {"fetch", "aPrompt", "aRestore", "aEntries", "aCompact", "aCursor"}
Pc       == {"idle"} \cup TurnPc \cup AppendPc

Memory == [ctx : Context, initialized : BOOLEAN, busy : BOOLEAN,
           interrupt : BOOLEAN, gen : Nat, pending : SUBSET Item]
Handler == [pc : Pc, input : Input \cup {NoSession}, gen : Nat, snap : Context,
            before : Context, inj : SUBSET (1..MaxInject), target : 0..MaxRemote]

Absent == [ctx |-> Empty, initialized |-> FALSE, busy |-> FALSE,
           interrupt |-> FALSE, gen |-> 0, pending |-> {}]
Resting == [pc |-> "idle", input |-> NoSession, gen |-> 0, snap |-> Empty,
            before |-> Empty, inj |-> {}, target |-> 0]

VARIABLES
    current,    \* the session the manager's map holds
    mem,        \* the fields of each session object
    handler,    \* the message handler running on each session object
    disk,       \* items of the durable context file
    cursor,     \* the durable remote context cursor
    posted,     \* group messages so far, and
    boundary,   \*   the last one that precedes a clear
    injected,   \* broadcasts injected so far
    received,   \* user messages handed to a session
    recorded,   \* items that have been on disk            (history)
    erased,     \* items a clear has promised to forget    (history)
    stopped,    \* turns stopped before their result       (history)
    commands, crashes, faults

env   == <<posted, boundary, injected, received>>
ghost == <<recorded, erased, stopped>>
count == <<commands, crashes, faults>>
vars  == <<current, mem, handler, disk, cursor, env, ghost, count>>

(***************************************************************************)
(* Helpers                                                                 *)
(***************************************************************************)
Idle(s) == handler[s].pc = "idle"
At(s, p) == handler[s].pc = p

(* Every handler is suspended at an await.  At the other pcs it is in the  *)
(* middle of synchronous code, and only a crash can come in between.       *)
Running   == {"aEntries", "aCursor", "ready", "run"}
Suspended == \A s \in Session : handler[s].pc \notin Running

(* The manager's getOrCreate: the current object, or a new one that has    *)
(* marked the file for restoration.                                        *)
GetOrCreate(s) == IF current = NoSession THEN Idle(s) ELSE s = current
Opened(s) == IF s = current THEN mem[s]
             ELSE [Absent EXCEPT !.pending = disk]

(* An object nobody refers to any more.                                    *)
Collected(s, m) == IF current = s THEN m ELSE Absent

(* writeFileSync of the whole context; it may fail and leave the file.     *)
SaveOk(hist) ==
    /\ disk' = hist
    /\ recorded' = recorded \cup hist
SaveFails ==
    /\ faults < MaxFault
    /\ faults' = faults + 1
    /\ UNCHANGED <<disk, recorded>>
Save(hist) ==
    \/ SaveOk(hist) /\ UNCHANGED faults
    \/ SaveFails
NoSave == UNCHANGED <<disk, recorded, faults>>

(* stripping the injected messages, restoring, then injecting them again   *)
Initialized(m) ==
    [m EXCEPT !.initialized = TRUE,
              !.ctx = [sys |-> @.sys + 1, hist |-> @.hist \cup m.pending, inj |-> {}],
              !.pending = {}]
InjectedAgain(m, h) == [m EXCEPT !.ctx.inj = @ \cup h.inj]

Stale(s) == mem[s].gen # handler[s].gen
\* Faulty variant: init() compares no generation.
DroppedOnInterrupt(s) == mem[s].interrupt

Dropped(s) == mem[s].interrupt \/ Stale(s)

(* requestInterrupt acts on a busy session only                            *)
Interrupted(m) == IF m.busy THEN [m EXCEPT !.interrupt = TRUE] ELSE m

Init ==
    /\ current = NoSession
    /\ mem = [s \in Session |-> Absent]
    /\ handler = [s \in Session |-> Resting]
    /\ disk = {} /\ cursor = 0
    /\ posted = 0 /\ boundary = 0 /\ injected = 0 /\ received = {}
    /\ recorded = {} /\ erased = {} /\ stopped = {}
    /\ commands = 0 /\ crashes = 0 /\ faults = 0

(***************************************************************************)
(* A message arrives                                                       *)
(***************************************************************************)
(* The connector hands over a message only when nobody executes on the     *)
(* session; the CatsCo connector reserves the whole key, so that a second  *)
(* object of the key waits too.                                            *)
Reserves == "hydrate" \in Event
Free(s) == IF Reserves THEN \A t \in Session : Idle(t) ELSE Idle(s)

Busy(m) == [m EXCEPT !.busy = TRUE, !.interrupt = FALSE]
TurnOf(u, m) == [Resting EXCEPT !.pc = "prep", !.input = u, !.gen = m.gen]

Receive(u, s) ==
    /\ u \notin received
    /\ GetOrCreate(s) /\ Free(s) /\ Suspended
    /\ received' = received \cup {u}
    /\ current' = s
    /\ \/ /\ mem' = [mem EXCEPT ![s] = Busy(Opened(s))]
          /\ handler' = [handler EXCEPT ![s] = TurnOf(u, Opened(s))]
       \/ /\ Reserves
          /\ mem' = [mem EXCEPT ![s] = Opened(s)]
          /\ handler' = [handler EXCEPT ![s] =
                [Resting EXCEPT !.pc = "fetch", !.input = u,
                                !.gen = Opened(s).gen, !.target = posted]]
    /\ UNCHANGED <<disk, cursor, posted, boundary, injected, ghost, count>>

(* Someone else speaks in the group.                                       *)
Post ==
    /\ Reserves /\ posted < MaxRemote /\ Suspended
    /\ posted' = posted + 1
    /\ UNCHANGED <<current, mem, handler, disk, cursor, boundary, injected,
                   received, ghost, count>>

(***************************************************************************)
(* Hydration: appendDurableContext, under the connector's reservation      *)
(***************************************************************************)
(* The handler gives up: the message is not executed.                      *)
Abandon(s) ==
    /\ handler' = [handler EXCEPT ![s] = Resting]
    /\ mem' = [mem EXCEPT ![s] = Collected(s, @)]

StartTurn(s, m) ==
    /\ mem' = [mem EXCEPT ![s] = Busy(m)]
    /\ handler' = [handler EXCEPT ![s] = TurnOf(@.input, m)]

\* Faulty variant: the entries are appended before the session is restored.
FetchSkipsInit(s) ==
    /\ At(s, "fetch")
    /\ UNCHANGED <<current, disk, cursor, env, ghost, count>>
    /\ IF Stale(s) THEN Abandon(s)
       ELSE /\ handler' = [handler EXCEPT ![s].pc = "aEntries"]
            /\ UNCHANGED mem

(* The history has been fetched; init() suspends unless it has run.        *)
FetchReturns(s) ==
    /\ At(s, "fetch")
    /\ UNCHANGED <<current, disk, cursor, env, ghost, count>>
    /\ IF Stale(s) THEN Abandon(s)
       ELSE /\ handler' = [handler EXCEPT ![s].pc =
                              IF mem[s].initialized THEN "aEntries" ELSE "aPrompt"]
            /\ UNCHANGED mem

(* init() resumes with the prompt.  A dropped initialisation changes       *)
(* nothing; otherwise the pending history is consumed, and the restored    *)
(* context may have to be compacted first.                                 *)
InitResumes(s, waiting, done) ==
    IF Dropped(s)
    THEN /\ handler' = [handler EXCEPT ![s].pc = done]
         /\ UNCHANGED mem
    ELSE LET m == Initialized(mem[s])
             h == [handler[s] EXCEPT !.inj = mem[s].ctx.inj]
         IN \/ /\ mem' = [mem EXCEPT ![s] = InjectedAgain(m, h)]
               /\ handler' = [handler EXCEPT ![s].pc = done]
            \/ /\ mem[s].pending # {}
               /\ mem' = [mem EXCEPT ![s] = m]
               /\ handler' = [handler EXCEPT ![s] =
                     [h EXCEPT !.pc = waiting, !.snap = m.ctx]]

(* The restored context comes back: it replaces the context, and is on     *)
(* disk first if it was compacted.  A dropped one leaves the restored      *)
(* context and loses the injections held aside.                            *)
RestoreResumes(s, done) ==
    /\ IF Dropped(s)
       THEN NoSave /\ UNCHANGED mem
       ELSE /\ Save(handler[s].snap.hist) \/ NoSave
            /\ mem' = [mem EXCEPT ![s] =
                          InjectedAgain([@ EXCEPT !.ctx = handler[s].snap], handler[s])]
    /\ handler' = [handler EXCEPT ![s].pc = done, ![s].snap = Empty, ![s].inj = {}]

AppendPromptReturns(s) ==
    /\ At(s, "aPrompt")
    /\ InitResumes(s, "aRestore", "aEntries")
    /\ UNCHANGED <<current, disk, cursor, env, ghost, count>>

AppendRestoreReturns(s) ==
    /\ At(s, "aRestore")
    /\ RestoreResumes(s, "aEntries")
    /\ UNCHANGED <<current, cursor, env, erased, stopped, commands, crashes>>

(* The fetched entries, without those known to the context.                *)
Fetched(s) == {Msg(r) : r \in {n \in 1..handler[s].target : n > cursor /\ n > boundary}}

\* Faulty variant: the context to roll back to is taken before init().
AppendEntriesEarlySnapshot(s) ==
    /\ At(s, "aEntries")
    /\ UNCHANGED <<current, disk, cursor, env, ghost, count>>
    /\ IF Stale(s) THEN Abandon(s)
       ELSE LET m == mem[s]
                appended == [m.ctx EXCEPT !.hist = @ \cup Fetched(s)]
            IN /\ mem' = [mem EXCEPT ![s].ctx = appended]
               /\ handler' = [handler EXCEPT
                     ![s].pc = IF Fetched(s) \subseteq m.ctx.hist
                               THEN "aCursor" ELSE "aCompact",
                     ![s].snap = appended, ![s].before = Empty]

AppendEntries(s) ==
    /\ At(s, "aEntries")
    /\ UNCHANGED <<current, disk, cursor, env, ghost, count>>
    /\ IF Stale(s) THEN Abandon(s)
       ELSE LET m == mem[s]
                new == Fetched(s) \ m.ctx.hist
                appended == [m.ctx EXCEPT !.hist = @ \cup new]
            IN /\ mem' = [mem EXCEPT ![s].ctx = appended]
               /\ handler' = [handler EXCEPT
                     ![s].pc = IF new = {} THEN "aCursor" ELSE "aCompact",
                     ![s].snap = appended, ![s].before = m.ctx]

\* Faulty variant: the result of the write is ignored.
AppendIgnoresFailure(s) ==
    /\ At(s, "aCompact")
    /\ UNCHANGED <<current, cursor, env, erased, stopped, commands, crashes>>
    /\ IF Stale(s) THEN Abandon(s) /\ NoSave
       ELSE /\ Save(handler[s].snap.hist)
            /\ mem' = [mem EXCEPT ![s].ctx = handler[s].snap]
            /\ handler' = [handler EXCEPT ![s].pc = "aCursor"]

(* The entries are on disk before the cursor moves past them.              *)
AppendCompactReturns(s) ==
    /\ At(s, "aCompact")
    /\ UNCHANGED <<current, cursor, env, erased, stopped, commands, crashes>>
    /\ IF Stale(s) THEN Abandon(s) /\ NoSave
       ELSE \/ /\ SaveOk(handler[s].snap.hist) /\ UNCHANGED faults
               /\ mem' = [mem EXCEPT ![s].ctx = handler[s].snap]
               /\ handler' = [handler EXCEPT ![s].pc = "aCursor"]
            \/ /\ SaveFails
               /\ mem' = [mem EXCEPT ![s] = Collected(s, [@ EXCEPT !.ctx = handler[s].before])]
               /\ handler' = [handler EXCEPT ![s] = Resting]

(* The cursor is saved, or the entries are taken back: from the context    *)
(* and, if that write succeeds, from the file.                             *)
AppendCursorSaved(s) ==
    /\ At(s, "aCursor")
    /\ UNCHANGED <<current, env, erased, stopped, commands, crashes>>
    /\ cursor' = IF handler[s].target > cursor THEN handler[s].target ELSE cursor
    /\ StartTurn(s, mem[s])
    /\ NoSave

AppendCursorFails(s) ==
    /\ At(s, "aCursor")
    /\ UNCHANGED <<current, cursor, env, erased, stopped, commands, crashes>>
    /\ mem' = [mem EXCEPT ![s] = Collected(s, [@ EXCEPT !.ctx = handler[s].before])]
    /\ handler' = [handler EXCEPT ![s] = Resting]
    /\ LET appended == handler[s].snap.hist \ handler[s].before.hist
       IN /\ recorded' = recorded \ appended
          /\ \/ /\ faults < MaxFault /\ faults' = faults + 1
                /\ disk' = IF appended = {} THEN disk ELSE handler[s].before.hist
             \/ /\ faults + 1 < MaxFault /\ faults' = faults + 2
                /\ appended # {}
                /\ UNCHANGED disk

(***************************************************************************)
(* The turn: handleInput                                                   *)
(***************************************************************************)
\* Faulty variant: the busy flag is not cleared.
FinishStaysBusy(s, ctx) ==
    /\ mem' = [mem EXCEPT ![s].ctx = ctx]
    /\ handler' = [handler EXCEPT ![s] = Resting]

(* finally: the session is free again.                                     *)
Finish(s, ctx) ==
    /\ mem' = [mem EXCEPT ![s] = Collected(s, [@ EXCEPT !.ctx = ctx, !.busy = FALSE])]
    /\ handler' = [handler EXCEPT ![s] = Resting]

(* saveInterruptedContextIfCurrent: nothing is written after a clear.      *)
Cancel(s) ==
    /\ IF Stale(s) THEN NoSave ELSE Save(mem[s].ctx.hist)
    /\ Finish(s, mem[s].ctx)
    /\ UNCHANGED <<current, cursor, env, erased, stopped, commands, crashes>>

(* The turn has its result, or its failure: the context is written.        *)
Settle(s, ctx) ==
    /\ Save(ctx.hist)
    /\ Finish(s, ctx)
    /\ UNCHANGED <<current, cursor, env, erased, stopped, commands, crashes>>

(* The prompt is reconciled and hot reloaded, which puts a changed prompt  *)
(* into the context; then the context may have to be compacted.            *)
PrepReturns(s) ==
    /\ At(s, "prep")
    /\ \E reload \in {FALSE, "reload" \in Event} :
       LET m == mem[s]
           ctx == IF reload /\ m.initialized /\ ~Dropped(s) /\ m.ctx.sys = 0
                  THEN [m.ctx EXCEPT !.sys = 1] ELSE m.ctx
       IN /\ mem' = [mem EXCEPT ![s].ctx = ctx]
          /\ \/ handler' = [handler EXCEPT ![s].pc = "ready"]
             \/ /\ ctx.hist # {}
                /\ handler' = [handler EXCEPT ![s].pc = "pre", ![s].snap = ctx]
    /\ UNCHANGED <<current, disk, cursor, env, ghost, count>>

PreCompactionReturns(s) ==
    /\ At(s, "pre")
    /\ IF mem[s].interrupt THEN Cancel(s)
       ELSE /\ Save(handler[s].snap.hist) \/ NoSave
            /\ mem' = [mem EXCEPT ![s].ctx = handler[s].snap]
            /\ handler' = [handler EXCEPT ![s].pc = "ready", ![s].snap = Empty]
            /\ UNCHANGED <<current, cursor, env, erased, stopped, commands, crashes>>

Ready(s) ==
    /\ At(s, "ready")
    /\ IF mem[s].interrupt THEN Cancel(s)
       ELSE /\ handler' = [handler EXCEPT ![s].pc =
                              IF mem[s].initialized THEN "run" ELSE "prompt"]
            /\ UNCHANGED <<current, mem, disk, cursor, env, ghost, count>>

PromptReturns(s) ==
    /\ At(s, "prompt")
    /\ InitResumes(s, "restore", "run")
    /\ UNCHANGED <<current, disk, cursor, env, ghost, count>>

(* The prompt provider throws: session_init fails and the turn with it.    *)
PromptFails(s) ==
    /\ At(s, "prompt") /\ "promptError" \in Event
    /\ faults < MaxFault
    /\ IF mem[s].interrupt THEN Cancel(s)
       ELSE /\ SaveOk(mem[s].ctx.hist)
            /\ faults' = faults + 1
            /\ Finish(s, mem[s].ctx)
            /\ UNCHANGED <<current, cursor, env, erased, stopped, commands, crashes>>

RestoreReturns(s) ==
    /\ At(s, "restore")
    /\ RestoreResumes(s, "run")
    /\ UNCHANGED <<current, cursor, env, erased, stopped, commands, crashes>>

(* The turn controller pushes the input into the session's context and     *)
(* works on a copy of it from here on.                                     *)
BeginRun(s) ==
    /\ At(s, "run")
    /\ IF mem[s].interrupt THEN Cancel(s)
       ELSE LET asked == [mem[s].ctx EXCEPT !.hist = @ \cup {In(handler[s].input)}]
            IN /\ mem' = [mem EXCEPT ![s].ctx = asked]
               /\ handler' = [handler EXCEPT ![s].pc = "model", ![s].snap = asked]
               /\ UNCHANGED <<current, disk, cursor, env, ghost, count>>

\* Faulty variant: the answer is taken without looking for a stop.
ModelReturnsAnyway(s) ==
    /\ At(s, "model")
    /\ Settle(s, [handler[s].snap EXCEPT !.hist = @ \cup {Out(handler[s].input)}])

(* The model answers: the copy becomes the context, unless a stop came.    *)
ModelReturns(s) ==
    /\ At(s, "model")
    /\ IF mem[s].interrupt THEN Cancel(s)
       ELSE Settle(s, [handler[s].snap EXCEPT !.hist = @ \cup {Out(handler[s].input)}])

(* The model fails: the progress so far is kept, if the runner had begun.  *)
ModelFails(s) ==
    /\ At(s, "model") /\ "modelError" \in Event
    /\ IF mem[s].interrupt THEN Cancel(s)
       ELSE Settle(s, handler[s].snap) \/ Settle(s, mem[s].ctx)

(* A batch of tools is done and the copy too long: its checkpoint is saved *)
(* at once, or after the user has been told, which is one more await.      *)
(* A checkpoint begun before a stop fails on the aborted signal.           *)
MidTurnCompacts(s) ==
    /\ At(s, "model") /\ "midTurn" \in Event
    /\ ~mem[s].interrupt
    /\ IF "status" \in Event
       THEN handler' = [handler EXCEPT ![s].pc = "status"] /\ NoSave
       ELSE Save(handler[s].snap.hist) /\ UNCHANGED handler
    /\ UNCHANGED <<current, mem, cursor, env, erased, stopped, commands, crashes>>

StatusReturns(s) ==
    /\ At(s, "status")
    /\ Save(handler[s].snap.hist)
    /\ handler' = [handler EXCEPT ![s].pc = "model"]
    /\ UNCHANGED <<current, mem, cursor, env, erased, stopped, commands, crashes>>

(***************************************************************************)
(* Commands, injections, expiry, crash                                     *)
(***************************************************************************)
(* What a clear promises to forget: all that the session, its handler and  *)
(* the file hold, and the group messages before the clear.                 *)
Known(s) ==
    LET m == Opened(s)
    IN disk \cup m.ctx.hist \cup m.pending \cup handler[s].snap.hist
         \cup (IF Idle(s) THEN {}
               ELSE {In(handler[s].input), Out(handler[s].input)})
         \cup {Msg(r) : r \in 1..posted}

Command(name, s) ==
    /\ name \in Event
    /\ commands < MaxCommand
    /\ commands' = commands + 1
    /\ GetOrCreate(s) /\ Suspended
    /\ current' = s

(* A turn is stopped when its session is interrupted before its result.    *)
StopsTurn(s) ==
    stopped' = IF mem[s].busy THEN stopped \cup {handler[s].input} ELSE stopped

(* /stop, or the platform's interrupt                                      *)
Stop(s) ==
    /\ Command("stop", s)
    /\ mem' = [mem EXCEPT ![s] = Interrupted(Opened(s))]
    /\ StopsTurn(s)
    /\ UNCHANGED <<handler, disk, cursor, env, recorded, erased, crashes, faults>>

\* Faulty variant: reset() leaves the session initialised.
ResetKeepsInitialized(m) ==
    [m EXCEPT !.gen = @ + 1, !.ctx = Empty, !.pending = {}]

(* reset() of the session and of its lifecycle manager                     *)
Reset(m) ==
    [m EXCEPT !.gen = @ + 1, !.ctx = Empty, !.initialized = FALSE, !.pending = {}]

\* Faulty variant: the boundary takes in the message after the clear.
ClearBoundaryTooFar == IF Reserves THEN posted + 1 ELSE boundary

ClearBoundary == IF Reserves THEN posted ELSE boundary

(* /clear: interrupt, then reset.  The CatsCo connector also empties the   *)
(* file, trying twice; elsewhere the file is kept until the next save.     *)
Clear(s) ==
    /\ Command("clear", s)
    /\ mem' = [mem EXCEPT ![s] = Reset(Interrupted(Opened(s)))]
    /\ StopsTurn(s)
    /\ boundary' = ClearBoundary
    /\ recorded' = recorded \ Known(s)
    /\ \/ /\ Reserves
          /\ disk' = {} /\ erased' = erased \cup Known(s)
          /\ UNCHANGED faults
       \/ /\ Reserves
          /\ faults + 1 < MaxFault /\ faults' = faults + 2
          /\ UNCHANGED <<disk, erased>>
       \/ /\ ~Reserves
          /\ UNCHANGED <<disk, erased, faults>>
    /\ UNCHANGED <<handler, cursor, posted, injected, received, crashes>>

(* /clear --all: interrupt, reset, and delete the file and the state that  *)
(* holds the cursor.  A file that cannot be deleted is reported.           *)
ClearAll(s) ==
    /\ Command("clearAll", s)
    /\ mem' = [mem EXCEPT ![s] = Reset(Interrupted(Opened(s)))]
    /\ StopsTurn(s)
    /\ boundary' = ClearBoundary
    /\ recorded' = recorded \ Known(s)
    /\ cursor' = 0
    /\ \/ /\ disk' = {} /\ erased' = erased \cup Known(s)
          /\ UNCHANGED faults
       \/ /\ faults < MaxFault /\ faults' = faults + 1
          /\ UNCHANGED <<disk, erased>>
    /\ UNCHANGED <<handler, posted, injected, received, crashes>>

(* /exit: summarizeAndDestroy drops the messages and nothing else.         *)
Exit(s) ==
    /\ Command("exit", s)
    /\ mem' = [mem EXCEPT ![s] = [Opened(s) EXCEPT !.ctx = Empty]]
    /\ UNCHANGED <<handler, disk, cursor, env, ghost, crashes, faults>>

(* injectContext: the oldest injection goes when there are too many.       *)
Limited(inj) ==
    IF Cardinality(inj) <= InjectLimit THEN inj
    ELSE inj \ {i \in inj : \A j \in inj : i <= j}

Inject(s) ==
    /\ "inject" \in Event /\ injected < MaxInject
    /\ GetOrCreate(s) /\ Suspended
    /\ current' = s
    /\ injected' = injected + 1
    /\ mem' = [mem EXCEPT ![s] =
                  [Opened(s) EXCEPT !.ctx.inj = Limited(@ \cup {injected + 1})]]
    /\ UNCHANGED <<handler, disk, cursor, posted, boundary, received, ghost, count>>

(* The manager removes a session that was not used for the TTL, busy or    *)
(* not, and cleanup() writes what it holds.                                *)
Cleaned(s) == [mem[s] EXCEPT !.ctx = Empty]

Expire(s) ==
    /\ "expire" \in Event
    /\ current = s /\ Suspended
    /\ Idle(s) \/ "longTurn" \in Event
    /\ current' = NoSession
    /\ \/ /\ mem[s].ctx = Empty
          /\ mem' = [mem EXCEPT ![s] = IF Idle(s) THEN Absent ELSE @]
          /\ NoSave
       \/ /\ mem[s].ctx # Empty
          /\ SaveOk(mem[s].ctx.hist) /\ UNCHANGED faults
          /\ mem' = [mem EXCEPT ![s] = IF Idle(s) THEN Absent ELSE Cleaned(s)]
       \/ /\ mem[s].ctx # Empty
          /\ SaveFails
          /\ mem' = [mem EXCEPT ![s] = IF Idle(s) THEN Absent ELSE @]
    /\ UNCHANGED <<handler, cursor, env, erased, stopped, commands, crashes>>

(* The process dies at any await, or between the two writes of a           *)
(* hydration; only the files survive.                                      *)
Crash ==
    /\ crashes < MaxCrash
    /\ crashes' = crashes + 1
    /\ current' = NoSession
    /\ mem' = [s \in Session |-> Absent]
    /\ handler' = [s \in Session |-> Resting]
    /\ UNCHANGED <<disk, cursor, env, ghost, commands, faults>>

(***************************************************************************)
(* Specification                                                           *)
(***************************************************************************)
Resume(s) ==
    \/ FetchReturns(s) \/ AppendPromptReturns(s) \/ AppendRestoreReturns(s)
    \/ AppendEntries(s) \/ AppendCompactReturns(s)
    \/ AppendCursorSaved(s) \/ AppendCursorFails(s)
    \/ PrepReturns(s) \/ PreCompactionReturns(s) \/ Ready(s) \/ PromptReturns(s)
    \/ RestoreReturns(s) \/ BeginRun(s) \/ ModelReturns(s) \/ StatusReturns(s)

Environment(s) ==
    \/ \E u \in Input : Receive(u, s)
    \/ PromptFails(s) \/ ModelFails(s) \/ MidTurnCompacts(s)
    \/ Stop(s) \/ Clear(s) \/ ClearAll(s) \/ Exit(s)
    \/ Inject(s) \/ Expire(s)

Next ==
    \/ \E s \in Session : Resume(s) \/ Environment(s)
    \/ Post
    \/ Crash

(* The event loop runs every continuation; the provider answers, or its    *)
(* timeout does, so a turn does not compact for ever.                      *)
Fairness == \A s \in Session :
    WF_vars(Resume(s)) /\ SF_vars(ModelReturns(s))

Spec == Init /\ [][Next]_vars
FairSpec == Spec /\ Fairness

(***************************************************************************)
(* Properties                                                              *)
(***************************************************************************)
(* Every variable has its type.                                            *)
TypeOK ==
    /\ current \in Session \cup {NoSession}
    /\ mem \in [Session -> Memory]
    /\ handler \in [Session -> Handler]
    /\ disk \subseteq Item /\ recorded \subseteq Item /\ erased \subseteq Item
    /\ stopped \subseteq Input /\ received \subseteq Input
    /\ posted \in 0..MaxRemote /\ boundary \in 0..posted /\ cursor \in 0..posted
    /\ injected \in 0..MaxInject
    /\ commands \in 0..MaxCommand /\ crashes \in 0..MaxCrash /\ faults \in 0..MaxFault

(* What was once written to the context file stays there until a clear:    *)
(* no interrupted turn, hydration, expiry or crash in any order replaces   *)
(* the file by a context that lost some of it (saveContext overwrites the  *)
(* whole file, agent-session.ts handleInput, cleanup, appendDurableContext).*)
HistoryKept == recorded \subseteq disk

(* What a clear has confirmed to be gone is neither written again nor back *)
(* in the current session, whatever was in flight at the clear             *)
(* (lifecycleGeneration in agent-session.ts).                              *)
ClearIsFinal ==
    /\ erased \cap disk = {}
    /\ \A s \in Session : s = current =>
          erased \cap (mem[s].ctx.hist \cup mem[s].pending) = {}

(* The durable cursor never moves past a group message that is neither in  *)
(* the file nor before a clear, so that a crash between the two writes     *)
(* skips nothing (appendDurableContext).                                   *)
CursorCovered == \A r \in 1..cursor : Msg(r) \in disk \/ r <= boundary

(* The model is never asked without exactly one system prompt in front of  *)
(* the history (init, refreshSystemPromptIfNeeded, reset).                 *)
PromptFirst == \A s \in Session :
    At(s, "model") /\ ~mem[s].interrupt => handler[s].snap.sys = 1

(* The reply of a turn that was stopped before its result never gets into  *)
(* the history (the checks after each await of handleInput).               *)
NoStaleReply == \A u \in stopped :
    /\ Out(u) \notin disk
    /\ \A s \in Session : Out(u) \notin mem[s].ctx.hist

(* A message handed to a session is answered, kept in its history or given *)
(* up, and the session is free again.                                      *)
TurnEnds == \A s \in Session :
    (~Idle(s) \/ mem[s].busy) ~> (Idle(s) /\ ~mem[s].busy)
=============================================================================
