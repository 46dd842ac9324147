------------------------------ MODULE Connector ------------------------------
(* One conversation key of the CatsCo connector (src/catscompany/index.ts) and  *)
(* the sub-agents its turns dispatch (src/core/sub-agent-manager.ts).           *)
(*                                                                              *)
(* User messages, questions and results of sub-agents compete for one           *)
(* reservation.  What finds it taken waits in a queue, which whoever releases   *)
(* the reservation drains; results nobody waits for are gathered in a batch.    *)
(* /clear starts a new generation that everything older is fenced from, a       *)
(* cancel interrupts the turn and keeps the queue, destroy() stops everything.  *)
(*                                                                              *)
(* Every action is the code between two awaits, and a turn's pc names the await *)
(* it is suspended at.  What a turn and a hydration do to the context is the    *)
(* subject of AgentSession; here they take time, succeed, or fail.              *)
EXTENDS Naturals, Sequences, FiniteSets, SequencesExt

CONSTANTS
    User,           \* user messages
    Agent,          \* sub-agents the turns can dispatch
    None,
    Hydrated,       \* messages that need the group history first
    Loud,           \* sub-agents whose result text asks for a turn of its own
    MaxTries,       \* failed runs of a queued item that are retried (2 in the code)
    MaxSends,       \* SUBAGENT_FALLBACK_MAX_DELIVERY_ATTEMPTS
    MaxClear,       \* bound: /clear commands
    MaxCancel,      \* bound: cancel events
    MaxFault,       \* bound: failed calls, replies and hydrations
    MaxAsk,         \* bound: questions of the sub-agents
    MaxWait,        \* bound: calls of wait_subagents
    MaxEvents       \* bound: all of these together

ASSUME ConnectorAssumption ==
    /\ Hydrated \subseteq User /\ Loud \subseteq Agent /\ None \notin User \cup Agent
    /\ {MaxTries, MaxSends, MaxClear, MaxCancel, MaxFault, MaxAsk, MaxWait,
        MaxEvents} \subseteq Nat
    /\ MaxTries > 0

VARIABLES
    inbox,      \* each message: outside, awaiting its turn's preparations, or inside
    gen,        \* sessionClearGenerations of the key
    queue,      \* messageQueue
    reserved,   \* sessionExecutionReservations has the key
    turns,      \* the turns in flight
    notices,    \* queued items whose plain notice to the user is being sent
    timers,     \* pending setTimeout drains
    batch,      \* subAgentCompletionBatches: the results gathered, its timer armed
    running,    \* the key's conversation task was announced and has not ended
    phase,      \* "up", then the steps of destroy()
    agent,      \* sub-agents: status and the generation of their callbacks
    consumed, notify, held,   \* resultConsumedByWait, resultNotifyOnObservation, pendingResultObservations
    told,       \* history: the results that a model or the user has been given
    dropped,    \* history: the results given up after MaxSends
    slips,      \* history: what an error path has left without anybody to tend it
    budget      \* what the environment may still do

conn    == <<queue, reserved, turns, notices, batch, running, slips>>
results == <<agent, consumed, notify, held>>
history == <<told, dropped>>
vars == <<inbox, gen, conn, timers, phase, results, history, budget>>

(* A queue item: what it is about, the generation it belongs to, the runs that *)
(* failed, whether only its notice is left (deliveryOnly), failed notices.     *)
ItemOf(kinds, whom) == [kind : kinds, of : whom, gen : Nat, tries : 0..(MaxTries + 1),
                        notice : BOOLEAN, sends : 0..MaxSends]
Item == ItemOf({"user"}, User) \cup ItemOf({"ask", "result"}, Agent) \cup ItemOf({"batch"}, {None})

NewItem(kind, of, g) ==
    [kind |-> kind, of |-> of, gen |-> g, tries |-> 0, notice |-> FALSE, sends |-> 0]

(* A turn: the item it holds the reservation for, the caller it runs in, the   *)
(* results it carries, whether it owns the announced task, whether it was      *)
(* interrupted, and what an open wait_subagents has claimed.                   *)
Turn == [item : Item, via : {"direct", "drain", "flush"}, gives : SUBSET Agent,
         pc : {"hydrate", "model", "reply", "fallback"}, task : BOOLEAN,
         stopped : BOOLEAN, wait : SUBSET Agent, any : BOOLEAN]

Init ==
    /\ inbox = [u \in User |-> [at |-> "outside", gen |-> 0]]
    /\ gen = 0 /\ queue = <<>> /\ reserved = FALSE /\ turns = {} /\ notices = {}
    /\ timers = 0 /\ batch = {} /\ running = FALSE /\ phase = "up" /\ slips = {}
    /\ agent = [a \in Agent |-> [st |-> "none", gen |-> 0]]
    /\ consumed = {} /\ notify = {} /\ held = {} /\ told = {} /\ dropped = {}
    /\ budget = [clear |-> MaxClear, cancel |-> MaxCancel, fault |-> MaxFault,
                 ask |-> MaxAsk, wait |-> MaxWait, all |-> MaxEvents]

Spend(what) ==
    /\ budget[what] > 0 /\ budget.all > 0
    /\ budget' = [budget EXCEPT ![what] = @ - 1, !.all = @ - 1]

-----------------------------------------------------------------------------
(* The reservation, the queue, the task.                                       *)

ActiveAgents == {a \in Agent : agent[a].st \in {"running", "asking"}}
EndedAgents  == {a \in Agent : agent[a].st \in {"closing", "done", "stopped"}}

\* the fence: what belongs to a generation older than the last /clear
Stale(it) == it.gen # gen

\* getResultObservationHandlingForParent and shouldSuppressSubAgentObservationReply
Drop(it)   == it.kind = "result" /\ it.of \in consumed
Silent(it) == it.kind = "result" /\ it.of \notin notify \cup Loud

\* Mutant of CanReserve: only the session is asked.
CanReserveWhenIdle(taken, ts) == \A t \in ts : t.pc # "model"

\* tryReserveSessionExecution: a session is busy while its model runs
CanReserve(taken, ts) == ~taken /\ \A t \in ts : t.pc # "model"

\* The turn that starts for an item.  A user turn begins its task before the model runs.
NewTurn(it, via) ==
    LET pc == IF it.kind = "user" /\ it.of \in Hydrated THEN "hydrate" ELSE "model"
    IN  [item |-> it, via |-> via, gives |-> IF it.kind = "result" THEN {it.of} ELSE {},
         pc |-> pc, task |-> it.kind = "user" /\ pc = "model",
         stopped |-> FALSE, wait |-> {}, any |-> FALSE]

\* the parts of the state a drain reads and writes, with task for running
Now == [queue |-> queue, taken |-> reserved, turns |-> turns, notices |-> notices,
        batch |-> batch, task |-> running, slips |-> slips]

Becomes(c) ==
    /\ queue' = c.queue /\ reserved' = c.taken /\ turns' = c.turns /\ notices' = c.notices
    /\ batch' = c.batch /\ running' = c.task /\ slips' = c.slips

\* beginConversationTask returns the unfinished task of the key, or announces one
Starts(c, t) == [c EXCEPT !.taken = TRUE, !.turns = @ \cup {t}, !.task = @ \/ t.task]

\* Whatever drainMessageQueue takes off the head without running it: items of an older
\* generation, results a wait has consumed, results that go to the batch.
FirstKept(q) ==
    LET kept == {i \in DOMAIN q : ~Stale(q[i]) /\ ~Drop(q[i]) /\ ~Silent(q[i])}
    IN  IF kept = {} THEN Len(q) + 1 ELSE CHOOSE i \in kept : \A j \in kept : i <= j

\* drainMessageQueue up to its first await; a release and its drain are one step.
Drained(c) ==
    LET n     == FirstKept(c.queue)
        rest  == SubSeq(c.queue, n, Len(c.queue))
        quiet == {c.queue[i].of : i \in {j \in 1..(n - 1) : ~Stale(c.queue[j]) /\ ~Drop(c.queue[j])}}
        left  == [c EXCEPT !.queue = rest, !.batch = @ \cup quiet, !.slips = @ \ {"queue"}]
    IN  CASE phase # "up" \/ c.queue = <<>> -> [c EXCEPT !.slips = @ \ {"queue"}]
          [] phase = "up" /\ rest # <<>> /\ Head(rest).notice ->
                [left EXCEPT !.queue = Tail(rest), !.notices = @ \cup {Head(rest)}]
          [] phase = "up" /\ rest # <<>> /\ ~Head(rest).notice /\ CanReserve(c.taken, c.turns) ->
                Starts([left EXCEPT !.queue = Tail(rest)], NewTurn(Head(rest), "drain"))
          [] OTHER -> left

\* releaseSessionExecution in a finally
Released(c, t) == [c EXCEPT !.taken = FALSE, !.turns = @ \ {t}]

\* finishConversationTask: a turn ends the task it owns, once
Finished(c, t) == IF t.task THEN [c EXCEPT !.task = FALSE, !.slips = @ \ {"task"}] ELSE c

\* an exit that returns or throws before the drain leaves the queue as it is
Skips(c) == IF c.queue # <<>> /\ phase = "up" THEN [c EXCEPT !.slips = @ \cup {"queue"}] ELSE c

At(c, t, pc) == [c EXCEPT !.turns = (@ \ {t}) \cup {[t EXCEPT !.pc = pc]}]

Unshift(c, it) == [c EXCEPT !.queue = <<it>> \o @]

-----------------------------------------------------------------------------
(* Messages and commands of the user.                                          *)

\* onMessage: the generation is read before the first await of the handler
OnMessage(u) ==
    /\ inbox[u].at = "outside" /\ phase # "down"
    /\ inbox' = [inbox EXCEPT ![u] = [at |-> "await", gen |-> gen]]
    /\ UNCHANGED <<gen, conn, timers, phase, results, history, budget>>

\* processParsedMessage after the awaits before a turn: cloud restore, downloads
ProcessMessage(u) ==
    LET it == NewItem("user", u, inbox[u].gen)
    IN  /\ inbox[u].at = "await"
        /\ inbox' = [inbox EXCEPT ![u].at = "inside"]
        /\ Becomes(CASE Stale(it) \/ phase # "up" -> Now
                     [] ~Stale(it) /\ phase = "up" /\ ~CanReserve(reserved, turns) ->
                           [Now EXCEPT !.queue = Append(@, it)]
                     [] OTHER -> Starts(Now, NewTurn(it, "direct")))
        /\ UNCHANGED <<gen, timers, phase, results, history, budget>>

\* the same when the cloud restore fails: the user is asked to send the message again
RefuseMessage(u) ==
    /\ inbox[u].at = "await" /\ Spend("fault")
    /\ inbox' = [inbox EXCEPT ![u].at = "inside"]
    /\ UNCHANGED <<gen, conn, timers, phase, results, history>>

\* requestInterrupt: the sub-agents stop (one that is closing has left their map), and
\* the turn of a busy session is aborted
Interrupted(c) == [c EXCEPT !.turns = {[t EXCEPT !.stopped = @ \/ t.pc = "model"] : t \in @}]
StopAgents ==
    agent' = [a \in Agent |-> IF a \in ActiveAgents THEN [agent[a] EXCEPT !.st = "stopped"] ELSE agent[a]]

\* cancelConversationTask; and finishConversationTask for whatever task is left
Cancelled(c) ==
    [c EXCEPT !.task = FALSE, !.turns = {[t EXCEPT !.task = FALSE] : t \in @}, !.slips = @ \ {"task"}]

\* /clear in processParsedMessage
Clear ==
    /\ phase # "down" /\ Spend("clear")
    /\ gen' = gen + 1
    /\ Becomes(Cancelled(Interrupted([Now EXCEPT !.queue = <<>>, !.batch = {}, !.slips = {}])))
    /\ StopAgents
    /\ UNCHANGED <<inbox, timers, phase, consumed, notify, held, history>>

\* handleCancelMessage
Cancel ==
    /\ phase # "down" /\ Spend("cancel")
    /\ Becomes(Cancelled(Interrupted(Now)))
    /\ StopAgents
    /\ UNCHANGED <<inbox, gen, timers, phase, consumed, notify, held, history>>

-----------------------------------------------------------------------------
(* The awaits of a turn.  After destroy() a drain does nothing, so the exits   *)
(* that skip it then are written like the others.                              *)

\* Mutant of HydrateReturns: the generation is not looked at again.
HydrateReturnsUnfenced(t) ==
    /\ t.pc = "hydrate"
    /\ Becomes(IF phase # "up" THEN Drained(Released(Now, t))
               ELSE [Now EXCEPT !.turns = (@ \ {t}) \cup {[t EXCEPT !.pc = "model", !.task = TRUE]},
                                !.task = TRUE])
    /\ UNCHANGED <<inbox, gen, timers, phase, results, history, budget>>

\* hydrateNativeFeishuGroupContext returns; the fence and the shutdown are checked after it
HydrateReturns(t) ==
    /\ t.pc = "hydrate"
    /\ Becomes(IF Stale(t.item) \/ phase # "up"
               THEN Drained(Released(Now, t))
               ELSE [Now EXCEPT !.turns = (@ \ {t}) \cup {[t EXCEPT !.pc = "model", !.task = TRUE]},
                                !.task = TRUE])
    /\ UNCHANGED <<inbox, gen, timers, phase, results, history, budget>>

\* Mutant of HydrateFails: it returns before the try whose finally releases.
HydrateFailsHeld(t) ==
    /\ t.pc = "hydrate" /\ Spend("fault")
    /\ turns' = turns \ {t}
    /\ UNCHANGED <<inbox, gen, queue, reserved, notices, timers, batch, running, phase,
                   results, history, slips>>

\* The history cannot be read: the message is answered with a notice and not run.  A
\* task that an earlier try of it announced is left open.
HydrateFails(t) ==
    LET orphan == running /\ t.item.tries > 0
    IN  /\ t.pc = "hydrate" /\ Spend("fault")
        /\ Becomes(Drained([Released(Now, t) EXCEPT !.slips = IF orphan THEN @ \cup {"task"} ELSE @]))
        /\ UNCHANGED <<inbox, gen, timers, phase, results, history>>

\* consumeQueuedUserInput: the runner of a user turn asks for it between two model requests
ConsumeQueued(t) ==
    LET merges(it) == it.kind = "user" /\ it.of \notin Hydrated /\ it.gen = t.item.gen
        taken == {i \in DOMAIN queue : \A j \in 1..i : merges(queue[j])}
    IN  /\ t.pc = "model" /\ t.item.kind = "user" /\ t.wait = {}
        /\ ~Stale(t.item) /\ taken # {}
        /\ queue' = SubSeq(queue, Cardinality(taken) + 1, Len(queue))
        /\ UNCHANGED <<inbox, gen, reserved, turns, notices, timers, batch, running, phase,
                       results, history, slips, budget>>

\* markResultObservationHandledForParent, and what a model or the user has now been given
Handled(given, marked) ==
    /\ told' = told \cup given /\ notify' = notify \ marked
    /\ UNCHANGED <<agent, consumed, held, dropped>>

\* handleMessage or handleRuntimeObservation returns, with a cancellation when interrupted
ModelReturns(t) ==
    /\ t.pc = "model" /\ t.wait = {}
    /\ \/ /\ Stale(t.item) \/ phase # "up"
          /\ Becomes(Drained(Released(Now, t)))
          /\ UNCHANGED <<results, history>>
       \/ /\ ~Stale(t.item) /\ phase = "up"
          /\ Becomes(At(Now, t, "reply"))
          /\ Handled(t.gives, IF t.via = "drain" THEN {} ELSE t.gives)
    /\ UNCHANGED <<inbox, gen, timers, phase, budget>>

\* Mutant of ReplyReturns: no drain after the release.
ReplyReturnsUndrained(t) ==
    /\ t.pc = "reply"
    /\ Becomes(Finished(Released(Now, t), t))
    /\ Handled({}, IF t.via = "drain" THEN t.gives ELSE {})
    /\ UNCHANGED <<inbox, gen, timers, phase, budget>>

\* sender.reply settles; for a user or a sub-agent turn a failure only changes the status
ReplyReturns(t) ==
    /\ t.pc = "reply"
    /\ Becomes(Drained(Finished(Released(Now, t), t)))
    /\ Handled({}, IF t.via = "drain" THEN t.gives ELSE {})
    /\ UNCHANGED <<inbox, gen, timers, phase, budget>>

\* the catch of a direct user turn: the failure is reported and thrown on, past the drain
DirectUserThrows(t) ==
    IF Stale(t.item) THEN Drained(Released(Now, t)) ELSE Skips(Finished(Released(Now, t), t))

\* the catch of a direct sub-agent turn: one try is used, the queue has the rest
DirectAgentThrows(t) ==
    LET again == [t.item EXCEPT !.tries = 1]
    IN  Drained(Released(IF Stale(t.item) \/ phase # "up" THEN Now
                         ELSE [Now EXCEPT !.queue = Append(@, again)], t))

\* The catch of a drained turn: back to the head of the queue until the tries are used
\* up; then a user message fails, and a result becomes a notice.
Retries(t) == ~Stale(t.item) /\ phase = "up" /\ (t.item.tries < MaxTries \/ t.item.kind # "user")

\* Mutant of DrainedThrows: the item that is retried keeps the reservation.
DrainedThrowsHeld(t) ==
    LET again == [t.item EXCEPT !.tries = @ + 1, !.notice = t.item.tries >= MaxTries]
    IN  IF Retries(t) THEN Unshift([Now EXCEPT !.turns = @ \ {t}], again)
        ELSE IF Stale(t.item) \/ phase # "up" THEN Drained(Released(Now, t))
        ELSE Drained(Finished(Released(Now, t), t))

DrainedThrows(t) ==
    LET again == [t.item EXCEPT !.tries = @ + 1, !.notice = t.item.tries >= MaxTries]
    IN  IF Retries(t) THEN Unshift(Released(Now, t), again)
        ELSE IF Stale(t.item) \/ phase # "up" THEN Drained(Released(Now, t))
        ELSE Drained(Finished(Released(Now, t), t))

\* the catch of flushSubAgentCompletionBatch: a fallback notice, unless a /clear came
FlushThrows(t) ==
    IF Stale(t.item) \/ phase # "up" THEN Skips(Released(Now, t)) ELSE At(Now, t, "fallback")

\* handleMessage or handleRuntimeObservation throws
ModelThrows(t) ==
    /\ t.pc = "model" /\ t.wait = {} /\ Spend("fault")
    /\ Becomes(CASE t.via = "flush" -> FlushThrows(t)
                 [] t.via = "drain" -> DrainedThrows(t)
                 [] t.via = "direct" /\ t.item.kind = "user" -> DirectUserThrows(t)
                 [] OTHER -> DirectAgentThrows(t))
    /\ timers' = IF t.via = "drain" /\ Retries(t) THEN timers + 1 ELSE timers
    /\ UNCHANGED <<inbox, gen, phase, results, history>>

\* the reply of a batch turn is inside the try
BatchReplyFails(t) ==
    /\ t.pc = "reply" /\ t.via = "flush" /\ Spend("fault")
    /\ Becomes(FlushThrows(t))
    /\ UNCHANGED <<inbox, gen, timers, phase, results, history>>

\* the fallback notice of a batch is sent, or fails and the batch is gathered again
FallbackReturns(t) ==
    /\ t.pc = "fallback"
    /\ \/ /\ Becomes(Drained(Released(Now, t)))
          /\ Handled(t.gives, t.gives)
          /\ UNCHANGED budget
       \/ /\ Spend("fault")
          /\ Becomes(Drained([Released(Now, t) EXCEPT !.batch = IF Stale(t.item) THEN @ ELSE @ \cup t.gives]))
          /\ UNCHANGED <<results, history>>
    /\ UNCHANGED <<inbox, gen, timers, phase>>

-----------------------------------------------------------------------------
(* Timers and notices.                                                         *)

\* setTimeout(() => drainMessageQueue(key)): not counted as a handler in flight
DrainTimer ==
    /\ timers > 0 /\ timers' = timers - 1
    /\ Becomes(Drained(Now))
    /\ UNCHANGED <<inbox, gen, phase, results, history, budget>>

\* the notice of a deliveryOnly item has been sent
NoticeSent(it) ==
    LET given == IF it.kind = "result" THEN {it.of} ELSE {}
    IN  /\ it \in notices
        /\ Becomes(Drained([Now EXCEPT !.notices = @ \ {it}]))
        /\ Handled(given, given)
        /\ UNCHANGED <<inbox, gen, timers, phase, budget>>

\* It failed: again later, MaxSends times in all; then nobody drains what is behind it.
NoticeFails(it) ==
    LET c == [Now EXCEPT !.notices = @ \ {it}]
        again == it.sends + 1 < MaxSends /\ ~Stale(it)
    IN  /\ it \in notices /\ Spend("fault")
        /\ Becomes(IF again THEN Unshift(c, [it EXCEPT !.sends = @ + 1]) ELSE Skips(c))
        /\ timers' = IF again THEN timers + 1 ELSE timers
        /\ dropped' = IF again \/ it.kind # "result" THEN dropped ELSE dropped \cup {it.of}
        /\ UNCHANGED <<inbox, gen, phase, results, told>>

\* flushSubAgentCompletionBatch; while sub-agents are active it may be put off for 15 s
Flush ==
    LET t == [NewTurn(NewItem("batch", None, gen), "flush") EXCEPT !.gives = batch]
    IN  /\ batch # {} /\ phase = "up" /\ CanReserve(reserved, turns)
        /\ Becomes(Starts([Now EXCEPT !.batch = {}], t))
        /\ UNCHANGED <<inbox, gen, timers, phase, results, history, budget>>

-----------------------------------------------------------------------------
(* Sub-agents.                                                                 *)

\* injectMessage and handleSubAgentFeedback
Injected(it) ==
    CASE Stale(it) \/ phase # "up" \/ Drop(it) -> Now
      [] ~Stale(it) /\ phase = "up" /\ ~Drop(it) /\ Silent(it) ->
            Drained([Now EXCEPT !.batch = @ \cup {it.of}])
      [] ~Stale(it) /\ phase = "up" /\ ~Drop(it) /\ ~Silent(it) /\ ~CanReserve(reserved, turns) ->
            [Now EXCEPT !.queue = Append(@, it)]
      [] OTHER -> Starts(Now, NewTurn(it, "direct"))

\* the turn whose model is calling tools
Calls(t) == t.pc = "model" /\ ~t.stopped /\ t.wait = {}

Set(a, st) == agent' = [agent EXCEPT ![a].st = st]

\* spawn: the callbacks of the sub-agent are those its turn has registered
Spawn(t, a) ==
    /\ Calls(t) /\ agent[a].st = "none"
    /\ agent' = [agent EXCEPT ![a] = [st |-> "running", gen |-> t.item.gen]]
    /\ UNCHANGED <<inbox, gen, conn, timers, phase, consumed, notify, held, history, budget>>

\* resumeForParent answers the question, stopForParent stops the sub-agent
Direct(t, a) ==
    /\ Calls(t)
    /\ \/ agent[a].st = "asking" /\ Set(a, "running")
       \/ a \in ActiveAgents /\ Set(a, "stopped")
    /\ UNCHANGED <<inbox, gen, conn, timers, phase, consumed, notify, held, history, budget>>

\* waitForParentInput
Ask(a) ==
    /\ agent[a].st = "running" /\ Spend("ask")
    /\ Set(a, "asking")
    /\ Becomes(Injected(NewItem("ask", a, agent[a].gen)))
    /\ UNCHANGED <<inbox, gen, timers, phase, consumed, notify, held, history>>

\* run() ends and finalizeSession closes the session before it delivers the result
RunEnds(a) ==
    /\ agent[a].st = "running" /\ Set(a, "closing")
    /\ UNCHANGED <<inbox, gen, conn, timers, phase, consumed, notify, held, history, budget>>

Claimed == UNION {t.wait : t \in turns}

\* the rest of finalizeSession: a result somebody waits for is held back
FinalizeSession(a) ==
    /\ agent[a].st = "closing" /\ Set(a, "done")
    /\ IF a \in Claimed /\ a \notin consumed
       THEN held' = held \cup {a} /\ UNCHANGED conn
       ELSE Becomes(Injected(NewItem("result", a, agent[a].gen))) /\ UNCHANGED held
    /\ UNCHANGED <<inbox, gen, timers, phase, consumed, notify, history, budget>>

\* What ends a wait for the sub-agents S at a poll, other than an interrupt or the timeout
Ready(S, any) ==
    \/ \E a \in S : agent[a].st = "asking"
    \/ S \cap ActiveAgents = {}
    \/ any /\ S \cap EndedAgents # {}

\* Mutant of ReleaseClaims: what was held back is not injected again.
ReleaseClaimsForgets(t, S, taken) ==
    /\ consumed' = consumed \cup taken
    /\ notify' = (notify \ taken) \cup (S \ taken)
    /\ held' = held \ S
    /\ Becomes([Now EXCEPT !.turns = (@ \ {t}) \cup {[t EXCEPT !.wait = {}, !.any = FALSE]}])

\* releaseResultObservationClaims: held results that were not consumed are injected again.
\* The turn itself holds the reservation, so they find it taken.
ReleaseClaims(t, S, taken) ==
    LET back == {a \in (S \cap held) \ (taken \cup consumed) : agent[a].gen = gen /\ phase = "up"}
    IN  /\ consumed' = consumed \cup taken
        /\ notify' = (notify \ taken) \cup (S \ taken)
        /\ held' = held \ S
        /\ \E order \in SetToSeqs(back) :
              Becomes([Now EXCEPT !.turns = (@ \ {t}) \cup {[t EXCEPT !.wait = {}, !.any = FALSE]},
                                  !.queue = @ \o [i \in DOMAIN order |-> NewItem("result", order[i], gen)]])

\* waitForParent claims the results and returns at once, or polls
Wait(t, S, any) ==
    /\ Calls(t) /\ Spend("wait")
    /\ S # {} /\ S \subseteq ActiveAgents \cup EndedAgents
    /\ IF Ready(S, any)
       THEN ReleaseClaims(t, S, S \cap EndedAgents)
       ELSE /\ Becomes([Now EXCEPT !.turns = (@ \ {t}) \cup {[t EXCEPT !.wait = S, !.any = any]}])
            /\ UNCHANGED <<consumed, notify, held>>
    /\ UNCHANGED <<inbox, gen, timers, phase, agent, history>>

\* a poll finds the wait interrupted, ready, or timed out
WaitReturns(t) ==
    /\ t.wait # {}
    /\ ReleaseClaims(t, t.wait, IF ~t.stopped /\ Ready(t.wait, t.any) THEN t.wait \cap EndedAgents ELSE {})
    /\ UNCHANGED <<inbox, gen, timers, phase, agent, history, budget>>

-----------------------------------------------------------------------------
(* destroy(), in the steps between its awaits.  It waits for the handlers in   *)
(* flight at most three seconds, so it may go on at any time.                  *)

Destroy ==
    /\ phase = "up" /\ phase' = "quiesce"
    /\ gen' = 0
    /\ Becomes(Interrupted([Now EXCEPT !.queue = <<>>, !.taken = FALSE, !.batch = {}, !.slips = {}]))
    /\ StopAgents
    /\ UNCHANGED <<inbox, timers, consumed, notify, held, history, budget>>

\* SubAgentManager.shutdown and sessionManager.destroy
StopSessions ==
    /\ phase = "quiesce" /\ phase' = "sweep"
    /\ StopAgents
    /\ UNCHANGED <<inbox, gen, conn, timers, consumed, notify, held, history, budget>>

\* finishActiveConversationTasksForShutdown, then once more after the disconnection
Sweep ==
    /\ phase \in {"sweep", "last"}
    /\ phase' = IF phase = "sweep" THEN "last" ELSE "down"
    /\ Becomes(Cancelled(Now))
    /\ UNCHANGED <<inbox, gen, timers, results, history, budget>>

-----------------------------------------------------------------------------
TurnStep == \E t \in turns :
    HydrateReturns(t) \/ ModelReturns(t) \/ ReplyReturns(t) \/ FallbackReturns(t) \/ WaitReturns(t)

ToolCall == \E t \in turns :
    \/ ConsumeQueued(t)
    \/ \E a \in Agent : Spawn(t, a) \/ Direct(t, a)
    \/ \E S \in SUBSET Agent, any \in BOOLEAN : Wait(t, S, any)

Failure == \E t \in turns : HydrateFails(t) \/ ModelThrows(t) \/ BatchReplyFails(t)

Next ==
    \/ \E u \in User : OnMessage(u) \/ ProcessMessage(u) \/ RefuseMessage(u)
    \/ Clear \/ Cancel
    \/ TurnStep \/ ToolCall \/ Failure
    \/ DrainTimer \/ Flush \/ \E it \in notices : NoticeSent(it) \/ NoticeFails(it)
    \/ \E a \in Agent : Ask(a) \/ RunEnds(a) \/ FinalizeSession(a)
    \/ Destroy \/ StopSessions \/ Sweep

Spec == Init /\ [][Next]_vars

(* The event loop runs every continuation and timer; a model call, a wait and  *)
(* a reply end, for each has a timeout.  What users, sub-agents and faults do  *)
(* is not fair.                                                                *)
FairSpec ==
    /\ Spec
    /\ \A u \in User : WF_vars(ProcessMessage(u))
    /\ WF_vars(TurnStep) /\ WF_vars(DrainTimer) /\ WF_vars(Flush)
    /\ WF_vars(\E it \in notices : NoticeSent(it))
    /\ \A a \in Agent : WF_vars(FinalizeSession(a))
    /\ WF_vars(StopSessions) /\ WF_vars(Sweep)

-----------------------------------------------------------------------------
(* Types; a reservation without a turn would block the key for good. *)
TypeOK ==
    /\ inbox \in [User -> [at : {"outside", "await", "inside"}, gen : Nat]]
    /\ gen \in Nat /\ queue \in Seq(Item) /\ reserved \in BOOLEAN
    /\ turns \subseteq Turn /\ notices \subseteq Item /\ timers \in Nat /\ batch \subseteq Agent
    /\ running \in BOOLEAN /\ phase \in {"up", "quiesce", "sweep", "last", "down"}
    /\ agent \in [Agent -> [st : {"none", "running", "asking", "closing", "done", "stopped"}, gen : Nat]]
    /\ {consumed, notify, held, told, dropped} \subseteq SUBSET Agent
    /\ slips \subseteq {"queue", "task"}
    /\ reserved => turns # {}

(* Whatever arrives while a turn is hydrating, answering, failing or being     *)
(* shut down, a key has one turn at a time: also after destroy(), which clears *)
(* the reservations under the turns that hold them.                            *)
OneTurn == Cardinality(turns) <= 1

(* A queued message has somebody who will drain the queue, and an announced    *)
(* task a turn or a retry that will end it; except after the error paths that  *)
(* leave before the drain and the retry whose history cannot be read.          *)
Tended ==
    /\ phase = "up" /\ queue # <<>> => turns # {} \/ notices # {} \/ timers > 0 \/ "queue" \in slips
    /\ phase = "up" /\ running =>
          \/ \E t \in turns : t.task \/ (t.pc = "hydrate" /\ t.item.tries > 0)
          \/ \E i \in DOMAIN queue : queue[i].kind = "user" /\ queue[i].tries > 0
          \/ "task" \in slips
    /\ phase = "down" => ~running

(* The result of a sub-agent that was not stopped reaches its parent: it was   *)
(* returned by a wait, given to a model or to the user, or it is still in the  *)
(* queue, the batch, a turn, a notice, or held by a wait that is open.         *)
NoResultLost ==
    \A a \in Agent :
        phase = "up" /\ agent[a].st = "done" /\ agent[a].gen = gen =>
            \/ a \in consumed \cup told \cup dropped \cup batch \cup (held \cap Claimed)
            \/ \E t \in turns : a \in t.gives
            \/ \E it \in notices \cup {queue[i] : i \in DOMAIN queue} : it.kind = "result" /\ it.of = a

(* No model starts for anything that entered before the last /clear, nor once  *)
(* destroy() has begun, whichever await the message or the result was at.      *)
Fenced ==
    [][\A t \in turns' : t.pc = "model" /\ (\A o \in turns : o.item # t.item \/ o.pc # "model")
          => phase' = "up" /\ t.item.gen = MaxClear - budget'.clear]_vars

(* When users, faults and questions have come to an end, so do the turns: the  *)
(* queue and the batch are emptied and no wait keeps its claims.               *)
ComesToRest ==
    <>[](turns = {} /\ notices = {} /\ (phase = "up" => batch = {} /\ (queue = <<>> \/ "queue" \in slips)))

(* A result that a wait has returned does not wake its parent again.           *)
ResultOnce ==
    [][\A t \in turns', a \in consumed :
          a \in t.gives => \E o \in turns : a \in o.gives]_vars

Waiting(q) == {q[i].of : i \in {j \in DOMAIN q : q[j].kind = "user"}}

(* A message that was queued because the key was busy is run when it is idle:  *)
(* it does not leave the queue into a turn that was already interrupted.       *)
QueuedIsServed ==
    [][\A t \in turns \cap turns' :
          t.stopped /\ phase' = "up" /\ gen' = gen => Waiting(queue) \subseteq Waiting(queue')]_vars
=============================================================================
