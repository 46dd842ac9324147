# XiaoBa-CLI in TLA+

TLA+ models of the parts of XiaoBa-CLI whose correctness depends on
interleaving, on files surviving a crash, or on a callback arriving between two
awaits; TLC configurations that check them on small instances; and TLAPS proofs
of their safety properties for every instance. Paths below are relative to the
repository; `src/…` is its TypeScript.

- [1. The system](#1-the-system): components, state, interactions, hazards
- [2. The modules](#2-the-modules): what models what, and what is planned
- [3. Process lock](#3-process-lock): model, runs, proofs
- [4. Agent session](#4-agent-session): model, runs, fairness, proofs
- [5. Transition journal](#5-transition-journal): two abstract registries, their implementation and its proofs
- [6. Review jobs and their commit](#6-review-jobs-and-their-commit): model, runs, fairness, proofs
- [7. Connector and sub-agents](#7-connector-and-sub-agents): model, run, fairness, proofs
- [8. Heartbeat](#8-heartbeat): ownership, wakes, memory pressure; proofs
- [9. Admission](#9-admission): two cursors, four stores, and the way to a review; proofs
- [10. Disagreements between the code and its documents](#10-disagreements)
- [11. What is proved, what is only checked, what is left out](#11-limits)
- [12. Running it](#12-running-it)

## 1. The system

XiaoBa-CLI is a Node.js agent runtime. One *runtime root* (a directory) may be
served by several processes: one per message connector (CatsCo, Feishu, Weixin,
the chat command), the dashboard that starts them, and a learning pipeline that
runs in one of them. Inside a process everything runs on one event loop, so code
between two awaits is atomic and everything else interleaves; between processes
only the file system is shared, and every call on it interleaves.

| Component | State it keeps | Operations | Talks to |
|---|---|---|---|
| Process lock (`utils/process-exclusive-lock.ts`, `process-lock-claim.ts`) | a lock directory with two owner records and nested `.reclaim` guards | call, install, read, reclaim, release | every durable store of the pipeline and the skill manager |
| Agent session (`core/agent-session.ts`, `session-lifecycle-manager.ts`, `message-session-manager.ts`, `utils/session-store.ts`) | messages, busy/interrupt flags, lifecycle generation, pending restore; the context file and cursor | turn, init, append, stop, clear, clear --all, exit, inject, cleanup | connectors call it; it calls the turn controller and the store |
| Turn controller and runner (`core/agent-turn-controller.ts`, `conversation-runner.ts`) | the turn's own copy of the context; the slot of a memory branch | run, tool loop, mid-turn checkpoint | session, provider, tools |
| CatsCo connector (`catscompany/index.ts`) | per key: message queue, reservation, clear generation, active tasks, feedback batch; shutdown flag | onMessage, hydrate, drain, cancel, feedback, flush, destroy | client, sessions, sub-agents |
| CatsCo client (`catscompany/client.ts`) | socket, pending requests, sequence numbers | connect, reconnect, send, acknowledge | server |
| Sub-agents (`core/sub-agent-manager.ts`, `sub-agent-session.ts`) | running and completed sub-agents, wait claims, held results | spawn, run, ask_parent, resume, stop, wait, finalize | parent session through the connector |
| Small locks (`utils/heartbeat-scheduler-owner-lock.ts`, `external-source-provider-lock.ts`, `catscompany/connector-lock.ts`, `bot-skills/lock.ts`) | one owner record each | acquire, renew, release | the component each one guards |
| Learning: admission (`utils/session-log-source.ts`, `external-admission-coordinator.ts`, `learning-episode.ts`, `evidence-capsule.ts`, `external-episode-provenance-store.ts`) | per source the cursors, targets and catalog; episodes, capsules, provenance | discover, read, commit, acknowledge, mature, give up | the wake calls it, it feeds the review jobs |
| Learning: review (`utils/evidence-review-*.ts`) | a durable graph of review quanta per job | claim, run, fail, retry, supersede, commit | journal |
| Learning: journal (`utils/skill-evolution.ts`) | transition journal, registry, skill files, audit | apply, recover | skills |
| Heartbeat (`utils/distillation-heartbeat-scheduler.ts`, `runtime-learning.ts`) | timer, pending wake reasons, pressure state | wake, coalesce, pause, drain | the pipeline |
| Bot definition and skills (`bot-definition/`, `bot-skills/`) | local, base and cloud revisions; pending selection | pull, activate, reload, sync | session manager's `isIdle()` |

The remaining parts (tools, providers, prompts, dashboard, SkillHub, other
connectors, desktop shell, …) and the reason each is left out are in
`PROJECT.json` under `components`.

Where the difficulty lies, and what makes each part correct:

- **Locks**: a dead owner is found by one process while another finds it too;
  removal of a directory is a sequence of calls. *Exclusion; a dead process never
  blocks the living; a failed release leaves nothing behind.*
- **Session**: five kinds of events can arrive at any of a turn's awaits, and the
  context file is always overwritten as a whole. *What is on disk is never
  replaced by less, except by a clear; what a clear has erased never returns;
  a stopped turn leaves no reply; the prompt comes first; every turn ends.*
- **Connector**: queueing, retries, generations and shutdown compete for one
  reservation. *No message is lost or answered twice; every announced task gets
  one terminal status; nothing is delivered after a clear or a shutdown.*
- **Sub-agents**: a result may be waited for, batched or announced. *The parent
  sees it once.*
- **Learning**: four stores are written one after another, under two cursors per
  resource. *A crash between any two loses and duplicates nothing; no cursor passes
  what nobody accounts for; only matured evidence is reviewed; a commit happens once,
  on the world it was reviewed against.*

`PROJECT.json` lists under `hazards` each such place with its line and with the
property that covers it, or the module planned for it.

## 2. The modules

| Module | Models | Abstract specification | Checked | Proved |
|---|---|---|---|---|
| `ProcessLock` | the process lock around a read-modify-write store | `AtomicStore` | exclusion, recorded holder, clean rest, recovery, termination, refinement | type, exclusion, holder, clean rest, refinement |
| `AgentSession` | the sessions of one conversation key | – | history, clear, cursor, prompt, stop, termination | type, busy flag, stop, prompt, clear, history, cursor |
| `TransitionJournal` over `CapabilityTransitions` | journal, registry, skill files, history, audit | `AtomicRegistry`, `KeyedRegistry` | both refinements, guidance, once per key, replay | type, replay, guidance, both refinements |
| `ReviewCommit` | review jobs, leases, the commit fence | built on `KeyedRegistry` | one draft, receipts backed, lock order, jobs end | type, one draft, receipts, lock order |
| `Connector` | one key of the CatsCo connector, and its sub-agents | – | reservation, custody of messages and results, fences, rest | type, reservation, custody, fences |
| `Heartbeat` | the scheduler of each process and the owner lock | – | one writer, never asleep, demand met | type, one writer, never asleep |
| `Admission` | the wakes of the learning pipeline over one external source | – | cursors covered, honest review, everything learned | type, cursors covered, honest review |

Beside each module *M* of this table, `MC`*M* instantiates it for TLC, the `.cfg` files
named after it give the constants their values, and *M*`_proofs` holds the theorems
(`AgentSessionHistory_proofs` those of the session that need a hypothesis on the
environment).

They meet as follows. The journal, the job store and the owner record are written
under the lock of `ProcessLock`, so the other modules take a locked update as one
step; `AtomicUntilCrash` says when that is so, and section 10 when it is not.
`TransitionJournal` is shown to implement `KeyedRegistry`, and `ReviewCommit` uses
`KeyedRegistry`'s actions for what a commit does to the registry: the second model
rests on the refinement the first one establishes. `Connector` sees of a turn that it
takes time and ends, which is `TurnEnds` of `AgentSession`; `Heartbeat` sees the same
of a learning wake. `Admission` is the inside of such a wake: that wakes keep coming
is what `DemandMet` of `Heartbeat` provides, and the jobs it creates and supersedes
are those whose life `ReviewCommit` models.

Next in the plan, in this order: `SmallLocks` (connector and workspace lock
files), `BotReload`, `MemoryBranch`. Every safety invariant, action property and
refinement that a passing run checks is the statement of a theorem. A theorem
still worth having: `CursorCovered` of `AgentSession` with `"status"` among the events,
which TLC finds true on the instance of section 4. The modules are
written for proofs: no RECURSIVE operator in a model, constants with named assumptions,
one action per step of the code.

## 3. Process lock

`ProcessLock.tla`; the protected work is the load and save of
`mutateEvidenceReviewJobStore`.

**State.** The lock directory is level 0 and holds `owner` and `backup`; level
*l* is the *l*-th nested `.reclaim` and holds `guard[l]`; levels nest, so `dirs`
counts them. `cand[p]` is a guard candidate not yet renamed into place. `pc` and
the process-local variables are the call's progress, `store` and `done` the
protected data. A process identity is a pid and start time, so a pid that is used
again is another identity; a crashed process stays dead.

**Steps.** Each file-system call is one step. The `rename` that installs a
populated candidate succeeds on an absent or empty target; the recursive removal
lists a directory, removes the listed entries one by one and fails on its final
`rmdir` if something new has appeared. `Sorted` chooses whether `readdir` returns
names in alphabetical order, as libuv's scandir does, or in any.

| Action | Code |
|---|---|
| `Call`, `NextAttempt` | `withProcessExclusiveLock` and its retry loop |
| `Install` | `tryInstallRecordDirectory` of the owner directory |
| `ReadPrimary`, `ReadBackup` | the two record reads and `resolveRedundantOwner` |
| `MakeCandidate`, `PublishGuard`, `CandidateLost`, `ReadGuard` | publishing a guard, nesting under a dead one, giving up to a live one |
| `RecheckClaim`, `RecheckGuard` | the last comparison before the removal |
| `ListLevel`, `RemoveEntry`, `RemoveLevel` | the recursive `fs.rmSync`, of a reclaim or a release |
| `Load`, `Save`, `WorkThrows` | the protected work |
| `ReleaseReadPrimary`, `Release` | the token check of the release |
| `Crash` | death at any step |

**Runs.**

| Run | Bounds | Shows |
|---|---|---|
| `lock_contention` | 3 concurrent processes, any of which 2 may die, one call each, readdir in any order, depth 2 | until the first death `ExclusiveWithoutCrash`, `HolderRecorded`, `CleanAtRest` and the steps of `AtomicStore` (`AtomicUntilCrash`); whatever dies, `CallsReturn` and `TypeOK` |
| `lock_recovery` | 3 processes in sequence, 2 die anywhere, nesting depth 3 | `DeadReclaimerNeverBlocks`: the survivor gets the lock |
| `lock_mutex` (violation) | 3 processes, 1 dies | two processes run the work at once |

Three processes are what the protocol can tell apart: the dead owner, the
reclaimer and the one that interferes. Depth 2 or 3 lets a guard be nested under a
dead guard. `ProcessLock_nocrash.cfg` (two calls and a retry each, nobody dies) and
`ProcessLock_wedge.cfg` are kept for longer runs by hand. Without crashes no reclaim starts,
which `ExclusiveWithoutCrash` relies on and the proof establishes.

**Fairness.** Weak fairness of each live process's next step: nothing in a call
waits for another process (the retries are counted), so the scheduler of the
operating system is all that is assumed. A crashed process has no step.

**Proofs** (`ProcessLock_proofs.tla`, for every finite `Proc` and all bounds):

| Theorem | Statement |
|---|---|
| `TypeCorrect` | `Spec => []TypeOK` |
| `Exclusion` | `Spec => []ExclusiveWithoutCrash` |
| `Recorded` | `Spec => []HolderRecorded` |
| `Atomicity` | `Spec => AtomicUntilCrash`: until a process dies, every step is a step of `AtomicStore` or leaves it unchanged |
| `Clean` | `Spec => []CleanAtRest` |

The safety properties are not inductive: nothing in them says why the records of
a working process are still there. The inductive invariant says, while nobody has
died, that there is no guard and no candidate; that whoever is inside the work or
has not yet removed its records is the one process the records name, both of them
until its removal begins; that a removal's list of entries contains only what
belongs to the remover; and that a loaded snapshot equals the store. It was
checked as an invariant before it was proved. The proof has one lemma per group of
steps and one step per conjunct that the group can disturb.

`CleanAtRest` speaks of the moment when everybody is gone, so its invariant has to say
who will tidy up: while the directory exists, somebody cares for it – a process in the
work, which will find its own token when it releases (`OwnRead`), one that is about to
list the directory, or a remover that has listed every record that is still there. A
remover overtaken by an installation finds the directory not empty and gives up, and
may, because the installer cares by then. TLC: 393,943 states of `lock_contention` and
1,528,092 of `ProcessLock_nocrash.cfg`. Assumptions: `ProcFinite`, `BoundsNat`,
`NoIdFresh`.

## 4. Agent session

`AgentSession.tla`: one conversation key. Several `AgentSession` objects may exist
for it one after another, and concurrently when a turn outlives its session's
time to live; the manager's map holds the `current` one.

**State.** `mem[s]` holds the fields of an object (context, `initialized`,
`busy`, `interrupt`, the lifecycle generation and the history pending
restoration); `handler[s]` the message handler that runs on it, with `pc` naming
the await at which it is suspended and the values it captured before it; `disk`
and `cursor` the two files. `recorded`, `erased` and `stopped` are history
variables of the properties and guard nothing.

**Contexts** are abstracted to the number of leading system prompts, the set of
history items (the input and reply of a turn, a group message) and the set of
transient injections. A checkpoint carries the items it replaces, so compaction
changes no set; it does suspend the handler on a snapshot and write the file.

**Steps.** An action is the code between two awaits. `Suspended` keeps the
environment out of the four synchronous points (`Running`), where one handler
continues without an await; only a crash can come there.

| Actions | Code |
|---|---|
| `Receive`, `FetchReturns` | `processParsedMessage`, `hydrateNativeFeishuGroupContext` |
| `AppendPromptReturns`, `AppendRestoreReturns`, `AppendEntries`, `AppendCompactReturns`, `AppendCursorSaved`, `AppendCursorFails` | `appendDurableContext`, with `init()` inside it |
| `PrepReturns`, `PreCompactionReturns`, `Ready`, `PromptReturns`, `PromptFails`, `RestoreReturns` | the phases of `handleInput` before the run |
| `BeginRun`, `ModelReturns`, `ModelFails`, `MidTurnCompacts`, `StatusReturns` | `AgentTurnController.run`, the result's handling, `compactMidTurnIfNeeded` |
| `Stop`, `Clear`, `ClearAll`, `Exit` | `handleCommand` |
| `Inject`, `Expire`, `Post`, `Crash` | `injectContext`, `cleanupExpiredSessions` with `cleanup`, a message of someone else in the group, death |

`Event` selects what the environment does in an instance; `"hydrate"` makes it
the CatsCo connector, which reserves the whole key and restores group messages.

**Runs.**

| Run | Environment | Shows |
|---|---|---|
| `session_catsco` | CatsCo key; 3 messages, 2 group messages, 2 clears, expiry, 1 crash, 2 failed writes | `HistoryKept`, `ClearIsFinal`, `CursorCovered`, `PromptFirst` |
| `session_all` | all events but a crash, turns longer than the time to live, so two objects at once | `TypeOK`, `NoStaleReply`, `TurnEnds` |

Kept for runs by hand: `AgentSession_interrupt.cfg` (stops and clears at every await
of three turns and their hydrations) and `AgentSession_chat.cfg` (a key without
reservation: `PromptFirst` and `ClearIsFinal` under injections, clears, expiry and a
crash), which pass, and the three configurations whose counterexamples section 10
tells.

What each property says:

- `HistoryKept`: what was once in the file stays there until a clear. It fails
  when the file is overwritten by a context that has not been restored.
- `ClearIsFinal`: what a confirmed clear erased is neither in the file nor in the
  current session again.
- `CursorCovered`: each group message at or below the durable cursor is in the
  file or precedes a clear, so a crash between the two writes skips none.
- `PromptFirst`: a model request carries exactly one system prompt.
- `NoStaleReply`: the reply of a turn stopped before its result is nowhere.
- `TurnEnds`: a handler that started ends, and leaves its session not busy.

Two objects are enough because an object has to be given up (expiry, crash) before
the next one exists, and an identity is used again once its object is collected.
Three messages give a turn, its successor on the same object and one on a restored
object. Two group messages let one precede and one follow a clear or a cursor; two
faults let the cursor's write and the roll-back's write both fail. Passing runs
leave out the events of which section 10 shows that they break the property: `session_catsco`
has no stop, exit, injection, failing prompt or status message, so of the hazards in
`PROJECT.json` the overwriting of a history not yet restored (`agent-session.ts:985`) is
shown for expiry, crash and failing models only, and the checkpoint after a `/clear`
(`conversation-runner.ts:860`) is covered by no passing property.

**Fairness** (`FairSpec`). Weak fairness of the continuations of each handler:
the event loop runs every resolved promise. Strong fairness of `ModelReturns`: a
request has a time limit and ends in an answer or an error, and a turn does not
take a checkpoint after each of infinitely many tool batches, because the runner
bounds their number. Nothing is assumed of users, commands, expiry or crashes. A
model error is not needed for `TurnEnds`, so `ModelFails` has no fairness.

**Proofs** (`AgentSession_proofs.tla`, for every set of objects and messages, every
bound and every `Event`, the ones with which other properties fail included):

| Theorem | Statement |
|---|---|
| `TypeCorrect` | `Spec => []TypeOK` |
| `BusyWhileTurn` | `Spec => []BusyOK`: a session is busy exactly while a turn is suspended on it |
| `NoStaleReplyHolds` | `Spec => []NoStaleReply` |

`TypeInv` adds to `TypeOK` that `busy` agrees with the handler, that a handler at
work has an input and that it fetches no further than what was posted; without
them a step could finish a session that is not busy or move the cursor past the
group. `StopInv` adds to `NoStaleReply` what keeps a reply from coming back by a
detour: it is not in a pending history, a snapshot or a roll-back context either;
the turn of a stopped message that is still under way is still interrupted; no two
handlers work on one message; a message not yet received has no reply anywhere. The
proof shows that each action is one of four kinds of move (`Moves`): it lets the
handler go on with its own message and brings no new reply (`Step`), it is the
answer of a turn that is not interrupted (`Answers`), it stops the turn under way
(`Stops`) or it hands over a new message (`Arrives`); the invariant is then shown
for each kind. Assumption: `SessionAssumption`.

The other four properties are true only of an environment without events that
section 10 tells of, and `AgentSessionHistory_proofs.tla` proves them under that
hypothesis; objects, messages and bounds are arbitrary again, and every other event
(clears, `clear --all`, expiry, hydration, failed writes, failing models, crashes at
every await) is in.

| Theorem | Statement | Hypothesis on `Event` |
|---|---|---|
| `PromptFirstHolds` | `Spec => []PromptFirst` | no `"exit"`, no `"longTurn"` |
| `ClearIsFinalHolds` | `Spec => []ClearIsFinal` | no `"status"`, no `"longTurn"` |
| `HistoryKeptHolds` | `Spec => []HistoryKept` | none of `"stop"`, `"exit"`, `"inject"`, `"promptError"`, `"status"`, `"longTurn"` |
| `CursorCoveredHolds` | `Spec => []CursorCovered` | the same |

Each of the six events added alone to the environment of `session_catsco` makes TLC find
`HistoryKept` violated, and each but `"status"` makes it find `CursorCovered` violated,
so no weaker set of events would do for the first; for the second, `"status"` is more
than is needed.

A handler carries copies of the context across its awaits, and each property can be
broken by an old copy. The three inductive invariants say what a copy may be:

- `PromptInv`: a handler of an older lifecycle generation is interrupted, so its copy is
  not installed; a copy of the present generation has as many prompts as the context;
  a session is initialised if and only if its context has its one prompt.
- `ClearInv`: whatever was erased speaks of messages that had already been received or
  of group messages at or below the boundary, so the file, the contexts and the copies
  of the present generation are free of it; only the current object exists.
- `HistoryInv`: what was recorded, and the group messages that the cursor has passed
  since the clear, are in the file, and in the object's context or its pending history;
  nothing is written while a history is pending; a group message of the context is in
  the file unless a hydration is under way; and at the awaits of a hydration's
  compaction and cursor write the roll-back context already holds all of it, so a failed
  write rolls back to enough.

TLC checked them before they were proved: `PromptInv` on 178,573 states, `ClearInv` on
338,547 and (no reservation) 44,882, `HistoryInv` on 227,674 and 32,230. The proof has
one lemma per action that says what the step does to the object and its handler
(`Becomes`, `Rests`, `Initializes`, `TurnBegins`, `Turns`); the three invariants share
these lemmas.

## 5. Transition journal

Every change of a capability goes through `commitTransition` of
`utils/skill-evolution.ts`: it writes a journal file, replays it, and every later
call that finds a journal replays it first.

| Module | What it is |
|---|---|
| `CapabilityTransitions` | the registry as data and what one transition of each kind does to it: which requests a review or an operator may prepare, when they are accepted, the registry, SKILL.md, archived guidance and audit entry that result. Pure operators, shared by the two modules below. |
| `AtomicRegistry` | abstract: a transition changes registry, file, history and audit in one step, once per request |
| `TransitionJournal` | the code: `Load`, `Decide` (read set, idempotency, preconditions, journal), then `Archive`, `Skill`, `SaveRegistry`, `AppendAudit`, `Mark`, `Unlink`, each a durable write with its own precondition on what it finds |
| `KeyedRegistry` | abstract: what reviews see – revisions, commit keys used once, and the read set that is frozen under a key when its draft is drawn |

**State.** `registry`, `files`, `history`, `audit` and `journal` are the durable
stores; `op` the call that holds the lock and the step it is at; `asked` what each
review and the operator have requested, so that a caller can ask for the same thing
again. A SKILL.md is the number of the transition that rendered it and its route:
that is what its front matter carries, so two are equal exactly when those are.
A crash leaves the durable stores and drops `op`. `Serve` is the catalog, the one
reader that takes the lock without replaying; it writes a missing SKILL.md again.

**Refinement.** `Committing` maps a state with a journal pending to the registry,
files, history and audit its replay will leave: a transition takes effect when its
journal is written. `Atomic` is the specification of `AtomicRegistry` under this
mapping and `Keyed` that of `KeyedRegistry`. The mapping fails as soon as a replay is
refused, is applied twice, or leaves other stores than its journal says. `AtomicRegistry`
takes its request from the registry of the moment of the commit, so it says nothing of
what a draft was written on: that is for `KeyedRegistry`. There `read` holds, for each
review key, the capability and the revision that the draft was written on; it only
grows, `Read` (in the code the freezing of the bundle's `relatedCurrentSkills`) is the
only step that adds to it, and `Change` needs the entry of its key to name the revision
that the capability still has. `TransitionJournal` maps it from `asked`, the requests
as they were prepared. A commit that skips the code's comparison with the read set, and
so changes a capability that somebody else has changed since, is not a step of
`KeyedRegistry`; the mutant `ReadSetActive`, which asks only that the target is still
active, is refuted.

**Run `journal`.** Three commits by two reviews and an operator on two capabilities
and two routes, two crashes, one deleted file. Three commits make a capability,
change it and change it (or a second one) again, so that a stale request, a route
conflict, a restore from the history and a request repeated after a later commit all
occur; the second crash can interrupt the replay that follows the first. It shows
`Atomic`, `Keyed` (in particular no key is committed twice and no stale draft is
committed), `GuidanceMatches` (at rest the files are what the registry names, and the
guidance that a committed replacement, migration, retirement or restoration put aside,
which its audit entry carries as `priorGuidanceHash`, is in the history) and `NeverWedged` (a replay never refuses its
own journal). `FairSpec` and `Drained` (a
pending journal is replayed) are stated for runs by hand.

**Proofs** (`TransitionJournal_proofs.tla`, for all handles, routes, review keys and
snapshots, any number of commits, crashes and deleted files):

| Theorem | Statement |
|---|---|
| `TypeCorrect` | `Spec => []TypeOK` |
| `NeverWedgedHolds` | `Spec => []NeverWedged` |
| `GuidanceMatchesHolds` | `Spec => []GuidanceMatches` |
| `AtomicHolds` | `Spec => Atomic`: it implements `AtomicRegistry` |
| `KeyedHolds` | `Spec => Keyed`: it implements `KeyedRegistry` |

`NeverWedged` asks that each precondition of a replay holds, and those preconditions
compare a store with what the journal says it was: nothing in the property says what the
stores are after half a replay. `IInv == TypeOK /\ StoresFit /\ JournalFit /\ AskedFit
/\ OpFit` does. `StoresFit`: every SKILL.md and history entry is what the registry from
before the journal names, except at the journal's own capability. `JournalFit`: the
registry is the journal's prior or its target one, the file its source or its result,
and the audit entry is the next one or already there; what the entry says was put aside
is what the journal archives, or is in the history already. `AskedFit`: a request that can
be made again names revisions that only go forward, which is also what keeps the frozen
read sets from ever being ahead of the registry. `OpFit`: at each step of a call, which
of the writes are behind it. TLC: 170,193 states. The initial states map to initial
states; of the steps, `Decide`'s journal write maps to the step of the abstract
registry, and each other one, a crash included, to a stutter, because the mapped
registry of a pending journal is its target whatever the replay has written. Assumptions:
`CapabilityAssumption`, `JournalAssumption`.

`merge_into_capability` is left out: `transitionAuthorityViolation` refuses it for
every authority.

## 6. Review jobs and their commit

`ReviewCommit.tla` models `evidence-review-engine.ts`, `-graph-core.ts` and
`-commit-fence.ts` with the commit half of `skill-evolution.ts`.

**State.** `jobs` is the job store: per job its bundle, the capability it reviewed
against and the revision it read (`Basis`, the frozen read set that `KeyedRegistry`'s
`Change` compares with), its stage and round, the state of the current
quantum, its lease and attempts, the accepted draft, the commit receipt and the
successor. `rev`, `drawn`, `recorded` are `KeyedRegistry`'s. `wake[w]` is what a wake
is doing with the job it claimed; `lock` the wake inside `commitUnderLease`. The
quanta of a round before its commit follow one lease protocol and are one quantum.

| Actions | Code |
|---|---|
| `Admit`, `Claim`, `Converge` | enqueue of a bundle; the claim with its reclaim of expired leases; `convergeTerminalJobs` |
| `ReviewEnds`, `ReviewEndsLate` | completion of a review quantum, with and without its lease |
| `Recover`, `Fence`, `Lock`, `Apply`, `Work`, `Save`, `Settle`, `Complete` | the commit quantum: recovery by the stable key, basis fence, lease and idempotency check under the lock, registry transition, store write, receipt |
| `Fail`, `Release` | a failed quantum with its attempt, a shutdown |
| `PlanFence`, `Supersede`, `Reactivate` | the fence before the fair advance, supersession by a successor, reassessment of a committed capability |
| `Operate`, `Expire`, `Stall`, `Crash` | an operator or another review changes a capability; leases run out, for a dead or for a slow wake; death at any step |

**Runs.** `review` (two wakes, one bundle and the successor or reassessment of its
job, revisions up to 2, one attempt per quantum) has every interleaving of two wakes
on one job and shows `OneDraft`, `Backed` and `LockedByOwner`. `review_ends` (one
wake, two attempts, so that a quantum is retried) shows `JobsEnd`. The two are
separate because two wakes, attempts and fairness together have too many states; a
retried quantum is the only thing `review` has not, and it adds no writer.

**Fairness.** `FairSpec`: what a wake executes goes on; each job is claimed again and
again as long as it is claimable (the heartbeat brings wakes, the rotation of quanta
is fair); leases that nobody renews expire; terminal jobs converge. `JobsEnd` assumes
that crashes, shutdowns and stalls stop, and lets a wake wait for room that the bound
`MaxJobs`, not the code, denies it. Nothing is assumed of providers: a review may fail.

**Proofs** (`ReviewCommit_proofs.tla`, for any jobs, wakes, bundles, handles, retries):

| Theorem | Statement |
|---|---|
| `TypeCorrect` | `Spec => []TypeOK` |
| `OneDraftHolds` | `Spec => []OneDraft` |
| `BackedHolds` | `Spec => []Backed` |
| `LockedByOwnerHolds` | `Spec => []LockedByOwner` |

`IInv` adds to `TypeOK` that every audit entry has a job (`KeysKnown`), for each job what
its stage says of its draft, receipt and audit entry (`JobFit`), and for each wake what it
still knows about the job it runs (`WakeFit`). The last one is the point: a wake may have
lost its lease to another, so what it knows holds either because it still owns the
quantum, which the compare-and-set under the lock verifies, or because it cannot be undone
(an audit entry stays). TLC: 1,998,611 states. `CommittedStays`, which a wake that dies
between registry and job store breaks, is the counterexample of section 10. Assumption:
`ReviewAssumption`.

## 7. Connector and sub-agents

`Connector.tla` models one conversation key of `catscompany/index.ts` together with
`core/sub-agent-manager.ts` and the parts of `sub-agent-session.ts` and
`conversation-runner.ts` that meet it.

**State.** `queue`, `reserved`, `batch`, `gen`, `running` are the key's entries in
the connector's maps; `turns` the turns in flight, with the item each one holds the
reservation for, the await it is suspended at, whether it was interrupted and what an
open `wait_subagents` claims; `notices` and `timers` the asynchronous calls without a
reservation. `agent`, `consumed`, `notify`, `held` are the manager's. `told`,
`dropped` and `slips` are history: what somebody has been given, what was given up
after the last attempt, and which error path has left something untended.

**Shape.** Most callbacks of the connector change half a dozen maps and end in
`drainMessageQueue`. `Now` and `Becomes` make them a record and back, so that an
action reads as the code does: `Drained(Released(c, t))`. An action is the code
between two awaits.

| Actions | Code |
|---|---|
| `OnMessage`, `ProcessMessage`, `RefuseMessage` | preparation of a message, then reservation, queue or refusal during shutdown |
| `HydrateReturns`, `HydrateFails` | the group history in front of a turn, with its fences |
| `ModelReturns`, `ModelThrows`, `ReplyReturns`, `BatchReplyFails`, `FallbackReturns` | the turn's end for a direct, a drained and a batched turn |
| `DrainTimer`, `NoticeSent`, `NoticeFails`, `Flush` | the retry timer, plain notices after exhausted retries, the completion batch |
| `Clear`, `Cancel` | `/clear`, the cancel event |
| `Spawn`, `Direct`, `Ask`, `RunEnds`, `FinalizeSession`, `Wait`, `WaitReturns` | sub-agents: start, instruction or answer, question, end, delivery of the result, claims |
| `Destroy`, `StopSessions`, `Sweep` | the three stages of shutdown |

**Run `connector`.** Two messages, one of which needs the group history, one
sub-agent, one retry, two notices, any four of a `/clear`, a cancel, a question, a
wait and up to four failures, and a shutdown at any point. Four failures are what it
takes to reach the giving up of a result (`dropped`): run, retry and both notices.
The sub-agent's result goes to the batch (`Loud = {}`) or, when it was asked to be
announced, to a turn of its own; questions use the loud path too.
`Connector_two.cfg` has two sub-agents and is kept for runs by hand.

- `OneTurn`: one turn at a time, also when `destroy()` clears the reservation map
  under a running turn.
- `Tended`: a queued message has a turn, notice or timer that will drain the queue,
  and an announced task has somebody who will end it.
- `NoResultLost`: a finished result is somewhere until it was delivered or given up.
- `Fenced`: no model starts for what came before the last `/clear`, nor after
  `destroy()`.
- `ComesToRest`: the key comes to rest when its environment does.

`Tended` names four paths that leave something behind, which are the code's: the
direct user turn that throws, the batch turn that fails after a `/clear` and the
notice that is given up return without draining the queue (slip `"queue"`; the next
message drains it), and a retry whose group history cannot be read leaves its task
announced as running (slip `"task"`).

**Fairness.** The event loop runs every continuation, timer and interval, and model
calls, waits and replies have time limits. Users, sub-agents and failures are not fair.

**Proofs** (`Connector_proofs.tla`, for any messages, sub-agents, tries and faults):

| Theorem | Statement |
|---|---|
| `TypeCorrect` | `Spec => []TypeOK` |
| `OneTurnHolds` | `Spec => []OneTurn` |
| `TendedHolds` | `Spec => []Tended` |
| `NoResultLostHolds` | `Spec => []NoResultLost` |
| `FencedHolds` | `Spec => Fenced`, an action property |

The invariant is stated of the record `Now`, as the actions are: `Fit` (a turn in flight
and the reservation go together except while `destroy()` runs; what a queue, batch or turn
carries is of its generation; only a notice has used up its tries), `TaskTended` and
`QueueTended` (who ends the task and who drains the queue, by phase of the shutdown) and
`Kept` (the places a result may be in, with what a claim of a wait keeps back). One lemma
per operator (`Drained`, `Released`, `Finished`, `Starts`) says what it does to these
parts, and each action composes them. `FencedHolds` needs besides that the generation
counts the clears there were, so that nothing from before a clear can have its number
again. TLC: 218,719 states, and 4,553,659 with two sub-agents. Assumption:
`ConnectorAssumption`; its `MaxTries > 0` was found missing by the proof (a direct
sub-agent turn that fails is queued with one try used, which would be one too many; the
code has two).

## 8. Heartbeat

`Heartbeat.tla` models `utils/runtime-command-support.ts` (who owns the background
learning of a runtime root), `utils/distillation-heartbeat-scheduler.ts` and, from
outside, the wake of `utils/runtime-learning.ts`.

**State.** `role[p]` is a process' support object, `owner` the owner record,
`sched[p]` the scheduler (pressure mode, pending reasons, timer, whether a task waits
to reschedule, the count of consecutive retries), `wake[p]` the active wake, `rec` the
heartbeat record on disk, with the mode and the count of good samples that a restart
takes over. A sample that changes the mode is persisted; one that only counts is
persisted at most once a minute (`saved`), so the count restored may be behind the one
in memory. `unmet` is history: somebody has appended or activated
something and no full wake that began afterwards has completed.

| Actions | Code |
|---|---|
| `Start`, `Elect`, `Boot` | acquisition of ownership at startup and in failover, construction of the runtime |
| `Timer`, `Manual`, `Poll`, `Cycle`, `LoopEnds`, `LoopSuspended` | the timer, requests of the control surface, the pressure monitor and the wake cycle |
| `Begin`, `Execute`, `Aborted`, `Completes`, `Throws` | the wake: taking the reasons, running, ending |
| `Fence`, `Stop`, `Drained`, `Deadline`, `Crash` | failed renewal, shutdown with its deadline, death |
| `Append` | somebody writes to a session log |

**Run `heartbeat`.** Two processes, any three disturbances. Two processes are enough
because the lock is the only thing they share; three disturbances let, for example,
pressure abort a wake, a stop catch the recovery and a death follow. `OneWriter`: a
wake in flight, also one that has outlived its `stop()`, is the recorded owner's.
`NeverAsleep`: the owner has a timer, a waiting task, or hard pressure whose end arms
the timer. `DemandMet`: what was asked for is met by a full wake.

One good sample ends the pressure in this run (`RecoverySamples = 1`), so that it stays
below five minutes; with two of them, where the restored count matters, TLC finds the
same properties to hold with two disturbances (99,136 states), and the theorems below
hold for any number. `DemandMet` shows that rotation and re-arming bring a full wake; it
does not show that the record on disk keeps each demand, because the startup and the
scheduled wakes are full wakes and come whatever the record says. The two hazards of
the record itself (`distillation-heartbeat-scheduler.ts:444`, `runtime-learning.ts:2422`)
are therefore listed without a property.

**Fairness.** One weak fairness condition per process over everything it can do by
itself: code runs to its next await, timers and intervals fire, wakes end because
each call in them has a deadline. Nobody is obliged to start a process, and a
scheduler fenced by a failed renewal stays fenced while its process lives: both are
the exception `Manned` makes.

**Proofs** (`Heartbeat_proofs.tla`, for any processes, events and recovery samples):

| Theorem | Statement |
|---|---|
| `TypeCorrect` | `Spec => []TypeOK` |
| `OneWriterHolds` | `Spec => []OneWriter` |
| `NeverAsleepHolds` | `Spec => []NeverAsleep` |

`Fit` relates the role, the owner record, the scheduler and the wake of one process, and
`IInv == TypeOK /\ FitOK` asks it of all. `OneWriter` alone is not inductive: a process
that has given its role away may still have a wake, and what keeps a second owner out is
that such a wake is late and the record still names its process (it releases the lock when
it ends). `NeverAsleep` needs that a timer is armed only in an owner that is not stopped,
so that a stop or a late wake leaves none behind. TLC: 278,075 states. Assumptions:
`HeartbeatAssumption`, `ReasonAssumption`.

## 9. Admission

`Admission.tla` models the wakes of `RuntimeLearning` over one external source:
discovery and reading (`session-log-source.ts`), the commit of a page
(`commitExternalEvidencePage` in `runtime-learning.ts`), the three stores it writes,
maturation, the repair of evidence and the admission to review; and, from another
process, a change of the history mode and `rebaselineExternalProviderWithRecovery`.

**State.** `head[r]` is what the provider holds of resource *r*. `cur[r]` is its entry
in the cursor store: the continuous cursor `pos`, the status of its history, the
pending sample, the fixed `target`, the historical cursor `hist`, the tombstoned range
and the processed events; `cat` and `index` are the catalog's status and
`nextResourceIndex`. `epi`, `caps`, `prov` are the Episode, capsule and provenance
stores, `noted` the provenance not yet flushed, `link` the Episodes of the historical
lane. `caps[e]` and `job[e]` hold the Episode status that the capsule's and the job's
settlement evidence tell: that is all of the evidence the properties tell apart.
`wake` is the wake's progress. `base` is history.

| Actions | Code |
|---|---|
| `Begin`, `EndWake` | `executeWake`; a full, a continuation or a targeted wake |
| `Discover`, `StartRead`, `EndPass` | the continuous pass: `discoverResources`, the loop of `processDiscoverySource` |
| `SkipQuantum`, `Inventory`, `Stability`, `StartPage` | the catch-up quantum of `discoverCatchUpResources`; what it leaves unused is donated to a second pass |
| `ReadReady`, `ReadNothing` | the await of the read, and the check of the configuration after it |
| `CommitEpisode`, `CommitCapsule`, `Flush`, `Acknowledge` | the four writes, event by event and then for the page |
| `ReconcileTarget`, `TargetsDone` | `reconcileCompletedHistoricalTargets` |
| `Settle`, `Refresh`, `StageDone` | `runMaturation`, and the refreshes of capsules after each stage |
| `Supersede`, `SupersedeDone`, `Enqueue` | `reconcileSettlementConsistency`, `runReview` |
| `Rebaseline`, `Switch`, `Append` | the other process and the provider |
| `Fail`, `RefreshFails`, `Crash` | a failed or aborted read, a write that throws, a refresh that throws, death between any two steps |

**Run `admission`.** Two resources of up to two events and any three disturbances.
Two resources let one wait for a target while the other is read, and exercise the
rotation; two events make a page that a crash interrupts in the middle and a target
that ends below the newest event; three disturbances give, for example, a switch to
future-only mode during a catch-up, a give-up that dies half-way and an append. One
event contradicts itself (`Refuted`).

- `Covered`: at or below the continuous cursor every event is in all three stores,
  still owed by the historical lane, or given up on the record; provenance never names
  an event without a capsule. The cursor runs ahead of the stores on purpose when a
  target is fixed, which is why this relates both cursors, the target and the
  tombstone to the stores.
- `HonestReview`: a job exists only for a matured, uncontradicted event whose target
  was read to its end, and evidence that lags behind says "not settled".
- `Learned`: once the world is quiet, every event is answered (reviewed on up-to-date
  evidence, contradicted or abandoned), was given up, or belongs to a catch-up that
  future-only mode has interrupted.

**Fairness.** Weak fairness of a wake's own steps: code runs on, and each await has a
deadline. Strong fairness of `Begin("full")`: the heartbeat keeps starting scheduled
wakes (`DemandMet`). Strong fairness of `Settle(Settling)`: deadlines are fixed points
in time, so some later wake finds all of them passed. Nothing is assumed of the
provider, the user or the other process.

**Proofs** (`Admission_proofs.tla`, for any resources, events, trouble and `Refuted`):

| Theorem | Statement |
|---|---|
| `TypeCorrect` | `Spec => []TypeOK` |
| `CoveredHolds` | `Spec => []Covered` |
| `HonestReviewHolds` | `Spec => []HonestReview` |

`Covered` is not inductive, because an acknowledgement moves a cursor over a page that
was read several steps earlier. `IInv == TypeOK /\ CursorsFit /\ EventsFit /\ WakeFit /\
Reached` says of each resource how its two cursors, target and status go together
(`CursorFit`); of each event the order in which the stores receive it, that what matures
was never contradicted and that a job has an eligible Episode whose target is complete
(`EventFit`); of the wake in progress, that its page starts at the cursor of its lane and
that each of its events is either still to be committed or stored, though its provenance
may be in memory only (`WakeFit`); and, for what lies below the cursors, the first half of
`Covered` (`Reached`). The next event to read is the least of a set, which takes the least
number principle from the library. TLC: 930,621 states. Assumptions: `RefutedAssumption`,
`AdmissionAssumption`.

## 10. Disagreements

Where a document, comment or message of the repository says one thing and the code
does another. The first two are runs that are expected to end in a counterexample;
`PROJECT.json`, `findings`, quotes the text.

| Run | What happens |
|---|---|
| `lock_mutex` | Two contenders see the same dead owner. The first one's recursive removal unlinks its own `.reclaim` before the owner records; the second passes its recheck, and removes by path the directory in which the first has just installed its fresh lock. |
| `review_twice` | A wake dies after its transition is in the registry and before the job store is written. The next wake takes the registry change for a stale basis, supersedes the job, and the successor commits the same evidence again. |

The others were found while modelling. Those with a configuration can be repeated by
hand (section 12), and TLC then reports the property named.

| Where | What happens |
|---|---|
| `ProcessLock_wedge.cfg`, `DeadReclaimerNeverBlocks` | A candidate that appears in a directory that is being removed makes the final `rmdir` fail after the owner records are gone. If both processes die there, no owner record names anyone and every later call fails closed. |
| `AgentSession_stop.cfg`, `HistoryKept` | A stop in the first turn after a restart, before `init()` consumes the pending history, saves the still empty context over the file. |
| `AgentSession_status.cfg`, `ClearIsFinal` | A `/clear --all` while the user is told of a mid-turn checkpoint: the checkpoint is then written, and the deleted history is back. |
| `AgentSession_exit.cfg`, `PromptFirst` | `/exit` empties the messages, leaves `initialized` true and the session in the map: the next turn has no system prompt. |
| `TransitionJournal_catalog.cfg`, `CatalogServes` | A crash after the registry and before the audit leaves a catalog that fails until somebody replays: `skill-evolution.ts:2997` promises the last good catalog. |
| `TransitionJournal_refresh.cfg`, `RefreshTakesEffect` | The bundle of a refresh is named by the snapshots: going back to earlier ones finds the earlier audit entry, and nothing is changed (`skill-evolution.ts:2149`). |
| `Connector_once.cfg`, `ResultOnce` | A result that is in the completion batch when a wait returns it is delivered again by the flush, which does not ask `consumed` (`catscompany/index.ts:2506`; the manager says the opposite). |
| `Connector_swallow.cfg`, `QueuedIsServed` | The runner appends pending input after the turn was interrupted (`conversation-runner.ts:738`): a queued message moves into a context that is thrown away. |
| `ReviewCommit`, `OneOwner` | The guard of `supersedeStaleReviewJob` reads `supersededByJobId`, which nothing assigns (`skill-evolution.ts:1580`): two wakes planning on one job give it two active successors. |

Further places, without a configuration:

- sessions: a session recreated only to hold an injected broadcast expires and writes
  its context, in which nothing is durable, over the history that was never loaded
  (`Event = {"inject", "expire"}` breaks `HistoryKept`); a failing prompt provider
  before the restore does the same through the error path (`"promptError"`); a turn
  longer than the time to live is not counted by `isIdle()` (`"longTurn"`); a
  broadcast injected during a turn is lost when the turn's copy replaces the messages;
- journal: a restore of a capability already restored throws; an audit line torn by a
  crash makes every later load of the audit, and so every replay, throw;
- connector: drains started by a timer are not counted by the quiescing of `destroy()`;
  messages that a drained turn has merged are not queued again when it fails; a
  stopped feedback turn counts as handled;
- heartbeat: a manual reason inside a wake is lost when the timer's own look finds
  hard pressure (the recovery's scheduled wake normally covers it); a failed renewal
  fences the scheduler while the process keeps the lock, and activation goes on
  answering that a wake is scheduled; a stop at its deadline with a wake only
  scheduled keeps the lock; a wake queued behind a backfill starts after `stop()`
  without an abort; a shutdown during startup does nothing;
- admission: the load and the save of the Episode store (`learning-episode.ts:1584`) are
  two file operations without a lock of their own, and the model's `Rebaseline` takes them
  as one step: the comment at `runtime-learning.ts:4166` calls the coordinator the
  single writer of Episodes, but a rebaseline, or closing a resource, writes the Episode
  store from another process under the provider's lock only, and `settle()` and the
  wake's commits for other providers load and save the same file without it, so the later
  save can undo the earlier one; section 9 shows nothing about that race;
- admission: a page quantum always takes the resource at `nextResourceIndex`, which
  only samples move: one resource whose historical page keeps failing keeps the
  source's other histories waiting; the resources a continuous pass examines in vain
  count against the wake, so the round robin of `runtime-learning.ts:4330` holds only
  for sources whose pages are acknowledged;
- admission: `reconcileSettlementConsistency` builds the fresh bundle outside its
  `try`: one Episode without capsule ends the supersession of all later jobs of the
  wake; a failed commit is recorded twice as a failure of the source;
- admission: an event the continuous lane admitted before a target was fixed over it
  stays without a link to that target and matures on its own deadline; the signals of
  an external event never reach an earlier Episode, because each event has a source
  file of its own.

## 11. Limits

Proved for all parameters: type correctness of the seven models, and every safety
invariant, action property and refinement that a passing run checks (sections 3 to 9;
the four of `AgentSessionHistory_proofs` under the hypothesis that excludes the events of
section 10). Checked on the instances above only: the liveness properties `CallsReturn`,
`DeadReclaimerNeverBlocks`, `TurnEnds`, `JobsEnd`, `ComesToRest`, `DemandMet` and
`Learned`, because liveness under fairness and ENABLED are out of the prover's reach;
what stands for them in the proofs is the safety half, that somebody is left who will go
on (`CareInv` of the lock, `Tended`, `NeverAsleep`). `MutualExclusion` and
`CommittedStays` are false of the code (section 10), so what is proved is what holds
instead: exclusion until a process dies, and one commit per key. No model declares a
RECURSIVE operator.

The proofs changed the models where they could not be reasoned about or were wrong: the
guard of `ProcessMessage` was a CASE whose arms overlapped, the constants got the
assumptions named above, and the choice of the next read is a set of candidates
(`Selected`) rather than an order.

Not in the models:

- the contents of messages, prompts, summaries, records and reviews, except what the
  properties tell apart; corrupt files (the code reads most of them as absent);
- torn writes: `writeFileSync` of the context file and `appendFileSync` of the audit
  are one step each, which is a hazard without a property;
- in the session: the current directory, skills, plan and sub-agent shutdown,
  logging, classification of provider errors; a turn's tool loop is one suspended
  step at which it may take checkpoints;
- in the process lock: file-system errors other than "exists", "not empty" and
  "absent", and clocks (identity is decided by start time, not by lease);
- in the journal: `merge_into_capability`, the referenced skills' files, quarantine;
- in the review: the quanta of a round one by one, evidence selection, transcripts;
- in the connector: several keys at once, the busy answers, injection retries, the
  retention timer of finished sub-agents, the await of the error notice;
- in the heartbeat: the claim protocol of the owner record (an old wake that removes
  the claim directory by path), backfill jobs, the planner's choice of the due time;
- in the admission: several sources and providers and their fairness, quotas and
  backoff, quarantine, scope changes, closed resources, backfill and reopened ranges,
  catalog limits, the internal log sources, and which capsules a review's budget picks
  first (a review wake of the model admits all that are eligible); a job has no state
  of its own there, so a job that ended before its evidence was repaired, which the
  code leaves alone unless it was deferred, is replaced in the model;
- every component of section 1 that section 2 does not list. The transport client,
  providers, tools, dashboard and the other connectors are mostly input and output
  around one request; the two bot components, the small locks and the memory branch
  have protocols of their own and are next in the plan.

## 12. Running it

```
tlc -workers 2 -config ProcessLock_contention.cfg MCProcessLock.tla
tlc -workers 2 -config TransitionJournal.cfg MCTransitionJournal.tla
tlc -workers 2 -config Admission.cfg MCAdmission.tla
tlapm ProcessLock_proofs.tla
tlapm AgentSession_proofs.tla
tlapm AgentSessionHistory_proofs.tla
tlapm TransitionJournal_proofs.tla
tlapm ReviewCommit_proofs.tla
tlapm Connector_proofs.tla
tlapm Heartbeat_proofs.tla
tlapm Admission_proofs.tla
```

Each configuration is named after the module whose MC module it instantiates. The
longest runs take about three minutes with two workers; each proof module takes
between one and several minutes. `PROJECT.json` maps each definition to the lines it models and gives for
each property of a passing run a faulty variant of one definition (kept beside that
definition) with which TLC finds the property violated.
