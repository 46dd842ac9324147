-------------------------- MODULE Connector_proofs --------------------------
(***************************************************************************)
(* Theorems about Connector, for any number of messages, sub-agents, tries *)
(* and faults:                                                             *)
(*  - type correctness;                                                    *)
(*  - a key has one turn at a time;                                        *)
(*  - a queued message has somebody who will drain the queue, and an       *)
(*    announced task somebody who will end it;                             *)
(*  - the result of a sub-agent is not lost;                               *)
(*  - no model starts for what came before a clear, nor after destroy().   *)
(* Most steps are what Becomes(c) makes of a configuration c, so the       *)
(* invariant is stated of configurations, and the lemmas say what the      *)
(* operators of the model (Drained, Released, Finished, Starts, ...) do to *)
(* it.                                                                     *)
(***************************************************************************)
EXTENDS Connector, FiniteSetTheorems, SequenceTheorems, TLAPS

Conf == [queue : Seq(Item), taken : BOOLEAN, turns : SUBSET Turn, notices : SUBSET Item,
         batch : SUBSET Agent, task : BOOLEAN, slips : SUBSET {"queue", "task"}]

Queued(c) == {c.queue[i] : i \in DOMAIN c.queue}

\* a sub-agent of generation g that has ended by itself
Ended(a, g, ag) == ag[a].st = "done" /\ ag[a].gen = g

\* Only a notice has used up its tries, a user message is never one, and a result is that
\* of a sub-agent of the item's generation.
ItemFits(it, ag) ==
    /\ it.kind = "user" => ~it.notice
    /\ ~it.notice => it.tries <= MaxTries
    /\ it.kind = "result" => Ended(it.of, it.gen, ag)

QueueFits(it, g, ag) == ItemFits(it, ag) /\ it.gen = g /\ it.kind # "batch"

\* What a turn t carries, where it is, and which generation it is of; tl are the results
\* that were told.
TurnFits(t, g, ph, ag, tl) ==
    /\ ItemFits(t.item, ag) /\ ~t.item.notice
    /\ t.via = "flush" <=> t.item.kind = "batch"
    /\ t.item.kind \in {"user", "ask"} => t.gives = {}
    /\ t.item.kind = "result" => t.gives = {t.item.of}
    /\ \A a \in t.gives : Ended(a, t.item.gen, ag)
    /\ t.pc # "model" => t.wait = {}
    /\ t.pc = "hydrate" => t.item.kind = "user" /\ ~t.task
    /\ t.pc = "reply" => t.gives \subseteq tl
    /\ t.pc = "fallback" => t.via = "flush"
    /\ t.task => t.item.kind = "user"
    /\ ph = "up" => t.item.gen <= g
    /\ ph = "up" /\ t.task => t.item.gen = g

\* The turn is the only one; while the connector is up it holds the reservation, and an
\* announced task is of its generation, and its own if it is a user turn that runs.
Alone(c, t, g, ph) ==
    /\ c.turns = {t}
    /\ ph = "up" => c.taken
    /\ ph = "up" /\ c.task => t.item.gen = g
    /\ ph = "up" /\ c.task /\ t.pc = "model" /\ t.item.kind = "user" => t.task

Fit(c, g, ph, ag, tl) ==
    /\ c \in Conf /\ (c.taken => c.turns # {})
    /\ \A it \in Queued(c) : QueueFits(it, g, ag)
    /\ \A it \in c.notices : ItemFits(it, ag) /\ it.notice /\ it.kind # "batch"
    /\ \A a \in c.batch : Ended(a, g, ag)
    /\ \A t \in c.turns : TurnFits(t, g, ph, ag, tl) /\ Alone(c, t, g, ph)

\* somebody ends the announced task
TaskTended(c, ph) ==
    /\ ph = "down" => ~c.task
    /\ ph = "up" /\ c.task =>
          \/ \E t \in c.turns : t.task \/ (t.pc = "hydrate" /\ t.item.tries > 0)
          \/ \E it \in Queued(c) : it.kind = "user" /\ it.tries > 0
          \/ "task" \in c.slips

\* somebody drains the queue
QueueTended(c, ph, tm) ==
    ph = "up" /\ c.queue # <<>> =>
        c.turns # {} \/ c.notices # {} \/ tm > 0 \/ "queue" \in c.slips

\* A result that is neither consumed, told nor dropped (out) is on its way, or held (hd)
\* by a wait.
OnItsWay(a, c, hd) ==
    \/ a \in c.batch
    \/ \E t \in c.turns : a \in t.gives \/ (a \in hd /\ a \in t.wait)
    \/ \E it \in c.notices \cup Queued(c) : it.kind = "result" /\ it.of = a

Kept(c, g, ph, ag, out, hd) ==
    ph = "up" => \A a \in Agent : Ended(a, g, ag) => a \in out \/ OnItsWay(a, c, hd)

Out == consumed \cup told \cup dropped

\* the types of what a configuration leaves out, and the generations there are
RestOK ==
    /\ inbox \in [User -> [at : {"outside", "await", "inside"}, gen : Nat]]
    /\ gen \in Nat /\ timers \in Nat
    /\ phase \in {"up", "quiesce", "sweep", "last", "down"}
    /\ agent \in [Agent -> [st : {"none", "running", "asking", "closing", "done", "stopped"}, gen : Nat]]
    /\ consumed \subseteq Agent /\ notify \subseteq Agent /\ held \subseteq Agent
    /\ told \subseteq Agent /\ dropped \subseteq Agent
    /\ IsFiniteSet(held) /\ \A a \in held : agent[a].st = "done"
    /\ phase = "up" => /\ \A u \in User : inbox[u].gen <= gen
                       /\ \A a \in Agent : agent[a].gen <= gen

IInv ==
    /\ RestOK
    /\ Fit(Now, gen, phase, agent, told)
    /\ TaskTended(Now, phase)
    /\ QueueTended(Now, phase, timers)
    /\ Kept(Now, gen, phase, agent, Out, held)

-----------------------------------------------------------------------------
(* What the invariant implies                                              *)

LEMMA NowFields ==
    /\ Now.queue = queue /\ Now.taken = reserved /\ Now.turns = turns /\ Now.notices = notices
    /\ Now.batch = batch /\ Now.task = running /\ Now.slips = slips
BY DEF Now

LEMMA IInvTypes == IInv => TypeOK
BY NowFields DEF IInv, RestOK, Fit, Conf, TypeOK

LEMMA IInvOneTurn == IInv => OneTurn
<1> SUFFICES ASSUME IInv PROVE Cardinality(turns) <= 1
  BY DEF OneTurn
<1>1. CASE turns = {}
  BY <1>1, FS_EmptySet
<1>2. CASE turns # {}
  <2>1. PICK t : turns = {t}
    BY <1>2, NowFields DEF IInv, Fit, Alone
  <2>2. Cardinality(turns) = 1
    BY <2>1, FS_Singleton
  <2> QED BY <2>2
<1> QED BY <1>1, <1>2

LEMMA IInvTended == IInv => Tended
BY NowFields DEF IInv, Tended, QueueTended, TaskTended, Queued

LEMMA IInvNoResultLost == IInv => NoResultLost
<1> SUFFICES ASSUME IInv, NEW a \in Agent, phase = "up", agent[a].st = "done", agent[a].gen = gen
             PROVE  \/ a \in consumed \cup told \cup dropped \cup batch \cup (held \cap Claimed)
                    \/ \E t \in turns : a \in t.gives
                    \/ \E it \in notices \cup {queue[i] : i \in DOMAIN queue} :
                          it.kind = "result" /\ it.of = a
  BY DEF NoResultLost
<1>1. a \in Out \/ OnItsWay(a, Now, held)
  BY DEF IInv, Kept, Ended
<1> QED BY <1>1, NowFields DEF Out, OnItsWay, Claimed, Queued

-----------------------------------------------------------------------------
(* Values                                                                  *)

LEMMA Bounds == MaxTries \in Nat /\ MaxTries > 0 /\ MaxSends \in Nat
BY ConnectorAssumption

LEMMA ItemIs ==
    ASSUME NEW it \in Item
    PROVE  /\ it.kind \in {"user", "ask", "result", "batch"}
           /\ it.kind = "user" => it.of \in User
           /\ it.kind \in {"ask", "result"} => it.of \in Agent
           /\ it.gen \in Nat /\ it.tries \in 0..(MaxTries + 1) /\ it.notice \in BOOLEAN
           /\ it.sends \in 0..MaxSends
BY DEF Item, ItemOf

LEMMA TriesChange ==
    ASSUME NEW it \in Item, NEW tries \in 0..(MaxTries + 1), NEW notice \in BOOLEAN
    PROVE  LET new == [it EXCEPT !.tries = tries, !.notice = notice]
           IN  /\ new \in Item /\ new.kind = it.kind /\ new.of = it.of /\ new.gen = it.gen
               /\ new.tries = tries /\ new.notice = notice
BY DEF Item, ItemOf

LEMMA SendsChange ==
    ASSUME NEW it \in Item, NEW sends \in 0..MaxSends
    PROVE  LET new == [it EXCEPT !.sends = sends]
           IN  /\ new \in Item /\ new.kind = it.kind /\ new.of = it.of /\ new.gen = it.gen
               /\ new.tries = it.tries /\ new.notice = it.notice
BY DEF Item, ItemOf

LEMMA NewUserItem ==
    ASSUME NEW u \in User, NEW g \in Nat
    PROVE  LET it == NewItem("user", u, g)
           IN  /\ it \in Item /\ it.kind = "user" /\ it.of = u /\ it.gen = g
               /\ it.tries = 0 /\ ~it.notice
<1>1. 0 \in 0..(MaxTries + 1) /\ 0 \in 0..MaxSends
  BY Bounds
<1> QED BY <1>1 DEF NewItem, Item, ItemOf

LEMMA NewAgentItem ==
    ASSUME NEW a \in Agent, NEW g \in Nat, NEW kind \in {"ask", "result"}
    PROVE  LET it == NewItem(kind, a, g)
           IN  /\ it \in Item /\ it.kind = kind /\ it.of = a /\ it.gen = g
               /\ it.tries = 0 /\ ~it.notice
<1>1. 0 \in 0..(MaxTries + 1) /\ 0 \in 0..MaxSends
  BY Bounds
<1> QED BY <1>1 DEF NewItem, Item, ItemOf

LEMMA NewBatchItem ==
    ASSUME NEW g \in Nat
    PROVE  LET it == NewItem("batch", None, g)
           IN  /\ it \in Item /\ it.kind = "batch" /\ it.gen = g
               /\ it.tries = 0 /\ ~it.notice
<1>1. 0 \in 0..(MaxTries + 1) /\ 0 \in 0..MaxSends
  BY Bounds
<1> QED BY <1>1 DEF NewItem, Item, ItemOf

LEMMA TriedOnce ==
    ASSUME NEW it \in Item
    PROVE  LET new == [it EXCEPT !.tries = 1]
           IN  /\ new \in Item /\ new.kind = it.kind /\ new.of = it.of /\ new.gen = it.gen
               /\ new.tries = 1 /\ new.notice = it.notice
<1>1. 1 \in 0..(MaxTries + 1)
  BY ConnectorAssumption
<1> QED BY <1>1 DEF Item, ItemOf

LEMMA NewTurnIs ==
    ASSUME NEW it \in Item, NEW via \in {"direct", "drain"}, NEW g, NEW ph, NEW ag, NEW tl,
           g \in Nat, QueueFits(it, g, ag), ~it.notice
    PROVE  LET t == NewTurn(it, via)
           IN  /\ t \in Turn /\ TurnFits(t, g, ph, ag, tl) /\ t.item = it /\ t.item.gen = g
               /\ t.pc = "model" /\ it.kind = "user" => t.task
               /\ it.kind = "user" => t.task \/ t.pc = "hydrate"
               /\ it.kind = "result" => t.gives = {it.of}
<1> DEFINE t == NewTurn(it, via)
<1>1. /\ t.item = it /\ t.via = via /\ t.gives = IF it.kind = "result" THEN {it.of} ELSE {}
      /\ t.pc = IF it.kind = "user" /\ it.of \in Hydrated THEN "hydrate" ELSE "model"
      /\ t.task = (it.kind = "user" /\ t.pc = "model")
      /\ t.stopped = FALSE /\ t.wait = {} /\ t.any = FALSE
  BY DEF NewTurn
<1>2. t \in Turn
  BY ItemIs DEF NewTurn, Turn
<1>3. TurnFits(t, g, ph, ag, tl)
  <2> HIDE DEF t
  <2> QED BY <1>1, ItemIs DEF TurnFits, QueueFits, ItemFits
<1> HIDE DEF t
<1> QED BY <1>1, <1>2, <1>3 DEF QueueFits, t

LEMMA Least ==
    ASSUME NEW S \in SUBSET Nat, S # {}
    PROVE  \E m \in S : \A k \in S : m <= k
<1> DEFINE Below(k) == 0..(k - 1)
           T == {Below(k) : k \in S}
<1>1. T \subseteq FiniteSubsetsOf(Nat)
  <2>1. ASSUME NEW k \in S PROVE Below(k) \in SUBSET Nat /\ IsFiniteSet(Below(k))
    BY FS_Interval
  <2> QED BY <2>1 DEF FiniteSubsetsOf
<1>2. T # {}
  OBVIOUS
<1>3. PICK b \in T : \A a \in T : <<a, b>> \notin StrictSubsetOrdering(Nat)
  <2> HIDE DEF T
  <2> QED BY <1>1, <1>2, FS_StrictSubsetOrderingWellFounded, WFMin
<1>4. PICK m \in S : b = Below(m)
  OBVIOUS
<1>5. ASSUME NEW k \in S, k < m PROVE FALSE
  <2>1. Below(k) \subseteq Below(m) /\ k \in Below(m) /\ k \notin Below(k)
    BY <1>5
  <2>2. Below(k) \in SUBSET Nat /\ Below(m) \in SUBSET Nat /\ Below(k) \in T
    OBVIOUS
  <2> HIDE DEF Below, T
  <2> QED BY <1>3, <1>4, <2>1, <2>2 DEF StrictSubsetOrdering
<1> QED BY <1>5

\* Everything before the first kept item is stale, consumed or silent.
LEMMA FirstKeptIs ==
    ASSUME NEW q \in Seq(Item)
    PROVE  LET n == FirstKept(q)
           IN  /\ n \in 1..(Len(q) + 1)
               /\ \A i \in 1..(n - 1) : i \in DOMAIN q /\ (Stale(q[i]) \/ Drop(q[i]) \/ Silent(q[i]))
               /\ n <= Len(q) => ~Stale(q[n]) /\ ~Drop(q[n]) /\ ~Silent(q[n])
<1> DEFINE keeps(it) == ~Stale(it) /\ ~Drop(it) /\ ~Silent(it)
           kept == {i \in DOMAIN q : keeps(q[i])}
           n == FirstKept(q)
<1>1. n = IF kept = {} THEN Len(q) + 1 ELSE CHOOSE i \in kept : \A j \in kept : i <= j
  BY DEF FirstKept
<1>2. Len(q) \in Nat /\ DOMAIN q = 1..Len(q)
  OBVIOUS
<1>3. CASE kept = {}
  <2>1. n = Len(q) + 1
    BY <1>1, <1>3
  <2>2. \A i \in DOMAIN q : ~keeps(q[i])
    BY <1>3
  <2> HIDE DEF n, kept
  <2> QED BY <1>2, <2>1, <2>2 DEF n
<1>4. CASE kept # {}
  <2>1. \E i \in kept : \A j \in kept : i <= j
    <3>1. kept \in SUBSET Nat
      BY <1>2
    <3> HIDE DEF kept
    <3> QED BY <1>4, <3>1, Least
  <2>2. n \in kept /\ \A j \in kept : n <= j
    <3> HIDE DEF kept, n
    <3> QED BY <1>1, <1>4, <2>1
  <2>3. n \in 1..Len(q) /\ keeps(q[n])
    BY <1>2, <2>2
  <2>4. ASSUME NEW i \in 1..(n - 1) PROVE i \in DOMAIN q /\ ~keeps(q[i])
    <3>1. i \in DOMAIN q /\ ~(n <= i)
      <4> HIDE DEF n
      <4> QED BY <1>2, <2>3
    <3>2. i \notin kept
      BY <2>2, <3>1
    <3> QED BY <3>1, <3>2
  <2> HIDE DEF n
  <2> QED BY <1>2, <2>3, <2>4 DEF n
<1> QED BY <1>3, <1>4

-----------------------------------------------------------------------------
(* Configurations                                                          *)

LEMMA ConfIs ==
    ASSUME NEW c \in Conf
    PROVE  /\ c.queue \in Seq(Item) /\ c.taken \in BOOLEAN /\ c.turns \subseteq Turn
           /\ c.notices \subseteq Item /\ c.batch \subseteq Agent /\ c.task \in BOOLEAN
           /\ c.slips \subseteq {"queue", "task"} /\ Queued(c) \subseteq Item
           /\ (c.queue = <<>>) <=> (Queued(c) = {})
<1>1. c.queue \in Seq(Item) /\ Queued(c) \subseteq Item
  BY DEF Conf, Queued
<1>2. (c.queue = <<>>) <=> (Queued(c) = {})
  <2>1. DOMAIN c.queue = 1..Len(c.queue) /\ Len(c.queue) \in Nat
    BY <1>1
  <2>2. (c.queue = <<>>) <=> (Len(c.queue) = 0)
    BY <1>1
  <2>3. Len(c.queue) # 0 => c.queue[1] \in Queued(c)
    BY <2>1 DEF Queued
  <2>4. Len(c.queue) = 0 => Queued(c) = {}
    BY <2>1 DEF Queued
  <2> QED BY <2>2, <2>3, <2>4
<1> QED BY <1>1, <1>2 DEF Conf

\* What a queue is after an item was put to its end or to its head, or taken off it.
LEMMA Appended ==
    ASSUME NEW q \in Seq(Item), NEW it \in Item
    PROVE  LET r == Append(q, it)
           IN  r \in Seq(Item) /\ r # <<>> /\ {r[i] : i \in DOMAIN r} = {q[i] : i \in DOMAIN q} \cup {it}
<1> DEFINE r == Append(q, it)
<1>1. r \in Seq(Item) /\ Len(r) = Len(q) + 1 /\ r[Len(q) + 1] = it /\ Len(q) \in Nat
  OBVIOUS
<1>2. DOMAIN r = 1..(Len(q) + 1) /\ DOMAIN q = 1..Len(q) /\ \A i \in DOMAIN q : r[i] = q[i]
  OBVIOUS
<1> HIDE DEF r
<1>3. {r[i] : i \in DOMAIN r} = {q[i] : i \in DOMAIN q} \cup {it}
  BY <1>1, <1>2
<1>4. r # <<>>
  BY <1>1
<1> QED BY <1>1, <1>3, <1>4 DEF r

LEMMA Prepended ==
    ASSUME NEW q \in Seq(Item), NEW it \in Item
    PROVE  LET r == <<it>> \o q
           IN  r \in Seq(Item) /\ r # <<>> /\ {r[i] : i \in DOMAIN r} = {q[i] : i \in DOMAIN q} \cup {it}
<1> DEFINE r == <<it>> \o q
<1>1. r \in Seq(Item) /\ Len(r) = Len(q) + 1 /\ r[1] = it /\ Len(q) \in Nat
  OBVIOUS
<1>2. DOMAIN r = 1..(Len(q) + 1) /\ DOMAIN q = 1..Len(q) /\ \A i \in DOMAIN q : r[i + 1] = q[i]
  OBVIOUS
<1>3. \A i \in DOMAIN r : i = 1 \/ (i - 1 \in DOMAIN q /\ r[i] = q[i - 1])
  BY <1>1, <1>2
<1>4. \A i \in DOMAIN q : i + 1 \in DOMAIN r
  BY <1>1, <1>2
<1> HIDE DEF r
<1>5. {r[i] : i \in DOMAIN r} = {q[i] : i \in DOMAIN q} \cup {it}
  <2>1. 1 \in DOMAIN r
    BY <1>1, <1>2
  <2>2. ASSUME NEW i \in DOMAIN r PROVE r[i] \in {q[j] : j \in DOMAIN q} \cup {it}
    BY <1>1, <1>3
  <2>3. ASSUME NEW i \in DOMAIN q PROVE q[i] \in {r[j] : j \in DOMAIN r}
    BY <1>2, <1>4
  <2> QED BY <1>1, <2>1, <2>2, <2>3
<1>6. r # <<>>
  BY <1>1
<1> QED BY <1>1, <1>5, <1>6 DEF r

LEMMA HeadTaken ==
    ASSUME NEW q \in Seq(Item), q # <<>>
    PROVE  /\ Tail(q) \in Seq(Item) /\ Head(q) \in Item /\ Head(q) = q[1] /\ 1 \in DOMAIN q
           /\ {q[i] : i \in DOMAIN q} = {Tail(q)[i] : i \in DOMAIN Tail(q)} \cup {Head(q)}
<1> DEFINE r == Tail(q)
<1>1. /\ r \in Seq(Item) /\ Head(q) \in Item /\ Head(q) = q[1] /\ Len(q) \in Nat /\ Len(q) > 0
      /\ Len(r) = Len(q) - 1 /\ DOMAIN r = 1..(Len(q) - 1) /\ DOMAIN q = 1..Len(q)
      /\ \A i \in DOMAIN r : r[i] = q[i + 1]
  OBVIOUS
<1>2. \A i \in DOMAIN q : i = 1 \/ (i - 1 \in DOMAIN r /\ q[i] = r[i - 1])
  BY <1>1
<1>3. \A i \in DOMAIN r : i + 1 \in DOMAIN q
  BY <1>1
<1>4. 1 \in DOMAIN q
  BY <1>1
<1> HIDE DEF r
<1>5. {q[i] : i \in DOMAIN q} = {r[i] : i \in DOMAIN r} \cup {Head(q)}
  BY <1>1, <1>2, <1>3, <1>4
<1> QED BY <1>1, <1>4, <1>5 DEF r

LEMMA Suffix ==
    ASSUME NEW q \in Seq(Item), NEW n \in 1..(Len(q) + 1)
    PROVE  LET r == SubSeq(q, n, Len(q))
           IN  /\ r \in Seq(Item)
               /\ {r[i] : i \in DOMAIN r} = {q[i] : i \in n..Len(q)}
               /\ (r = <<>>) <=> (n = Len(q) + 1)
               /\ n <= Len(q) => Head(r) = q[n]
<1> DEFINE r == SubSeq(q, n, Len(q))
<1>1. Len(q) \in Nat /\ DOMAIN q = 1..Len(q) /\ n \in Nat /\ n >= 1 /\ n <= Len(q) + 1
  OBVIOUS
<1>2. /\ r \in Seq(Item) /\ Len(r) = Len(q) - n + 1
      /\ \A i \in 1..(Len(q) - n + 1) : r[i] = q[n + i - 1]
  BY <1>1, SubSeqProperties
<1>3. DOMAIN r = 1..(Len(q) - n + 1)
  BY <1>2
<1> HIDE DEF r
<1>4. \A i \in n..Len(q) : i - n + 1 \in DOMAIN r /\ r[i - n + 1] = q[i]
  BY <1>1, <1>2, <1>3
<1>5. \A i \in DOMAIN r : n + i - 1 \in n..Len(q) /\ r[i] = q[n + i - 1]
  BY <1>1, <1>2, <1>3
<1>6. {r[i] : i \in DOMAIN r} = {q[i] : i \in n..Len(q)}
  <2>1. ASSUME NEW i \in DOMAIN r PROVE r[i] \in {q[j] : j \in n..Len(q)}
    BY <1>5
  <2>2. ASSUME NEW j \in n..Len(q) PROVE q[j] \in {r[i] : i \in DOMAIN r}
    BY <1>4
  <2> QED BY <2>1, <2>2
<1>7. (r = <<>>) <=> (n = Len(q) + 1)
  BY <1>1, <1>2, <1>3
<1>8. n <= Len(q) => Head(r) = q[n]
  BY <1>1, <1>2, <1>3
<1> QED BY <1>2, <1>6, <1>7, <1>8 DEF r

\* d is c with turn t started on an item that was in the queue, or on a new one.
Begins(c, d, t, g) ==
    /\ d \in Conf /\ t \in Turn /\ t.item.gen = g
    /\ t.pc = "model" /\ t.item.kind = "user" => t.task
    /\ t.item.kind = "user" => t.task \/ t.pc = "hydrate"
    /\ ~c.taken /\ d.taken /\ d.turns = c.turns \cup {t} /\ (d.task <=> c.task \/ t.task)
    /\ d.notices = c.notices /\ d.slips = c.slips
    /\ d.batch \subseteq c.batch /\ c.batch \subseteq d.batch \cup t.gives
    /\ Queued(d) \subseteq Queued(c) /\ Queued(c) \subseteq Queued(d) \cup {t.item}

LEMMA Starting ==
    ASSUME NEW c, NEW d, NEW t, NEW g \in Nat, NEW ag, NEW tl, NEW out, NEW hd,
           Fit(c, g, "up", ag, tl), TurnFits(t, g, "up", ag, tl), Begins(c, d, t, g)
    PROVE  /\ Fit(d, g, "up", ag, tl) /\ d.turns = {t}
           /\ TaskTended(c, "up") => TaskTended(d, "up")
           /\ Kept(c, g, "up", ag, out, hd) => Kept(d, g, "up", ag, out, hd)
<1> USE DEF Begins
<1>1. c.turns = {}
  BY DEF Fit, Alone
<1>2. d.turns = {t}
  BY <1>1
<1>3. Fit(d, g, "up", ag, tl)
  BY <1>1, <1>2 DEF Fit, Alone
<1>4. ASSUME TaskTended(c, "up") PROVE TaskTended(d, "up")
  <2> SUFFICES ASSUME d.task
               PROVE  \/ \E u \in d.turns : u.task \/ (u.pc = "hydrate" /\ u.item.tries > 0)
                      \/ \E it \in Queued(d) : it.kind = "user" /\ it.tries > 0
                      \/ "task" \in d.slips
    BY DEF TaskTended
  <2>1. CASE t.task
    BY <1>2, <2>1
  <2>2. CASE ~t.task
    <3>1. c.task
      BY <2>2
    <3>2. CASE \E it \in Queued(c) : it.kind = "user" /\ it.tries > 0
      BY <1>2, <2>2, <3>2
    <3> QED BY <1>1, <1>4, <3>1, <3>2 DEF TaskTended
  <2> QED BY <2>1, <2>2
<1>5. ASSUME Kept(c, g, "up", ag, out, hd) PROVE Kept(d, g, "up", ag, out, hd)
  <2> SUFFICES ASSUME NEW a \in Agent, Ended(a, g, ag), OnItsWay(a, c, hd) PROVE OnItsWay(a, d, hd)
    BY <1>5 DEF Kept
  <2>1. CASE a \in c.batch
    BY <1>2, <2>1 DEF OnItsWay
  <2>2. CASE \E it \in Queued(c) : it.kind = "result" /\ it.of = a
    BY <1>2, <2>2 DEF OnItsWay, TurnFits
  <2>3. CASE \E it \in c.notices : it.kind = "result" /\ it.of = a
    BY <2>3 DEF OnItsWay
  <2> QED BY <1>1, <2>1, <2>2, <2>3 DEF OnItsWay
<1> QED BY <1>2, <1>3, <1>4, <1>5

\* What a drain takes off the head without running it goes nowhere but into the batch.
LEMMA Left ==
    ASSUME NEW c, NEW ag, NEW tl, NEW out, NEW hd,
           Fit(c, gen, phase, ag, tl), consumed \subseteq out
    PROVE  LET n     == FirstKept(c.queue)
               rest  == SubSeq(c.queue, n, Len(c.queue))
               quiet == {c.queue[i].of : i \in {j \in 1..(n - 1) : ~Stale(c.queue[j]) /\ ~Drop(c.queue[j])}}
               d     == [c EXCEPT !.queue = rest, !.batch = @ \cup quiet, !.slips = @ \ {"queue"}]
           IN  /\ Fit(d, gen, phase, ag, tl)
               /\ TaskTended(c, phase) => TaskTended(d, phase)
               /\ Kept(c, gen, phase, ag, out, hd) => Kept(d, gen, phase, ag, out, hd)
               /\ rest # <<>> => ~Drop(Head(rest)) /\ ~Silent(Head(rest))
<1> DEFINE q     == c.queue
           n     == FirstKept(q)
           rest  == SubSeq(q, n, Len(q))
           off   == {j \in 1..(n - 1) : ~Stale(q[j]) /\ ~Drop(q[j])}
           quiet == {q[i].of : i \in off}
           d     == [c EXCEPT !.queue = rest, !.batch = @ \cup quiet, !.slips = @ \ {"queue"}]
<1>1. c \in Conf /\ q \in Seq(Item) /\ Len(q) \in Nat /\ DOMAIN q = 1..Len(q)
  BY ConfIs DEF Fit
<1>2. /\ n \in 1..(Len(q) + 1)
      /\ \A i \in 1..(n - 1) : i \in DOMAIN q /\ (Stale(q[i]) \/ Drop(q[i]) \/ Silent(q[i]))
      /\ n <= Len(q) => ~Stale(q[n]) /\ ~Drop(q[n]) /\ ~Silent(q[n])
  BY <1>1, FirstKeptIs
<1> HIDE DEF n
<1>3. /\ rest \in Seq(Item) /\ {rest[i] : i \in DOMAIN rest} = {q[i] : i \in n..Len(q)}
      /\ (rest = <<>>) <=> (n = Len(q) + 1)
      /\ n <= Len(q) => Head(rest) = q[n]
  BY <1>1, <1>2, Suffix
<1>4. \A i \in DOMAIN q : q[i] \in Queued(c) /\ QueueFits(q[i], gen, ag) /\ q[i] \in Item
  BY <1>1, ConfIs DEF Fit, Queued
<1>5. \A i \in off : q[i].kind = "result" /\ q[i].of \in Agent /\ Ended(q[i].of, gen, ag)
  BY <1>2, <1>4, ItemIs DEF Silent, QueueFits, ItemFits
<1>6. quiet \subseteq Agent /\ \A a \in quiet : Ended(a, gen, ag)
  BY <1>5
<1> HIDE DEF rest
<1>7. /\ d \in Conf /\ d.queue = rest /\ d.batch = c.batch \cup quiet /\ d.slips = c.slips \ {"queue"}
      /\ d.taken = c.taken /\ d.turns = c.turns /\ d.notices = c.notices /\ d.task = c.task
  <2> HIDE DEF quiet
  <2> QED BY <1>1, <1>3, <1>6 DEF Conf
<1> HIDE DEF d, quiet
<1>8. Queued(d) = {q[i] : i \in n..Len(q)} /\ Queued(c) = {q[i] : i \in 1..Len(q)}
  BY <1>1, <1>3, <1>7 DEF Queued
<1>15. n \in Nat /\ n >= 1 /\ n..Len(q) \subseteq 1..Len(q)
  BY <1>1, <1>2
<1>9. Queued(d) \subseteq Queued(c)
  BY <1>8, <1>15
<1>10. \A it \in Queued(c) \ Queued(d) : \E i \in 1..(n - 1) : it = q[i]
  <2> SUFFICES ASSUME NEW i \in 1..Len(q), q[i] \notin Queued(d) PROVE i \in 1..(n - 1)
    BY <1>8
  <2>1. i \notin n..Len(q)
    BY <1>8
  <2> QED BY <1>1, <1>15, <2>1
<1>11. Fit(d, gen, phase, ag, tl)
  BY <1>6, <1>7, <1>9 DEF Fit, Alone
<1>12. ASSUME TaskTended(c, phase) PROVE TaskTended(d, phase)
  <2>1. \A it \in Queued(c) : it.kind = "user" => it \in Queued(d)
    BY <1>2, <1>4, <1>10 DEF Stale, Drop, Silent, QueueFits
  <2> QED BY <1>7, <1>12, <2>1 DEF TaskTended
<1>13. ASSUME Kept(c, gen, phase, ag, out, hd) PROVE Kept(d, gen, phase, ag, out, hd)
  <2>1. ASSUME NEW it \in Queued(c), it \notin Queued(d), it.kind = "result"
        PROVE  it.of \in out \/ it.of \in d.batch
    <3>1. PICK i \in 1..(n - 1) : it = q[i]
      BY <1>10, <2>1
    <3>2. ~Stale(it)
      BY <1>2, <1>4, <3>1 DEF Stale, QueueFits
    <3>3. CASE Drop(it)
      BY <3>3 DEF Drop
    <3>4. CASE ~Drop(it)
      BY <1>7, <3>1, <3>2, <3>4 DEF quiet
    <3> QED BY <3>3, <3>4
  <2> SUFFICES ASSUME phase = "up", NEW a \in Agent, Ended(a, gen, ag), a \notin out,
                      OnItsWay(a, c, hd)
               PROVE  OnItsWay(a, d, hd)
    BY <1>13 DEF Kept
  <2> QED BY <1>7, <2>1 DEF OnItsWay
<1>14. rest # <<>> => ~Drop(Head(rest)) /\ ~Silent(Head(rest))
  BY <1>2, <1>3
<1> QED BY <1>11, <1>12, <1>13, <1>14 DEF d, rest, n, quiet

\* The notice at the head of the queue is sent.
LEMMA NoticeTaken ==
    ASSUME NEW c, NEW g, NEW ph, NEW ag, NEW tl, NEW out, NEW hd,
           Fit(c, g, ph, ag, tl), c.queue # <<>>, Head(c.queue).notice
    PROVE  LET d == [c EXCEPT !.queue = Tail(c.queue), !.notices = @ \cup {Head(c.queue)}]
           IN  /\ Fit(d, g, ph, ag, tl) /\ d.notices # {}
               /\ TaskTended(c, ph) => TaskTended(d, ph)
               /\ Kept(c, g, ph, ag, out, hd) => Kept(d, g, ph, ag, out, hd)
<1> DEFINE d == [c EXCEPT !.queue = Tail(c.queue), !.notices = @ \cup {Head(c.queue)}]
           it == Head(c.queue)
<1>1. c \in Conf /\ c.queue \in Seq(Item)
  BY ConfIs DEF Fit
<1>2. /\ Tail(c.queue) \in Seq(Item) /\ it \in Item /\ it \in Queued(c)
      /\ Queued(c) = {Tail(c.queue)[i] : i \in DOMAIN Tail(c.queue)} \cup {it}
  BY <1>1, HeadTaken DEF Queued
<1> HIDE DEF it
<1>3. /\ d \in Conf /\ d.queue = Tail(c.queue) /\ d.notices = c.notices \cup {it}
      /\ d.taken = c.taken /\ d.turns = c.turns /\ d.batch = c.batch /\ d.task = c.task
      /\ d.slips = c.slips
  BY <1>1, <1>2 DEF Conf, it
<1> HIDE DEF d
<1>4. Queued(c) = Queued(d) \cup {it}
  BY <1>2, <1>3 DEF Queued
<1>5. it.notice /\ it.kind # "user" /\ it.kind # "batch" /\ ItemFits(it, ag)
  BY <1>2 DEF Fit, QueueFits, ItemFits, it
<1>6. Fit(d, g, ph, ag, tl)
  BY <1>3, <1>4, <1>5 DEF Fit, Alone
<1>7. TaskTended(c, ph) => TaskTended(d, ph)
  BY <1>3, <1>4, <1>5 DEF TaskTended
<1>8. Kept(c, g, ph, ag, out, hd) => Kept(d, g, ph, ag, out, hd)
  BY <1>3, <1>4 DEF Kept, OnItsWay
<1> QED BY <1>3, <1>6, <1>7, <1>8 DEF d, it

Good(c, ag, tl, out, hd) ==
    /\ Fit(c, gen, phase, ag, tl)
    /\ TaskTended(c, phase)
    /\ Kept(c, gen, phase, ag, out, hd)

LEMMA SlipMended ==
    ASSUME NEW c, NEW ag, NEW tl, NEW out, NEW hd, Good(c, ag, tl, out, hd)
    PROVE  LET d == [c EXCEPT !.slips = @ \ {"queue"}]
           IN  Good(d, ag, tl, out, hd) /\ d.queue = c.queue /\ d.batch = c.batch
<1> DEFINE d == [c EXCEPT !.slips = @ \ {"queue"}]
<1>1. c \in Conf
  BY DEF Good, Fit
<1>2. /\ d \in Conf /\ d.queue = c.queue /\ d.notices = c.notices /\ d.taken = c.taken
      /\ d.turns = c.turns /\ d.batch = c.batch /\ d.task = c.task /\ d.slips = c.slips \ {"queue"}
  BY <1>1 DEF Conf
<1> HIDE DEF d
<1>3. Queued(d) = Queued(c)
  BY <1>2 DEF Queued
<1>4. Fit(d, gen, phase, ag, tl)
  BY <1>2, <1>3 DEF Good, Fit, Alone
<1>5. TaskTended(d, phase)
  BY <1>2, <1>3 DEF Good, TaskTended
<1>6. Kept(d, gen, phase, ag, out, hd)
  BY <1>2, <1>3 DEF Good, Kept, OnItsWay
<1> QED BY <1>2, <1>4, <1>5, <1>6 DEF Good, d

\* The first kept item of the queue gets the reservation.
LEMMA HeadStarted ==
    ASSUME NEW c, NEW ag, NEW tl, NEW out, NEW hd, Good(c, ag, tl, out, hd),
           gen \in Nat, phase = "up", c.queue # <<>>, ~Head(c.queue).notice, ~c.taken
    PROVE  LET d == Starts([c EXCEPT !.queue = Tail(c.queue)], NewTurn(Head(c.queue), "drain"))
           IN  Good(d, ag, tl, out, hd) /\ d.turns # {} /\ d.batch = c.batch
<1> DEFINE it == Head(c.queue)
           t  == NewTurn(it, "drain")
           d  == Starts([c EXCEPT !.queue = Tail(c.queue)], t)
<1>1. c \in Conf /\ c.queue \in Seq(Item)
  BY ConfIs DEF Good, Fit
<1>2. /\ Tail(c.queue) \in Seq(Item) /\ it \in Item /\ it \in Queued(c)
      /\ Queued(c) = {Tail(c.queue)[i] : i \in DOMAIN Tail(c.queue)} \cup {it}
  BY <1>1, HeadTaken DEF Queued
<1> HIDE DEF it
<1>3. QueueFits(it, gen, ag) /\ ~it.notice
  BY <1>2 DEF Good, Fit, it
<1>4. /\ t \in Turn /\ TurnFits(t, gen, phase, ag, tl) /\ t.item = it /\ t.item.gen = gen
      /\ t.pc = "model" /\ it.kind = "user" => t.task
      /\ it.kind = "user" => t.task \/ t.pc = "hydrate"
  BY <1>2, <1>3, NewTurnIs
<1> HIDE DEF t
<1>5. /\ d \in Conf /\ d.queue = Tail(c.queue) /\ d.notices = c.notices /\ d.taken
      /\ d.turns = c.turns \cup {t} /\ d.batch = c.batch /\ (d.task <=> (c.task \/ t.task))
      /\ d.slips = c.slips
  <2>1. t.task \in BOOLEAN
    BY <1>4 DEF Turn
  <2> QED BY <1>1, <1>2, <1>4, <2>1 DEF Conf, Starts
<1> HIDE DEF d
<1>6. Queued(c) = Queued(d) \cup {t.item}
  BY <1>2, <1>4, <1>5 DEF Queued
<1>7. /\ Fit(d, gen, "up", ag, tl) /\ d.turns = {t}
      /\ TaskTended(c, "up") => TaskTended(d, "up")
      /\ Kept(c, gen, "up", ag, out, hd) => Kept(d, gen, "up", ag, out, hd)
  <2>1. Fit(c, gen, "up", ag, tl) /\ TurnFits(t, gen, "up", ag, tl)
    BY <1>4 DEF Good
  <2>2. Begins(c, d, t, gen)
    BY <1>4, <1>5, <1>6 DEF Begins
  <2> QED BY <2>1, <2>2, Starting
<1> QED BY <1>5, <1>7 DEF Good, d, t, it

LEMMA Drains ==
    ASSUME NEW c, NEW ag, NEW tl, NEW out, NEW hd, Good(c, ag, tl, out, hd),
           gen \in Nat, consumed \subseteq out
    PROVE  LET d == Drained(c)
           IN  /\ Good(d, ag, tl, out, hd) /\ c.batch \subseteq d.batch
               /\ \A tm : QueueTended(d, phase, tm)
<1> DEFINE q     == c.queue
           n     == FirstKept(q)
           rest  == SubSeq(q, n, Len(q))
           quiet == {q[i].of : i \in {j \in 1..(n - 1) : ~Stale(q[j]) /\ ~Drop(q[j])}}
           left  == [c EXCEPT !.queue = rest, !.batch = @ \cup quiet, !.slips = @ \ {"queue"}]
           d     == Drained(c)
<1> SUFFICES /\ Good(d, ag, tl, out, hd) /\ c.batch \subseteq d.batch
             /\ \A tm : QueueTended(d, phase, tm)
  OBVIOUS
<1>1. d = CASE phase # "up" \/ c.queue = <<>> -> [c EXCEPT !.slips = @ \ {"queue"}]
            [] phase = "up" /\ rest # <<>> /\ Head(rest).notice ->
                  [left EXCEPT !.queue = Tail(rest), !.notices = @ \cup {Head(rest)}]
            [] phase = "up" /\ rest # <<>> /\ ~Head(rest).notice /\ CanReserve(c.taken, c.turns) ->
                  Starts([left EXCEPT !.queue = Tail(rest)], NewTurn(Head(rest), "drain"))
            [] OTHER -> left
  BY DEF Drained
<1>2. c \in Conf /\ q \in Seq(Item)
  BY ConfIs DEF Good, Fit
<1>3. Good(left, ag, tl, out, hd)
  BY Left DEF Good
<1>4. /\ left.queue = rest /\ left.batch = c.batch \cup quiet /\ left.taken = c.taken
      /\ left.turns = c.turns
  BY <1>2 DEF Conf
<1> HIDE DEF left, rest, quiet, d
<1>5. CASE phase # "up" \/ q = <<>>
  <2>1. q = <<>> => rest = <<>>
    <3>1. n \in 1..(Len(q) + 1)
      BY <1>2, FirstKeptIs
    <3> HIDE DEF n
    <3>2. (rest = <<>>) <=> (n = Len(q) + 1)
      BY <1>2, <3>1, Suffix DEF rest
    <3> QED BY <3>1, <3>2
  <2>2. d = [c EXCEPT !.slips = @ \ {"queue"}]
    BY <1>1, <1>5, <2>1
  <2>3. Good(d, ag, tl, out, hd) /\ d.queue = c.queue /\ d.batch = c.batch
    BY <2>2, SlipMended
  <2> QED BY <1>5, <2>3 DEF QueueTended
<1>6. CASE phase = "up" /\ q # <<>> /\ rest # <<>> /\ Head(rest).notice
  <2>1. d = [left EXCEPT !.queue = Tail(rest), !.notices = @ \cup {Head(rest)}]
    BY <1>1, <1>6
  <2>2. Good(d, ag, tl, out, hd) /\ d.notices # {}
    BY <1>3, <1>4, <1>6, <2>1, NoticeTaken DEF Good
  <2>3. c.batch \subseteq d.batch
    <3>1. left \in Conf
      BY <1>3 DEF Good, Fit
    <3> QED BY <1>4, <2>1, <3>1 DEF Conf
  <2> QED BY <2>2, <2>3 DEF QueueTended
<1>7. CASE phase = "up" /\ q # <<>> /\ rest # <<>> /\ ~Head(rest).notice /\ CanReserve(c.taken, c.turns)
  <2>1. d = Starts([left EXCEPT !.queue = Tail(rest)], NewTurn(Head(rest), "drain"))
    BY <1>1, <1>7
  <2>2. Good(d, ag, tl, out, hd) /\ d.turns # {} /\ d.batch = left.batch
    BY <1>3, <1>4, <1>7, <2>1, HeadStarted DEF CanReserve
  <2> QED BY <1>4, <2>2 DEF QueueTended
<1>8. CASE /\ phase = "up" /\ q # <<>>
           /\ rest = <<>> \/ (~Head(rest).notice /\ ~CanReserve(c.taken, c.turns))
  <2>1. d = left
    BY <1>1, <1>8
  <2>2. rest # <<>> => c.turns # {}
    BY <1>8 DEF Good, Fit, CanReserve
  <2> QED BY <1>3, <1>4, <2>1, <2>2 DEF QueueTended
<1> QED BY <1>5, <1>6, <1>7, <1>8 DEF d

\* d is c without its turn t.
LeavesTurn(c, d, t) ==
    /\ d \in Conf /\ t \in c.turns /\ d.turns = c.turns \ {t} /\ ~d.taken
    /\ d.queue = c.queue /\ d.notices = c.notices /\ d.batch = c.batch

LEMMA Leaving ==
    ASSUME NEW c, NEW d, NEW t, NEW g, NEW ph, NEW ag, NEW tl,
           Fit(c, g, ph, ag, tl), LeavesTurn(c, d, t)
    PROVE  Fit(d, g, ph, ag, tl) /\ d.turns = {} /\ c.turns = {t} /\ Queued(d) = Queued(c)
<1>1. c.turns = {t}
  BY DEF Fit, Alone, LeavesTurn
<1>2. d.turns = {} /\ Queued(d) = Queued(c)
  BY <1>1 DEF LeavesTurn, Queued
<1> QED BY <1>1, <1>2 DEF Fit, LeavesTurn

LEMMA ReleasedIs ==
    ASSUME NEW c, NEW t, NEW g, NEW ph, NEW ag, NEW tl, Fit(c, g, ph, ag, tl), t \in c.turns
    PROVE  LET d == Released(c, t)
           IN  LeavesTurn(c, d, t) /\ (d.task <=> c.task) /\ d.slips = c.slips
<1>1. c \in Conf
  BY DEF Fit
<1> QED BY <1>1 DEF Released, LeavesTurn, Conf

\* What turn t carries is known elsewhere, or is of an older generation.
CarriesNothing(c, t, g, ph, out) ==
    ph = "up" /\ t.item.gen = g => \A a \in t.gives :
        a \in out \cup c.batch \/ \E it \in Queued(c) : it.kind = "result" /\ it.of = a

LEMMA LeavingKeeps ==
    ASSUME NEW c, NEW d, NEW t, NEW g, NEW ph, NEW ag, NEW tl, NEW out, NEW hd,
           Fit(c, g, ph, ag, tl), LeavesTurn(c, d, t), Kept(c, g, ph, ag, out, hd),
           t.wait = {}, CarriesNothing(c, t, g, ph, out)
    PROVE  Kept(d, g, ph, ag, out, hd)
<1>1. c.turns = {t} /\ d.turns = {} /\ Queued(d) = Queued(c)
  BY Leaving
<1>2. TurnFits(t, g, ph, ag, tl)
  BY <1>1 DEF Fit
<1> SUFFICES ASSUME ph = "up", NEW a \in Agent, Ended(a, g, ag), a \notin out, OnItsWay(a, c, hd)
             PROVE  OnItsWay(a, d, hd)
  BY DEF Kept
<1>3. CASE a \in t.gives
  <2>1. t.item.gen = g
    BY <1>2, <1>3 DEF TurnFits, Ended
  <2> QED BY <1>1, <1>3, <2>1 DEF OnItsWay, LeavesTurn, CarriesNothing
<1>4. CASE a \notin t.gives
  BY <1>1, <1>4 DEF OnItsWay, LeavesTurn
<1> QED BY <1>3, <1>4

\* The task is not the turn's to end, or the queue has what will end it, or the turn is of
\* an older generation.
OwesNothing(c, t, g, ph) ==
    ph = "up" /\ t.item.gen = g =>
        /\ t.pc # "hydrate"
        /\ ~t.task \/ \E it \in Queued(c) : it.kind = "user" /\ it.tries > 0

LEMMA Releasing ==
    ASSUME NEW c, NEW t, NEW ag, NEW tl, NEW out, NEW hd, Good(c, ag, tl, out, hd), t \in c.turns,
           t.wait = {}, CarriesNothing(c, t, gen, phase, out), OwesNothing(c, t, gen, phase)
    PROVE  Good(Released(c, t), ag, tl, out, hd)
<1> DEFINE d == Released(c, t)
<1>1. LeavesTurn(c, d, t) /\ (d.task <=> c.task) /\ d.slips = c.slips
  BY ReleasedIs DEF Good
<1> HIDE DEF d
<1>2. c.turns = {t} /\ d.turns = {} /\ Queued(d) = Queued(c) /\ Fit(d, gen, phase, ag, tl)
  BY <1>1, Leaving DEF Good
<1>3. Alone(c, t, gen, phase)
  BY <1>2 DEF Good, Fit
<1>4. TaskTended(d, phase)
  BY <1>1, <1>2, <1>3 DEF Good, TaskTended, Alone, OwesNothing
<1>5. Kept(d, gen, phase, ag, out, hd)
  BY <1>1, LeavingKeeps DEF Good
<1> QED BY <1>2, <1>4, <1>5 DEF Good, d

\* finishConversationTask after the release
LEMMA FinishedIs ==
    ASSUME NEW c, NEW t, NEW g, NEW ph, NEW ag, NEW tl, Fit(c, g, ph, ag, tl), t \in c.turns
    PROVE  LET d == Finished(Released(c, t), t)
           IN  /\ LeavesTurn(c, d, t)
               /\ TaskTended(c, ph) /\ t.pc # "hydrate" => TaskTended(d, ph)
<1> DEFINE r == Released(c, t)
           d == Finished(r, t)
<1> SUFFICES /\ LeavesTurn(c, d, t)
             /\ TaskTended(c, ph) /\ t.pc # "hydrate" => TaskTended(d, ph)
  OBVIOUS
<1>1. LeavesTurn(c, r, t) /\ (r.task <=> c.task) /\ r.slips = c.slips
  BY ReleasedIs
<1> HIDE DEF r
<1>2. c.turns = {t} /\ r.turns = {} /\ Queued(r) = Queued(c)
  BY <1>1, Leaving
<1>3. CASE t.task
  <2>1. d = [r EXCEPT !.task = FALSE, !.slips = @ \ {"task"}]
    BY <1>3 DEF Finished
  <2>2. LeavesTurn(c, d, t) /\ ~d.task
    <3>1. r \in Conf
      BY <1>1 DEF LeavesTurn
    <3> QED BY <1>1, <2>1, <3>1 DEF LeavesTurn, Conf
  <2> QED BY <2>2 DEF TaskTended
<1>4. CASE ~t.task
  <2>1. d = r
    BY <1>4 DEF Finished
  <2> QED BY <1>1, <1>2, <1>4, <2>1 DEF TaskTended
<1> QED BY <1>3, <1>4 DEF r

LEMMA Finishing ==
    ASSUME NEW c, NEW t, NEW ag, NEW tl, NEW out, NEW hd, Good(c, ag, tl, out, hd), t \in c.turns,
           t.wait = {}, t.pc # "hydrate", CarriesNothing(c, t, gen, phase, out)
    PROVE  Good(Finished(Released(c, t), t), ag, tl, out, hd)
<1>1. /\ LeavesTurn(c, Finished(Released(c, t), t), t)
      /\ TaskTended(Finished(Released(c, t), t), phase)
  BY FinishedIs DEF Good
<1> QED BY <1>1, Leaving, LeavingKeeps DEF Good

\* d is c with item it at the end or the head of the queue.
Joins(c, d, it) ==
    /\ d \in Conf /\ it \in Item /\ Queued(d) = Queued(c) \cup {it} /\ d.taken = c.taken
    /\ d.turns = c.turns /\ d.notices = c.notices /\ d.batch = c.batch /\ (d.task <=> c.task)
    /\ d.slips = c.slips

LEMMA Joining ==
    ASSUME NEW c \in Conf, NEW it \in Item
    PROVE  /\ Joins(c, [c EXCEPT !.queue = Append(@, it)], it)
           /\ Joins(c, Unshift(c, it), it)
<1>1. ASSUME NEW q \in Seq(Item), {q[i] : i \in DOMAIN q} = Queued(c) \cup {it}
      PROVE  Joins(c, [c EXCEPT !.queue = q], it)
  BY <1>1 DEF Joins, Conf, Queued
<1>2. c.queue \in Seq(Item)
  BY ConfIs
<1>3. Joins(c, [c EXCEPT !.queue = Append(c.queue, it)], it)
  <2>1. /\ Append(c.queue, it) \in Seq(Item)
        /\ {Append(c.queue, it)[i] : i \in DOMAIN Append(c.queue, it)} = Queued(c) \cup {it}
    BY <1>2, Appended DEF Queued
  <2> QED BY <1>1, <2>1
<1>4. Joins(c, [c EXCEPT !.queue = <<it>> \o c.queue], it)
  <2>1. /\ <<it>> \o c.queue \in Seq(Item)
        /\ {(<<it>> \o c.queue)[i] : i \in DOMAIN (<<it>> \o c.queue)} = Queued(c) \cup {it}
    BY <1>2, Prepended DEF Queued
  <2> QED BY <1>1, <2>1
<1> QED BY <1>3, <1>4 DEF Unshift

LEMMA Joined ==
    ASSUME NEW c, NEW d, NEW it, NEW g, NEW ph, NEW ag, NEW tl, NEW out, NEW hd,
           Fit(c, g, ph, ag, tl), Joins(c, d, it), QueueFits(it, g, ag)
    PROVE  /\ Fit(d, g, ph, ag, tl)
           /\ TaskTended(c, ph) => TaskTended(d, ph)
           /\ Kept(c, g, ph, ag, out, hd) => Kept(d, g, ph, ag, out, hd)
<1>1. Fit(d, g, ph, ag, tl)
  BY DEF Fit, Joins, Alone
<1>2. TaskTended(c, ph) => TaskTended(d, ph)
  BY DEF Joins, TaskTended
<1>3. Kept(c, g, ph, ag, out, hd) => Kept(d, g, ph, ag, out, hd)
  BY DEF Joins, Kept, OnItsWay
<1> QED BY <1>1, <1>2, <1>3

\* d is c with turn u for its turn t, which goes on with what it carries and owns.
GoesOn(c, d, t, u) ==
    /\ d \in Conf /\ t \in c.turns /\ u \in Turn /\ d.turns = (c.turns \ {t}) \cup {u}
    /\ d.taken = c.taken /\ d.queue = c.queue /\ d.notices = c.notices /\ d.batch = c.batch
    /\ (d.task <=> c.task) /\ d.slips = c.slips
    /\ u.item = t.item /\ u.gives = t.gives /\ (u.task <=> t.task)
    /\ u.pc = t.pc \/ (t.pc # "hydrate" /\ u.pc # "model")

LEMMA GoingOn ==
    ASSUME NEW c, NEW d, NEW t, NEW u, NEW g, NEW ph, NEW ag, NEW tl,
           Fit(c, g, ph, ag, tl), GoesOn(c, d, t, u), TurnFits(u, g, ph, ag, tl)
    PROVE  /\ Fit(d, g, ph, ag, tl) /\ d.turns = {u} /\ c.turns = {t} /\ Queued(d) = Queued(c)
           /\ TaskTended(c, ph) => TaskTended(d, ph)
<1>1. c.turns = {t} /\ Alone(c, t, g, ph)
  BY DEF Fit, Alone, GoesOn
<1>2. d.turns = {u} /\ Queued(d) = Queued(c)
  BY <1>1 DEF GoesOn, Queued
<1>3. Fit(d, g, ph, ag, tl)
  BY <1>1, <1>2 DEF Fit, Alone, GoesOn
<1>4. TaskTended(c, ph) => TaskTended(d, ph)
  BY <1>1, <1>2 DEF TaskTended, GoesOn
<1> QED BY <1>1, <1>2, <1>3, <1>4

LEMMA GoingOnKeeps ==
    ASSUME NEW c, NEW d, NEW t, NEW u, NEW g, NEW ph, NEW ag, NEW tl, NEW out, NEW hd,
           Fit(c, g, ph, ag, tl), GoesOn(c, d, t, u), TurnFits(u, g, ph, ag, tl),
           Kept(c, g, ph, ag, out, hd), t.wait \subseteq u.wait
    PROVE  Kept(d, g, ph, ag, out, hd)
<1>1. d.turns = {u} /\ c.turns = {t} /\ Queued(d) = Queued(c)
  BY GoingOn
<1>2. /\ d.batch = c.batch /\ d.notices = c.notices /\ u.gives = t.gives
      /\ t.wait \subseteq u.wait
  BY DEF GoesOn
<1>3. ASSUME NEW a, OnItsWay(a, c, hd) PROVE OnItsWay(a, d, hd)
  BY <1>1, <1>2, <1>3 DEF OnItsWay
<1> QED BY <1>3 DEF Kept

\* an exit past the drain leaves a slip
LEMMA Skipping ==
    ASSUME NEW c, NEW ag, NEW tl, NEW out, NEW hd, Good(c, ag, tl, out, hd)
    PROVE  LET d == Skips(c)
           IN  Good(d, ag, tl, out, hd) /\ \A tm : QueueTended(d, phase, tm)
<1> DEFINE d == [c EXCEPT !.slips = @ \cup {"queue"}]
<1>1. c \in Conf
  BY DEF Good, Fit
<1>2. /\ d \in Conf /\ d.queue = c.queue /\ d.notices = c.notices /\ d.taken = c.taken
      /\ d.turns = c.turns /\ d.batch = c.batch /\ d.task = c.task /\ d.slips = c.slips \cup {"queue"}
  BY <1>1 DEF Conf
<1> HIDE DEF d
<1>3. Queued(d) = Queued(c)
  BY <1>2 DEF Queued
<1>4. Good(d, ag, tl, out, hd)
  <2>1. Fit(d, gen, phase, ag, tl)
    BY <1>2, <1>3 DEF Good, Fit, Alone
  <2>2. TaskTended(d, phase)
    BY <1>2, <1>3 DEF Good, TaskTended
  <2>3. Kept(d, gen, phase, ag, out, hd)
    BY <1>2, <1>3 DEF Good, Kept, OnItsWay
  <2> QED BY <2>1, <2>2, <2>3 DEF Good
<1>5. CASE c.queue # <<>> /\ phase = "up"
  <2>1. Skips(c) = d
    BY <1>5 DEF Skips, d
  <2> QED BY <1>2, <1>4, <2>1 DEF QueueTended
<1>6. CASE ~(c.queue # <<>> /\ phase = "up")
  <2>1. Skips(c) = c
    BY <1>6 DEF Skips
  <2> QED BY <1>6, <2>1 DEF QueueTended
<1> QED BY <1>5, <1>6

-----------------------------------------------------------------------------
(* Steps                                                                   *)

\* A step to a configuration that fits.
LEMMA Step ==
    ASSUME NEW c, RestOK', Becomes(c),
           Fit(c, gen', phase', agent', told'), TaskTended(c, phase'),
           QueueTended(c, phase', timers'), Kept(c, gen', phase', agent', Out', held')
    PROVE  IInv'
<1>1. Now' = c
  BY DEF Now, Becomes, Fit, Conf
<1> QED BY <1>1 DEF IInv

LEMMA GoodStep ==
    ASSUME NEW c, RestOK', Becomes(c), gen' = gen, phase' = phase,
           Good(c, agent', told', Out', held'), QueueTended(c, phase, timers')
    PROVE  IInv'
BY Step DEF Good

LEMMA NowGood ==
    ASSUME IInv
    PROVE  /\ RestOK /\ Good(Now, agent, told, Out, held) /\ QueueTended(Now, phase, timers)
           /\ gen \in Nat /\ consumed \subseteq Out /\ Now \in Conf /\ Now.turns = turns
           /\ Fit(Now, gen, phase, agent, told) /\ TaskTended(Now, phase)
           /\ Kept(Now, gen, phase, agent, Out, held)
BY NowFields DEF IInv, Good, RestOK, Out, Fit

LEMMA ConnStands == UNCHANGED conn => Becomes(Now)
BY NowFields DEF conn, Becomes

\* A sub-agent that changes its state without ending is nothing to a configuration.
LEMMA AgentsFit ==
    ASSUME NEW c, NEW g, NEW ph, NEW ag, NEW ag2, NEW tl, Fit(c, g, ph, ag, tl),
           \A a \in Agent, h \in Nat : Ended(a, h, ag) => Ended(a, h, ag2), g \in Nat
    PROVE  Fit(c, g, ph, ag2, tl)
<1>1. ASSUME NEW it \in Item, ItemFits(it, ag) PROVE ItemFits(it, ag2)
  BY <1>1, ItemIs DEF ItemFits
<1>2. c.turns \subseteq Turn /\ c.notices \subseteq Item /\ Queued(c) \subseteq Item /\ c.batch \subseteq Agent
  BY ConfIs DEF Fit
<1>3. ASSUME NEW t \in c.turns PROVE TurnFits(t, g, ph, ag2, tl)
  <2>1. TurnFits(t, g, ph, ag, tl) /\ t.item \in Item /\ t.gives \subseteq Agent
    BY <1>2 DEF Fit, Turn
  <2>2. t.item.gen \in Nat
    BY <2>1, ItemIs
  <2>3. \A a \in t.gives : Ended(a, t.item.gen, ag2)
    BY <2>1, <2>2 DEF TurnFits
  <2> QED BY <1>1, <2>1, <2>3 DEF TurnFits
<1>4. \A it \in Queued(c) : QueueFits(it, g, ag2)
  BY <1>1, <1>2 DEF Fit, QueueFits
<1>5. \A it \in c.notices : ItemFits(it, ag2)
  BY <1>1, <1>2 DEF Fit
<1>6. \A a \in c.batch : Ended(a, g, ag2)
  BY <1>2 DEF Fit
<1> QED BY <1>3, <1>4, <1>5, <1>6 DEF Fit

LEMMA AgentsKeep ==
    ASSUME NEW c, NEW ag, NEW ag2, NEW tl, NEW out, NEW hd, Good(c, ag, tl, out, hd),
           \A a \in Agent, h \in Nat : Ended(a, h, ag) <=> Ended(a, h, ag2), gen \in Nat
    PROVE  Good(c, ag2, tl, out, hd)
<1>1. Fit(c, gen, phase, ag2, tl)
  BY AgentsFit DEF Good
<1>2. Kept(c, gen, phase, ag2, out, hd)
  BY DEF Good, Kept
<1> QED BY <1>1, <1>2 DEF Good

Agents == [Agent -> [st : {"none", "running", "asking", "closing", "done", "stopped"}, gen : Nat]]

LEMMA AgentsStop ==
    ASSUME RestOK, StopAgents
    PROVE  /\ agent' \in Agents
           /\ \A a \in Agent : agent'[a].gen = agent[a].gen
           /\ \A a \in Agent, h \in Nat : Ended(a, h, agent) <=> Ended(a, h, agent')
           /\ \A a \in held : agent'[a].st = "done"
<1> SUFFICES ASSUME NEW a \in Agent
             PROVE  /\ agent'[a] \in [st : {"none", "running", "asking", "closing", "done", "stopped"}, gen : Nat]
                    /\ agent'[a].gen = agent[a].gen
                    /\ agent'[a].st = "done" <=> agent[a].st = "done"
  BY DEF Agents, Ended, StopAgents, RestOK
<1>1. agent[a] \in [st : {"none", "running", "asking", "closing", "done", "stopped"}, gen : Nat]
  BY DEF RestOK
<1>2. agent'[a] = IF a \in ActiveAgents THEN [agent[a] EXCEPT !.st = "stopped"] ELSE agent[a]
  BY DEF StopAgents
<1>3. a \in ActiveAgents => agent[a].st # "done"
  BY DEF ActiveAgents
<1> QED BY <1>1, <1>2, <1>3

\* One sub-agent changes its state, and neither was done nor is.
LEMMA AgentSet ==
    ASSUME RestOK, NEW a \in Agent, NEW st \in {"running", "asking", "closing", "done", "stopped"},
           Set(a, st), agent[a].st # "done"
    PROVE  /\ agent' \in Agents
           /\ \A b \in Agent : agent'[b].gen = agent[b].gen
           /\ agent'[a].st = st
           /\ \A b \in held : agent'[b].st = "done"
           /\ \A b \in Agent, h \in Nat : Ended(b, h, agent) => Ended(b, h, agent')
           /\ \A b \in Agent, h \in Nat : Ended(b, h, agent') => Ended(b, h, agent) \/ (b = a /\ st = "done")
<1>1. agent \in Agents
  BY DEF RestOK, Agents
<1>2. agent' = [agent EXCEPT ![a].st = st]
  BY DEF Set
<1>3. agent' \in Agents
  BY <1>1, <1>2 DEF Agents
<1>4. \A b \in Agent : agent'[b].gen = agent[b].gen /\ (b # a => agent'[b] = agent[b])
  BY <1>1, <1>2 DEF Agents
<1>5. agent'[a].st = st
  BY <1>1, <1>2 DEF Agents
<1>6. \A b \in held : b \in Agent /\ agent[b].st = "done"
  BY DEF RestOK
<1> QED BY <1>3, <1>4, <1>5, <1>6 DEF Ended

\* RestOK where only some of it changes
LEMMA RestSame ==
    ASSUME RestOK, inbox' = inbox, gen' = gen, phase' = phase, timers' \in Nat,
           consumed' \subseteq Agent, notify' \subseteq Agent, told' \subseteq Agent, dropped' \subseteq Agent,
           held' \subseteq Agent, IsFiniteSet(held'), \A a \in held' : agent'[a].st = "done",
           agent' \in Agents, \A a \in Agent : agent'[a].gen = agent[a].gen
    PROVE  RestOK'
BY DEF RestOK, Agents

LEMMA RestStands ==
    ASSUME RestOK, UNCHANGED <<inbox, gen, phase, timers, results, history>>
    PROVE  /\ RestOK' /\ agent' = agent /\ told' = told /\ Out' = Out /\ held' = held
           /\ gen' = gen /\ phase' = phase /\ timers' = timers
BY DEF RestOK, results, history, Out

LEMMA QuietStep ==
    ASSUME IInv, NEW c, UNCHANGED <<inbox, gen, timers, phase, results, history>>, Becomes(c),
           Good(c, agent, told, Out, held), QueueTended(c, phase, timers)
    PROVE  IInv'
BY NowGood, RestStands, GoodStep

LEMMA ToldMore ==
    ASSUME NEW c, NEW ag, NEW tl, NEW out, NEW hd, NEW tl2, NEW out2, Good(c, ag, tl, out, hd),
           tl \subseteq tl2, out \subseteq out2
    PROVE  Good(c, ag, tl2, out2, hd)
<1>1. Fit(c, gen, phase, ag, tl2)
  BY DEF Good, Fit, TurnFits
<1>2. Kept(c, gen, phase, ag, out2, hd)
  BY DEF Good, Kept
<1> QED BY <1>1, <1>2 DEF Good

-----------------------------------------------------------------------------
(* Messages and commands of the user                                       *)

LEMMA OnMessageKeeps == ASSUME IInv, NEW u \in User, OnMessage(u) PROVE IInv'
<1>1. RestOK'
  <2>1. inbox' = [inbox EXCEPT ![u] = [at |-> "await", gen |-> gen]]
    BY DEF OnMessage
  <2>2. \A v \in User : inbox'[v] = IF v = u THEN [at |-> "await", gen |-> gen] ELSE inbox[v]
    BY <2>1, NowGood DEF RestOK
  <2> QED BY <2>1, <2>2, NowGood DEF RestOK, OnMessage, results, history
<1>2. Becomes(Now) /\ gen' = gen /\ phase' = phase /\ timers' = timers /\ agent' = agent
      /\ told' = told /\ Out' = Out /\ held' = held
  BY ConnStands DEF OnMessage, results, history, Out
<1> QED BY <1>1, <1>2, GoodStep, NowGood

LEMMA RefuseMessageKeeps == ASSUME IInv, NEW u \in User, RefuseMessage(u) PROVE IInv'
<1>1. RestOK'
  <2>1. inbox' = [inbox EXCEPT ![u].at = "inside"]
    BY DEF RefuseMessage
  <2>2. inbox \in [User -> [at : {"outside", "await", "inside"}, gen : Nat]]
    BY NowGood DEF RestOK
  <2>3. /\ inbox' \in [User -> [at : {"outside", "await", "inside"}, gen : Nat]]
        /\ \A v \in User : inbox'[v].gen = inbox[v].gen
    BY <2>1, <2>2
  <2> QED BY <2>3, NowGood DEF RestOK, RefuseMessage, results, history
<1>2. Becomes(Now) /\ gen' = gen /\ phase' = phase /\ timers' = timers /\ agent' = agent
      /\ told' = told /\ Out' = Out /\ held' = held
  BY ConnStands DEF RefuseMessage, results, history, Out
<1> QED BY <1>1, <1>2, GoodStep, NowGood

\* A new item gets the reservation at once.
LEMMA DirectStarted ==
    ASSUME NEW it \in Item, NEW ag, NEW tl, NEW out, NEW hd, Good(Now, ag, tl, out, hd),
           gen \in Nat, phase = "up", QueueFits(it, gen, ag), ~it.notice, ~Now.taken
    PROVE  LET d == Starts(Now, NewTurn(it, "direct"))
           IN  /\ Good(d, ag, tl, out, hd) /\ d.turns # {}
               /\ it.kind = "result" => OnItsWay(it.of, d, hd)
<1> DEFINE t == NewTurn(it, "direct")
           d == Starts(Now, t)
<1>1. Now \in Conf
  BY DEF Good, Fit
<1>2. /\ t \in Turn /\ TurnFits(t, gen, phase, ag, tl) /\ t.item = it /\ t.item.gen = gen
      /\ t.pc = "model" /\ it.kind = "user" => t.task
      /\ it.kind = "user" => t.task \/ t.pc = "hydrate"
      /\ it.kind = "result" => t.gives = {it.of}
  BY NewTurnIs
<1> HIDE DEF t
<1>3. /\ d \in Conf /\ d.queue = Now.queue /\ d.notices = Now.notices /\ d.taken
      /\ d.turns = Now.turns \cup {t} /\ d.batch = Now.batch /\ (d.task <=> Now.task \/ t.task)
      /\ d.slips = Now.slips
  <2>1. t.task \in BOOLEAN
    BY <1>2 DEF Turn
  <2> HIDE DEF d
  <2>2. d = [Now EXCEPT !.taken = TRUE, !.turns = @ \cup {t}, !.task = @ \/ t.task]
    BY DEF d, Starts
  <2> QED BY <1>1, <1>2, <2>1, <2>2 DEF Conf
<1> HIDE DEF d
<1>4. Begins(Now, d, t, gen)
  BY <1>2, <1>3 DEF Begins, Queued
<1>5. /\ Fit(d, gen, "up", ag, tl) /\ d.turns = {t}
      /\ TaskTended(Now, "up") => TaskTended(d, "up")
      /\ Kept(Now, gen, "up", ag, out, hd) => Kept(d, gen, "up", ag, out, hd)
  BY <1>2, <1>4, Starting DEF Good
<1> QED BY <1>2, <1>5 DEF Good, d, t, OnItsWay

\* A new item waits behind the turn that has the reservation.
LEMMA QueuedBehind ==
    ASSUME NEW it \in Item, NEW ag, NEW tl, NEW out, NEW hd, Good(Now, ag, tl, out, hd),
           QueueFits(it, gen, ag), ~CanReserve(reserved, turns)
    PROVE  LET d == [Now EXCEPT !.queue = Append(@, it)]
           IN  /\ Good(d, ag, tl, out, hd) /\ \A tm : QueueTended(d, phase, tm)
               /\ it \in Queued(d)
<1> DEFINE d == [Now EXCEPT !.queue = Append(@, it)]
<1>1. Joins(Now, d, it)
  BY Joining DEF Good, Fit
<1> HIDE DEF d
<1>2. Good(d, ag, tl, out, hd)
  BY <1>1, Joined DEF Good
<1>3. turns # {}
  BY NowFields DEF CanReserve, Good, Fit
<1> QED BY <1>1, <1>2, <1>3, NowFields DEF Joins, QueueTended, d

LEMMA ProcessMessageKeeps == ASSUME IInv, NEW u \in User, ProcessMessage(u) PROVE IInv'
<1> DEFINE it == NewItem("user", u, inbox[u].gen)
<1>1. RestOK'
  <2>1. inbox' = [inbox EXCEPT ![u].at = "inside"]
    BY DEF ProcessMessage
  <2>2. inbox \in [User -> [at : {"outside", "await", "inside"}, gen : Nat]]
    BY NowGood DEF RestOK
  <2>3. /\ inbox' \in [User -> [at : {"outside", "await", "inside"}, gen : Nat]]
        /\ \A v \in User : inbox'[v].gen = inbox[v].gen
    BY <2>1, <2>2
  <2> QED BY <2>3, NowGood DEF RestOK, ProcessMessage, results, history
<1>2. gen' = gen /\ phase' = phase /\ timers' = timers /\ agent' = agent
      /\ told' = told /\ Out' = Out /\ held' = held
  BY DEF ProcessMessage, results, history, Out
<1>3. /\ it \in Item /\ it.kind = "user" /\ it.gen = inbox[u].gen /\ it.tries = 0 /\ ~it.notice
  <2>1. inbox[u].gen \in Nat
    BY NowGood DEF RestOK
  <2> QED BY <2>1, NewUserItem
<1>4. ~Stale(it) => QueueFits(it, gen, agent)
  <2> HIDE DEF it
  <2> QED BY <1>3, Bounds DEF Stale, QueueFits, ItemFits
<1>5. PICK c : /\ Becomes(c)
               /\ c = CASE Stale(it) \/ phase # "up" -> Now
                        [] ~Stale(it) /\ phase = "up" /\ ~CanReserve(reserved, turns) ->
                              [Now EXCEPT !.queue = Append(@, it)]
                        [] OTHER -> Starts(Now, NewTurn(it, "direct"))
  BY DEF ProcessMessage
<1>6. Good(c, agent, told, Out, held) /\ QueueTended(c, phase, timers)
  <2> HIDE DEF it
  <2>1. CASE Stale(it) \/ phase # "up"
    <3>1. c = Now
      BY <1>5, <2>1
    <3> QED BY <3>1, NowGood
  <2>2. CASE ~Stale(it) /\ phase = "up" /\ ~CanReserve(reserved, turns)
    <3>1. c = [Now EXCEPT !.queue = Append(@, it)]
      BY <1>5, <2>2
    <3> QED BY <1>3, <1>4, <2>2, <3>1, NowGood, QueuedBehind
  <2>3. CASE ~Stale(it) /\ phase = "up" /\ CanReserve(reserved, turns)
    <3>1. c = Starts(Now, NewTurn(it, "direct"))
      BY <1>5, <2>3
    <3>2. ~Now.taken
      BY <2>3, NowFields DEF CanReserve
    <3> QED BY <1>3, <1>4, <2>3, <3>1, <3>2, NowGood, DirectStarted DEF QueueTended
  <2> QED BY <2>1, <2>2, <2>3
<1> QED BY <1>1, <1>2, <1>5, <1>6, GoodStep

\* requestInterrupt
LEMMA InterruptedIs ==
    ASSUME NEW c, NEW g, NEW ph, NEW ag, NEW tl, NEW out, NEW hd, Fit(c, g, ph, ag, tl)
    PROVE  LET d == Interrupted(c)
           IN  /\ Fit(d, g, ph, ag, tl) /\ d.queue = c.queue /\ d.batch = c.batch
               /\ d.notices = c.notices /\ d.slips = c.slips /\ (d.turns = {} <=> c.turns = {})
               /\ Kept(c, g, ph, ag, out, hd) => Kept(d, g, ph, ag, out, hd)
<1> DEFINE stop(t) == [t EXCEPT !.stopped = @ \/ t.pc = "model"]
           d == Interrupted(c)
<1> SUFFICES /\ Fit(d, g, ph, ag, tl) /\ d.queue = c.queue /\ d.batch = c.batch
             /\ d.notices = c.notices /\ d.slips = c.slips /\ (d.turns = {} <=> c.turns = {})
             /\ Kept(c, g, ph, ag, out, hd) => Kept(d, g, ph, ag, out, hd)
  OBVIOUS
<1>1. c \in Conf /\ c.turns \subseteq Turn
  BY ConfIs DEF Fit
<1>2. d = [c EXCEPT !.turns = {stop(t) : t \in c.turns}]
  BY DEF Interrupted
<1> HIDE DEF d
<1>3. CASE c.turns = {}
  <2>1. {stop(t) : t \in c.turns} = c.turns
    BY <1>3
  <2>2. d = c
    <3> HIDE DEF stop
    <3> QED BY <1>1, <1>2, <2>1 DEF Conf
  <2> QED BY <2>2
<1>4. CASE c.turns # {}
  <2>1. PICK t \in c.turns : c.turns = {t}
    BY <1>4 DEF Fit, Alone
  <2>2. PICK u : u = stop(t)
    OBVIOUS
  <2>3. /\ u \in Turn /\ u.item = t.item /\ u.via = t.via /\ u.gives = t.gives /\ u.pc = t.pc
        /\ u.task = t.task /\ u.wait = t.wait
    BY <1>1, <2>1, <2>2 DEF Turn
  <2>4. d = [c EXCEPT !.turns = {u}]
    BY <1>2, <2>1, <2>2
  <2>5. GoesOn(c, d, t, u)
    BY <1>1, <2>1, <2>3, <2>4 DEF GoesOn, Conf
  <2>6. TurnFits(u, g, ph, ag, tl)
    <3>1. TurnFits(t, g, ph, ag, tl)
      BY <2>1 DEF Fit
    <3> QED BY <2>3, <3>1 DEF TurnFits
  <2>7. Fit(d, g, ph, ag, tl) /\ d.turns = {u}
    BY <2>5, <2>6, GoingOn
  <2>8. Kept(c, g, ph, ag, out, hd) => Kept(d, g, ph, ag, out, hd)
    BY <2>3, <2>5, <2>6, GoingOnKeeps
  <2> QED BY <1>4, <2>5, <2>7, <2>8 DEF GoesOn
<1> QED BY <1>3, <1>4

\* the end of the task, whoever owns it
LEMMA CancelledIs ==
    ASSUME NEW c, NEW g, NEW ph, NEW ag, NEW tl, NEW out, NEW hd, Fit(c, g, ph, ag, tl)
    PROVE  LET d == Cancelled(c)
           IN  /\ Fit(d, g, ph, ag, tl) /\ ~d.task /\ TaskTended(d, ph)
               /\ d.queue = c.queue /\ d.batch = c.batch /\ d.notices = c.notices
               /\ d.slips = c.slips \ {"task"} /\ (d.turns = {} <=> c.turns = {})
               /\ \A t \in d.turns : ~t.task
               /\ Kept(c, g, ph, ag, out, hd) => Kept(d, g, ph, ag, out, hd)
<1> DEFINE was(t) == [t EXCEPT !.task = FALSE]
           Y == {was(t) : t \in c.turns}
           d == Cancelled(c)
<1> SUFFICES /\ Fit(d, g, ph, ag, tl) /\ ~d.task /\ TaskTended(d, ph)
             /\ d.queue = c.queue /\ d.batch = c.batch /\ d.notices = c.notices
             /\ d.slips = c.slips \ {"task"} /\ (d.turns = {} <=> c.turns = {})
             /\ \A t \in d.turns : ~t.task
             /\ Kept(c, g, ph, ag, out, hd) => Kept(d, g, ph, ag, out, hd)
  OBVIOUS
<1>1. c \in Conf
  BY DEF Fit
<1>2. ASSUME NEW t \in c.turns
      PROVE  /\ was(t) \in Turn /\ was(t).item = t.item /\ was(t).via = t.via
             /\ was(t).gives = t.gives /\ was(t).pc = t.pc /\ ~was(t).task
             /\ was(t).wait = t.wait
  <2>1. t \in Turn
    BY <1>1, ConfIs
  <2> QED BY <2>1 DEF Turn
<1>3. d = [c EXCEPT !.task = FALSE, !.turns = Y, !.slips = @ \ {"task"}]
  BY DEF Cancelled
<1>4. Y \subseteq Turn
  BY <1>2
<1> HIDE DEF d
<1>5. d.turns = Y /\ d \in Conf /\ d.queue = c.queue /\ d.batch = c.batch /\ d.notices = c.notices
      /\ d.taken = c.taken /\ ~d.task /\ d.slips = c.slips \ {"task"}
  <2> HIDE DEF Y
  <2> QED BY <1>1, <1>3, <1>4 DEF Conf
<1>6. d.turns = {was(t) : t \in c.turns}
  BY <1>5
<1>7. \A t \in c.turns : TurnFits(t, g, ph, ag, tl) => TurnFits(was(t), g, ph, ag, tl)
  <2> SUFFICES ASSUME NEW t \in c.turns, TurnFits(t, g, ph, ag, tl)
               PROVE  TurnFits(was(t), g, ph, ag, tl)
    OBVIOUS
  <2>1. PICK u : u = was(t)
    OBVIOUS
  <2>2. TurnFits(u, g, ph, ag, tl)
    <3> HIDE DEF was
    <3> QED BY <1>2, <2>1 DEF TurnFits
  <2> QED BY <2>1, <2>2
<1> HIDE DEF was, Y
<1>8. Queued(d) = Queued(c)
  BY <1>5 DEF Queued
<1>9. c.turns # {} => \E t \in c.turns : c.turns = {t} /\ d.turns = {was(t)}
  <2> SUFFICES ASSUME NEW t \in c.turns PROVE c.turns = {t} /\ d.turns = {was(t)}
    OBVIOUS
  <2>1. c.turns = {t}
    BY DEF Fit, Alone
  <2> QED BY <1>6, <2>1
<1>10. Fit(d, g, ph, ag, tl)
  <2>1. ASSUME NEW u \in d.turns
        PROVE  TurnFits(u, g, ph, ag, tl) /\ Alone(d, u, g, ph)
    <3>1. PICK t \in c.turns : c.turns = {t} /\ d.turns = {was(t)}
      BY <1>6, <1>9
    <3>2. u = was(t) /\ TurnFits(t, g, ph, ag, tl) /\ Alone(c, t, g, ph)
      BY <3>1 DEF Fit
    <3> QED BY <1>5, <1>7, <3>1, <3>2 DEF Alone
  <2>2. d.taken => d.turns # {}
    BY <1>6, <1>5, <1>6 DEF Fit
  <2> QED BY <1>5, <1>8, <2>1, <2>2 DEF Fit
<1>11. ASSUME Kept(c, g, ph, ag, out, hd) PROVE Kept(d, g, ph, ag, out, hd)
  <2> SUFFICES ASSUME ph = "up", NEW a \in Agent, Ended(a, g, ag), a \notin out, OnItsWay(a, c, hd)
               PROVE  OnItsWay(a, d, hd)
    BY <1>11 DEF Kept
  <2>1. CASE \E t \in c.turns : a \in t.gives \/ (a \in hd /\ a \in t.wait)
    <3>1. PICK t \in c.turns : a \in t.gives \/ (a \in hd /\ a \in t.wait)
      BY <2>1
    <3>2. was(t) \in d.turns
      BY <1>6
    <3> QED BY <1>2, <3>1, <3>2 DEF OnItsWay
  <2> QED BY <1>5, <1>8, <2>1 DEF OnItsWay
<1>12. \A t \in d.turns : ~t.task
  BY <1>2, <1>6
<1>13. (d.turns = {} <=> c.turns = {}) /\ TaskTended(d, ph)
  BY <1>6, <1>5, <1>6 DEF TaskTended
<1> QED BY <1>5, <1>10, <1>11, <1>12, <1>13

LEMMA CancelKeeps == ASSUME IInv, Cancel PROVE IInv'
<1> DEFINE b == Interrupted(Now)
           c == Cancelled(b)
<1>0. /\ Fit(b, gen, phase, agent, told) /\ b.queue = Now.queue /\ b.notices = Now.notices
      /\ b.slips = Now.slips /\ (b.turns = {} <=> Now.turns = {})
      /\ Kept(b, gen, phase, agent, Out, held)
  BY NowGood, InterruptedIs
<1> HIDE DEF b
<1>1. /\ Fit(c, gen, phase, agent, told) /\ TaskTended(c, phase)
      /\ c.queue = Now.queue /\ c.notices = Now.notices /\ c.slips = Now.slips \ {"task"}
      /\ (c.turns = {} <=> Now.turns = {}) /\ Kept(c, gen, phase, agent, Out, held)
  BY <1>0, CancelledIs
<1> HIDE DEF c
<1>2. /\ agent' \in Agents /\ \A a \in Agent : agent'[a].gen = agent[a].gen
      /\ \A a \in Agent, h \in Nat : Ended(a, h, agent) <=> Ended(a, h, agent')
      /\ \A a \in held : agent'[a].st = "done"
  BY NowGood, AgentsStop DEF Cancel
<1>3. Good(c, agent', told, Out, held)
  BY <1>1, <1>2, NowGood, AgentsKeep DEF Good
<1>4. QueueTended(c, phase, timers)
  BY <1>1, NowGood DEF QueueTended
<1>5. RestOK'
  BY <1>2, NowGood DEF RestOK, Cancel, Agents, history
<1>6. /\ gen' = gen /\ phase' = phase /\ timers' = timers /\ told' = told /\ Out' = Out
      /\ held' = held /\ Becomes(c)
  BY DEF Cancel, history, Out, b, c
<1> QED BY <1>3, <1>4, <1>5, <1>6, GoodStep

LEMMA ClearKeeps == ASSUME IInv, Clear PROVE IInv'
<1> DEFINE b == [Now EXCEPT !.queue = <<>>, !.batch = {}, !.slips = {}]
           i == Interrupted(b)
           c == Cancelled(i)
<1>1. /\ b \in Conf /\ b.queue = <<>> /\ b.batch = {} /\ b.slips = {} /\ b.turns = Now.turns
      /\ b.notices = Now.notices /\ b.taken = Now.taken /\ b.task = Now.task
  <2>1. Now \in Conf /\ <<>> \in Seq(Item)
    BY NowGood
  <2> QED BY <2>1 DEF Conf
<1> HIDE DEF b
<1>2. Queued(b) = {}
  BY <1>1, ConfIs
<1>3. Fit(b, gen, phase, agent, told)
  BY <1>1, <1>2, NowGood DEF Fit, Alone
<1>4. /\ Fit(c, gen, phase, agent, told) /\ ~c.task /\ TaskTended(c, phase)
      /\ c.queue = <<>> /\ c.batch = {} /\ \A t \in c.turns : ~t.task
  <2>1. Fit(i, gen, phase, agent, told) /\ i.queue = <<>> /\ i.batch = {}
    BY <1>1, <1>3, InterruptedIs
  <2> HIDE DEF i
  <2> QED BY <2>1, CancelledIs
<1> HIDE DEF c
<1>5. /\ agent' \in Agents /\ \A a \in Agent : agent'[a].gen = agent[a].gen
      /\ \A a \in Agent, h \in Nat : Ended(a, h, agent) <=> Ended(a, h, agent')
      /\ \A a \in held : agent'[a].st = "done"
  BY NowGood, AgentsStop DEF Clear
<1>6. Fit(c, gen, phase, agent', told)
  BY <1>4, <1>5, NowGood, AgentsFit
<1>7. c.turns \subseteq Turn /\ Queued(c) = {} /\ gen' = gen + 1
  BY <1>4, ConfIs DEF Fit, Clear
<1>8. Fit(c, gen', phase, agent', told)
  <2>1. ASSUME NEW t \in c.turns
        PROVE  TurnFits(t, gen', phase, agent', told) /\ Alone(c, t, gen', phase)
    <3>1. TurnFits(t, gen, phase, agent', told) /\ Alone(c, t, gen, phase) /\ ~t.task
      BY <1>4, <1>6 DEF Fit
    <3>2. t.item.gen \in Nat
      BY <1>7, ItemIs DEF Turn
    <3> QED BY <1>4, <1>7, <3>1, <3>2, NowGood DEF TurnFits, Alone
  <2> QED BY <1>4, <1>6, <1>7, <2>1 DEF Fit
<1>9. Kept(c, gen', phase, agent', Out, held)
  BY <1>5, <1>7, NowGood DEF Kept, Ended, RestOK
<1>10. QueueTended(c, phase, timers)
  BY <1>4 DEF QueueTended
<1>11. RestOK'
  <2>1. /\ \A u \in User : inbox[u].gen \in Nat
        /\ \A a \in Agent : agent[a].gen \in Nat
    BY NowGood DEF RestOK
  <2> QED BY <1>5, <1>7, <2>1, NowGood DEF RestOK, Clear, Agents, history
<1>12. /\ phase' = phase /\ timers' = timers /\ told' = told /\ Out' = Out
       /\ held' = held /\ Becomes(c)
  BY DEF Clear, history, Out, c, i, b
<1> QED BY <1>4, <1>8, <1>9, <1>10, <1>11, <1>12, Step

-----------------------------------------------------------------------------
(* The awaits of a turn                                                    *)

LEMMA TurnIs ==
    ASSUME IInv, NEW t \in turns
    PROVE  /\ t \in Now.turns /\ turns = {t} /\ t \in Turn /\ t.item \in Item /\ t.gives \subseteq Agent
           /\ TurnFits(t, gen, phase, agent, told) /\ Alone(Now, t, gen, phase)
<1>1. t \in Now.turns /\ Now.turns \subseteq Turn
  BY NowGood, ConfIs
<1>2. TurnFits(t, gen, phase, agent, told) /\ Alone(Now, t, gen, phase)
  BY <1>1, NowGood DEF Fit
<1> QED BY <1>1, <1>2, NowFields DEF Alone, Turn

\* the turns of an older generation, and all of them after destroy()
LEMMA StaleReleased ==
    ASSUME IInv, NEW t \in turns, t.wait = {}, Stale(t.item) \/ phase # "up"
    PROVE  Good(Released(Now, t), agent, told, Out, held)
BY NowGood, TurnIs, Releasing DEF Stale, CarriesNothing, OwesNothing

LEMMA HydrateReturnsKeeps == ASSUME IInv, NEW t \in turns, HydrateReturns(t) PROVE IInv'
<1> DEFINE u == [t EXCEPT !.pc = "model", !.task = TRUE]
           on == [Now EXCEPT !.turns = (@ \ {t}) \cup {u}, !.task = TRUE]
<1>1. t.pc = "hydrate" /\ t.wait = {} /\ t.item.kind = "user"
  BY TurnIs DEF HydrateReturns, TurnFits
<1>2. UNCHANGED <<inbox, gen, timers, phase, results, history>>
  BY DEF HydrateReturns
<1>3. CASE Stale(t.item) \/ phase # "up"
  <2>1. Becomes(Drained(Released(Now, t)))
    BY <1>3 DEF HydrateReturns
  <2>2. Good(Released(Now, t), agent, told, Out, held)
    BY <1>1, <1>3, StaleReleased
  <2>3. /\ Good(Drained(Released(Now, t)), agent, told, Out, held)
        /\ QueueTended(Drained(Released(Now, t)), phase, timers)
    BY <2>2, NowGood, Drains
  <2> QED BY <1>2, <2>1, <2>3, QuietStep
<1>4. CASE ~Stale(t.item) /\ phase = "up"
  <2>1. Becomes(on)
    BY <1>4 DEF HydrateReturns
  <2>2. /\ u \in Turn /\ u.item = t.item /\ u.via = t.via /\ u.gives = t.gives /\ u.wait = t.wait
        /\ u.pc = "model" /\ u.task
    BY TurnIs DEF Turn
  <2> HIDE DEF u
  <2>3. /\ on \in Conf /\ on.turns = (Now.turns \ {t}) \cup {u} /\ on.queue = Now.queue
        /\ on.notices = Now.notices /\ on.batch = Now.batch /\ on.taken = Now.taken
        /\ on.slips = Now.slips
    <3>1. Now \in Conf
      BY NowGood
    <3> QED BY <2>2, <3>1 DEF Conf
  <2> HIDE DEF on
  <2>4. on.turns = {u} /\ Now.turns = {t} /\ Queued(on) = Queued(Now)
    BY <2>3, TurnIs, NowGood DEF Queued
  <2>5. TurnFits(u, gen, phase, agent, told) /\ Alone(on, u, gen, phase)
    BY <1>1, <1>4, <2>2, <2>3, <2>4, TurnIs DEF TurnFits, Alone, Stale
  <2>6. Fit(on, gen, phase, agent, told)
    BY <2>3, <2>4, <2>5, NowGood DEF Fit
  <2>7. TaskTended(on, phase)
    BY <1>4, <2>2, <2>4 DEF TaskTended
  <2>8. Kept(on, gen, phase, agent, Out, held)
    BY <2>2, <2>3, <2>4, NowGood DEF Kept, OnItsWay
  <2>9. Good(on, agent, told, Out, held) /\ QueueTended(on, phase, timers)
    BY <2>4, <2>6, <2>7, <2>8 DEF Good, QueueTended
  <2> QED BY <1>2, <2>1, <2>9, QuietStep
<1> QED BY <1>3, <1>4

LEMMA HydrateFailsKeeps == ASSUME IInv, NEW t \in turns, HydrateFails(t) PROVE IInv'
<1> DEFINE r == Released(Now, t)
           orphan == running /\ t.item.tries > 0
           c == [r EXCEPT !.slips = IF orphan THEN @ \cup {"task"} ELSE @]
<1>1. t.pc = "hydrate" /\ t.wait = {} /\ t.item.kind = "user" /\ ~t.task /\ t.gives = {}
  BY TurnIs DEF HydrateFails, TurnFits
<1>2. UNCHANGED <<inbox, gen, timers, phase, results, history>> /\ Becomes(Drained(c))
  BY DEF HydrateFails
<1>3. /\ LeavesTurn(Now, r, t) /\ (r.task <=> Now.task) /\ r.slips = Now.slips
  BY TurnIs, NowGood, ReleasedIs
<1> HIDE DEF r
<1>4. LeavesTurn(Now, c, t) /\ (c.task <=> Now.task)
      /\ c.slips = IF orphan THEN Now.slips \cup {"task"} ELSE Now.slips
  <2>1. r \in Conf
    BY <1>3 DEF LeavesTurn
  <2> HIDE DEF orphan
  <2> QED BY <1>3, <2>1 DEF LeavesTurn, Conf
<1> HIDE DEF c
<1>5. /\ Fit(c, gen, phase, agent, told) /\ c.turns = {} /\ Now.turns = {t}
      /\ Queued(c) = Queued(Now)
  BY <1>4, NowGood, Leaving
<1>6. Kept(c, gen, phase, agent, Out, held)
  BY <1>1, <1>4, NowGood, LeavingKeeps DEF CarriesNothing
<1>7. TaskTended(c, phase)
  BY <1>1, <1>4, <1>5, NowGood, NowFields DEF TaskTended
<1>8. Good(c, agent, told, Out, held)
  BY <1>5, <1>6, <1>7 DEF Good
<1>9. Good(Drained(c), agent, told, Out, held) /\ QueueTended(Drained(c), phase, timers)
  BY <1>8, NowGood, Drains
<1> QED BY <1>2, <1>9, QuietStep

LEMMA ConsumeQueuedKeeps == ASSUME IInv, NEW t \in turns, ConsumeQueued(t) PROVE IInv'
<1> DEFINE merges(it) == it.kind = "user" /\ it.of \notin Hydrated /\ it.gen = t.item.gen
           prefix == {i \in DOMAIN queue : \A j \in 1..i : merges(queue[j])}
           n == Cardinality(prefix)
           rest == SubSeq(queue, n + 1, Len(queue))
           c == [Now EXCEPT !.queue = rest]
<1>1. t.pc = "model" /\ t.item.kind = "user" /\ queue' = rest
  BY DEF ConsumeQueued
<1>2. queue \in Seq(Item) /\ Len(queue) \in Nat /\ DOMAIN queue = 1..Len(queue)
  BY NowGood, NowFields, ConfIs
<1>3. n \in 0..Len(queue) /\ \A i \in 1..n : merges(queue[i])
  <2> DEFINE S == {i \in 1..(Len(queue) + 1) : i \notin prefix}
  <2>1. Len(queue) + 1 \in S
    BY <1>2
  <2>2. PICK m \in S : \A k \in S : m <= k
    <3>1. S \in SUBSET Nat /\ S # {}
      BY <2>1
    <3> HIDE DEF S
    <3> QED BY <3>1, Least
  <2>3. m \in 1..(Len(queue) + 1) /\ m \notin prefix
    BY <2>2
  <2>4. ASSUME NEW i \in 1..(m - 1) PROVE i \in prefix
    <3>1. i \in 1..(Len(queue) + 1) /\ ~(m <= i)
      BY <1>2, <2>3
    <3> QED BY <2>2, <3>1
  <2>5. ASSUME NEW i \in prefix PROVE i \in 1..(m - 1)
    <3>1. i \in 1..Len(queue) /\ \A j \in 1..i : merges(queue[j])
      BY <1>2
    <3>2. m <= i => m \in DOMAIN queue /\ \A j \in 1..m : merges(queue[j])
      BY <1>2, <2>3, <3>1
    <3>3. ~(m <= i)
      BY <2>3, <3>2
    <3> QED BY <1>2, <2>3, <3>1, <3>3
  <2>6. prefix = 1..(m - 1)
    <3> HIDE DEF prefix
    <3> QED BY <2>4, <2>5
  <2>7. \A i \in 1..(m - 1) : merges(queue[i])
    BY <1>2, <2>3, <2>4
  <2> HIDE DEF prefix, merges
  <2>8. Cardinality(1..(m - 1)) = m - 1
    <3>1. 1 \in Int /\ m - 1 \in Int /\ (1 > m - 1 => m - 1 = 0)
      BY <1>2, <2>3
    <3> QED BY <3>1, <2>3, <1>2, FS_Interval
  <2> QED BY <1>2, <2>3, <2>6, <2>7, <2>8
<1> HIDE DEF n
<1>4. rest \in Seq(Item) /\ {rest[i] : i \in DOMAIN rest} = {queue[i] : i \in (n + 1)..Len(queue)}
  <2>1. n + 1 \in 1..(Len(queue) + 1)
    BY <1>2, <1>3
  <2> QED BY <1>2, <2>1, Suffix
<1> HIDE DEF rest
<1>5. /\ c \in Conf /\ c.queue = rest /\ c.turns = Now.turns /\ c.notices = Now.notices
      /\ c.batch = Now.batch /\ c.taken = Now.taken /\ c.task = Now.task /\ c.slips = Now.slips
  <2>1. Now \in Conf
    BY NowGood
  <2> QED BY <1>4, <2>1 DEF Conf
<1> HIDE DEF c
<1>6. Queued(c) \subseteq Queued(Now) /\ \A it \in Queued(Now) : it \in Queued(c) \/ it.kind = "user"
  <2>1. /\ Queued(c) = {queue[i] : i \in (n + 1)..Len(queue)}
        /\ Queued(Now) = {queue[i] : i \in 1..Len(queue)}
    BY <1>2, <1>4, <1>5, NowFields DEF Queued
  <2>2. /\ \A i \in (n + 1)..Len(queue) : i \in 1..Len(queue)
        /\ \A i \in 1..Len(queue) : i \in 1..n \/ i \in (n + 1)..Len(queue)
    BY <1>2, <1>3
  <2> QED BY <1>3, <2>1, <2>2
<1>7. Becomes(c)
  BY <1>1, <1>5, NowFields DEF Becomes, ConsumeQueued
<1>8. Fit(c, gen, phase, agent, told)
  BY <1>5, <1>6, NowGood DEF Fit, Alone
<1>9. TaskTended(c, phase)
  <2>1. phase = "up" /\ running => t.task /\ t \in c.turns
    BY <1>1, <1>5, TurnIs, NowFields DEF Alone
  <2> QED BY <1>5, <2>1, NowGood, NowFields DEF TaskTended
<1>10. Kept(c, gen, phase, agent, Out, held)
  BY <1>5, <1>6, NowGood DEF Kept, OnItsWay
<1>11. QueueTended(c, phase, timers)
  BY <1>5, NowFields DEF QueueTended
<1>12. UNCHANGED <<inbox, gen, timers, phase, results, history>>
  BY DEF ConsumeQueued
<1> QED BY <1>7, <1>8, <1>9, <1>10, <1>11, <1>12, QuietStep DEF Good

LEMMA AtIs ==
    ASSUME IInv, NEW t \in turns, t.pc # "hydrate", t.wait = {},
           NEW pc \in {"reply", "fallback"}, NEW tl, NEW out,
           told \subseteq tl, Out \subseteq out,
           pc = "reply" => t.gives \subseteq tl, pc = "fallback" => t.via = "flush"
    PROVE  /\ Good(At(Now, t, pc), agent, tl, out, held)
           /\ \A tm : QueueTended(At(Now, t, pc), phase, tm)
<1> DEFINE u == [t EXCEPT !.pc = pc]
           d == At(Now, t, pc)
<1>1. /\ u \in Turn /\ u.item = t.item /\ u.via = t.via /\ u.gives = t.gives /\ u.wait = t.wait
      /\ u.pc = pc /\ u.task = t.task
  BY TurnIs DEF Turn
<1>2. d = [Now EXCEPT !.turns = (@ \ {t}) \cup {u}]
  BY DEF At
<1> HIDE DEF u, d
<1>3. GoesOn(Now, d, t, u)
  <2>1. Now \in Conf /\ t \in Now.turns
    BY NowGood, TurnIs
  <2> QED BY <1>1, <1>2, <2>1 DEF GoesOn, Conf
<1>4. Good(Now, agent, tl, out, held)
  BY NowGood, ToldMore
<1>5. TurnFits(u, gen, phase, agent, tl)
  BY <1>1, TurnIs DEF TurnFits
<1>6. Good(d, agent, tl, out, held) /\ d.turns # {}
  <2>1. Fit(Now, gen, phase, agent, tl) /\ t.wait \subseteq u.wait
    BY <1>1, <1>4 DEF Good
  <2>2. Fit(d, gen, phase, agent, tl) /\ d.turns # {} /\ TaskTended(d, phase)
    <3>1. Fit(d, gen, phase, agent, tl)
      BY <1>3, <1>5, <2>1, GoingOn
    <3>2. d.turns # {}
      BY <1>3 DEF GoesOn
    <3>3. TaskTended(Now, phase) => TaskTended(d, phase)
      BY <1>3, <1>5, <2>1, GoingOn
    <3> QED BY <1>4, <3>1, <3>2, <3>3 DEF Good
  <2>3. Kept(d, gen, phase, agent, out, held)
    BY <1>3, <1>4, <1>5, <2>1, GoingOnKeeps DEF Good
  <2> QED BY <2>2, <2>3 DEF Good
<1> QED BY <1>6 DEF QueueTended, d

\* markResultObservationHandledForParent, and no result that was told is forgotten
LEMMA HandledStep ==
    ASSUME IInv, NEW c, NEW given \in SUBSET Agent, NEW marked, Handled(given, marked),
           UNCHANGED <<inbox, gen, timers, phase>>, Becomes(c),
           Good(c, agent, told \cup given, Out \cup given, held), QueueTended(c, phase, timers)
    PROVE  IInv'
<1>1. /\ told' = told \cup given /\ Out' = Out \cup given /\ agent' = agent /\ held' = held
      /\ notify' = notify \ marked /\ consumed' = consumed /\ dropped' = dropped
  BY DEF Handled, Out
<1>2. RestOK'
  BY <1>1, NowGood DEF RestOK
<1> QED BY <1>1, <1>2, GoodStep

LEMMA ModelReturnsKeeps == ASSUME IInv, NEW t \in turns, ModelReturns(t) PROVE IInv'
<1>1. t.pc = "model" /\ t.wait = {} /\ UNCHANGED <<inbox, gen, timers, phase>>
  BY DEF ModelReturns
<1>2. CASE Stale(t.item) \/ phase # "up"
  <2>1. Becomes(Drained(Released(Now, t))) /\ UNCHANGED <<results, history>>
    BY <1>2 DEF ModelReturns
  <2>2. Good(Released(Now, t), agent, told, Out, held)
    BY <1>1, <1>2, StaleReleased
  <2>3. /\ Good(Drained(Released(Now, t)), agent, told, Out, held)
        /\ QueueTended(Drained(Released(Now, t)), phase, timers)
    BY <2>2, NowGood, Drains
  <2> QED BY <1>1, <2>1, <2>3, QuietStep
<1>3. CASE ~Stale(t.item) /\ phase = "up"
  <2>1. PICK marked : Handled(t.gives, marked)
    BY <1>3 DEF ModelReturns
  <2>2. Becomes(At(Now, t, "reply"))
    BY <1>3 DEF ModelReturns
  <2>3. /\ Good(At(Now, t, "reply"), agent, told \cup t.gives, Out \cup t.gives, held)
        /\ QueueTended(At(Now, t, "reply"), phase, timers)
    BY <1>1, AtIs
  <2>4. t.gives \in SUBSET Agent
    BY TurnIs
  <2> QED BY <1>1, <2>1, <2>2, <2>3, <2>4, HandledStep
<1> QED BY <1>2, <1>3

LEMMA ReplyReturnsKeeps == ASSUME IInv, NEW t \in turns, ReplyReturns(t) PROVE IInv'
<1> DEFINE r == Finished(Released(Now, t), t)
<1>1. t.pc = "reply" /\ t.wait = {} /\ t.gives \subseteq told
  BY TurnIs DEF ReplyReturns, TurnFits
<1>2. PICK marked : Handled({}, marked)
  BY DEF ReplyReturns
<1>3. UNCHANGED <<inbox, gen, timers, phase>> /\ Becomes(Drained(r))
  BY DEF ReplyReturns
<1>4. Good(r, agent, told, Out, held)
  BY <1>1, TurnIs, NowGood, Finishing DEF CarriesNothing, Out
<1> HIDE DEF r
<1>5. Good(Drained(r), agent, told, Out, held) /\ QueueTended(Drained(r), phase, timers)
  BY <1>4, NowGood, Drains
<1>6. told \cup {} = told /\ Out \cup {} = Out
  OBVIOUS
<1> QED BY <1>2, <1>3, <1>5, <1>6, HandledStep

LEMMA FlushThrowsIs ==
    ASSUME IInv, NEW t \in turns, t.via = "flush", t.wait = {}, t.pc # "hydrate"
    PROVE  /\ Good(FlushThrows(t), agent, told, Out, held)
           /\ \A tm : QueueTended(FlushThrows(t), phase, tm)
<1>1. CASE Stale(t.item) \/ phase # "up"
  <2>1. FlushThrows(t) = Skips(Released(Now, t))
    BY <1>1 DEF FlushThrows
  <2>2. Good(Released(Now, t), agent, told, Out, held)
    BY <1>1, StaleReleased
  <2> QED BY <2>1, <2>2, Skipping
<1>2. CASE ~(Stale(t.item) \/ phase # "up")
  <2>1. FlushThrows(t) = At(Now, t, "fallback")
    BY <1>2 DEF FlushThrows
  <2> QED BY <2>1, AtIs
<1> QED BY <1>1, <1>2

LEMMA DirectUserThrowsIs ==
    ASSUME IInv, NEW t \in turns, t.item.kind = "user", t.wait = {}, t.pc = "model"
    PROVE  /\ Good(DirectUserThrows(t), agent, told, Out, held)
           /\ \A tm : QueueTended(DirectUserThrows(t), phase, tm)
<1>1. CASE Stale(t.item)
  <2>1. DirectUserThrows(t) = Drained(Released(Now, t))
    BY <1>1 DEF DirectUserThrows
  <2>2. Good(Released(Now, t), agent, told, Out, held)
    BY <1>1, StaleReleased
  <2> QED BY <2>1, <2>2, NowGood, Drains
<1>2. CASE ~Stale(t.item)
  <2>1. DirectUserThrows(t) = Skips(Finished(Released(Now, t), t))
    BY <1>2 DEF DirectUserThrows
  <2>2. t.gives = {}
    BY TurnIs DEF TurnFits
  <2>3. Good(Finished(Released(Now, t), t), agent, told, Out, held)
    BY <2>2, TurnIs, NowGood, Finishing DEF CarriesNothing
  <2> QED BY <2>1, <2>3, Skipping
<1> QED BY <1>1, <1>2

\* The item goes back to the queue, and the turn leaves.
LEMMA Requeued ==
    ASSUME IInv, NEW t \in turns, t.wait = {}, t.pc = "model", NEW c, NEW again,
           Joins(Now, c, again), QueueFits(again, gen, agent), t.item.kind # "batch",
           again.kind = t.item.kind, again.of = t.item.of, again.tries > 0
    PROVE  Good(Released(c, t), agent, told, Out, held)
<1>1. Good(c, agent, told, Out, held)
  BY NowGood, Joined DEF Good
<1>2. again \in Queued(c) /\ t \in c.turns
  BY TurnIs DEF Joins
<1>3. t.item.kind \in {"user", "ask", "result"}
  BY TurnIs, ItemIs
<1>4. CarriesNothing(c, t, gen, phase, Out)
  BY <1>2, <1>3, TurnIs DEF CarriesNothing, TurnFits
<1>5. OwesNothing(c, t, gen, phase)
  BY <1>2, TurnIs DEF OwesNothing, TurnFits
<1> QED BY <1>1, <1>2, <1>4, <1>5, Releasing

LEMMA DirectAgentThrowsIs ==
    ASSUME IInv, NEW t \in turns, t.via = "direct", t.item.kind # "user", t.wait = {}, t.pc = "model"
    PROVE  /\ Good(DirectAgentThrows(t), agent, told, Out, held)
           /\ \A tm : QueueTended(DirectAgentThrows(t), phase, tm)
<1> DEFINE again == [t.item EXCEPT !.tries = 1]
           c == [Now EXCEPT !.queue = Append(@, again)]
<1>1. CASE Stale(t.item) \/ phase # "up"
  <2>1. DirectAgentThrows(t) = Drained(Released(Now, t))
    BY <1>1 DEF DirectAgentThrows
  <2>2. Good(Released(Now, t), agent, told, Out, held)
    BY <1>1, StaleReleased
  <2> QED BY <2>1, <2>2, NowGood, Drains
<1>2. CASE ~(Stale(t.item) \/ phase # "up")
  <2>1. DirectAgentThrows(t) = Drained(Released(c, t))
    BY <1>2 DEF DirectAgentThrows
  <2>2. /\ again \in Item /\ again.kind = t.item.kind /\ again.of = t.item.of
        /\ again.gen = t.item.gen /\ again.tries = 1 /\ again.notice = t.item.notice
    BY TurnIs, TriedOnce
  <2> HIDE DEF again
  <2>3. Joins(Now, c, again)
    BY <2>2, NowGood, Joining
  <2>4. QueueFits(again, gen, agent) /\ t.item.kind # "batch" /\ again.tries > 0
    BY <1>2, <2>2, TurnIs, Bounds DEF QueueFits, ItemFits, TurnFits, Stale
  <2> HIDE DEF c
  <2>5. Good(Released(c, t), agent, told, Out, held)
    BY <2>2, <2>3, <2>4, Requeued
  <2> QED BY <2>1, <2>5, NowGood, Drains
<1> QED BY <1>1, <1>2

LEMMA DrainedThrowsIs ==
    ASSUME IInv, NEW t \in turns, t.via = "drain", t.wait = {}, t.pc = "model"
    PROVE  /\ Good(DrainedThrows(t), agent, told, Out, held)
           /\ ~Retries(t) => \A tm : QueueTended(DrainedThrows(t), phase, tm)
<1> DEFINE tries == t.item.tries + 1
           notice == t.item.tries >= MaxTries
           again == [t.item EXCEPT !.tries = @ + 1, !.notice = t.item.tries >= MaxTries]
           c == Unshift(Now, again)
<1>1. CASE Retries(t)
  <2>1. DrainedThrows(t) = Unshift(Released(Now, t), again)
    BY <1>1 DEF DrainedThrows
  <2>2. Unshift(Released(Now, t), again) = Released(c, t)
    <3>1. Now \in Conf
      BY NowGood
    <3> HIDE DEF again
    <3> QED BY <3>1 DEF Unshift, Released, Conf
  <2>3. ~t.item.notice /\ t.item.tries \in Nat /\ t.item.tries <= MaxTries /\ MaxTries \in Nat
    BY TurnIs, ItemIs, Bounds DEF TurnFits, ItemFits
  <2>4. tries \in 0..(MaxTries + 1) /\ notice \in BOOLEAN /\ tries > 0
    BY <2>3
  <2>5. again = [t.item EXCEPT !.tries = tries, !.notice = notice]
    BY TurnIs DEF Item, ItemOf
  <2>6. /\ again \in Item /\ again.kind = t.item.kind /\ again.of = t.item.of
        /\ again.gen = t.item.gen /\ again.tries = tries /\ again.notice = notice
    <3>1. t.item \in Item
      BY TurnIs
    <3> HIDE DEF tries, notice, again
    <3> QED BY <2>4, <2>5, <3>1 DEF Item, ItemOf
  <2>6a. again.notice <=> notice
    <3> HIDE DEF tries, notice, again
    <3> QED BY <2>6
  <2> HIDE DEF again
  <2>7. Joins(Now, c, again)
    BY <2>6, NowGood, Joining
  <2>8. QueueFits(again, gen, agent) /\ t.item.kind # "batch" /\ again.tries > 0
    <3>1. t.item.kind = "user" => t.item.tries < MaxTries
      BY <1>1 DEF Retries
    <3>2. t.item.gen = gen /\ t.item.kind # "batch"
      BY <1>1, TurnIs DEF Retries, TurnFits, Stale
    <3>3. /\ ~again.notice => again.tries <= MaxTries
          /\ t.item.tries < MaxTries => ~again.notice
          /\ again.tries > 0
      BY <2>3, <2>4, <2>6, <2>6a
    <3>4. ItemFits(t.item, agent)
      BY TurnIs DEF TurnFits
    <3> HIDE DEF tries, notice
    <3> QED BY <2>6, <3>1, <3>2, <3>3, <3>4 DEF QueueFits, ItemFits
  <2> HIDE DEF c
  <2>9. Good(Released(c, t), agent, told, Out, held)
    BY <2>6, <2>7, <2>8, Requeued
  <2> QED BY <1>1, <2>1, <2>2, <2>9 DEF c
<1>2. CASE ~Retries(t) /\ (Stale(t.item) \/ phase # "up")
  <2>1. DrainedThrows(t) = Drained(Released(Now, t))
    BY <1>2 DEF DrainedThrows
  <2>2. Good(Released(Now, t), agent, told, Out, held)
    BY <1>2, StaleReleased
  <2> QED BY <2>1, <2>2, NowGood, Drains
<1>3. CASE ~Retries(t) /\ ~(Stale(t.item) \/ phase # "up")
  <2>1. DrainedThrows(t) = Drained(Finished(Released(Now, t), t))
    BY <1>3 DEF DrainedThrows
  <2>2. t.gives = {}
    BY <1>3, TurnIs DEF TurnFits, Retries
  <2>3. Good(Finished(Released(Now, t), t), agent, told, Out, held)
    BY <2>2, TurnIs, NowGood, Finishing DEF CarriesNothing
  <2> QED BY <2>1, <2>3, NowGood, Drains
<1> QED BY <1>1, <1>2, <1>3

\* a step that may set a timer
LEMMA TimerStep ==
    ASSUME IInv, NEW c, UNCHANGED <<inbox, gen, phase, results, history>>, Becomes(c),
           timers' \in Nat, Good(c, agent, told, Out, held), QueueTended(c, phase, timers')
    PROVE  IInv'
<1>1. /\ agent' = agent /\ told' = told /\ Out' = Out /\ held' = held /\ consumed' = consumed
      /\ notify' = notify /\ dropped' = dropped
  BY DEF results, history, Out
<1>2. RestOK'
  BY <1>1, NowGood DEF RestOK
<1> QED BY <1>1, <1>2, GoodStep

LEMMA ModelThrowsKeeps == ASSUME IInv, NEW t \in turns, ModelThrows(t) PROVE IInv'
<1>1. /\ t.pc = "model" /\ t.wait = {} /\ UNCHANGED <<inbox, gen, phase, results, history>>
      /\ timers' = IF t.via = "drain" /\ Retries(t) THEN timers + 1 ELSE timers
  BY DEF ModelThrows
<1>2. PICK c : /\ Becomes(c)
               /\ c = CASE t.via = "flush" -> FlushThrows(t)
                        [] t.via = "drain" -> DrainedThrows(t)
                        [] t.via = "direct" /\ t.item.kind = "user" -> DirectUserThrows(t)
                        [] OTHER -> DirectAgentThrows(t)
  BY DEF ModelThrows
<1>3. timers \in Nat /\ timers' \in Nat
  BY <1>1, NowGood DEF RestOK
<1>4. t.via \in {"direct", "drain", "flush"}
  BY TurnIs DEF Turn
<1>5. Good(c, agent, told, Out, held) /\ QueueTended(c, phase, timers')
  <2>1. CASE t.via = "flush"
    <3>1. c = FlushThrows(t)
      BY <1>2, <2>1
    <3> QED BY <1>1, <2>1, <3>1, FlushThrowsIs
  <2>2. CASE t.via = "drain"
    <3>1. c = DrainedThrows(t)
      BY <1>2, <2>2
    <3>2. Retries(t) => timers' > 0
      BY <1>1, <1>3, <2>2
    <3> QED BY <1>1, <2>2, <3>1, <3>2, DrainedThrowsIs DEF QueueTended
  <2>3. CASE t.via = "direct" /\ t.item.kind = "user"
    <3>1. c = DirectUserThrows(t)
      BY <1>2, <2>3
    <3> QED BY <1>1, <2>3, <3>1, DirectUserThrowsIs
  <2>4. CASE t.via = "direct" /\ t.item.kind # "user"
    <3>1. c = DirectAgentThrows(t)
      BY <1>2, <2>4
    <3> QED BY <1>1, <2>4, <3>1, DirectAgentThrowsIs
  <2> QED BY <1>4, <2>1, <2>2, <2>3, <2>4
<1> QED BY <1>1, <1>2, <1>3, <1>5, TimerStep

LEMMA BatchReplyFailsKeeps == ASSUME IInv, NEW t \in turns, BatchReplyFails(t) PROVE IInv'
<1>1. /\ t.pc = "reply" /\ t.via = "flush" /\ t.wait = {}
      /\ UNCHANGED <<inbox, gen, timers, phase, results, history>> /\ Becomes(FlushThrows(t))
  BY TurnIs DEF BatchReplyFails, TurnFits
<1>2. Good(FlushThrows(t), agent, told, Out, held) /\ QueueTended(FlushThrows(t), phase, timers)
  BY <1>1, FlushThrowsIs
<1> QED BY <1>1, <1>2, QuietStep

\* Results of sub-agents of this generation are gathered.
LEMMA Gathered ==
    ASSUME NEW c, NEW S \in SUBSET Agent, NEW ag, NEW tl, NEW out, NEW hd,
           Good(c, ag, tl, out, hd), \A a \in S : Ended(a, gen, ag)
    PROVE  LET d == [c EXCEPT !.batch = @ \cup S]
           IN  Good(d, ag, tl, out, hd) /\ d.batch = c.batch \cup S /\ d.turns = c.turns
<1> DEFINE d == [c EXCEPT !.batch = @ \cup S]
<1>1. c \in Conf
  BY DEF Good, Fit
<1>2. /\ d \in Conf /\ d.queue = c.queue /\ d.notices = c.notices /\ d.taken = c.taken
      /\ d.turns = c.turns /\ d.batch = c.batch \cup S /\ d.task = c.task /\ d.slips = c.slips
  BY <1>1 DEF Conf
<1> HIDE DEF d
<1>3. Queued(d) = Queued(c)
  BY <1>2 DEF Queued
<1>4. Fit(d, gen, phase, ag, tl)
  BY <1>2, <1>3 DEF Good, Fit, Alone
<1>5. TaskTended(d, phase)
  BY <1>2, <1>3 DEF Good, TaskTended
<1>6. Kept(d, gen, phase, ag, out, hd)
  BY <1>2, <1>3 DEF Good, Kept, OnItsWay
<1> QED BY <1>2, <1>4, <1>5, <1>6 DEF Good, d

LEMMA FallbackReturnsKeeps == ASSUME IInv, NEW t \in turns, FallbackReturns(t) PROVE IInv'
<1>1. /\ t.pc = "fallback" /\ t.wait = {} /\ ~t.task /\ t.item.kind = "batch"
      /\ UNCHANGED <<inbox, gen, timers, phase>> /\ t.gives \in SUBSET Agent
  BY TurnIs DEF FallbackReturns, TurnFits
<1>2. CASE Becomes(Drained(Released(Now, t))) /\ Handled(t.gives, t.gives)
  <2>1. Good(Now, agent, told \cup t.gives, Out \cup t.gives, held)
    BY NowGood, ToldMore
  <2>2. Good(Released(Now, t), agent, told \cup t.gives, Out \cup t.gives, held)
    BY <1>1, <2>1, TurnIs, Releasing DEF CarriesNothing, OwesNothing
  <2>3. /\ Good(Drained(Released(Now, t)), agent, told \cup t.gives, Out \cup t.gives, held)
        /\ QueueTended(Drained(Released(Now, t)), phase, timers)
    <3>1. consumed \subseteq Out \cup t.gives
      BY DEF Out
    <3> QED BY <2>2, <3>1, NowGood, Drains
  <2> QED BY <1>1, <1>2, <2>3, HandledStep
<1>3. CASE /\ Becomes(Drained([Released(Now, t) EXCEPT !.batch = IF Stale(t.item) THEN @ ELSE @ \cup t.gives]))
           /\ UNCHANGED <<results, history>>
  <2> DEFINE S == IF Stale(t.item) THEN {} ELSE t.gives
             c == [Now EXCEPT !.batch = @ \cup S]
             r == Released(c, t)
  <2>1. S \in SUBSET Agent /\ \A a \in S : Ended(a, gen, agent)
    BY <1>1, TurnIs DEF TurnFits, Stale
  <2>2. Good(c, agent, told, Out, held) /\ c.batch = Now.batch \cup S /\ c.turns = Now.turns
    <3> HIDE DEF S
    <3> QED BY <2>1, NowGood, Gathered
  <2>3. r = [Released(Now, t) EXCEPT !.batch = IF Stale(t.item) THEN @ ELSE @ \cup t.gives]
    <3>1. Now \in Conf
      BY NowGood
    <3> QED BY <3>1 DEF Released, Conf
  <2>4. CarriesNothing(c, t, gen, phase, Out)
    <3> HIDE DEF c
    <3> QED BY <2>2 DEF CarriesNothing, Stale
  <2> HIDE DEF c, S
  <2>5. Good(r, agent, told, Out, held)
    BY <1>1, <2>2, <2>4, TurnIs, Releasing DEF OwesNothing
  <2>6. Good(Drained(r), agent, told, Out, held) /\ QueueTended(Drained(r), phase, timers)
    BY <2>5, NowGood, Drains
  <2> QED BY <1>1, <1>3, <2>3, <2>6, QuietStep
<1> QED BY <1>2, <1>3 DEF FallbackReturns

-----------------------------------------------------------------------------
(* Timers and notices                                                      *)

LEMMA DrainTimerKeeps == ASSUME IInv, DrainTimer PROVE IInv'
<1>1. /\ UNCHANGED <<inbox, gen, phase, results, history>> /\ Becomes(Drained(Now))
      /\ timers > 0 /\ timers' = timers - 1
  BY DEF DrainTimer
<1>2. timers' \in Nat
  BY <1>1, NowGood DEF RestOK
<1>3. Good(Drained(Now), agent, told, Out, held) /\ QueueTended(Drained(Now), phase, timers')
  BY NowGood, Drains
<1> QED BY <1>1, <1>2, <1>3, TimerStep

\* A notice is taken off, and what it was about is told, dropped, or queued again.
LEMMA NoticeOff ==
    ASSUME IInv, NEW it \in notices
    PROVE  LET c == [Now EXCEPT !.notices = @ \ {it}]
           IN  /\ it \in Item /\ ItemFits(it, agent) /\ it.notice /\ it.kind # "batch"
               /\ c \in Conf /\ Fit(c, gen, phase, agent, told) /\ TaskTended(c, phase)
               /\ \A out : Out \subseteq out /\ (it.kind = "result" => it.of \in out)
                           => Kept(c, gen, phase, agent, out, held)
<1> DEFINE c == [Now EXCEPT !.notices = @ \ {it}]
<1>1. Now \in Conf /\ it \in Now.notices
  BY NowGood, NowFields
<1>2. it \in Item /\ ItemFits(it, agent) /\ it.notice /\ it.kind # "batch"
  BY <1>1, NowGood, ConfIs DEF Fit
<1>3. /\ c \in Conf /\ c.queue = Now.queue /\ c.notices = Now.notices \ {it} /\ c.taken = Now.taken
      /\ c.turns = Now.turns /\ c.batch = Now.batch /\ c.task = Now.task /\ c.slips = Now.slips
  BY <1>1 DEF Conf
<1> HIDE DEF c
<1>4. Queued(c) = Queued(Now)
  BY <1>3 DEF Queued
<1>5. Fit(c, gen, phase, agent, told)
  BY <1>3, <1>4, NowGood DEF Fit, Alone
<1>6. TaskTended(c, phase)
  BY <1>3, <1>4, NowGood DEF TaskTended
<1>7. ASSUME NEW out, Out \subseteq out, it.kind = "result" => it.of \in out
      PROVE  Kept(c, gen, phase, agent, out, held)
  BY <1>3, <1>4, <1>7, NowGood DEF Kept, OnItsWay
<1> QED BY <1>2, <1>3, <1>5, <1>6, <1>7 DEF c

LEMMA NoticeSentKeeps == ASSUME IInv, NEW it \in notices, NoticeSent(it) PROVE IInv'
<1> DEFINE c == [Now EXCEPT !.notices = @ \ {it}]
<1>1. PICK given : given = IF it.kind = "result" THEN {it.of} ELSE {}
  OBVIOUS
<1>2. /\ Becomes(Drained(c)) /\ Handled(given, given) /\ UNCHANGED <<inbox, gen, timers, phase>>
  BY <1>1 DEF NoticeSent
<1>3. /\ it \in Item /\ Fit(c, gen, phase, agent, told) /\ TaskTended(c, phase)
      /\ Kept(c, gen, phase, agent, Out \cup given, held)
  BY <1>1, NoticeOff
<1> HIDE DEF c
<1>4. Good(c, agent, told, Out \cup given, held)
  BY <1>3 DEF Good
<1>5. Good(c, agent, told \cup given, Out \cup given, held)
  BY <1>4, ToldMore
<1>6. consumed \subseteq Out \cup given /\ given \in SUBSET Agent
  BY <1>1, <1>3, ItemIs DEF Out
<1>7. /\ Good(Drained(c), agent, told \cup given, Out \cup given, held)
      /\ QueueTended(Drained(c), phase, timers)
  BY <1>5, <1>6, NowGood, Drains
<1> QED BY <1>2, <1>6, <1>7, HandledStep

\* What is on its way need not be counted as known.
LEMMA Settled ==
    ASSUME NEW c, NEW a, NEW ag, NEW tl, NEW out, NEW hd, Good(c, ag, tl, out \cup {a}, hd),
           phase = "up" /\ Ended(a, gen, ag) => a \in out \/ OnItsWay(a, c, hd)
    PROVE  Good(c, ag, tl, out, hd)
BY DEF Good, Kept

LEMMA NoticeFailsKeeps == ASSUME IInv, NEW it \in notices, NoticeFails(it) PROVE IInv'
<1> DEFINE c == [Now EXCEPT !.notices = @ \ {it}]
           again == it.sends + 1 < MaxSends /\ ~Stale(it)
           more == [it EXCEPT !.sends = @ + 1]
           d == Unshift(c, more)
<1>1. /\ Becomes(IF again THEN d ELSE Skips(c)) /\ timers' = IF again THEN timers + 1 ELSE timers
      /\ dropped' = IF again \/ it.kind # "result" THEN dropped ELSE dropped \cup {it.of}
      /\ UNCHANGED <<inbox, gen, phase, results, told>>
  BY DEF NoticeFails
<1>2. /\ it \in Item /\ ItemFits(it, agent) /\ it.notice /\ it.kind # "batch"
      /\ c \in Conf /\ Fit(c, gen, phase, agent, told) /\ TaskTended(c, phase)
      /\ \A out : Out \subseteq out /\ (it.kind = "result" => it.of \in out)
                  => Kept(c, gen, phase, agent, out, held)
  BY NoticeOff
<1> HIDE DEF c
<1>3. Good(c, agent, told, Out \cup {it.of}, held)
  BY <1>2 DEF Good
<1>4. timers \in Nat /\ timers' \in Nat /\ (again => timers' > 0)
  <2>1. timers \in Nat
    BY NowGood DEF RestOK
  <2> HIDE DEF again
  <2> QED BY <1>1, <2>1
<1>5. CASE again
  <2>1. it.sends + 1 \in 0..MaxSends
    BY <1>2, <1>5, ItemIs, Bounds
  <2>2. /\ more \in Item /\ more.kind = it.kind /\ more.of = it.of /\ more.gen = it.gen
        /\ more.tries = it.tries /\ more.notice = it.notice
    BY <1>2, <2>1, SendsChange
  <2> HIDE DEF more
  <2>3. Joins(c, d, more) /\ QueueFits(more, gen, agent)
    BY <1>2, <1>5, <2>2, Joining DEF QueueFits, ItemFits, Stale
  <2> HIDE DEF d
  <2>4. Good(d, agent, told, Out \cup {it.of}, held)
    BY <1>3, <2>3, Joined DEF Good
  <2>5. it.kind = "result" => OnItsWay(it.of, d, held)
    BY <2>2, <2>3 DEF OnItsWay, Joins
  <2>6. it.kind # "result" => Good(d, agent, told, Out, held)
    <3>1. it.kind # "result" => Good(c, agent, told, Out, held)
      BY <1>2 DEF Good
    <3> QED BY <2>3, <3>1, Joined DEF Good
  <2>7. Good(d, agent, told, Out, held)
    BY <2>4, <2>5, <2>6, Settled
  <2>8. QueueTended(d, phase, timers')
    BY <1>4, <1>5 DEF QueueTended
  <2>9. Becomes(d) /\ UNCHANGED <<inbox, gen, phase, results, history>>
    BY <1>1, <1>5 DEF history
  <2> QED BY <1>4, <2>7, <2>8, <2>9, TimerStep
<1>6. CASE ~again
  <2>1. PICK given : given = IF it.kind = "result" THEN {it.of} ELSE {}
    OBVIOUS
  <2>2. given \in SUBSET Agent
    BY <1>2, <2>1, ItemIs
  <2>3. /\ Out' = Out \cup given /\ agent' = agent /\ told' = told /\ held' = held
        /\ consumed' = consumed /\ notify' = notify /\ dropped' = dropped \cup given
    BY <1>1, <1>6, <2>1 DEF Out, results
  <2>4. RestOK'
    BY <1>1, <1>4, <2>2, <2>3, NowGood DEF RestOK
  <2>5. Good(c, agent, told, Out \cup given, held)
    BY <1>2, <2>1 DEF Good
  <2>6. Good(Skips(c), agent, told, Out \cup given, held) /\ QueueTended(Skips(c), phase, timers')
    BY <2>5, Skipping
  <2> QED BY <1>1, <1>6, <2>3, <2>4, <2>6, GoodStep
<1> QED BY <1>5, <1>6

LEMMA FlushKeeps == ASSUME IInv, Flush PROVE IInv'
<1> DEFINE it == NewItem("batch", None, gen)
           n == NewTurn(it, "flush")
           t == [n EXCEPT !.gives = batch]
           b == [Now EXCEPT !.batch = {}]
           d == Starts(b, t)
<1>1. /\ phase = "up" /\ CanReserve(reserved, turns) /\ Becomes(d)
      /\ UNCHANGED <<inbox, gen, timers, phase, results, history>>
  BY DEF Flush
<1>2. it \in Item /\ it.kind = "batch" /\ it.gen = gen /\ it.tries = 0 /\ ~it.notice
  BY NowGood, NewBatchItem
<1> HIDE DEF it
<1>3. batch \subseteq Agent /\ \A a \in batch : Ended(a, gen, agent)
  BY NowGood, NowFields, ConfIs DEF Fit
<1>4. n = [item |-> it, via |-> "flush", gives |-> {}, pc |-> "model", task |-> FALSE,
           stopped |-> FALSE, wait |-> {}, any |-> FALSE]
  BY <1>2 DEF NewTurn
<1> HIDE DEF n
<1>5. /\ t \in Turn /\ t.item = it /\ t.via = "flush" /\ t.gives = batch /\ t.pc = "model"
      /\ ~t.task /\ t.wait = {}
  BY <1>2, <1>3, <1>4 DEF Turn
<1> HIDE DEF t
<1>6. TurnFits(t, gen, "up", agent, told)
  BY <1>2, <1>3, <1>5, NowGood, Bounds DEF TurnFits, ItemFits
<1>7. /\ d \in Conf /\ d.queue = Now.queue /\ d.notices = Now.notices /\ d.taken
      /\ d.turns = Now.turns \cup {t} /\ d.batch = {} /\ (d.task <=> Now.task \/ t.task)
      /\ d.slips = Now.slips
  <2>1. Now \in Conf /\ t.task \in BOOLEAN
    BY <1>5, NowGood DEF Turn
  <2>2. d = [b EXCEPT !.taken = TRUE, !.turns = @ \cup {t}, !.task = @ \/ t.task]
    BY DEF Starts
  <2>3. b \in Conf /\ b.queue = Now.queue /\ b.notices = Now.notices /\ b.turns = Now.turns
        /\ b.batch = {} /\ b.task = Now.task /\ b.slips = Now.slips
    BY <2>1 DEF Conf
  <2> HIDE DEF b, d
  <2> QED BY <1>5, <2>1, <2>2, <2>3 DEF Conf
<1> HIDE DEF d, b
<1>8. Begins(Now, d, t, gen)
  BY <1>1, <1>2, <1>5, <1>7, NowFields DEF Begins, Queued, CanReserve
<1>9. /\ Fit(d, gen, "up", agent, told) /\ d.turns = {t}
      /\ TaskTended(Now, "up") => TaskTended(d, "up")
      /\ Kept(Now, gen, "up", agent, Out, held) => Kept(d, gen, "up", agent, Out, held)
  BY <1>1, <1>6, <1>8, NowGood, Starting
<1>10. Good(d, agent, told, Out, held) /\ QueueTended(d, phase, timers)
  BY <1>1, <1>9, NowGood DEF Good, QueueTended
<1> QED BY <1>1, <1>10, QuietStep

-----------------------------------------------------------------------------
(* Sub-agents                                                              *)

\* a step of a sub-agent that neither ends it nor is seen by the connector
LEMMA AgentStep ==
    ASSUME IInv, UNCHANGED <<inbox, gen, conn, timers, phase, consumed, notify, held, history>>,
           agent' \in Agents, phase = "up" => \A a \in Agent : agent'[a].gen <= gen,
           \A a \in held : agent'[a].st = "done",
           \A a \in Agent, h \in Nat : Ended(a, h, agent) <=> Ended(a, h, agent')
    PROVE  IInv'
<1>1. Good(Now, agent', told, Out, held)
  BY NowGood, AgentsKeep
<1>2. RestOK'
  BY NowGood DEF RestOK, Agents, history
<1>3. Becomes(Now) /\ told' = told /\ Out' = Out /\ held' = held /\ gen' = gen /\ phase' = phase
      /\ timers' = timers
  BY ConnStands DEF Out, history
<1> QED BY <1>1, <1>2, <1>3, NowGood, GoodStep

LEMMA SpawnKeeps == ASSUME IInv, NEW t \in turns, NEW a \in Agent, Spawn(t, a) PROVE IInv'
<1>1. /\ agent \in Agents
      /\ phase = "up" => \A b \in Agent : agent[b].gen <= gen
      /\ held \subseteq Agent /\ \A b \in held : agent[b].st = "done"
  BY NowGood DEF RestOK, Agents
<1>2. agent[a].st = "none" /\ agent' = [agent EXCEPT ![a] = [st |-> "running", gen |-> t.item.gen]]
  BY DEF Spawn
<1>3. t.item.gen \in Nat /\ (phase = "up" => t.item.gen <= gen)
  BY TurnIs, ItemIs DEF TurnFits
<1>4. agent' \in Agents
  BY <1>1, <1>2, <1>3 DEF Agents
<1>5. /\ \A b \in Agent : b # a => agent'[b] = agent[b]
      /\ agent'[a] = [st |-> "running", gen |-> t.item.gen]
  BY <1>1, <1>2 DEF Agents
<1>6. phase = "up" => \A b \in Agent : agent'[b].gen <= gen
  BY <1>1, <1>3, <1>5
<1>7. \A b \in held : agent'[b].st = "done"
  BY <1>1, <1>2, <1>5
<1>8. \A b \in Agent, h \in Nat : Ended(b, h, agent) <=> Ended(b, h, agent')
  BY <1>2, <1>5 DEF Ended
<1>9. UNCHANGED <<inbox, gen, conn, timers, phase, consumed, notify, held, history>>
  BY DEF Spawn
<1> QED BY <1>4, <1>6, <1>7, <1>8, <1>9, AgentStep

\* a sub-agent that has not ended gets a state in which it has not ended either
LEMMA SetKeeps ==
    ASSUME IInv, NEW a \in Agent, NEW st \in {"running", "asking", "closing", "stopped"},
           Set(a, st), agent[a].st # "done",
           UNCHANGED <<inbox, gen, conn, timers, phase, consumed, notify, held, history>>
    PROVE  IInv'
<1>1. /\ agent' \in Agents /\ \A b \in Agent : agent'[b].gen = agent[b].gen
      /\ \A b \in held : agent'[b].st = "done"
      /\ \A b \in Agent, h \in Nat : Ended(b, h, agent) => Ended(b, h, agent')
      /\ \A b \in Agent, h \in Nat : Ended(b, h, agent') => Ended(b, h, agent)
  BY NowGood, AgentSet
<1>2. phase = "up" => \A b \in Agent : agent'[b].gen <= gen
  BY <1>1, NowGood DEF RestOK
<1> QED BY <1>1, <1>2, AgentStep

LEMMA DirectKeeps == ASSUME IInv, NEW t \in turns, NEW a \in Agent, Direct(t, a) PROVE IInv'
<1>1. UNCHANGED <<inbox, gen, conn, timers, phase, consumed, notify, held, history>>
  BY DEF Direct
<1>2. agent[a].st # "done" /\ (Set(a, "running") \/ Set(a, "stopped"))
  BY DEF Direct, ActiveAgents
<1> QED BY <1>1, <1>2, SetKeeps

LEMMA RunEndsKeeps == ASSUME IInv, NEW a \in Agent, RunEnds(a) PROVE IInv'
<1>1. agent[a].st # "done" /\ Set(a, "closing")
      /\ UNCHANGED <<inbox, gen, conn, timers, phase, consumed, notify, held, history>>
  BY DEF RunEnds
<1> QED BY <1>1, SetKeeps

\* The question or the result of a sub-agent is dropped, gathered, queued, or given a turn.
LEMMA Injecting ==
    ASSUME NEW it \in Item, NEW ag, NEW tl, NEW out, NEW hd, Good(Now, ag, tl, out, hd),
           QueueTended(Now, phase, timers), gen \in Nat, consumed \subseteq out,
           it.kind \in {"ask", "result"}, ItemFits(it, ag), ~it.notice
    PROVE  LET d == Injected(it)
           IN  /\ Good(d, ag, tl, out, hd) /\ QueueTended(d, phase, timers)
               /\ it.kind = "result" /\ phase = "up" /\ ~Stale(it)
                  => it.of \in consumed \/ OnItsWay(it.of, d, hd)
<1> DEFINE b == [Now EXCEPT !.batch = @ \cup {it.of}]
           d == Injected(it)
<1> SUFFICES /\ Good(d, ag, tl, out, hd) /\ QueueTended(d, phase, timers)
             /\ it.kind = "result" /\ phase = "up" /\ ~Stale(it)
                => it.of \in consumed \/ OnItsWay(it.of, d, hd)
  OBVIOUS
<1>1. d = CASE Stale(it) \/ phase # "up" \/ Drop(it) -> Now
            [] ~Stale(it) /\ phase = "up" /\ ~Drop(it) /\ Silent(it) -> Drained(b)
            [] ~Stale(it) /\ phase = "up" /\ ~Drop(it) /\ ~Silent(it) /\ ~CanReserve(reserved, turns) ->
                  [Now EXCEPT !.queue = Append(@, it)]
            [] OTHER -> Starts(Now, NewTurn(it, "direct"))
  BY DEF Injected
<1> HIDE DEF d
<1>2. ~Stale(it) => QueueFits(it, gen, ag)
  BY DEF Stale, QueueFits
<1>3. CASE Stale(it) \/ phase # "up" \/ Drop(it)
  <2>1. d = Now
    BY <1>1, <1>3
  <2> QED BY <1>3, <2>1 DEF Drop
<1>4. CASE ~Stale(it) /\ phase = "up" /\ ~Drop(it) /\ Silent(it)
  <2>1. d = Drained(b)
    BY <1>1, <1>4
  <2>2. it.of \in Agent /\ Ended(it.of, gen, ag)
    BY <1>2, <1>4, ItemIs DEF QueueFits, ItemFits, Silent
  <2>3. Good(b, ag, tl, out, hd) /\ it.of \in b.batch
    <3>1. PICK S : S = {it.of}
      OBVIOUS
    <3>2. S \in SUBSET Agent /\ \A a \in S : Ended(a, gen, ag)
      BY <2>2, <3>1
    <3> QED BY <3>1, <3>2, Gathered
  <2> HIDE DEF b
  <2>4. /\ Good(d, ag, tl, out, hd) /\ QueueTended(d, phase, timers)
        /\ b.batch \subseteq d.batch
    BY <2>1, <2>3, Drains
  <2> QED BY <2>3, <2>4 DEF OnItsWay
<1>5. CASE ~Stale(it) /\ phase = "up" /\ ~Drop(it) /\ ~Silent(it) /\ ~CanReserve(reserved, turns)
  <2>1. d = [Now EXCEPT !.queue = Append(@, it)]
    BY <1>1, <1>5
  <2>2. /\ Good(d, ag, tl, out, hd) /\ QueueTended(d, phase, timers) /\ it \in Queued(d)
    BY <1>2, <1>5, <2>1, QueuedBehind
  <2> QED BY <2>2 DEF OnItsWay
<1>6. CASE ~Stale(it) /\ phase = "up" /\ ~Drop(it) /\ ~Silent(it) /\ CanReserve(reserved, turns)
  <2>1. d = Starts(Now, NewTurn(it, "direct"))
    BY <1>1, <1>6
  <2>2. ~Now.taken
    BY <1>6, NowFields DEF CanReserve
  <2>3. /\ Good(d, ag, tl, out, hd) /\ d.turns # {}
        /\ it.kind = "result" => OnItsWay(it.of, d, hd)
    BY <1>2, <1>6, <2>1, <2>2, DirectStarted
  <2> QED BY <2>3 DEF QueueTended
<1> QED BY <1>3, <1>4, <1>5, <1>6

LEMMA AskKeeps == ASSUME IInv, NEW a \in Agent, Ask(a) PROVE IInv'
<1> DEFINE it == NewItem("ask", a, agent[a].gen)
<1>1. /\ agent[a].st = "running" /\ Set(a, "asking") /\ Becomes(Injected(it))
      /\ UNCHANGED <<inbox, gen, timers, phase, consumed, notify, held, history>>
  BY DEF Ask
<1>2. /\ agent' \in Agents /\ \A b \in Agent : agent'[b].gen = agent[b].gen
      /\ \A b \in held : agent'[b].st = "done"
      /\ \A b \in Agent, h \in Nat : Ended(b, h, agent) <=> Ended(b, h, agent')
  BY <1>1, NowGood, AgentSet
<1>3. Good(Now, agent', told, Out, held)
  BY <1>2, NowGood, AgentsKeep
<1>4. it \in Item /\ it.kind = "ask" /\ it.tries = 0 /\ ~it.notice
  <2>1. agent[a].gen \in Nat
    BY NowGood DEF RestOK
  <2> QED BY <2>1, NewAgentItem
<1> HIDE DEF it
<1>5. ItemFits(it, agent')
  BY <1>4, Bounds DEF ItemFits
<1>6. Good(Injected(it), agent', told, Out, held) /\ QueueTended(Injected(it), phase, timers)
  BY <1>3, <1>4, <1>5, NowGood, Injecting
<1>7. RestOK'
  BY <1>1, <1>2, NowGood DEF RestOK, Agents, history
<1>8. told' = told /\ Out' = Out /\ held' = held /\ gen' = gen /\ phase' = phase /\ timers' = timers
  BY <1>1 DEF Out, history
<1> QED BY <1>1, <1>6, <1>7, <1>8, GoodStep

LEMMA FinalizeSessionKeeps == ASSUME IInv, NEW a \in Agent, FinalizeSession(a) PROVE IInv'
<1> DEFINE it == NewItem("result", a, agent[a].gen)
<1>1. /\ agent[a].st = "closing" /\ Set(a, "done")
      /\ UNCHANGED <<inbox, gen, timers, phase, consumed, notify, history>>
  BY DEF FinalizeSession
<1>2. /\ agent' \in Agents /\ \A b \in Agent : agent'[b].gen = agent[b].gen
      /\ agent'[a].st = "done" /\ \A b \in held : agent'[b].st = "done"
      /\ \A b \in Agent, h \in Nat : Ended(b, h, agent) => Ended(b, h, agent')
      /\ \A b \in Agent, h \in Nat : Ended(b, h, agent') => Ended(b, h, agent) \/ b = a
  BY <1>1, NowGood, AgentSet
<1>3. Good(Now, agent', told, Out \cup {a}, held)
  <2>1. Fit(Now, gen, phase, agent', told)
    BY <1>2, NowGood, AgentsFit
  <2>2. Kept(Now, gen, phase, agent', Out \cup {a}, held)
    BY <1>2, NowGood DEF Kept
  <2> QED BY <2>1, <2>2, NowGood DEF Good
<1>4. phase = "up" => \A b \in Agent : agent'[b].gen <= gen
  BY <1>2, NowGood DEF RestOK
<1>5. /\ told' = told /\ Out' = Out /\ gen' = gen /\ phase' = phase /\ timers' = timers
      /\ consumed' = consumed /\ dropped' = dropped
  BY <1>1 DEF Out, history
<1>6. ASSUME held' \subseteq held \cup {a}, IsFiniteSet(held') PROVE RestOK'
  BY <1>1, <1>2, <1>4, <1>5, <1>6, NowGood DEF RestOK, Agents
<1>7. CASE a \in Claimed /\ a \notin consumed
  <2>1. held' = held \cup {a} /\ Becomes(Now)
    BY <1>7, ConnStands DEF FinalizeSession
  <2>2. IsFiniteSet(held')
    BY <2>1, NowGood, FS_AddElement DEF RestOK
  <2>3. Good(Now, agent', told, Out \cup {a}, held')
    BY <1>3, <2>1 DEF Good, Kept, OnItsWay
  <2>4. OnItsWay(a, Now, held')
    BY <1>7, <2>1, NowFields DEF OnItsWay, Claimed
  <2>5. Good(Now, agent', told, Out, held')
    BY <2>3, <2>4, Settled
  <2>6. RestOK'
    BY <1>6, <2>1, <2>2
  <2> QED BY <1>5, <2>1, <2>5, <2>6, NowGood, GoodStep
<1>8. CASE ~(a \in Claimed /\ a \notin consumed)
  <2>1. held' = held /\ Becomes(Injected(it))
    BY <1>8 DEF FinalizeSession
  <2>2. /\ it \in Item /\ it.kind = "result" /\ it.of = a /\ it.gen = agent[a].gen
        /\ it.tries = 0 /\ ~it.notice
    <3>1. agent[a].gen \in Nat
      BY NowGood DEF RestOK
    <3> QED BY <3>1, NewAgentItem
  <2> HIDE DEF it
  <2>3. ItemFits(it, agent')
    BY <1>2, <2>2, Bounds DEF ItemFits, Ended
  <2>4. consumed \subseteq Out \cup {a}
    BY DEF Out
  <2>5. /\ Good(Injected(it), agent', told, Out \cup {a}, held)
        /\ QueueTended(Injected(it), phase, timers)
        /\ phase = "up" /\ ~Stale(it) => a \in consumed \/ OnItsWay(a, Injected(it), held)
    BY <1>3, <2>2, <2>3, <2>4, NowGood, Injecting
  <2>6. phase = "up" /\ Ended(a, gen, agent') => a \in Out \/ OnItsWay(a, Injected(it), held)
    BY <1>2, <2>2, <2>5 DEF Ended, Stale, Out
  <2>7. Good(Injected(it), agent', told, Out, held)
    BY <2>5, <2>6, Settled
  <2>8. RestOK'
    BY <1>6, <2>1, NowGood DEF RestOK
  <2> QED BY <1>5, <2>1, <2>5, <2>7, <2>8, GoodStep
<1> QED BY <1>7, <1>8

LEMMA Concatenated ==
    ASSUME NEW q \in Seq(Item), NEW p \in Seq(Item)
    PROVE  LET r == q \o p
           IN  /\ r \in Seq(Item)
               /\ {r[i] : i \in DOMAIN r} = {q[i] : i \in DOMAIN q} \cup {p[i] : i \in DOMAIN p}
<1> DEFINE r == q \o p
<1>1. /\ Len(q) \in Nat /\ Len(p) \in Nat /\ DOMAIN q = 1..Len(q) /\ DOMAIN p = 1..Len(p)
  OBVIOUS
<1>2. /\ r \in Seq(Item) /\ Len(r) = Len(q) + Len(p)
      /\ \A i \in 1..(Len(q) + Len(p)) : r[i] = IF i <= Len(q) THEN q[i] ELSE p[i - Len(q)]
  BY ConcatProperties
<1>3. DOMAIN r = 1..(Len(q) + Len(p))
  BY <1>2
<1> HIDE DEF r
<1>4. \A i \in DOMAIN q : i \in DOMAIN r /\ r[i] = q[i]
  BY <1>1, <1>2, <1>3
<1>5. \A i \in DOMAIN p : i + Len(q) \in DOMAIN r /\ r[i + Len(q)] = p[i]
  BY <1>1, <1>2, <1>3
<1>6. \A i \in DOMAIN r : \/ i \in DOMAIN q /\ r[i] = q[i]
                          \/ i - Len(q) \in DOMAIN p /\ r[i] = p[i - Len(q)]
  BY <1>1, <1>2, <1>3
<1>7. {r[i] : i \in DOMAIN r} = {q[i] : i \in DOMAIN q} \cup {p[i] : i \in DOMAIN p}
  <2>1. ASSUME NEW i \in DOMAIN r
        PROVE  r[i] \in {q[j] : j \in DOMAIN q} \cup {p[j] : j \in DOMAIN p}
    BY <1>6
  <2>2. ASSUME NEW i \in DOMAIN q PROVE q[i] \in {r[j] : j \in DOMAIN r}
    BY <1>4
  <2>3. ASSUME NEW i \in DOMAIN p PROVE p[i] \in {r[j] : j \in DOMAIN r}
    BY <1>5
  <2> QED BY <2>1, <2>2, <2>3
<1> QED BY <1>2, <1>7 DEF r

\* A sequence of the elements of a finite set, each once, has them all.
LEMMA OrderIs ==
    ASSUME NEW S, IsFiniteSet(S), NEW order \in SetToSeqs(S)
    PROVE  /\ \E n \in Nat : DOMAIN order = 1..n
           /\ \A i \in DOMAIN order : order[i] \in S
           /\ \A a \in S : \E i \in DOMAIN order : order[i] = a
<1> DEFINE n == Cardinality(S)
           D == 1..n
<1>1. n \in Nat
  BY FS_CardinalityType
<1>2. order \in [D -> S] /\ \A i, j \in D : i # j => order[i] # order[j]
  BY DEF SetToSeqs
<1>3. order \in Injection(D, S)
  BY <1>2 DEF Injection, IsInjective
<1> HIDE DEF n
<1>4. IsFiniteSet(D) /\ Cardinality(D) = n
  BY <1>1, FS_Interval
<1> HIDE DEF D
<1>5. order \in Surjection(D, S)
  BY <1>3, <1>4, FS_Injection DEF n
<1>6. \A a \in S : \E i \in D : order[i] = a
  BY <1>5 DEF Surjection
<1> QED BY <1>1, <1>2, <1>6 DEF D

\* The wait of turn t ends: what was held back for it and not taken is queued again.
LEMMA ReleaseClaimsKeeps ==
    ASSUME IInv, NEW t \in turns, NEW S \in SUBSET Agent, NEW taken \in SUBSET S, t.wait \subseteq S,
           ReleaseClaims(t, S, taken), UNCHANGED <<inbox, gen, timers, phase, agent, history>>
    PROVE  IInv'
<1> DEFINE back == {a \in (S \cap held) \ (taken \cup consumed) : agent[a].gen = gen /\ phase = "up"}
           u == [t EXCEPT !.wait = {}, !.any = FALSE]
           b == [Now EXCEPT !.turns = (@ \ {t}) \cup {u}]
<1>1. /\ consumed' = consumed \cup taken /\ notify' = (notify \ taken) \cup (S \ taken)
      /\ held' = held \ S
  BY DEF ReleaseClaims
<1>2. PICK order \in SetToSeqs(back) :
         Becomes([Now EXCEPT !.turns = (@ \ {t}) \cup {u},
                             !.queue = @ \o [i \in DOMAIN order |-> NewItem("result", order[i], gen)]])
  BY DEF ReleaseClaims
<1> DEFINE more == [i \in DOMAIN order |-> NewItem("result", order[i], gen)]
           c == [b EXCEPT !.queue = @ \o more]
<1>3. /\ u \in Turn /\ u.item = t.item /\ u.via = t.via /\ u.gives = t.gives /\ u.pc = t.pc
      /\ u.task = t.task /\ u.wait = {}
  <2>1. t \in Turn
    BY TurnIs
  <2> QED BY <2>1 DEF Turn
<1> HIDE DEF u
<1>4. GoesOn(Now, b, t, u)
  <2>1. Now \in Conf /\ t \in Now.turns
    BY NowGood, TurnIs
  <2> QED BY <1>3, <2>1 DEF GoesOn, Conf
<1>5. TurnFits(u, gen, phase, agent, told)
  BY <1>3, TurnIs DEF TurnFits
<1>6. Becomes(c)
  <2>1. [Now EXCEPT !.turns = (@ \ {t}) \cup {u}, !.queue = @ \o more] = c
    <3>1. Now \in Conf
      BY NowGood
    <3> HIDE DEF more
    <3> QED BY <3>1 DEF Conf
  <2> HIDE DEF c
  <2> QED BY <1>2, <2>1
<1> HIDE DEF b
<1>7. /\ Fit(b, gen, phase, agent, told) /\ b.turns = {u} /\ Now.turns = {t}
      /\ Queued(b) = Queued(Now) /\ TaskTended(b, phase)
  <2>1. Fit(Now, gen, phase, agent, told) /\ TaskTended(Now, phase)
    BY NowGood
  <2>2. Fit(b, gen, phase, agent, told) /\ b.turns = {u} /\ Now.turns = {t} /\ Queued(b) = Queued(Now)
    BY <1>4, <1>5, <2>1, GoingOn
  <2>3. TaskTended(b, phase)
    BY <1>4, <1>5, <2>1, GoingOn
  <2> QED BY <2>2, <2>3
<1>8. back \subseteq held /\ held \subseteq Agent /\ IsFiniteSet(back)
  <2>1. back \subseteq held /\ held \subseteq Agent /\ IsFiniteSet(held)
    BY NowGood DEF RestOK
  <2> QED BY <2>1, FS_Subset
<1>9. \A a \in back : a \in Agent /\ Ended(a, gen, agent)
  BY <1>8, NowGood DEF RestOK, Ended
<1>10. /\ \E n \in Nat : DOMAIN order = 1..n
       /\ \A i \in DOMAIN order : order[i] \in back
       /\ \A a \in back : \E i \in DOMAIN order : order[i] = a
  <2> HIDE DEF back
  <2> QED BY <1>2, <1>8, OrderIs
<1>11. \A a \in back : LET it == NewItem("result", a, gen)
                       IN  it \in Item /\ it.kind = "result" /\ it.of = a /\ QueueFits(it, gen, agent)
  <2> SUFFICES ASSUME NEW a \in back
               PROVE  LET it == NewItem("result", a, gen)
                      IN  it \in Item /\ it.kind = "result" /\ it.of = a /\ QueueFits(it, gen, agent)
    OBVIOUS
  <2> DEFINE it == NewItem("result", a, gen)
  <2>1. /\ it \in Item /\ it.kind = "result" /\ it.of = a /\ it.gen = gen /\ it.tries = 0
        /\ ~it.notice
    BY <1>9, NowGood, NewAgentItem
  <2> HIDE DEF it
  <2>2. QueueFits(it, gen, agent)
    BY <1>9, <2>1, Bounds DEF QueueFits, ItemFits
  <2> QED BY <2>1, <2>2 DEF it
<1> HIDE DEF back
<1>12. more \in Seq(Item) /\ DOMAIN more = DOMAIN order
  <2>1. PICK n \in Nat : DOMAIN order = 1..n
    BY <1>10
  <2>2. \A i \in 1..n : more[i] \in Item
    BY <1>10, <1>11, <2>1
  <2> QED BY <2>1, <2>2
<1>13. /\ \A it \in {more[i] : i \in DOMAIN more} : QueueFits(it, gen, agent)
       /\ \A a \in back : \E it \in {more[i] : i \in DOMAIN more} : it.kind = "result" /\ it.of = a
  <2>1. \A i \in DOMAIN order : more[i] = NewItem("result", order[i], gen)
    OBVIOUS
  <2> HIDE DEF more
  <2> QED BY <1>10, <1>11, <1>12, <2>1
<1> HIDE DEF more
<1>14. /\ c \in Conf /\ c.turns = {u} /\ c.notices = Now.notices /\ c.batch = Now.batch
       /\ c.taken = b.taken /\ (c.task <=> b.task) /\ c.slips = b.slips
       /\ Queued(c) = Queued(Now) \cup {more[i] : i \in DOMAIN more}
  <2>1. b \in Conf /\ b.queue \in Seq(Item) /\ b.notices = Now.notices /\ b.batch = Now.batch
    BY <1>4, <1>7, ConfIs DEF Fit, GoesOn
  <2>2. /\ b.queue \o more \in Seq(Item)
        /\ {(b.queue \o more)[i] : i \in DOMAIN (b.queue \o more)}
             = Queued(b) \cup {more[i] : i \in DOMAIN more}
    BY <1>12, <2>1, Concatenated DEF Queued
  <2>3. /\ c \in Conf /\ c.turns = b.turns /\ c.notices = b.notices /\ c.batch = b.batch
        /\ c.taken = b.taken /\ (c.task <=> b.task) /\ c.slips = b.slips /\ c.queue = b.queue \o more
    BY <2>1, <2>2 DEF Conf
  <2> HIDE DEF c
  <2>4. Queued(c) = {(b.queue \o more)[i] : i \in DOMAIN (b.queue \o more)}
    BY <2>3 DEF Queued
  <2> QED BY <1>7, <2>1, <2>2, <2>3, <2>4
<1> HIDE DEF c
<1>15. Fit(c, gen, phase, agent, told)
  BY <1>7, <1>13, <1>14, NowGood DEF Fit, Alone
<1>16. TaskTended(c, phase)
  BY <1>7, <1>14 DEF TaskTended
<1>17. /\ told' = told /\ Out' = Out \cup taken /\ gen' = gen /\ phase' = phase /\ timers' = timers
       /\ agent' = agent
  BY <1>1 DEF Out, history
<1>18. Kept(c, gen, phase, agent, Out', held')
  <2> SUFFICES ASSUME phase = "up", NEW a \in Agent, Ended(a, gen, agent), a \notin Out',
                      OnItsWay(a, Now, held)
               PROVE  OnItsWay(a, c, held')
    BY <1>17, NowGood DEF Kept
  <2>1. CASE a \in held /\ a \in t.wait
    <3>1. a \in back
      BY <1>17, <2>1 DEF back, Ended, Out
    <3> QED BY <1>13, <1>14, <3>1 DEF OnItsWay
  <2>2. CASE a \in t.gives
    BY <1>3, <1>14, <2>2 DEF OnItsWay
  <2>3. CASE a \in Now.batch \/ \E it \in Now.notices \cup Queued(Now) : it.kind = "result" /\ it.of = a
    BY <1>14, <2>3 DEF OnItsWay
  <2> QED BY <1>7, <2>1, <2>2, <2>3 DEF OnItsWay
<1>19. RestOK'
  <2>1. IsFiniteSet(held') /\ held' \subseteq held
    BY <1>1, NowGood, FS_Subset DEF RestOK
  <2> QED BY <1>1, <1>17, <2>1, NowGood DEF RestOK, history
<1>20. QueueTended(c, phase, timers)
  BY <1>14 DEF QueueTended
<1> QED BY <1>6, <1>15, <1>16, <1>17, <1>18, <1>19, <1>20, Step

LEMMA WaitKeeps ==
    ASSUME IInv, NEW t \in turns, NEW S \in SUBSET Agent, NEW any \in BOOLEAN, Wait(t, S, any)
    PROVE  IInv'
<1>1. /\ t.wait = {} /\ t.pc = "model" /\ UNCHANGED <<inbox, gen, timers, phase, agent, history>>
  BY DEF Wait, Calls
<1>2. CASE Ready(S, any)
  <2>1. ReleaseClaims(t, S, S \cap EndedAgents)
    BY <1>2 DEF Wait
  <2>2. S \cap EndedAgents \in SUBSET S
    OBVIOUS
  <2> QED BY <1>1, <2>1, <2>2, ReleaseClaimsKeeps
<1>3. CASE ~Ready(S, any)
  <2> DEFINE u == [t EXCEPT !.wait = S, !.any = any]
             d == [Now EXCEPT !.turns = (@ \ {t}) \cup {u}]
  <2>1. Becomes(d) /\ UNCHANGED <<consumed, notify, held>>
    BY <1>3 DEF Wait
  <2>2. /\ u \in Turn /\ u.item = t.item /\ u.via = t.via /\ u.gives = t.gives /\ u.pc = t.pc
        /\ u.task = t.task /\ u.wait = S
    <3>1. t \in Turn
      BY TurnIs
    <3> QED BY <3>1 DEF Turn
  <2> HIDE DEF u
  <2>3. GoesOn(Now, d, t, u)
    <3>1. Now \in Conf /\ t \in Now.turns
      BY NowGood, TurnIs
    <3> QED BY <2>2, <3>1 DEF GoesOn, Conf
  <2> HIDE DEF d
  <2>4. TurnFits(u, gen, phase, agent, told)
    BY <1>1, <2>2, TurnIs DEF TurnFits
  <2>5. Fit(d, gen, phase, agent, told) /\ d.turns # {} /\ TaskTended(d, phase)
    <3>1. Fit(Now, gen, phase, agent, told) /\ TaskTended(Now, phase)
      BY NowGood
    <3>2. Fit(d, gen, phase, agent, told) /\ d.turns = {u}
      BY <2>3, <2>4, <3>1, GoingOn
    <3>3. TaskTended(d, phase)
      BY <2>3, <2>4, <3>1, GoingOn
    <3> QED BY <3>2, <3>3
  <2>6. Kept(d, gen, phase, agent, Out, held)
    <3>1. Fit(Now, gen, phase, agent, told) /\ Kept(Now, gen, phase, agent, Out, held)
      BY NowGood
    <3> QED BY <1>1, <2>3, <2>4, <3>1, GoingOnKeeps
  <2>7. UNCHANGED <<inbox, gen, timers, phase, results, history>>
    BY <1>1, <2>1 DEF results
  <2> QED BY <2>1, <2>5, <2>6, <2>7, QuietStep DEF Good, QueueTended
<1> QED BY <1>2, <1>3

LEMMA WaitReturnsKeeps == ASSUME IInv, NEW t \in turns, WaitReturns(t) PROVE IInv'
<1>1. t.wait \in SUBSET Agent /\ UNCHANGED <<inbox, gen, timers, phase, agent, history>>
  BY TurnIs DEF WaitReturns, Turn
<1>2. PICK taken : /\ ReleaseClaims(t, t.wait, taken)
                   /\ taken = IF ~t.stopped /\ Ready(t.wait, t.any) THEN t.wait \cap EndedAgents ELSE {}
  BY DEF WaitReturns
<1>3. taken \in SUBSET t.wait
  BY <1>2
<1> QED BY <1>1, <1>2, <1>3, ReleaseClaimsKeeps

-----------------------------------------------------------------------------
(* destroy()                                                               *)

\* What the invariant asks of a turn while the connector is up, it does not ask after.
LEMMA PhaseOver ==
    ASSUME NEW c, NEW g, NEW ph, NEW ph2, NEW ag, NEW tl, Fit(c, g, ph, ag, tl), ph2 # "up"
    PROVE  Fit(c, g, ph2, ag, tl)
BY DEF Fit, TurnFits, Alone

LEMMA DestroyKeeps == ASSUME IInv, Destroy PROVE IInv'
<1> DEFINE b == [Now EXCEPT !.queue = <<>>, !.taken = FALSE, !.batch = {}, !.slips = {}]
           c == Interrupted(b)
<1>1. /\ phase' = "quiesce" /\ gen' = 0 /\ Becomes(c) /\ StopAgents
      /\ UNCHANGED <<inbox, timers, consumed, notify, held, history>>
  BY DEF Destroy
<1>2. /\ b \in Conf /\ b.queue = <<>> /\ b.batch = {} /\ b.turns = Now.turns
      /\ b.notices = Now.notices /\ ~b.taken
  <2>1. Now \in Conf /\ <<>> \in Seq(Item)
    BY NowGood
  <2> QED BY <2>1 DEF Conf
<1> HIDE DEF b
<1>3. Queued(b) = {}
  BY <1>2, ConfIs
<1>4. Fit(Now, gen, "quiesce", agent, told)
  BY NowGood, PhaseOver
<1>5. Fit(b, 0, "quiesce", agent, told)
  BY <1>2, <1>3, <1>4 DEF Fit, TurnFits, Alone
<1>6. Fit(c, 0, "quiesce", agent, told)
  BY <1>5, InterruptedIs
<1> HIDE DEF c
<1>7. /\ agent' \in Agents /\ \A a \in held : agent'[a].st = "done"
      /\ \A a \in Agent, h \in Nat : Ended(a, h, agent) <=> Ended(a, h, agent')
  BY <1>1, NowGood, AgentsStop
<1>8. Fit(c, gen', phase', agent', told)
  BY <1>1, <1>6, <1>7, AgentsFit
<1>9. RestOK'
  BY <1>1, <1>7, NowGood DEF RestOK, Agents, history
<1>10. TaskTended(c, phase') /\ QueueTended(c, phase', timers') /\ Kept(c, gen', phase', agent', Out', held')
  BY <1>1 DEF TaskTended, QueueTended, Kept
<1>11. told' = told
  BY <1>1 DEF history
<1> QED BY <1>1, <1>8, <1>9, <1>10, <1>11, Step

LEMMA StopSessionsKeeps == ASSUME IInv, StopSessions PROVE IInv'
<1>1. /\ phase' = "sweep" /\ StopAgents
      /\ UNCHANGED <<inbox, gen, conn, timers, consumed, notify, held, history>>
  BY DEF StopSessions
<1>2. /\ agent' \in Agents /\ \A a \in held : agent'[a].st = "done"
      /\ \A a \in Agent, h \in Nat : Ended(a, h, agent) <=> Ended(a, h, agent')
  BY <1>1, NowGood, AgentsStop
<1>3. Fit(Now, gen', phase', agent', told)
  BY <1>1, <1>2, NowGood, PhaseOver, AgentsFit
<1>4. RestOK'
  BY <1>1, <1>2, NowGood DEF RestOK, Agents, history
<1>5. /\ TaskTended(Now, phase') /\ QueueTended(Now, phase', timers')
      /\ Kept(Now, gen', phase', agent', Out', held')
  BY <1>1 DEF TaskTended, QueueTended, Kept
<1>6. told' = told /\ Becomes(Now)
  BY <1>1, ConnStands DEF history
<1> QED BY <1>3, <1>4, <1>5, <1>6, Step

LEMMA SweepKeeps == ASSUME IInv, Sweep PROVE IInv'
<1> DEFINE c == Cancelled(Now)
<1>1. /\ phase' \in {"last", "down"} /\ Becomes(c)
      /\ UNCHANGED <<inbox, gen, timers, results, history>>
  BY DEF Sweep
<1>2. Fit(Now, gen, phase', agent, told)
  BY <1>1, NowGood, PhaseOver
<1>3. Fit(c, gen, phase', agent, told) /\ TaskTended(c, phase')
  BY <1>2, CancelledIs
<1> HIDE DEF c
<1>4. RestOK'
  BY <1>1, NowGood DEF RestOK, results, history
<1>5. QueueTended(c, phase', timers') /\ Kept(c, gen', phase', agent', Out', held')
  BY <1>1 DEF QueueTended, Kept
<1>6. told' = told /\ agent' = agent /\ gen' = gen
  BY <1>1 DEF results, history
<1> QED BY <1>1, <1>3, <1>4, <1>5, <1>6, Step

-----------------------------------------------------------------------------
(* The specification                                                       *)

LEMMA InitIInv == Init => IInv
<1> SUFFICES ASSUME Init PROVE IInv
  OBVIOUS
<1> USE DEF Init
<1>1. RestOK
  BY FS_EmptySet DEF RestOK
<1>2. Now = [queue |-> <<>>, taken |-> FALSE, turns |-> {}, notices |-> {}, batch |-> {},
             task |-> FALSE, slips |-> {}]
  BY DEF Now
<1>3. Now \in Conf
  BY <1>2 DEF Conf
<1>4. Queued(Now) = {}
  BY <1>2 DEF Queued
<1>5. Fit(Now, gen, phase, agent, told)
  BY <1>2, <1>3, <1>4 DEF Fit
<1>6. TaskTended(Now, phase) /\ QueueTended(Now, phase, timers)
  BY <1>2 DEF TaskTended, QueueTended
<1>7. Kept(Now, gen, phase, agent, Out, held)
  BY DEF Kept, Ended
<1> QED BY <1>1, <1>5, <1>6, <1>7 DEF IInv

LEMMA StepIInv == IInv /\ [Next]_vars => IInv'
<1> SUFFICES ASSUME IInv, [Next]_vars PROVE IInv'
  OBVIOUS
<1>1. ASSUME NEW u \in User, OnMessage(u) \/ ProcessMessage(u) \/ RefuseMessage(u) PROVE IInv'
  BY <1>1, OnMessageKeeps, ProcessMessageKeeps, RefuseMessageKeeps
<1>2. CASE Clear \/ Cancel
  BY <1>2, ClearKeeps, CancelKeeps
<1>3. CASE TurnStep
  <2>1. PICK t \in turns : HydrateReturns(t) \/ ModelReturns(t) \/ ReplyReturns(t)
                           \/ FallbackReturns(t) \/ WaitReturns(t)
    BY <1>3 DEF TurnStep
  <2> QED BY <2>1, HydrateReturnsKeeps, ModelReturnsKeeps, ReplyReturnsKeeps, FallbackReturnsKeeps,
          WaitReturnsKeeps
<1>4. CASE ToolCall
  <2>1. PICK t \in turns : \/ ConsumeQueued(t)
                           \/ \E a \in Agent : Spawn(t, a) \/ Direct(t, a)
                           \/ \E S \in SUBSET Agent, any \in BOOLEAN : Wait(t, S, any)
    BY <1>4 DEF ToolCall
  <2> QED BY <2>1, ConsumeQueuedKeeps, SpawnKeeps, DirectKeeps, WaitKeeps
<1>5. CASE Failure
  <2>1. PICK t \in turns : HydrateFails(t) \/ ModelThrows(t) \/ BatchReplyFails(t)
    BY <1>5 DEF Failure
  <2> QED BY <2>1, HydrateFailsKeeps, ModelThrowsKeeps, BatchReplyFailsKeeps
<1>6. CASE DrainTimer \/ Flush
  BY <1>6, DrainTimerKeeps, FlushKeeps
<1>7. ASSUME NEW it \in notices, NoticeSent(it) \/ NoticeFails(it) PROVE IInv'
  BY <1>7, NoticeSentKeeps, NoticeFailsKeeps
<1>8. ASSUME NEW a \in Agent, Ask(a) \/ RunEnds(a) \/ FinalizeSession(a) PROVE IInv'
  BY <1>8, AskKeeps, RunEndsKeeps, FinalizeSessionKeeps
<1>9. CASE Destroy \/ StopSessions \/ Sweep
  BY <1>9, DestroyKeeps, StopSessionsKeeps, SweepKeeps
<1>10. CASE UNCHANGED vars
  <2>1. UNCHANGED <<inbox, gen, timers, phase, results, history>> /\ UNCHANGED conn
    BY <1>10 DEF vars
  <2> QED BY <2>1, NowGood, ConnStands, QuietStep
<1> QED BY <1>1, <1>2, <1>3, <1>4, <1>5, <1>6, <1>7, <1>8, <1>9, <1>10 DEF Next

LEMMA Invariant == Spec => []IInv
BY InitIInv, StepIInv, PTL DEF Spec

(* The variables have their types, and the reservation of a key is never   *)
(* held by nobody (sessionExecutionReservations, src/catscompany/index.ts),*)
(* which would block the conversation for good: whatever throws, and       *)
(* whichever of the exits a turn takes, it is released with the turn.      *)
THEOREM TypeCorrect == Spec => []TypeOK
BY Invariant, IInvTypes, PTL

(* A key has one turn at a time: tryReserveSessionExecution and the drain  *)
(* start one only when none is in flight, whatever a turn waits for, also  *)
(* when a /clear has made it stale and while destroy() runs.               *)
THEOREM OneTurnHolds == Spec => []OneTurn
BY Invariant, IInvOneTurn, PTL

(* A message in messageQueue has a turn, a notice or a timer that will     *)
(* drain it, and an announced task a turn or a retry that will end it,     *)
(* except where one of the two error paths the model names has left them;  *)
(* when destroy() has ended no task is left.                               *)
THEOREM TendedHolds == Spec => []Tended
BY Invariant, IInvTended, PTL

(* The result of a sub-agent that ended by itself in this generation was   *)
(* consumed by a wait, told to the model or to the user, given up after    *)
(* MaxSends notices, or is still in a place from which it will be given.   *)
THEOREM NoResultLostHolds == Spec => []NoResultLost
BY Invariant, IInvNoResultLost, PTL

-----------------------------------------------------------------------------
(* The fence                                                               *)

Budget == [clear : Nat, cancel : Nat, fault : Nat, ask : Nat, wait : Nat, all : Nat]

\* the generation counts the /clear commands there were, until destroy() forgets it
Counted == budget \in Budget /\ (phase = "up" => gen + budget.clear = MaxClear)

\* the turns of ts whose model runs are among those whose model ran
Old(ts) == \A t \in ts : t.pc = "model" => \E o \in turns : o.item = t.item /\ o.pc = "model"

\* or were started for what is of this generation, before destroy()
Fresh(ts) == \A t \in ts : t.pc = "model" =>
    \/ \E o \in turns : o.item = t.item /\ o.pc = "model"
    \/ phase = "up" /\ ~Stale(t.item)

OldIn(c) == c \in Conf /\ Old(c.turns)

Fence == \A t \in turns' : t.pc = "model" /\ (\A o \in turns : o.item # t.item \/ o.pc # "model")
             => phase' = "up" /\ t.item.gen = MaxClear - budget'.clear

LEMMA SpendIs ==
    ASSUME budget \in Budget
    PROVE  /\ Spend("clear") => budget' \in Budget /\ budget'.clear = budget.clear - 1
           /\ Spend("cancel") => budget' \in Budget /\ budget'.clear = budget.clear
           /\ Spend("fault") => budget' \in Budget /\ budget'.clear = budget.clear
           /\ Spend("ask") => budget' \in Budget /\ budget'.clear = budget.clear
           /\ Spend("wait") => budget' \in Budget /\ budget'.clear = budget.clear
<1>1. ASSUME Spend("clear")
      PROVE  budget' \in Budget /\ budget'.clear = budget.clear - 1
  <2>1. budget' = [clear |-> budget.clear - 1, cancel |-> budget.cancel, fault |-> budget.fault,
                    ask |-> budget.ask, wait |-> budget.wait, all |-> budget.all - 1]
    BY <1>1 DEF Budget, Spend
  <2>2. budget.clear > 0 /\ budget.all > 0
    BY <1>1 DEF Budget, Spend
  <2> QED BY <2>1, <2>2 DEF Budget
<1>2. ASSUME Spend("cancel") PROVE budget' \in Budget /\ budget'.clear = budget.clear
  <2>1. budget' = [clear |-> budget.clear, cancel |-> budget.cancel - 1, fault |-> budget.fault,
                    ask |-> budget.ask, wait |-> budget.wait, all |-> budget.all - 1]
    BY <1>2 DEF Budget, Spend
  <2>2. budget.cancel > 0 /\ budget.all > 0
    BY <1>2 DEF Budget, Spend
  <2> QED BY <2>1, <2>2 DEF Budget
<1>3. ASSUME Spend("fault") PROVE budget' \in Budget /\ budget'.clear = budget.clear
  <2>1. budget' = [clear |-> budget.clear, cancel |-> budget.cancel, fault |-> budget.fault - 1,
                    ask |-> budget.ask, wait |-> budget.wait, all |-> budget.all - 1]
    BY <1>3 DEF Budget, Spend
  <2>2. budget.fault > 0 /\ budget.all > 0
    BY <1>3 DEF Budget, Spend
  <2> QED BY <2>1, <2>2 DEF Budget
<1>4. ASSUME Spend("ask") PROVE budget' \in Budget /\ budget'.clear = budget.clear
  <2>1. budget' = [clear |-> budget.clear, cancel |-> budget.cancel, fault |-> budget.fault,
                    ask |-> budget.ask - 1, wait |-> budget.wait, all |-> budget.all - 1]
    BY <1>4 DEF Budget, Spend
  <2>2. budget.ask > 0 /\ budget.all > 0
    BY <1>4 DEF Budget, Spend
  <2> QED BY <2>1, <2>2 DEF Budget
<1>5. ASSUME Spend("wait") PROVE budget' \in Budget /\ budget'.clear = budget.clear
  <2>1. budget' = [clear |-> budget.clear, cancel |-> budget.cancel, fault |-> budget.fault,
                    ask |-> budget.ask, wait |-> budget.wait - 1, all |-> budget.all - 1]
    BY <1>5 DEF Budget, Spend
  <2>2. budget.wait > 0 /\ budget.all > 0
    BY <1>5 DEF Budget, Spend
  <2> QED BY <2>1, <2>2 DEF Budget
<1> QED BY <1>1, <1>2, <1>3, <1>4, <1>5

\* a step that starts no model but for what is of this generation
LEMMA FreshStep ==
    ASSUME IInv, Counted, Fresh(turns'), gen' = gen, phase' = phase,
           \/ UNCHANGED budget
           \/ Spend("cancel") \/ Spend("fault") \/ Spend("ask") \/ Spend("wait")
    PROVE  Fence /\ Counted'
<1>1. budget' \in Budget /\ budget'.clear = budget.clear
  BY SpendIs DEF Counted
<1>2. Counted'
  BY <1>1 DEF Counted
<1>3. budget.clear \in Nat /\ gen \in Nat /\ MaxClear \in Nat
  BY NowGood, ConnectorAssumption DEF Counted, Budget
<1>4. Fence
  BY <1>1, <1>3 DEF Counted, Fresh, Fence, Stale
<1> QED BY <1>2, <1>4

LEMMA OldStep ==
    ASSUME IInv, Old(turns'), Counted'
    PROVE  Fence /\ Counted'
BY DEF Old, Fence

LEMMA OldFresh == ASSUME NEW ts, Old(ts) PROVE Fresh(ts)
BY DEF Old, Fresh

LEMMA NowOld == ASSUME IInv PROVE OldIn(Now) /\ Old(turns) /\ Now.turns = turns /\ turns \subseteq Turn
BY NowGood, ConfIs DEF OldIn, Old

LEMMA TurnsAre == ASSUME NEW c, Becomes(c) PROVE turns' = c.turns
BY DEF Becomes

LEMMA OldReleased == ASSUME NEW c, NEW t, OldIn(c) PROVE OldIn(Released(c, t))
BY DEF OldIn, Old, Released, Conf

LEMMA OldFinished == ASSUME NEW c, NEW t, OldIn(c) PROVE OldIn(Finished(c, t))
BY DEF OldIn, Old, Finished, Conf

LEMMA OldSkips == ASSUME NEW c, OldIn(c) PROVE OldIn(Skips(c))
BY DEF OldIn, Old, Skips, Conf

\* whatever else becomes of a configuration
LEMMA OldQueue == ASSUME NEW c, OldIn(c), NEW q \in Seq(Item) PROVE OldIn([c EXCEPT !.queue = q])
BY DEF OldIn, Old, Conf

LEMMA OldBatch == ASSUME NEW c, OldIn(c), NEW S \in SUBSET Agent PROVE OldIn([c EXCEPT !.batch = S])
BY DEF OldIn, Old, Conf

LEMMA OldSlips ==
    ASSUME NEW c, OldIn(c), NEW S \in SUBSET {"queue", "task"} PROVE OldIn([c EXCEPT !.slips = S])
BY DEF OldIn, Old, Conf

LEMMA OldNotices == ASSUME NEW c, OldIn(c), NEW S \in SUBSET Item PROVE OldIn([c EXCEPT !.notices = S])
BY DEF OldIn, Old, Conf

LEMMA OldAt ==
    ASSUME IInv, NEW t \in turns, NEW pc \in {"reply", "fallback"}
    PROVE  OldIn(At(Now, t, pc))
<1> DEFINE u == [t EXCEPT !.pc = pc]
<1>1. u \in Turn /\ u.pc = pc /\ Now \in Conf /\ Old(Now.turns)
  BY TurnIs, NowOld DEF Turn, OldIn
<1> HIDE DEF u
<1>2. At(Now, t, pc) = [Now EXCEPT !.turns = (@ \ {t}) \cup {u}]
  BY DEF At, u
<1> QED BY <1>1, <1>2 DEF OldIn, Old, Conf

LEMMA OldInterrupted == ASSUME NEW c, OldIn(c) PROVE OldIn(Interrupted(c))
<1> DEFINE stop(t) == [t EXCEPT !.stopped = @ \/ t.pc = "model"]
           X == {stop(t) : t \in c.turns}
<1>1. c \in Conf /\ Old(c.turns) /\ c.turns \subseteq Turn
  BY ConfIs DEF OldIn
<1>2. ASSUME NEW t \in c.turns
      PROVE  stop(t) \in Turn /\ stop(t).item = t.item /\ stop(t).pc = t.pc
  BY <1>1 DEF Turn
<1> HIDE DEF stop
<1>3. X \subseteq Turn /\ Old(X)
  BY <1>1, <1>2 DEF Old
<1>4. Interrupted(c) = [c EXCEPT !.turns = X]
  BY DEF Interrupted, stop
<1> HIDE DEF X
<1> QED BY <1>1, <1>3, <1>4 DEF OldIn, Conf

LEMMA OldCancelled == ASSUME NEW c, OldIn(c) PROVE OldIn(Cancelled(c))
<1> DEFINE was(t) == [t EXCEPT !.task = FALSE]
           X == {was(t) : t \in c.turns}
<1>1. c \in Conf /\ Old(c.turns) /\ c.turns \subseteq Turn
  BY ConfIs DEF OldIn
<1>2. ASSUME NEW t \in c.turns
      PROVE  was(t) \in Turn /\ was(t).item = t.item /\ was(t).pc = t.pc
  BY <1>1 DEF Turn
<1> HIDE DEF was
<1>3. X \subseteq Turn /\ Old(X)
  BY <1>1, <1>2 DEF Old
<1>4. Cancelled(c) = [c EXCEPT !.task = FALSE, !.turns = X, !.slips = @ \ {"task"}]
  BY DEF Cancelled, was
<1> HIDE DEF X
<1> QED BY <1>1, <1>3, <1>4 DEF OldIn, Conf

\* A turn that starts for an item that is not stale, before destroy()
LEMMA FreshStarts ==
    ASSUME NEW c, OldIn(c), NEW t, phase = "up", ~Stale(t.item)
    PROVE  Fresh(Starts(c, t).turns)
BY DEF OldIn, Old, Fresh, Starts, Conf

LEMMA NewTurnItem ==
    ASSUME NEW it, NEW via PROVE NewTurn(it, via).item = it
BY DEF NewTurn

\* a drain takes what is stale off the queue before it starts a turn
LEMMA FreshDrained == ASSUME NEW c, OldIn(c) PROVE Fresh(Drained(c).turns)
<1> DEFINE q     == c.queue
           n     == FirstKept(q)
           rest  == SubSeq(q, n, Len(q))
           quiet == {q[i].of : i \in {j \in 1..(n - 1) : ~Stale(q[j]) /\ ~Drop(q[j])}}
           left  == [c EXCEPT !.queue = rest, !.batch = @ \cup quiet, !.slips = @ \ {"queue"}]
           t     == NewTurn(Head(rest), "drain")
           d     == Drained(c)
<1>1. d = CASE phase # "up" \/ c.queue = <<>> -> [c EXCEPT !.slips = @ \ {"queue"}]
            [] phase = "up" /\ rest # <<>> /\ Head(rest).notice ->
                  [left EXCEPT !.queue = Tail(rest), !.notices = @ \cup {Head(rest)}]
            [] phase = "up" /\ rest # <<>> /\ ~Head(rest).notice /\ CanReserve(c.taken, c.turns) ->
                  Starts([left EXCEPT !.queue = Tail(rest)], t)
            [] OTHER -> left
  BY DEF Drained
<1>2. c \in Conf /\ Old(c.turns) /\ q \in Seq(Item)
  BY ConfIs DEF OldIn
<1>3. rest # <<>> => ~Stale(Head(rest))
  <2>1. n \in 1..(Len(q) + 1) /\ (n <= Len(q) => ~Stale(q[n]))
    BY <1>2, FirstKeptIs
  <2> HIDE DEF n
  <2>2. ((rest = <<>>) <=> (n = Len(q) + 1)) /\ (n <= Len(q) => Head(rest) = q[n])
    BY <1>2, <2>1, Suffix
  <2>3. Len(q) \in Nat
    BY <1>2
  <2> HIDE DEF rest, q
  <2> QED BY <2>1, <2>2, <2>3
<1> HIDE DEF d, rest, quiet
<1>4. /\ [c EXCEPT !.slips = @ \ {"queue"}].turns = c.turns /\ left.turns = c.turns
      /\ [left EXCEPT !.queue = Tail(rest), !.notices = @ \cup {Head(rest)}].turns = c.turns
      /\ Starts([left EXCEPT !.queue = Tail(rest)], t).turns = c.turns \cup {t}
  <2> HIDE DEF t
  <2> QED BY <1>2 DEF Conf, Starts
<1>5. Fresh(c.turns)
  BY <1>2, OldFresh
<1>6. t.item = Head(rest)
  BY NewTurnItem
<1> HIDE DEF t, left
<1>7. phase = "up" /\ rest # <<>> => Fresh(c.turns \cup {t})
  BY <1>3, <1>5, <1>6 DEF Fresh
<1> QED BY <1>1, <1>4, <1>5, <1>7 DEF d

\* the steps that leave the turns alone
LEMMA TurnsStand ==
    ASSUME IInv, Counted, turns' = turns, gen' = gen, phase' = phase,
           \/ UNCHANGED budget
           \/ Spend("cancel") \/ Spend("fault") \/ Spend("ask") \/ Spend("wait")
    PROVE  Fence /\ Counted'
BY NowOld, OldFresh, FreshStep

\* the steps that drain, in a configuration where no model was started
LEMMA DrainFenced ==
    ASSUME IInv, Counted, NEW c, OldIn(c), Becomes(Drained(c)), gen' = gen, phase' = phase,
           \/ UNCHANGED budget
           \/ Spend("cancel") \/ Spend("fault") \/ Spend("ask") \/ Spend("wait")
    PROVE  Fence /\ Counted'
BY FreshDrained, TurnsAre, FreshStep

LEMMA OldFenced ==
    ASSUME IInv, Counted, NEW c, OldIn(c), Becomes(c), gen' = gen, phase' = phase,
           \/ UNCHANGED budget
           \/ Spend("cancel") \/ Spend("fault") \/ Spend("ask") \/ Spend("wait")
    PROVE  Fence /\ Counted'
BY OldFresh, TurnsAre, FreshStep DEF OldIn

LEMMA ProcessMessageFenced ==
    ASSUME IInv, Counted, NEW u \in User, ProcessMessage(u) PROVE Fence /\ Counted'
<1> DEFINE it == NewItem("user", u, inbox[u].gen)
<1>1. gen' = gen /\ phase' = phase /\ UNCHANGED budget
  BY DEF ProcessMessage
<1>2. PICK c : /\ Becomes(c)
               /\ c = CASE Stale(it) \/ phase # "up" -> Now
                        [] ~Stale(it) /\ phase = "up" /\ ~CanReserve(reserved, turns) ->
                              [Now EXCEPT !.queue = Append(@, it)]
                        [] OTHER -> Starts(Now, NewTurn(it, "direct"))
  BY DEF ProcessMessage
<1>3. it \in Item
  <2>1. inbox[u].gen \in Nat
    BY NowGood DEF RestOK
  <2> QED BY <2>1, NewUserItem
<1> HIDE DEF it
<1>4. CASE Stale(it) \/ phase # "up"
  <2>1. c = Now
    BY <1>2, <1>4
  <2> QED BY <1>1, <1>2, <2>1, NowOld, OldFenced
<1>5. CASE ~Stale(it) /\ phase = "up" /\ ~CanReserve(reserved, turns)
  <2>1. c = [Now EXCEPT !.queue = Append(@, it)]
    BY <1>2, <1>5
  <2>2. Append(Now.queue, it) \in Seq(Item)
    BY <1>3, NowGood, ConfIs, Appended
  <2> QED BY <1>1, <1>2, <2>1, <2>2, NowOld, OldQueue, OldFenced
<1>6. CASE ~Stale(it) /\ phase = "up" /\ CanReserve(reserved, turns)
  <2>1. c = Starts(Now, NewTurn(it, "direct"))
    BY <1>2, <1>6
  <2>2. Fresh(c.turns)
    BY <1>6, <2>1, NowOld, NewTurnItem, FreshStarts
  <2>3. turns' = c.turns
    BY <1>2, TurnsAre
  <2> QED BY <1>1, <2>2, <2>3, FreshStep
<1> QED BY <1>4, <1>5, <1>6

LEMMA ClearFenced == ASSUME IInv, Counted, Clear PROVE Fence /\ Counted'
<1> DEFINE b == [Now EXCEPT !.queue = <<>>, !.batch = {}, !.slips = {}]
<1>1. gen' = gen + 1 /\ phase' = phase /\ Spend("clear") /\ Becomes(Cancelled(Interrupted(b)))
  BY DEF Clear
<1>2. OldIn(b)
  <2>1. <<>> \in Seq(Item)
    OBVIOUS
  <2> QED BY <2>1, NowOld DEF OldIn, Conf
<1> HIDE DEF b
<1>3. Old(turns')
  BY <1>1, <1>2, OldInterrupted, OldCancelled, TurnsAre DEF OldIn
<1>4. budget' \in Budget /\ budget'.clear = budget.clear - 1
  BY <1>1, SpendIs DEF Counted
<1>5. budget.clear \in Nat /\ gen \in Nat /\ MaxClear \in Nat
  BY NowGood, ConnectorAssumption DEF Counted, Budget
<1>6. Counted'
  BY <1>1, <1>4, <1>5 DEF Counted
<1> QED BY <1>3, <1>6, OldStep

LEMMA CancelFenced == ASSUME IInv, Counted, Cancel PROVE Fence /\ Counted'
<1>1. gen' = gen /\ phase' = phase /\ Spend("cancel") /\ Becomes(Cancelled(Interrupted(Now)))
  BY DEF Cancel
<1>2. OldIn(Cancelled(Interrupted(Now)))
  BY NowOld, OldInterrupted, OldCancelled
<1> QED BY <1>1, <1>2, OldFenced

LEMMA HydrateReturnsFenced ==
    ASSUME IInv, Counted, NEW t \in turns, HydrateReturns(t) PROVE Fence /\ Counted'
<1> DEFINE u == [t EXCEPT !.pc = "model", !.task = TRUE]
           on == [Now EXCEPT !.turns = (@ \ {t}) \cup {u}, !.task = TRUE]
<1>1. gen' = gen /\ phase' = phase /\ UNCHANGED budget
  BY DEF HydrateReturns
<1>2. CASE Stale(t.item) \/ phase # "up"
  <2>1. Becomes(Drained(Released(Now, t)))
    BY <1>2 DEF HydrateReturns
  <2> QED BY <1>1, <2>1, NowOld, OldReleased, DrainFenced
<1>3. CASE ~Stale(t.item) /\ phase = "up"
  <2>1. Becomes(on)
    BY <1>3 DEF HydrateReturns
  <2>2. u.item = t.item /\ u \in Turn
    BY TurnIs DEF Turn
  <2> HIDE DEF u
  <2>3. on.turns = (turns \ {t}) \cup {u}
    BY <2>2, NowOld DEF OldIn, Conf
  <2> HIDE DEF on
  <2>4. Fresh(on.turns)
    BY <1>3, <2>2, <2>3, NowOld DEF Old, Fresh
  <2> QED BY <1>1, <2>1, <2>4, TurnsAre, FreshStep
<1> QED BY <1>2, <1>3

LEMMA HydrateFailsFenced ==
    ASSUME IInv, Counted, NEW t \in turns, HydrateFails(t) PROVE Fence /\ Counted'
<1> DEFINE r == Released(Now, t)
           S == IF running /\ t.item.tries > 0 THEN r.slips \cup {"task"} ELSE r.slips
           c == [r EXCEPT !.slips = S]
<1>1. gen' = gen /\ phase' = phase /\ Spend("fault") /\ Becomes(Drained(c))
  BY DEF HydrateFails
<1>2. OldIn(r)
  BY NowOld, OldReleased
<1> HIDE DEF r
<1>3. S \in SUBSET {"queue", "task"}
  BY <1>2, ConfIs DEF OldIn
<1> HIDE DEF S
<1>4. OldIn(c)
  BY <1>2, <1>3, OldSlips
<1> QED BY <1>1, <1>4, DrainFenced

LEMMA ModelReturnsFenced ==
    ASSUME IInv, Counted, NEW t \in turns, ModelReturns(t) PROVE Fence /\ Counted'
<1>1. gen' = gen /\ phase' = phase /\ UNCHANGED budget
  BY DEF ModelReturns
<1>2. CASE Becomes(Drained(Released(Now, t)))
  BY <1>1, <1>2, NowOld, OldReleased, DrainFenced
<1>3. CASE Becomes(At(Now, t, "reply"))
  BY <1>1, <1>3, OldAt, OldFenced
<1> QED BY <1>2, <1>3 DEF ModelReturns

LEMMA ReplyReturnsFenced ==
    ASSUME IInv, Counted, NEW t \in turns, ReplyReturns(t) PROVE Fence /\ Counted'
<1>1. gen' = gen /\ phase' = phase /\ UNCHANGED budget
      /\ Becomes(Drained(Finished(Released(Now, t), t)))
  BY DEF ReplyReturns
<1>2. OldIn(Finished(Released(Now, t), t))
  BY NowOld, OldReleased, OldFinished
<1> QED BY <1>1, <1>2, DrainFenced

\* what a turn that throws becomes
LEMMA FlushThrowsFresh == ASSUME IInv, NEW t \in turns PROVE Fresh(FlushThrows(t).turns)
<1>1. OldIn(Skips(Released(Now, t))) /\ OldIn(At(Now, t, "fallback"))
  BY NowOld, OldReleased, OldSkips, OldAt
<1> QED BY <1>1, OldFresh DEF FlushThrows, OldIn

LEMMA DirectUserThrowsFresh == ASSUME IInv, NEW t \in turns PROVE Fresh(DirectUserThrows(t).turns)
<1>1. OldIn(Released(Now, t)) /\ OldIn(Skips(Finished(Released(Now, t), t)))
  BY NowOld, OldReleased, OldFinished, OldSkips
<1>2. Fresh(Drained(Released(Now, t)).turns) /\ Fresh(Skips(Finished(Released(Now, t), t)).turns)
  BY <1>1, FreshDrained, OldFresh DEF OldIn
<1> QED BY <1>2 DEF DirectUserThrows

LEMMA DirectAgentThrowsFresh == ASSUME IInv, NEW t \in turns PROVE Fresh(DirectAgentThrows(t).turns)
<1> DEFINE again == [t.item EXCEPT !.tries = 1]
           c == [Now EXCEPT !.queue = Append(@, again)]
           b == IF Stale(t.item) \/ phase # "up" THEN Now ELSE c
<1>1. DirectAgentThrows(t) = Drained(Released(b, t))
  BY DEF DirectAgentThrows
<1>2. again \in Item
  BY TurnIs, TriedOnce
<1> HIDE DEF again
<1>3. Append(Now.queue, again) \in Seq(Item)
  BY <1>2, NowGood, ConfIs, Appended
<1>4. OldIn(c)
  BY <1>3, NowOld, OldQueue
<1> HIDE DEF c
<1>5. OldIn(b)
  BY <1>4, NowOld
<1> HIDE DEF b
<1> QED BY <1>1, <1>5, OldReleased, FreshDrained

LEMMA DrainedThrowsFresh ==
    ASSUME IInv, NEW t \in turns, t.pc = "model" PROVE Fresh(DrainedThrows(t).turns)
<1> DEFINE r == Released(Now, t)
           again == [t.item EXCEPT !.tries = @ + 1, !.notice = t.item.tries >= MaxTries]
<1>1. OldIn(r)
  BY NowOld, OldReleased
<1>2. Fresh(Drained(r).turns) /\ Fresh(Drained(Finished(r, t)).turns)
  BY <1>1, OldFinished, FreshDrained
<1>3. Unshift(r, again).turns = r.turns
  <2> HIDE DEF again
  <2> QED BY <1>1 DEF Unshift, OldIn, Conf
<1>4. Fresh(Unshift(r, again).turns)
  BY <1>1, <1>3, OldFresh DEF OldIn
<1> QED BY <1>2, <1>4 DEF DrainedThrows

LEMMA ModelThrowsFenced ==
    ASSUME IInv, Counted, NEW t \in turns, ModelThrows(t) PROVE Fence /\ Counted'
<1>1. gen' = gen /\ phase' = phase /\ Spend("fault") /\ t.pc = "model"
  BY DEF ModelThrows
<1>2. PICK c : /\ Becomes(c)
               /\ c = CASE t.via = "flush" -> FlushThrows(t)
                        [] t.via = "drain" -> DrainedThrows(t)
                        [] t.via = "direct" /\ t.item.kind = "user" -> DirectUserThrows(t)
                        [] OTHER -> DirectAgentThrows(t)
  BY DEF ModelThrows
<1>3. \/ c = FlushThrows(t) \/ c = DrainedThrows(t) \/ c = DirectUserThrows(t)
      \/ c = DirectAgentThrows(t)
  BY <1>2
<1>4. Fresh(c.turns)
  BY <1>1, <1>3, FlushThrowsFresh, DrainedThrowsFresh, DirectUserThrowsFresh, DirectAgentThrowsFresh
<1> QED BY <1>1, <1>2, <1>4, TurnsAre, FreshStep

LEMMA BatchReplyFailsFenced ==
    ASSUME IInv, Counted, NEW t \in turns, BatchReplyFails(t) PROVE Fence /\ Counted'
<1>1. gen' = gen /\ phase' = phase /\ Spend("fault") /\ Becomes(FlushThrows(t))
  BY DEF BatchReplyFails
<1> QED BY <1>1, FlushThrowsFresh, TurnsAre, FreshStep

LEMMA FallbackReturnsFenced ==
    ASSUME IInv, Counted, NEW t \in turns, FallbackReturns(t) PROVE Fence /\ Counted'
<1> DEFINE r == Released(Now, t)
           S == IF Stale(t.item) THEN r.batch ELSE r.batch \cup t.gives
           c == [r EXCEPT !.batch = S]
<1>1. gen' = gen /\ phase' = phase
  BY DEF FallbackReturns
<1>2. OldIn(r)
  BY NowOld, OldReleased
<1>3. CASE Becomes(Drained(r)) /\ UNCHANGED budget
  BY <1>1, <1>2, <1>3, DrainFenced
<1>4. CASE Becomes(Drained(c)) /\ Spend("fault")
  <2> HIDE DEF r
  <2>1. S \in SUBSET Agent
    BY <1>2, TurnIs, ConfIs DEF OldIn
  <2> HIDE DEF S
  <2>2. OldIn(c)
    BY <1>2, <2>1, OldBatch
  <2> QED BY <1>1, <1>4, <2>2, DrainFenced
<1> QED BY <1>3, <1>4 DEF FallbackReturns

LEMMA NoticeSentFenced ==
    ASSUME IInv, Counted, NEW it \in notices, NoticeSent(it) PROVE Fence /\ Counted'
<1> DEFINE c == [Now EXCEPT !.notices = Now.notices \ {it}]
<1>1. gen' = gen /\ phase' = phase /\ UNCHANGED budget /\ Becomes(Drained(c))
  BY DEF NoticeSent
<1>2. OldIn(c)
  <2>1. Now.notices \ {it} \in SUBSET Item
    BY NowGood, ConfIs
  <2> QED BY <2>1, NowOld, OldNotices
<1> QED BY <1>1, <1>2, DrainFenced

LEMMA NoticeFailsFenced ==
    ASSUME IInv, Counted, NEW it \in notices, NoticeFails(it) PROVE Fence /\ Counted'
<1> DEFINE c == [Now EXCEPT !.notices = Now.notices \ {it}]
           again == it.sends + 1 < MaxSends /\ ~Stale(it)
           d == Unshift(c, [it EXCEPT !.sends = @ + 1])
<1>1. gen' = gen /\ phase' = phase /\ Spend("fault") /\ Becomes(IF again THEN d ELSE Skips(c))
  BY DEF NoticeFails
<1>2. OldIn(c)
  <2>1. Now.notices \ {it} \in SUBSET Item
    BY NowGood, ConfIs
  <2> QED BY <2>1, NowOld, OldNotices
<1> HIDE DEF c
<1>3. d.turns = c.turns
  BY <1>2 DEF Unshift, OldIn, Conf
<1> HIDE DEF d, again
<1>4. Fresh(d.turns) /\ Fresh(Skips(c).turns)
  BY <1>2, <1>3, OldSkips, OldFresh DEF OldIn
<1>5. Fresh(turns')
  BY <1>1, <1>4, TurnsAre
<1> QED BY <1>1, <1>5, FreshStep

LEMMA FlushFenced == ASSUME IInv, Counted, Flush PROVE Fence /\ Counted'
<1> DEFINE it == NewItem("batch", None, gen)
           t == [NewTurn(it, "flush") EXCEPT !.gives = batch]
           b == [Now EXCEPT !.batch = {}]
<1>1. phase = "up" /\ gen' = gen /\ phase' = phase /\ UNCHANGED budget /\ Becomes(Starts(b, t))
  BY DEF Flush
<1>2. t.item = it /\ it.gen = gen
  BY DEF NewTurn, NewItem
<1>3. OldIn(b)
  BY NowOld, OldBatch
<1> HIDE DEF t, b, it
<1>4. Fresh(Starts(b, t).turns)
  BY <1>1, <1>2, <1>3, FreshStarts DEF Stale
<1> QED BY <1>1, <1>4, TurnsAre, FreshStep

\* The fence of injectMessage is the one it starts a turn behind.
LEMMA FreshInjected ==
    ASSUME IInv, NEW it \in Item, it.of \in Agent PROVE Fresh(Injected(it).turns)
<1> DEFINE b == [Now EXCEPT !.batch = Now.batch \cup {it.of}]
           q == [Now EXCEPT !.queue = Append(Now.queue, it)]
           s == Starts(Now, NewTurn(it, "direct"))
<1>1. \/ Injected(it) = Now \/ Injected(it) = Drained(b) \/ Injected(it) = q
      \/ Injected(it) = s /\ ~Stale(it) /\ phase = "up"
  BY DEF Injected
<1>2. OldIn(b)
  <2>1. Now.batch \cup {it.of} \in SUBSET Agent
    BY NowGood, ConfIs
  <2> QED BY <2>1, NowOld, OldBatch
<1>3. OldIn(q)
  <2>1. Append(Now.queue, it) \in Seq(Item)
    BY NowGood, ConfIs, Appended
  <2> QED BY <2>1, NowOld, OldQueue
<1>4. ~Stale(it) /\ phase = "up" => Fresh(s.turns)
  BY NowOld, NewTurnItem, FreshStarts
<1> HIDE DEF b, q, s
<1>5. Fresh(Now.turns) /\ Fresh(Drained(b).turns) /\ Fresh(q.turns)
  BY <1>2, <1>3, NowOld, FreshDrained, OldFresh DEF OldIn
<1> QED BY <1>1, <1>4, <1>5

LEMMA AskFenced == ASSUME IInv, Counted, NEW a \in Agent, Ask(a) PROVE Fence /\ Counted'
<1> DEFINE it == NewItem("ask", a, agent[a].gen)
<1>1. gen' = gen /\ phase' = phase /\ Spend("ask") /\ Becomes(Injected(it))
  BY DEF Ask
<1>2. it \in Item /\ it.of = a
  <2>1. agent[a].gen \in Nat
    BY NowGood DEF RestOK
  <2> QED BY <2>1, NewAgentItem
<1> HIDE DEF it
<1> QED BY <1>1, <1>2, FreshInjected, TurnsAre, FreshStep

LEMMA FinalizeSessionFenced ==
    ASSUME IInv, Counted, NEW a \in Agent, FinalizeSession(a) PROVE Fence /\ Counted'
<1> DEFINE it == NewItem("result", a, agent[a].gen)
<1>1. gen' = gen /\ phase' = phase /\ UNCHANGED budget
  BY DEF FinalizeSession
<1>2. CASE UNCHANGED conn
  BY <1>1, <1>2, TurnsStand DEF conn
<1>3. CASE Becomes(Injected(it))
  <2>1. it \in Item /\ it.of = a
    <3>1. agent[a].gen \in Nat
      BY NowGood DEF RestOK
    <3> QED BY <3>1, NewAgentItem
  <2> HIDE DEF it
  <2> QED BY <1>1, <1>3, <2>1, FreshInjected, TurnsAre, FreshStep
<1> QED BY <1>2, <1>3 DEF FinalizeSession

\* A wait changes the turn that waits, and its model ran.
LEMMA WaitingOld ==
    ASSUME IInv, NEW t \in turns, t.pc = "model", NEW u, u.item = t.item,
           turns' = (turns \ {t}) \cup {u}
    PROVE  Fresh(turns')
BY DEF Fresh

LEMMA ReleaseClaimsFresh ==
    ASSUME IInv, NEW t \in turns, t.pc = "model", NEW S, NEW taken, ReleaseClaims(t, S, taken)
    PROVE  Fresh(turns')
<1> DEFINE u == [t EXCEPT !.wait = {}, !.any = FALSE]
<1>1. PICK q : Becomes([Now EXCEPT !.turns = (@ \ {t}) \cup {u}, !.queue = q])
  BY DEF ReleaseClaims
<1>2. u.item = t.item
  BY TurnIs DEF Turn
<1> HIDE DEF u
<1>3. [Now EXCEPT !.turns = (@ \ {t}) \cup {u}, !.queue = q].turns = (turns \ {t}) \cup {u}
  BY NowOld DEF OldIn, Conf
<1>4. turns' = (turns \ {t}) \cup {u}
  BY <1>1, <1>3, TurnsAre
<1> QED BY <1>2, <1>4, WaitingOld

LEMMA WaitFenced ==
    ASSUME IInv, Counted, NEW t \in turns, NEW S, NEW any, Wait(t, S, any) PROVE Fence /\ Counted'
<1> DEFINE u == [t EXCEPT !.wait = S, !.any = any]
<1>1. gen' = gen /\ phase' = phase /\ Spend("wait") /\ t.pc = "model"
  BY DEF Wait, Calls
<1>2. CASE Ready(S, any)
  <2>1. Fresh(turns')
    BY <1>1, <1>2, ReleaseClaimsFresh DEF Wait
  <2> QED BY <1>1, <2>1, FreshStep
<1>3. CASE ~Ready(S, any)
  <2>1. Becomes([Now EXCEPT !.turns = (@ \ {t}) \cup {u}])
    BY <1>3 DEF Wait
  <2>2. u.item = t.item
    BY TurnIs DEF Turn
  <2> HIDE DEF u
  <2>3. [Now EXCEPT !.turns = (@ \ {t}) \cup {u}].turns = (turns \ {t}) \cup {u}
    BY NowOld DEF OldIn, Conf
  <2>4. turns' = (turns \ {t}) \cup {u}
    BY <2>1, <2>3, TurnsAre
  <2> QED BY <1>1, <2>2, <2>4, WaitingOld, FreshStep
<1> QED BY <1>2, <1>3

LEMMA WaitReturnsFenced ==
    ASSUME IInv, Counted, NEW t \in turns, WaitReturns(t) PROVE Fence /\ Counted'
<1>1. gen' = gen /\ phase' = phase /\ UNCHANGED budget /\ t.pc = "model"
  BY TurnIs DEF WaitReturns, TurnFits
<1>2. Fresh(turns')
  BY <1>1, ReleaseClaimsFresh DEF WaitReturns
<1> QED BY <1>1, <1>2, FreshStep

LEMMA ShutdownFenced ==
    ASSUME IInv, Counted, Destroy \/ StopSessions \/ Sweep PROVE Fence /\ Counted'
<1>1. phase' # "up" /\ UNCHANGED budget
  BY DEF Destroy, StopSessions, Sweep
<1>2. Counted'
  BY <1>1 DEF Counted
<1>3. CASE Destroy
  <2> DEFINE b == [Now EXCEPT !.queue = <<>>, !.taken = FALSE, !.batch = {}, !.slips = {}]
  <2>1. Becomes(Interrupted(b))
    BY <1>3 DEF Destroy
  <2>2. OldIn(b)
    <3>1. <<>> \in Seq(Item)
      OBVIOUS
    <3> QED BY <3>1, NowOld DEF OldIn, Conf
  <2> HIDE DEF b
  <2> QED BY <1>2, <2>1, <2>2, OldInterrupted, TurnsAre, OldStep DEF OldIn
<1>4. CASE StopSessions
  BY <1>2, <1>4, NowOld, OldStep DEF StopSessions, conn
<1>5. CASE Sweep
  BY <1>2, <1>5, NowOld, OldCancelled, TurnsAre, OldStep DEF Sweep, OldIn
<1> QED BY <1>3, <1>4, <1>5

LEMMA StepFenced == IInv /\ Counted /\ [Next]_vars => Fence /\ Counted'
<1> SUFFICES ASSUME IInv, Counted, [Next]_vars PROVE Fence /\ Counted'
  OBVIOUS
<1>1. ASSUME NEW u \in User, OnMessage(u) PROVE Fence /\ Counted'
  BY <1>1, TurnsStand DEF OnMessage, conn
<1>2. ASSUME NEW u \in User, RefuseMessage(u) PROVE Fence /\ Counted'
  BY <1>2, TurnsStand DEF RefuseMessage, conn
<1>3. ASSUME NEW u \in User, ProcessMessage(u) PROVE Fence /\ Counted'
  BY <1>3, ProcessMessageFenced
<1>4. CASE Clear \/ Cancel
  BY <1>4, ClearFenced, CancelFenced
<1>5. CASE TurnStep
  <2>1. PICK t \in turns : HydrateReturns(t) \/ ModelReturns(t) \/ ReplyReturns(t)
                           \/ FallbackReturns(t) \/ WaitReturns(t)
    BY <1>5 DEF TurnStep
  <2> QED BY <2>1, HydrateReturnsFenced, ModelReturnsFenced, ReplyReturnsFenced,
          FallbackReturnsFenced, WaitReturnsFenced
<1>6. CASE ToolCall
  <2>1. PICK t \in turns : \/ ConsumeQueued(t)
                           \/ \E a \in Agent : Spawn(t, a) \/ Direct(t, a)
                           \/ \E S \in SUBSET Agent, any \in BOOLEAN : Wait(t, S, any)
    BY <1>6 DEF ToolCall
  <2>2. CASE ConsumeQueued(t)
    BY <2>2, TurnsStand DEF ConsumeQueued
  <2>3. CASE \E a \in Agent : Spawn(t, a) \/ Direct(t, a)
    BY <2>3, TurnsStand DEF Spawn, Direct, conn
  <2> QED BY <2>1, <2>2, <2>3, WaitFenced
<1>7. CASE Failure
  <2>1. PICK t \in turns : HydrateFails(t) \/ ModelThrows(t) \/ BatchReplyFails(t)
    BY <1>7 DEF Failure
  <2> QED BY <2>1, HydrateFailsFenced, ModelThrowsFenced, BatchReplyFailsFenced
<1>8. CASE DrainTimer
  <2>1. Becomes(Drained(Now)) /\ gen' = gen /\ phase' = phase /\ UNCHANGED budget
    BY <1>8 DEF DrainTimer
  <2> QED BY <2>1, NowOld, DrainFenced
<1>9. CASE Flush
  BY <1>9, FlushFenced
<1>10. ASSUME NEW it \in notices, NoticeSent(it) \/ NoticeFails(it) PROVE Fence /\ Counted'
  BY <1>10, NoticeSentFenced, NoticeFailsFenced
<1>11. ASSUME NEW a \in Agent, Ask(a) \/ FinalizeSession(a) PROVE Fence /\ Counted'
  BY <1>11, AskFenced, FinalizeSessionFenced
<1>12. ASSUME NEW a \in Agent, RunEnds(a) PROVE Fence /\ Counted'
  BY <1>12, TurnsStand DEF RunEnds, conn
<1>13. CASE Destroy \/ StopSessions \/ Sweep
  BY <1>13, ShutdownFenced
<1>14. CASE UNCHANGED vars
  BY <1>14, TurnsStand DEF vars, conn
<1> QED BY <1>1, <1>2, <1>3, <1>4, <1>5, <1>6, <1>7, <1>8, <1>9, <1>10, <1>11, <1>12, <1>13, <1>14
        DEF Next

LEMMA InitCounted == Init => Counted
<1> SUFFICES ASSUME Init PROVE Counted
  OBVIOUS
<1>1. /\ MaxClear \in Nat /\ MaxCancel \in Nat /\ MaxFault \in Nat /\ MaxAsk \in Nat
      /\ MaxWait \in Nat /\ MaxEvents \in Nat
  BY ConnectorAssumption
<1> QED BY <1>1 DEF Init, Counted, Budget

(* No model starts for what entered before the last /clear, nor once       *)
(* destroy() has begun: whichever await a message or a result was at, the  *)
(* generation is looked at again before the reservation is given, and the  *)
(* drain takes what is stale off the queue first.                          *)
THEOREM FencedHolds == Spec => Fenced
<1>1. IInv /\ Counted /\ [Next]_vars => [Fence]_vars
  BY StepFenced
<1>2. Spec => [](IInv /\ Counted)
  BY InitIInv, StepIInv, InitCounted, StepFenced, PTL DEF Spec
<1>3. Spec => [][Fence]_vars
  BY <1>1, <1>2, PTL DEF Spec
<1> QED BY <1>3 DEF Fenced, Fence

=============================================================================
