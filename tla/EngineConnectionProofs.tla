----------------------- MODULE EngineConnectionProofs -----------------------
(***************************************************************************)
(* What the peer of an engine connection may rely on, for any number of    *)
(* sessions, turns and prompt goroutines and for any limits: the events of *)
(* a session arrive without a gap and in the order of the protocol, a      *)
(* request id runs once, and an aborted turn delivers no text; the byte    *)
(* counters are what is retained, nothing outgrows its limit, and nothing  *)
(* is left when the connection has ended.                                  *)
(***************************************************************************)
EXTENDS EngineConnection, TLAPS

USE ZenonT(30)

----------------------------------------------------------------------------
(* Shapes.  The byte counters are integers here: that they do not fall     *)
(* below zero is part of BudgetExact.                                      *)

PCs   == {"idle", "starting", "provider", "finishing", "reply"}
Todos == {<<"chunk", "usage", "done">>, <<"chunk", "done">>, <<"usage", "done">>, <<"done">>,
          <<"usage", "failed">>, <<"failed">>, << >>}

Record == [turn : Nat, seq : Nat, delivered : Nat, floor : Nat, bytes : Int,
           suspended : BOOLEAN, refused : BOOLEAN, running : BOOLEAN,
           closed : BOOLEAN, cancelled : BOOLEAN, replay : SUBSET Requests]
Worker == [pc : PCs, s : Ids \union {0}, request : Requests \union {NoRequest}, todo : Todos]

Shapes ==
    /\ ses \in [Ids -> Record]
    /\ hist \in [Ids -> Seq(Event)] /\ sent \in [Ids -> Seq(Event)]
    /\ issued \in 0 .. MaxIssued /\ alive \subseteq 1 .. issued
    /\ work \in [Workers -> Worker]
    /\ cur = NoEvent \/ cur \in [s : Ids, event : Event]
    /\ aborted \subseteq Ids \X Nat
    /\ runs \in Seq(Ids \X (Requests \union {NoRequest}))
    /\ \A s \in Ids : s > issued => ses[s] = Fresh /\ sent[s] = << >>
    /\ \A s \in Ids : s \notin alive => hist[s] = << >>

----------------------------------------------------------------------------
(* Engine.mu and the turns.                                                *)

Holds(w)  == work[w].pc \in {"starting", "finishing"}
Active(w) == work[w].pc \in {"starting", "provider", "finishing"}

\* One goroutine at a time is inside a handler that holds Engine.mu over
\* several steps, and only it is emitting.
LockInv ==
    /\ \A v, w \in Workers : Holds(v) /\ Holds(w) => v = w
    /\ reader = "flush" => flushing \in alive /\ \A w \in Workers : ~Holds(w)
    /\ cur # NoEvent => \E w \in Workers : Holds(w) /\ work[w].s = cur.s

\* A running turn has one goroutine, and its session is live.
TurnInv ==
    /\ \A w \in Workers : Active(w) => work[w].s \in alive /\ ses[work[w].s].running
    /\ \A v, w \in Workers : Active(v) /\ Active(w) /\ work[v].s = work[w].s => v = w
    /\ \A s \in alive : ses[s].running => \E w \in Workers : Active(w) /\ work[w].s = s

----------------------------------------------------------------------------
(* One session, as a relation between its record r, its retained events h, *)
(* its delivered events t, the goroutines W of its turn, its aborted turns *)
(* A, whether one of its events is being emitted (on) and whether it is    *)
(* being replayed (fl).                                                    *)

\* The retained events are the tail after the floor; a session that is not
\* suspended is behind by the event that is being emitted and no other,
\* unless it is being replayed.
SesHist(r, h, on, fl) ==
    /\ r.floor + Len(h) = r.seq
    /\ \A i \in 1 .. Len(h) : h[i].seq = r.floor + i
    /\ r.delivered <= r.seq
    /\ on => r.delivered < r.seq
    /\ ~r.suspended /\ ~fl /\ on => r.delivered = r.seq - 1
    /\ ~r.suspended /\ ~fl /\ ~on => r.delivered = r.seq
    /\ fl => r.delivered >= r.floor

\* Event e may come right after the first n of the delivered events.
After(t, n, e) == IF n = 0 THEN e.kind = "started" /\ e.turn = 1 ELSE Follows(t[n], e)

\* The order holds within the retained events and where they meet the
\* delivered ones.
SesOrder(r, h, t) ==
    /\ r.seq = 0 <=> r.turn = 0
    /\ r.running => r.seq > 0
    /\ \A i \in 1 .. Len(h) : r.floor + i <= Len(t) => h[i] = t[r.floor + i]
    /\ \A i \in 2 .. Len(h) : Follows(h[i - 1], h[i])
    /\ Len(h) > 0 /\ r.floor <= Len(t) => After(t, r.floor, h[1])

\* Event e may be the last one so far.
LastOK(r, W, e) ==
    /\ e.turn = r.turn
    /\ ~r.running => Rank[e.kind] = 4
    /\ \A x \in W :
        /\ x.pc # "finishing" => e.kind = "started"
        /\ x.pc = "finishing" /\ x.todo = << >> => Rank[e.kind] = 4
        /\ x.pc = "finishing" /\ x.todo # << >> => Rank[e.kind] < Rank[Head(x.todo)]

SesLast(r, h, t, W) ==
    /\ Len(h) > 0 => LastOK(r, W, h[Len(h)])
    /\ Len(t) > 0 /\ Len(t) = r.seq => LastOK(r, W, t[Len(t)])

\* No retained text belongs to an aborted turn, before the provider returns
\* the turn has no text, and an aborted turn has none left to emit.
SesSilent(r, h, W, A) ==
    /\ \A i \in 1 .. Len(h) :
        /\ h[i].turn <= r.turn
        /\ h[i].kind = "chunk" => h[i].turn \notin A
    /\ \A x \in W :
        /\ x.pc # "finishing" =>
             \A i \in 1 .. Len(h) : h[i].kind = "chunk" => h[i].turn < r.turn
        /\ r.turn \in A =>
             /\ x.pc # "starting"
             /\ x.pc = "provider" => r.cancelled
             /\ x.pc = "finishing" => x.todo = << >> \/ Head(x.todo) # "chunk"

Live(r, h, t, W, A, on, fl) ==
    /\ SesHist(r, h, on, fl) /\ SesOrder(r, h, t)
    /\ SesLast(r, h, t, W) /\ SesSilent(r, h, W, A)

\* What stays true of a session that is gone: the delivered events are the
\* first ones, in the order of the protocol.
Ever(r, t, A) ==
    /\ Len(t) = r.delivered
    /\ \A i \in 1 .. Len(t) : t[i].seq = i /\ After(t, i - 1, t[i])
    /\ \A n \in A : n <= r.turn

\* The event e that is being emitted is the last one of its session.
CurOK(r, h, t, W, e) ==
    /\ e.seq = r.seq
    /\ LastOK(r, W, e)
    /\ Len(h) > 0 => e = h[Len(h)]
    /\ Len(t) + 1 = r.seq => After(t, Len(t), e)

----------------------------------------------------------------------------
OnTurn(s)  == {work[w] : w \in {v \in Workers : Active(v) /\ work[v].s = s}}
Aborted(s) == {x[2] : x \in {y \in aborted : y[1] = s}}
Emitted(s) == cur # NoEvent /\ cur.s = s
Flushed(s) == reader = "flush" /\ flushing = s

SesInv ==
    /\ \A s \in Ids : Ever(ses[s], sent[s], Aborted(s))
    /\ \A s \in alive :
         Live(ses[s], hist[s], sent[s], OnTurn(s), Aborted(s), Emitted(s), Flushed(s))
    /\ cur # NoEvent =>
         CurOK(ses[cur.s], hist[cur.s], sent[cur.s], OnTurn(cur.s), cur.event)

(* Request ids: what ran is remembered or still running.                   *)
Ran(s, r) == r \in ses[s].replay \/ \E x \in OnTurn(s) : x.request = r

RunInv ==
    /\ RunOnce
    /\ \A i \in 1 .. Len(runs) :
        runs[i][1] <= issued /\ (runs[i][2] # NoRequest => Ran(runs[i][1], runs[i][2]))

EngineInv == Shapes /\ LockInv /\ TurnInv /\ SesInv /\ RunInv

----------------------------------------------------------------------------
(* Facts about one session.                                                *)

LEMMA RankFacts ==
    /\ Rank["started"] = 1 /\ Rank["chunk"] = 2 /\ Rank["usage"] = 3
    /\ Rank["done"] = 4 /\ Rank["failed"] = 4
    /\ \A k \in Kinds : Rank[k] \in 1 .. 4
    /\ \A k \in Kinds : Rank[k] = 1 => k = "started"
  BY SMT DEF Rank, Kinds

\* What is left to emit is in order, and its first event is text at most once.
LEMMA TodoFacts ==
    ASSUME NEW todo \in Todos, todo # << >>
    PROVE  /\ Head(todo) \in Kinds \ {"started"}
           /\ Tail(todo) \in Todos
           /\ Tail(todo) = << >> => Rank[Head(todo)] = 4
           /\ Tail(todo) # << >> => /\ Rank[Head(todo)] < Rank[Head(Tail(todo))]
                                    /\ Head(Tail(todo)) # "chunk"
<1>1. CASE todo = <<"chunk", "usage", "done">>
  BY SMT, <1>1, RankFacts DEF Todos, Kinds
<1>2. CASE todo = <<"chunk", "done">>
  BY SMT, <1>2, RankFacts DEF Todos, Kinds
<1>3. CASE todo = <<"usage", "done">>
  BY SMT, <1>3, RankFacts DEF Todos, Kinds
<1>4. CASE todo = <<"done">>
  BY SMT, <1>4, RankFacts DEF Todos, Kinds
<1>5. CASE todo = <<"usage", "failed">>
  BY SMT, <1>5, RankFacts DEF Todos, Kinds
<1>6. CASE todo = <<"failed">>
  BY SMT, <1>6, RankFacts DEF Todos, Kinds
<1> QED BY <1>1, <1>2, <1>3, <1>4, <1>5, <1>6 DEF Todos

\* The events that end a turn come after its first one.
LEMMA LastEventsFacts ==
    ASSUME NEW reason \in {"completed", "failed", "cancelled"}, NEW usage \in BOOLEAN
    PROVE  /\ LastEvents(reason, usage) \in Todos \ {<< >>}
           /\ Rank["started"] < Rank[Head(LastEvents(reason, usage))]
           /\ reason = "cancelled" => Head(LastEvents(reason, usage)) # "chunk"
<1>1. LastEvents(reason, usage) \in Todos \ {<< >>}
  BY DEF LastEvents, Todos
<1>2. Head(LastEvents(reason, usage)) \in Kinds \ {"started"}
  BY <1>1, TodoFacts
<1>3. Rank["started"] < Rank[Head(LastEvents(reason, usage))]
  BY SMT, <1>2, RankFacts DEF Kinds
<1>4. reason = "cancelled" => Head(LastEvents(reason, usage)) # "chunk"
  BY SMT DEF LastEvents
<1> QED BY <1>1, <1>3, <1>4

LEMMA Shift ==
    ASSUME NEW a \in Int, NEW b, b = a + 1, NEW i \in Int
    PROVE  b + i = a + (i + 1)
  BY SMT

\* evictOldest: the floor follows the oldest event.
LEMMA EvictLive ==
    ASSUME NEW r \in Record, NEW q \in Record, NEW h \in Seq(Event), NEW t \in Seq(Event),
           NEW W, NEW A, NEW on \in BOOLEAN, Live(r, h, t, W, A, on, FALSE), Len(h) > 0,
           q.floor = r.floor + 1, q.seq = r.seq, q.turn = r.turn, q.delivered = r.delivered,
           q.suspended = r.suspended, q.running = r.running, q.cancelled = r.cancelled
    PROVE  /\ Live(q, Tail(h), t, W, A, on, FALSE)
           /\ \A e : CurOK(r, h, t, W, e) => CurOK(q, Tail(h), t, W, e)
<1>0. q.floor = r.floor + 1 /\ r.floor \in Int
  BY SMT DEF Record
<1> DEFINE g == Tail(h)
<1> g \in Seq(Event) /\ Len(h) \in Nat /\ Len(g) \in Nat
  BY SMT
<1>1. /\ Len(g) = Len(h) - 1
      /\ \A i \in 1 .. Len(g) : i + 1 \in 1 .. Len(h) /\ g[i] = h[i + 1]
  BY SMT
<1> USE <1>1
<1> HIDE DEF g
<1>2. r.floor \in Nat /\ r.seq \in Nat /\ r.turn \in Nat /\ r.delivered \in Nat
  BY DEF Record
<1>3. SesHist(q, g, on, FALSE)
  <2>1. \A i \in 1 .. Len(g) : g[i].seq = q.floor + i
    <3> TAKE i \in 1 .. Len(g)
    <3>1. i + 1 \in 1 .. Len(h) /\ g[i] = h[i + 1]
      OBVIOUS
    <3>2. h[i + 1].seq = r.floor + (i + 1)
      BY <3>1 DEF Live, SesHist
    <3>3. i \in Int
      BY SMT
    <3>4. q.floor + i = r.floor + (i + 1)
      BY <3>3, <1>0, Shift
    <3> QED BY <3>1, <3>2, <3>4, Zenon
  <2> QED BY SMT, <2>1, <1>2 DEF Live, SesHist
<1>4. SesOrder(q, g, t)
  <2>1. (q.seq = 0 <=> q.turn = 0) /\ (q.running => q.seq > 0)
    BY DEF Live, SesOrder
  <2>2. \A i \in 1 .. Len(g) : q.floor + i <= Len(t) => g[i] = t[q.floor + i]
    <3> TAKE i \in 1 .. Len(g)
    <3>1. i + 1 \in 1 .. Len(h) /\ g[i] = h[i + 1] 
      OBVIOUS
    <3>2. i \in Int
      BY SMT
    <3>3. q.floor + i = r.floor + (i + 1)
      BY <3>2, <1>0, Shift
    <3> QED BY <3>1, <3>3 DEF Live, SesOrder
  <2>3. \A i \in 2 .. Len(g) : Follows(g[i - 1], g[i])
    <3> SUFFICES ASSUME NEW i \in 2 .. Len(g) PROVE Follows(g[i - 1], g[i])
      OBVIOUS
    <3>1. g[i - 1] = h[i] /\ g[i] = h[i + 1] /\ i + 1 \in 2 .. Len(h)
      BY SMT
    <3>2. Follows(h[(i + 1) - 1], h[i + 1])
      BY <3>1 DEF Live, SesOrder
    <3> QED BY SMT, <3>1, <3>2
  <2>4. ASSUME Len(g) > 0, q.floor <= Len(t) PROVE After(t, q.floor, g[1])
    <3>1. g[1] = h[2] /\ 2 \in 2 .. Len(h) /\ 1 \in 1 .. Len(h)
      BY SMT, <2>4
    <3>2. Follows(h[2 - 1], h[2])
      BY <3>1 DEF Live, SesOrder
    <3>3. h[1] = t[q.floor]
      BY <3>1, <1>2, <2>4 DEF Live, SesOrder
    <3> QED BY SMT, <3>1, <3>2, <3>3, <1>2 DEF After
  <2> QED BY <2>1, <2>2, <2>3, <2>4 DEF SesOrder
<1>5. Len(g) > 0 => g[Len(g)] = h[Len(h)]
  BY SMT
<1>6. SesLast(q, g, t, W)
  BY <1>5 DEF Live, SesLast, LastOK
<1>7. SesSilent(q, g, W, A)
  BY Zenon DEF Live, SesSilent
<1>8. ASSUME NEW e, CurOK(r, h, t, W, e) PROVE CurOK(q, g, t, W, e)
  BY <1>5, <1>8 DEF CurOK, LastOK
<1> QED BY <1>3, <1>4, <1>6, <1>7, <1>8 DEF Live, g

\* emit, first part: an event that may come after the last one is appended.
LEMMA EmitLive ==
    ASSUME NEW r \in Record, NEW q \in Record, NEW h \in Seq(Event), NEW t \in Seq(Event),
           NEW e \in Event, NEW W, NEW V, NEW A, Live(r, h, t, W, A, FALSE, FALSE), Ever(r, t, A),
           q.seq = r.seq + 1, q.floor = r.floor, q.delivered = r.delivered,
           q.suspended = r.suspended, e.seq = q.seq, e.turn = q.turn, q.turn >= r.turn,
           q.turn > 0, LastOK(q, V, e),
           r.seq = 0 => e.kind = "started" /\ e.turn = 1,
           \A p \in Event : r.seq > 0 /\ LastOK(r, W, p) => Follows(p, e),
           e.kind = "chunk" => e.turn \notin A,
           SesSilent(q, h, V, A),
           \A x \in V : x.pc # "finishing" => e.kind # "chunk"
    PROVE  Live(q, Append(h, e), t, V, A, TRUE, FALSE) /\ CurOK(q, Append(h, e), t, V, e)
<1> DEFINE g == Append(h, e)
<1> g \in Seq(Event) /\ Len(h) \in Nat /\ Len(t) \in Nat /\ Len(g) \in Nat
  BY SMT
<1>1. /\ Len(g) = Len(h) + 1 /\ g[Len(g)] = e
      /\ \A i \in 1 .. Len(h) : g[i] = h[i]
      /\ \A i \in 1 .. Len(g) : i \in 1 .. Len(h) \/ i = Len(g)
  BY SMT
<1> USE <1>1
<1> HIDE DEF g
<1>2. /\ r.floor \in Nat /\ r.seq \in Nat /\ r.turn \in Nat /\ r.delivered \in Nat
      /\ q.turn \in Nat
  BY DEF Record
<1> USE <1>2
<1>3. r.floor + Len(h) = r.seq /\ r.delivered <= r.seq /\ Len(t) = r.delivered
  BY DEF Live, SesHist, Ever
<1> USE <1>3
<1>4. SesHist(q, g, TRUE, FALSE)
  <2>1. q.floor + Len(g) = q.seq /\ q.delivered < q.seq
    <3>1. Len(g) = Len(h) + 1
      OBVIOUS
    <3>2. r.floor + (Len(h) + 1) = r.seq + 1
      BY SMT
    <3>3. r.delivered < r.seq + 1
      BY SMT
    <3> QED BY <3>1, <3>2, <3>3, Zenon
  <2>2. ~q.suspended => q.delivered = q.seq - 1
    <3>1. r.delivered = r.seq => q.delivered = q.seq - 1
      BY SMT
    <3>2. ~r.suspended => r.delivered = r.seq
      BY DEF Live, SesHist
    <3> QED BY <3>1, <3>2, Zenon
  <2>3. \A i \in 1 .. Len(g) : g[i].seq = q.floor + i
    <3>1. \A i \in 1 .. Len(h) : g[i].seq = q.floor + i
      BY Zenon DEF Live, SesHist
    <3>2. g[Len(g)].seq = q.floor + Len(g)
      BY <2>1, Zenon
    <3> QED BY <3>1, <3>2, Zenon
  <2>4. q.delivered <= q.seq
    BY SMT, <2>1
  <2> QED BY <2>1, <2>2, <2>3, <2>4, Zenon DEF SesHist
\* The new event comes after the last retained one, or after the last
\* delivered one when that is the last.
<1>5. Len(h) > 0 => Follows(h[Len(h)], e)
  <2>1. Len(h) > 0 => LastOK(r, W, h[Len(h)]) /\ h[Len(h)] \in Event /\ r.seq > 0
    BY SMT DEF Live, SesLast
  <2> QED BY <2>1
<1>6. Len(t) = r.seq => After(t, Len(t), e)
  <2>1. CASE r.seq = 0
    BY <2>1 DEF After
  <2>2. CASE r.seq > 0 /\ Len(t) = r.seq
    <3>1. LastOK(r, W, t[Len(t)]) /\ t[Len(t)] \in Event
      BY SMT, <2>2 DEF Live, SesLast
    <3> QED BY <3>1, <2>2 DEF After
  <2> QED BY SMT, <2>1, <2>2
<1>7. SesOrder(q, g, t)
  <2>1. (q.seq = 0 <=> q.turn = 0) /\ (q.running => q.seq > 0)
    BY SMT
  <2>2. \A i \in 1 .. Len(g) : q.floor + i <= Len(t) => g[i] = t[q.floor + i]
    <3>1. \A i \in 1 .. Len(h) : q.floor + i <= Len(t) => g[i] = t[q.floor + i]
      BY Zenon DEF Live, SesOrder
    <3>2. ~(q.floor + Len(g) <= Len(t))
      BY SMT
    <3> QED BY <3>1, <3>2, Zenon
  <2>3. \A i \in 2 .. Len(g) : Follows(g[i - 1], g[i])
    <3> TAKE i \in 2 .. Len(g)
    <3>1. CASE i \in 2 .. Len(h)
      <4>1. i - 1 \in 1 .. Len(h) /\ i \in 1 .. Len(h)
        BY SMTT(30), <3>1
      <4>2. Follows(h[i - 1], h[i])
        BY <3>1 DEF Live, SesOrder
      <4> QED BY <4>1, <4>2
    <3>2. CASE i = Len(h) + 1
      <4>1. i - 1 = Len(h) /\ Len(h) \in 1 .. Len(h) /\ i = Len(g)
        BY SMT, <3>2
      <4> QED BY SMTT(30), <4>1, <1>5
    <3> QED BY SMT, <3>1, <3>2
  <2>4. ASSUME q.floor <= Len(t) PROVE After(t, q.floor, g[1])
    <3>1. CASE Len(h) > 0
      <4>1. g[1] = h[1]
        BY SMT, <3>1
      <4> QED BY <3>1, <4>1, <2>4 DEF Live, SesOrder
    <3>2. CASE Len(h) = 0
      <4>1. g[1] = e /\ r.floor = Len(t) /\ Len(t) = r.seq
        BY SMT, <3>2, <2>4
      <4> QED BY <4>1, <1>6
    <3> QED BY SMT, <3>1, <3>2
  <2> QED BY <2>1, <2>2, <2>3, <2>4 DEF SesOrder
<1>8. SesLast(q, g, t, V)
  BY SMT DEF SesLast
<1>9. SesSilent(q, g, V, A)
  <2>1. \A i \in 1 .. Len(g) : g[i].turn <= q.turn /\ (g[i].kind = "chunk" => g[i].turn \notin A)
    <3>1. \A i \in 1 .. Len(h) : g[i].turn <= q.turn /\ (g[i].kind = "chunk" => g[i].turn \notin A)
      BY Zenon DEF SesSilent
    <3>2. e.turn <= q.turn
      BY SMT
    <3> QED BY <3>1, <3>2, Zenon
  <2>2. \A x \in V : x.pc # "finishing" =>
          \A i \in 1 .. Len(g) : g[i].kind = "chunk" => g[i].turn < q.turn
    BY Zenon DEF SesSilent
  <2> QED BY <2>1, <2>2, Zenon DEF SesSilent
<1>10. CurOK(q, g, t, V, e)
  <2>1. Len(t) + 1 = q.seq => Len(t) = r.seq
    BY SMT
  <2> QED BY <2>1, <1>6 DEF CurOK
<1> QED BY <1>4, <1>7, <1>8, <1>9, <1>10 DEF Live, g

\* emit, last part: the event is delivered, and is the next one.
LEMMA DeliverEver ==
    ASSUME NEW r \in Record, NEW q \in Record, NEW t \in Seq(Event),
           NEW A, NEW e \in Event, Ever(r, t, A),
           e.seq = Len(t) + 1, After(t, Len(t), e), q.delivered = e.seq, q.turn = r.turn
    PROVE  Ever(q, Append(t, e), A)
<1> DEFINE u == Append(t, e)
<1> u \in Seq(Event) /\ Len(t) \in Nat /\ Len(u) \in Nat
  BY SMT
<1>1. /\ Len(u) = Len(t) + 1 /\ u[Len(u)] = e
      /\ \A i \in 1 .. Len(t) : u[i] = t[i]
      /\ \A i \in 1 .. Len(u) : i \in 1 .. Len(t) \/ i = Len(t) + 1
  BY SMT
<1> USE <1>1
<1> HIDE DEF u
<1>2. \A i \in 1 .. Len(u) : After(u, i - 1, u[i])
  <2> TAKE i \in 1 .. Len(u)
  <2>1. \A n \in 0 .. Len(t) : \A x : After(u, n, x) = After(t, n, x)
    BY SMT DEF After
  <2>2. CASE i \in 1 .. Len(t)
    <3>1. After(t, i - 1, t[i]) /\ i - 1 \in 0 .. Len(t)
      BY SMT, <2>2 DEF Ever
    <3> QED BY <3>1, <2>1, <2>2
  <2>3. CASE i = Len(t) + 1
    <3>1. i - 1 = Len(t) /\ u[i] = e
      BY SMT, <2>3
    <3> QED BY SMT, <3>1, <2>1
  <2> QED BY <2>2, <2>3
<1>3. \A i \in 1 .. Len(u) : u[i].seq = i
  BY Zenon DEF Ever
<1> QED BY <1>2, <1>3 DEF Ever, u

\* What a delivery leaves true of a live session: event k of its retained ones
\* is delivered as the next.
LEMMA DeliverLive ==
    ASSUME NEW r \in Record, NEW q \in Record, NEW h \in Seq(Event), NEW t \in Seq(Event),
           NEW W, NEW A, NEW e \in Event, Len(t) = r.delivered,
           SesOrder(r, h, t), SesLast(r, h, t, W), SesSilent(r, h, W, A),
           r.floor + Len(h) = r.seq, r.floor <= Len(t) \/ Len(t) + 1 = r.seq,
           \A i \in 1 .. Len(h) : r.floor + i = Len(t) + 1 => h[i] = e,
           Len(t) + 1 = r.seq => LastOK(r, W, e),
           q.seq = r.seq, q.floor = r.floor, q.turn = r.turn, q.running = r.running,
           q.cancelled = r.cancelled
    PROVE  SesOrder(q, h, Append(t, e)) /\ SesLast(q, h, Append(t, e), W) /\ SesSilent(q, h, W, A)
<1> DEFINE u == Append(t, e)
<1> u \in Seq(Event) /\ Len(t) \in Nat /\ Len(u) \in Nat /\ Len(h) \in Nat
  BY SMT
<1>1. /\ Len(u) = Len(t) + 1 /\ u[Len(t) + 1] = e /\ u[Len(u)] = e
      /\ \A i \in 1 .. Len(t) : u[i] = t[i]
  BY SMT
<1> HIDE DEF u
<1>2. r.floor \in Nat /\ r.seq \in Nat /\ r.turn \in Nat
  BY DEF Record
<1>3. SesOrder(q, h, u)
  <2>1. (q.seq = 0 <=> q.turn = 0) /\ (q.running => q.seq > 0)
    BY DEF SesOrder
  <2>2. \A i \in 1 .. Len(h) : q.floor + i <= Len(u) => h[i] = u[q.floor + i]
    <3> SUFFICES ASSUME NEW i \in 1 .. Len(h), q.floor + i <= Len(u)
                 PROVE  h[i] = u[q.floor + i]
      OBVIOUS
    <3>1. CASE q.floor + i = Len(t) + 1
      BY <3>1, <1>1, Zenon
    <3>2. CASE q.floor + i \in 1 .. Len(t)
      <4>1. h[i] = t[r.floor + i]
        <5>1. r.floor + i <= Len(t)
          BY SMT, <3>2
        <5> QED BY <5>1, Zenon DEF SesOrder
      <4> QED BY <4>1, <3>2, <1>1, Zenon
    <3>3. i \in Nat /\ i > 0
      BY SMT
    <3>4. q.floor + i = Len(t) + 1 \/ q.floor + i \in 1 .. Len(t)
      BY ONLY <3>3, <1>1, <1>2, q.floor + i <= Len(u), q.floor = r.floor, Len(t) \in Nat
    <3> QED BY <3>1, <3>2, <3>4
  <2>3. \A i \in 2 .. Len(h) : Follows(h[i - 1], h[i])
    BY DEF SesOrder
  <2>4. ASSUME Len(h) > 0, q.floor <= Len(u) PROVE After(u, q.floor, h[1])
    <3>1. r.floor <= Len(t) 
      BY SMT, <2>4, <1>1, <1>2
    <3>2. After(t, r.floor, h[1])
      BY <2>4, <3>1 DEF SesOrder
    <3> QED BY SMTT(30), <3>1, <3>2, <1>1, <1>2 DEF After
  <2> QED BY <2>1, <2>2, <2>3, <2>4 DEF SesOrder
<1>4. SesLast(q, h, u, W)
  BY <1>1, Zenon DEF SesLast, LastOK
<1>5. SesSilent(q, h, W, A)
  BY Zenon DEF SesSilent
<1> QED BY <1>3, <1>4, <1>5 DEF u
----------------------------------------------------------------------------
(* What a step that leaves a session alone keeps.                          *)

LEMMA AppendSeq == \A h \in Seq(Event), e \in Event : Append(h, e) \in Seq(Event)
  BY SMT

LEMMA AbortedTurns ==
    ASSUME aborted \subseteq Ids \X Nat, NEW s
    PROVE  \A n \in Aborted(s) : n \in Nat
  BY DEF Aborted

LEMMA ShapeFacts ==
    ASSUME Shapes
    PROVE  /\ \A s \in Ids : /\ ses[s] \in Record /\ hist[s] \in Seq(Event) /\ sent[s] \in Seq(Event)
                             /\ Len(hist[s]) \in Nat /\ Len(sent[s]) \in Nat
           /\ \A w \in Workers : work[w] \in Worker
           /\ alive \subseteq Ids /\ issued \in Nat /\ Ids \subseteq Nat
           /\ \A s \in alive : s <= issued
           /\ \A x \in Ids : x > issued => x \notin alive
<1>1. MaxIssued \in Nat /\ Ids \subseteq Nat
  BY SMT, EngineAssumption DEF Ids
<1>2. alive \subseteq Ids /\ issued \in Nat
  BY SMT, <1>1 DEF Shapes, Ids
<1>3. \A s \in Ids : ses[s] \in Record /\ hist[s] \in Seq(Event) /\ sent[s] \in Seq(Event)
  BY DEF Shapes
<1>4. \A s \in Ids : Len(hist[s]) \in Nat /\ Len(sent[s]) \in Nat
  BY SMT, <1>3
<1>5. \A w \in Workers : work[w] \in Worker
  BY DEF Shapes
<1>6. \A s \in alive : s \in 1 .. issued
  BY DEF Shapes
<1>7. \A s \in alive : s <= issued
  BY SMT, <1>2, <1>6
<1>8. \A x \in Ids : x > issued => ~(x <= issued)
  BY SMT, <1>1, <1>2
<1> QED BY <1>1, <1>2, <1>3, <1>4, <1>5, <1>7, <1>8

LEMMA RecordFields ==
    ASSUME NEW r \in Record
    PROVE  /\ r.turn \in Nat /\ r.seq \in Nat /\ r.delivered \in Nat /\ r.floor \in Nat
           /\ r.bytes \in Int /\ r.suspended \in BOOLEAN /\ r.refused \in BOOLEAN
           /\ r.running \in BOOLEAN /\ r.closed \in BOOLEAN /\ r.cancelled \in BOOLEAN
           /\ r.replay \subseteq Requests
  BY DEF Record

\* The goroutines of the turn of s, from those of all turns.
LEMMA TurnKept ==
    ASSUME NEW s, \A w \in Workers : (Active(w) /\ work[w].s = s) \/ (Active(w)' /\ work'[w].s = s)
                                        => work'[w] = work[w]
    PROVE  OnTurn(s)' = OnTurn(s)
  BY DEF OnTurn, Active

LEMMA OneOnTurn ==
    ASSUME TurnInv, NEW w \in Workers, Active(w)
    PROVE  OnTurn(work[w].s) = {work[w]}
  BY SMT DEF TurnInv, OnTurn

LEMMA NoneOnTurn ==
    ASSUME TurnInv, NEW s, s \notin alive \/ ~ses[s].running
    PROVE  OnTurn(s) = {}
  BY SMT DEF TurnInv, OnTurn

Same(s) ==
    /\ ses'[s] = ses[s] /\ hist'[s] = hist[s] /\ sent'[s] = sent[s]
    /\ OnTurn(s)' = OnTurn(s) /\ Aborted(s)' = Aborted(s)
    /\ Emitted(s)' = Emitted(s) /\ Flushed(s)' = Flushed(s)

LEMMA SameKept ==
    ASSUME NEW s \in Ids, Same(s), SesInv
    PROVE  /\ Ever(ses[s], sent[s], Aborted(s))'
           /\ s \in alive => Live(ses[s], hist[s], sent[s], OnTurn(s), Aborted(s), Emitted(s), Flushed(s))'
  BY DEF Same, SesInv

LEMMA RunKept ==
    ASSUME Shapes, RunInv, runs' = runs, issued' \in Nat, issued' >= issued,
           \A s \in Ids, r \in Requests : Ran(s, r) => Ran(s, r)'
    PROVE  RunInv'
<1>1. RunOnce'
  BY DEF RunInv, RunOnce
<1>2. ASSUME NEW i \in 1 .. Len(runs)
      PROVE  runs[i][1] <= issued' /\ (runs[i][2] # NoRequest => Ran(runs[i][1], runs[i][2])')
  <2>1. runs[i] \in Ids \X (Requests \union {NoRequest})
    BY SMT DEF Shapes
  <2>2. runs[i][1] \in Ids /\ runs[i][2] \in Requests \union {NoRequest}
    BY <2>1
  <2>3. runs[i][1] <= issued /\ (runs[i][2] # NoRequest => Ran(runs[i][1], runs[i][2]))
    BY DEF RunInv
  <2>4. runs[i][1] <= issued'
    <3>1. runs[i][1] \in Nat /\ issued \in Nat
      BY <2>2, ShapeFacts
    <3> QED BY SMT, <3>1, <2>3
  <2> QED BY <2>2, <2>3, <2>4
<1> QED BY <1>1, <1>2 DEF RunInv

\* A step that changes nothing the invariant speaks of.
Quiet ==
    /\ UNCHANGED <<issued, alive, ses, hist, cur, sent, runs, aborted, flushing>>
    /\ (reader' = "flush") = (reader = "flush")
    /\ work' \in [Workers -> Worker]
    /\ \A w \in Workers : Active(w) \/ Active(w)' => work'[w] = work[w]

LEMMA QuietStep ==
    ASSUME EngineInv, Quiet
    PROVE  EngineInv'
<1>1. Shapes'
  BY DEF EngineInv, Quiet, Shapes
<1>2. LockInv'
  <2>1. \A w \in Workers : Holds(w) \/ Holds(w)' => work'[w] = work[w]
    BY DEF Quiet, Holds, Active
  <2>2. \A w \in Workers : Holds(w)' <=> Holds(w)
    BY <2>1 DEF Holds
  <2> QED BY <2>1, <2>2, Zenon DEF EngineInv, Quiet, LockInv
<1>3. TurnInv'
  <2>1. \A w \in Workers : /\ Active(w)' <=> Active(w)
                           /\ Active(w) => work'[w].s = work[w].s
    BY DEF Quiet, Active
  <2>2. alive' = alive /\ ses' = ses
    BY DEF Quiet
  <2> QED BY <2>1, <2>2 DEF EngineInv, TurnInv
<1>4. \A s : OnTurn(s)' = OnTurn(s)
  BY TurnKept DEF Quiet
<1>5. \A s \in Ids : Same(s)
  BY <1>4 DEF Quiet, Same, Aborted, Emitted, Flushed
<1>6. SesInv'
  <2>1. \A s \in Ids : Ever(ses[s], sent[s], Aborted(s))'
    BY <1>5, SameKept DEF EngineInv
  <2>2. \A s \in alive' : Live(ses[s], hist[s], sent[s], OnTurn(s), Aborted(s), Emitted(s), Flushed(s))'
    BY <1>5, SameKept, ShapeFacts DEF EngineInv, Quiet
  <2>3. cur' # NoEvent =>
          CurOK(ses[cur.s], hist[cur.s], sent[cur.s], OnTurn(cur.s), cur.event)'
    BY <1>4 DEF EngineInv, SesInv, Quiet
  <2> QED BY <2>1, <2>2, <2>3 DEF SesInv
<1>7. RunInv'
  <2>1. \A s \in Ids, r \in Requests : Ran(s, r) => Ran(s, r)'
    BY <1>4 DEF Ran, Quiet
  <2> QED BY SMT, <2>1, RunKept, ShapeFacts DEF EngineInv, Quiet
<1> QED BY <1>1, <1>2, <1>3, <1>6, <1>7 DEF EngineInv

\* The steps that leave the sessions and the running turns alone.
LEMMA QuietSteps ==
    ASSUME EngineInv,
           \/ Initialize \/ Trivial \/ ReaderReplies \/ WriterTakes \/ WriterWrites
           \/ Cancelled \/ ConnectionEnds
           \/ \E w \in Workers : WorkerReplies(w)
           \/ \E w \in Workers, s \in Ids, r \in Requests \union {NoRequest} : PromptAnswered(w, s, r)
    PROVE  Quiet
<1>1. ASSUME NEW w \in Workers, work[w].pc \in {"idle", "reply"},
             work' = [work EXCEPT ![w] = Idle] \/ work' = [work EXCEPT ![w] = [Idle EXCEPT !.pc = "reply"]]
      PROVE  /\ work' \in [Workers -> Worker]
             /\ \A v \in Workers : Active(v) \/ Active(v)' => work'[v] = work[v]
  <2>1. Idle \in Worker /\ [Idle EXCEPT !.pc = "reply"] \in Worker
    BY DEF Idle, Worker, PCs, Todos
  <2>2. work \in [Workers -> Worker]
    BY DEF EngineInv, Shapes
  <2>3. /\ Idle.pc = "idle" /\ [Idle EXCEPT !.pc = "reply"].pc = "reply"
    BY DEF Idle
  <2>4. \A v \in Workers \ {w} : work'[v] = work[v]
    BY <1>1, <2>2
  <2>5. work'[w].pc \in {"idle", "reply"}
    BY <1>1, <2>2, <2>3
  <2>6. work' \in [Workers -> Worker]
    BY <1>1, <2>1, <2>2
  <2> QED BY <2>4, <2>5, <2>6, <1>1 DEF Active
<1>2. work' = work => /\ work' \in [Workers -> Worker]
                      /\ \A v \in Workers : Active(v) \/ Active(v)' => work'[v] = work[v]
  BY DEF EngineInv, Shapes
<1>3. CASE Initialize \/ Trivial \/ ReaderReplies
  BY <1>2, <1>3 DEF Initialize, Trivial, ReaderReplies, histVars, Quiet
<1>4. CASE WriterTakes \/ WriterWrites \/ Cancelled \/ ConnectionEnds
  BY <1>2, <1>4 DEF WriterTakes, WriterWrites, Cancelled, ConnectionEnds, histVars, Quiet
<1>5. ASSUME NEW w \in Workers, WorkerReplies(w) PROVE Quiet
  BY <1>1, <1>5 DEF WorkerReplies, histVars, Quiet
<1>6. ASSUME NEW w \in Workers, NEW s \in Ids, NEW r \in Requests \union {NoRequest},
             PromptAnswered(w, s, r)
      PROVE  Quiet
  BY <1>1, <1>6 DEF PromptAnswered, histVars, Quiet
<1> QED BY <1>3, <1>4, <1>5, <1>6

----------------------------------------------------------------------------
(* A step that touches one session.                                        *)

LEMMA TouchOne ==
    ASSUME EngineInv, NEW s \in Ids, alive' \subseteq alive \union {s},
           \A x \in Ids \ {s} : Same(x),
           Ever(ses[s], sent[s], Aborted(s))',
           s \in alive' => Live(ses[s], hist[s], sent[s], OnTurn(s), Aborted(s), Emitted(s), Flushed(s))',
           cur' # NoEvent =>
              \/ CurOK(ses[cur.s], hist[cur.s], sent[cur.s], OnTurn(cur.s), cur.event)'
              \/ cur' = cur /\ cur.s \in Ids \ {s}
    PROVE  SesInv'
<1>1. \A x \in Ids : Ever(ses[x], sent[x], Aborted(x))'
  BY SameKept DEF EngineInv
<1>2. \A x \in alive' : Live(ses[x], hist[x], sent[x], OnTurn(x), Aborted(x), Emitted(x), Flushed(x))'
  <2> SUFFICES ASSUME NEW x \in alive'
               PROVE  Live(ses[x], hist[x], sent[x], OnTurn(x), Aborted(x), Emitted(x), Flushed(x))'
    OBVIOUS
  <2>1. CASE x = s
    BY <2>1
  <2>2. CASE x # s
    <3>1. x \in alive /\ x \in Ids
      BY <2>2, ShapeFacts DEF EngineInv
    <3> QED BY <2>2, <3>1, SameKept DEF EngineInv
  <2> QED BY <2>1, <2>2
<1>3. cur' # NoEvent =>
        CurOK(ses[cur.s], hist[cur.s], sent[cur.s], OnTurn(cur.s), cur.event)'
  BY DEF EngineInv, SesInv, Same
<1> QED BY <1>1, <1>2, <1>3 DEF SesInv

\* A change of a session's flags.
LEMMA FlagStep ==
    ASSUME EngineInv, NEW s \in alive,
           UNCHANGED <<issued, alive, hist, cur, sent, runs, work>>,
           ses' \in [Ids -> Record], \A x \in Ids \ {s} : ses'[x] = ses[x] /\ Flushed(x)' = Flushed(x),
           ses'[s].turn = ses[s].turn, ses'[s].seq = ses[s].seq, ses'[s].floor = ses[s].floor,
           ses'[s].delivered = ses[s].delivered, ses'[s].running = ses[s].running,
           ses'[s].replay = ses[s].replay,
           aborted' \subseteq Ids \X Nat, \A x \in Ids \ {s} : Aborted(x)' = Aborted(x),
           reader' = "flush" => flushing' \in alive /\ \A w \in Workers : ~Holds(w),
           SesHist(ses[s], hist[s], Emitted(s), Flushed(s))',
           SesSilent(ses[s], hist[s], OnTurn(s), Aborted(s))',
           \A n \in Aborted(s)' : n <= ses[s].turn
    PROVE  EngineInv'
<1>1. s \in Ids /\ alive \subseteq Ids
  BY ShapeFacts DEF EngineInv
<1>2. Shapes'
  <2>1. \A x \in Ids : x > issued => x # s
    BY ShapeFacts DEF EngineInv
  <2>2. \A x \in Ids : x > issued => ses'[x] = Fresh /\ sent[x] = << >>
    BY <2>1 DEF EngineInv, Shapes
  <2> QED BY <2>2 DEF EngineInv, Shapes
<1>3. LockInv'
  BY DEF EngineInv, LockInv, Holds
<1>4. \A x \in Ids : ses'[x].running = ses[x].running /\ ses'[x].replay = ses[x].replay
  OBVIOUS
<1>5. TurnInv'
  BY <1>1, <1>4 DEF EngineInv, TurnInv, Active
<1>6. \A x : OnTurn(x)' = OnTurn(x) /\ Emitted(x)' = Emitted(x)
  BY DEF OnTurn, Active, Emitted
<1>7. SesInv'
  <2>1. \A x \in Ids \ {s} : Same(x)
    BY <1>6 DEF Same
  <2>2. /\ Ever(ses[s], sent[s], Aborted(s))
        /\ Live(ses[s], hist[s], sent[s], OnTurn(s), Aborted(s), Emitted(s), Flushed(s))
        /\ cur # NoEvent =>
             CurOK(ses[cur.s], hist[cur.s], sent[cur.s], OnTurn(cur.s), cur.event)
    BY <1>1 DEF EngineInv, SesInv
  <2>3. Ever(ses[s], sent[s], Aborted(s))'
    BY <2>2 DEF Ever
  <2>4. \A e : LastOK(ses[s], OnTurn(s), e) => LastOK(ses'[s], OnTurn(s)', e)
    BY <1>6 DEF LastOK
  <2>5. SesLast(ses[s], hist[s], sent[s], OnTurn(s))'
    BY <2>2, <2>4 DEF Live, SesLast
  <2>6. SesOrder(ses[s], hist[s], sent[s])'
    BY <2>2 DEF Live, SesOrder
  <2>7. cur # NoEvent =>
          CurOK(ses[cur.s], hist[cur.s], sent[cur.s], OnTurn(cur.s), cur.event)'
    <3>1. CASE cur # NoEvent /\ cur.s = s
      BY <2>2, <2>4, <3>1 DEF CurOK
    <3>2. CASE cur # NoEvent /\ cur.s # s
      <4>1. cur.s \in Ids
        BY <3>2 DEF EngineInv, Shapes
      <4> QED BY <2>1, <2>2, <3>2, <4>1 DEF Same
    <3> QED BY <3>1, <3>2
  <2> QED BY <1>1, <2>1, <2>3, <2>5, <2>6, <2>7, TouchOne DEF Live
<1>8. RunInv'
  <2>1. \A x \in Ids, r \in Requests : Ran(x, r) => Ran(x, r)'
    BY <1>4, <1>6 DEF Ran
  <2> QED BY SMT, <2>1, RunKept, ShapeFacts DEF EngineInv
<1> QED BY <1>2, <1>3, <1>5, <1>7, <1>8 DEF EngineInv
LEMMA UnlockedFacts ==
    ASSUME EngineInv, Unlocked
    PROVE  /\ cur = NoEvent /\ reader # "flush" /\ \A w \in Workers : ~Holds(w)
           /\ \A w \in Workers : Active(w) => work[w].pc = "provider"
  BY DEF EngineInv, LockInv, Unlocked, Holds, Active

\* SessionSuspend, SessionResume and the end of a replay change what the
\* session's delivery depends on and nothing of its turn.
LEMMA DeliveryFlags ==
    ASSUME EngineInv, NEW s \in alive, NEW u \in BOOLEAN, NEW v \in BOOLEAN,
           ses' = [ses EXCEPT ![s].suspended = u, ![s].refused = v],
           UNCHANGED <<issued, alive, hist, cur, sent, runs, work, aborted>>,
           cur = NoEvent, \A w \in Workers : ~Holds(w),
           \A x \in Ids \ {s} : Flushed(x)' = Flushed(x),
           reader' = "flush" => flushing' \in alive,
           SesHist([ses[s] EXCEPT !.suspended = u], hist[s], FALSE, Flushed(s)')
    PROVE  EngineInv'
<1>1. Shapes /\ ses \in [Ids -> Record] /\ s \in Ids
  BY ShapeFacts DEF EngineInv, Shapes
<1>2. [ses[s] EXCEPT !.suspended = u, !.refused = v] \in Record /\ ses[s] \in Record
  BY <1>1 DEF Record
<1>3. ses'[s] = [ses[s] EXCEPT !.suspended = u, !.refused = v]
  BY <1>1
<1>4. /\ ses' \in [Ids -> Record] /\ \A x \in Ids \ {s} : ses'[x] = ses[x]
      /\ ses'[s].turn = ses[s].turn /\ ses'[s].seq = ses[s].seq
      /\ ses'[s].floor = ses[s].floor /\ ses'[s].delivered = ses[s].delivered
      /\ ses'[s].running = ses[s].running /\ ses'[s].replay = ses[s].replay
      /\ ses'[s].suspended = u /\ ses'[s].cancelled = ses[s].cancelled
  <2>1. ses' \in [Ids -> Record] /\ \A x \in Ids \ {s} : ses'[x] = ses[x]
    BY <1>1, <1>2
  <2> QED BY SMT, <2>1, <1>2, <1>3 DEF Record
<1>5. /\ Ever(ses[s], sent[s], Aborted(s))
      /\ Live(ses[s], hist[s], sent[s], OnTurn(s), Aborted(s), Emitted(s), Flushed(s))
  BY <1>1 DEF EngineInv, SesInv
<1>6. /\ \A x : Aborted(x)' = Aborted(x) /\ OnTurn(x)' = OnTurn(x)
      /\ Emitted(s)' = FALSE
  BY DEF Aborted, OnTurn, Active, Emitted
<1>7. SesSilent(ses[s], hist[s], OnTurn(s), Aborted(s))'
  BY <1>4, <1>5, <1>6, Zenon DEF Live, SesSilent
<1>8. SesHist(ses[s], hist[s], Emitted(s), Flushed(s))'
  <2> DEFINE q == [ses[s] EXCEPT !.suspended = u]
  <2>1. /\ q.seq = ses'[s].seq /\ q.floor = ses'[s].floor /\ q.delivered = ses'[s].delivered
        /\ q.suspended = ses'[s].suspended
    BY <1>2, <1>4 DEF Record
  <2> HIDE DEF q
  <2>2. SesHist(q, hist[s], FALSE, Flushed(s)')
    BY DEF q
  <2>3. SesHist(ses'[s], hist[s], FALSE, Flushed(s)')
    BY <2>1, <2>2, Zenon DEF SesHist
  <2> QED BY <2>3, <1>6
<1>9. \A n \in Aborted(s)' : n <= ses[s].turn
  BY <1>5, <1>6 DEF Ever
<1>10. aborted' \subseteq Ids \X Nat
  BY <1>1 DEF Shapes
<1> QED BY <1>4, <1>6, <1>7, <1>8, <1>9, <1>10, FlagStep

\* What decides about the history of a session whose suspended flag becomes u.
LEMMA SuspendedHist ==
    ASSUME EngineInv, cur = NoEvent, NEW s \in alive, NEW u \in BOOLEAN, NEW fl \in BOOLEAN,
           u \/ fl \/ ses[s].delivered = ses[s].seq,
           fl => ses[s].delivered >= ses[s].floor
    PROVE  SesHist([ses[s] EXCEPT !.suspended = u], hist[s], FALSE, fl)
<1>1. ses[s] \in Record
  BY ShapeFacts DEF EngineInv
<1>2. Live(ses[s], hist[s], sent[s], OnTurn(s), Aborted(s), Emitted(s), Flushed(s))
  BY DEF EngineInv, SesInv
<1> DEFINE q == [ses[s] EXCEPT !.suspended = u]
<1>3. /\ q.seq = ses[s].seq /\ q.floor = ses[s].floor /\ q.delivered = ses[s].delivered
      /\ q.suspended = u
  BY <1>1 DEF Record
<1> HIDE DEF q
<1>4. SesHist(q, hist[s], FALSE, fl)
  BY <1>2, <1>3, Zenon DEF Live, SesHist
<1> QED BY <1>4 DEF q

LEMMA SuspendStep ==
    ASSUME EngineInv, NEW s \in Ids, SessionSuspend(s)
    PROVE  EngineInv'
<1> USE DEF SessionSuspend, histVars, Reads, Answered
<1>1. ses \in [Ids -> Record] /\ s \in alive
  BY DEF EngineInv, Shapes
<1>2. ses[s].refused \in BOOLEAN
  BY <1>1, RecordFields
<1>3. ses' = [ses EXCEPT ![s].suspended = TRUE, ![s].refused = ses[s].refused]
  BY <1>1, RecordFields DEF Record
<1>4. cur = NoEvent /\ reader # "flush" /\ \A w \in Workers : ~Holds(w)
  BY UnlockedFacts
<1>5. \A x : Flushed(x) = FALSE /\ Flushed(x)' = FALSE
  BY <1>4 DEF Flushed
<1>6. SesHist([ses[s] EXCEPT !.suspended = TRUE], hist[s], FALSE, FALSE)
  BY <1>1, <1>4, SuspendedHist
<1> QED BY <1>1, <1>2, <1>3, <1>4, <1>5, <1>6, DeliveryFlags

LEMMA ResumeStep ==
    ASSUME EngineInv, NEW s \in Ids, SessionResume(s)
    PROVE  EngineInv'
<1>1. ses \in [Ids -> Record] /\ s \in alive
  BY DEF EngineInv, Shapes, SessionResume
<1> USE <1>1
<1>2. ses[s].refused \in BOOLEAN /\ ses[s].delivered \in Nat /\ ses[s].floor \in Nat
  BY RecordFields
<1>3. cur = NoEvent /\ reader # "flush" /\ \A w \in Workers : ~Holds(w)
  BY UnlockedFacts DEF SessionResume
<1> USE <1>3
<1>4. UNCHANGED <<issued, alive, hist, cur, sent, runs, work, aborted>>
  BY DEF SessionResume, histVars
<1>5. \A x : Flushed(x) = FALSE
  BY DEF Flushed
<1>6. CASE /\ ses[s].delivered = ses[s].seq
           /\ ses' = [ses EXCEPT ![s].suspended = FALSE, ![s].refused = FALSE]
           /\ Answered /\ UNCHANGED flushing
  <2>1. \A x : Flushed(x)' = FALSE
    BY <1>6 DEF Flushed, Answered
  <2>2. SesHist([ses[s] EXCEPT !.suspended = FALSE], hist[s], FALSE, FALSE)
    BY <1>6, SuspendedHist
  <2> QED BY <1>4, <1>5, <1>6, <2>1, <2>2, DeliveryFlags DEF Answered
<1>7. CASE /\ ses[s].delivered # ses[s].seq /\ Expired(s)
           /\ ses' = [ses EXCEPT ![s].suspended = TRUE]
           /\ Answered /\ UNCHANGED flushing
  <2>1. \A x : Flushed(x)' = FALSE
    BY <1>7 DEF Flushed, Answered
  <2>2. SesHist([ses[s] EXCEPT !.suspended = TRUE], hist[s], FALSE, FALSE)
    BY SuspendedHist
  <2>3. ses' = [ses EXCEPT ![s].suspended = TRUE, ![s].refused = ses[s].refused]
    BY <1>7, RecordFields DEF Record
  <2> QED BY <1>2, <1>4, <1>5, <1>7, <2>1, <2>2, <2>3, DeliveryFlags DEF Answered
<1>8. CASE /\ ses[s].delivered # ses[s].seq /\ ~Expired(s)
           /\ ses' = [ses EXCEPT ![s].suspended = FALSE]
           /\ flushing' = s /\ reader' = "flush"
  <2>1. Flushed(s)' = TRUE /\ \A x \in Ids \ {s} : Flushed(x)' = FALSE
    BY <1>8 DEF Flushed
  <2>2. ses[s].delivered >= ses[s].floor
    BY SMT, <1>2, <1>8 DEF Expired
  <2>3. SesHist([ses[s] EXCEPT !.suspended = FALSE], hist[s], FALSE, TRUE)
    BY <2>2, SuspendedHist
  <2>4. ses' = [ses EXCEPT ![s].suspended = FALSE, ![s].refused = ses[s].refused]
    BY <1>8, RecordFields DEF Record
  <2> QED BY <1>2, <1>4, <1>5, <1>8, <2>1, <2>3, <2>4, DeliveryFlags
<1> QED BY <1>6, <1>7, <1>8 DEF SessionResume

\* flushSession takes the event right after the last delivered one.
LEMMA FlushStep ==
    ASSUME EngineInv, FlushNext
    PROVE  EngineInv'
<1>1. reader = "flush" /\ flushing \in alive /\ flushing \in Ids
  BY ShapeFacts DEF FlushNext, EngineInv, LockInv
<1>0. PICK s \in alive : s = flushing /\ s \in Ids
  BY <1>1
<1> DEFINE later == {i \in DOMAIN hist[s] : hist[s][i].seq > ses[s].delivered}
           k == CHOOSE i \in later : \A j \in later : i <= j
           e == hist[s][k]
<1>2. ses \in [Ids -> Record] /\ sent \in [Ids -> Seq(Event)]
  BY DEF EngineInv, Shapes
<1>3. /\ ses[s].refused \in BOOLEAN /\ ses[s].suspended \in BOOLEAN
      /\ ses[s].delivered \in Nat /\ ses[s].floor \in Nat /\ ses[s].seq \in Nat
  BY <1>0, <1>1, <1>2, RecordFields
<1>4. hist[s] \in Seq(Event) /\ Len(hist[s]) \in Nat /\ sent[s] \in Seq(Event) /\ Len(sent[s]) \in Nat
  BY <1>0, <1>1, ShapeFacts DEF EngineInv
<1>5. cur = NoEvent /\ \A w \in Workers : ~Holds(w)
  BY <1>0, <1>1 DEF EngineInv, LockInv
<1>6. UNCHANGED <<issued, alive, hist, cur, work, runs, aborted>>
  BY DEF FlushNext, histVars
<1>7. /\ Ever(ses[s], sent[s], Aborted(s))
      /\ Live(ses[s], hist[s], sent[s], OnTurn(s), Aborted(s), FALSE, TRUE)
  <2>1. Emitted(s) = FALSE /\ Flushed(s) = TRUE
    BY <1>0, <1>1, <1>5 DEF Emitted, Flushed
  <2> QED BY <1>0, <1>1, <2>1 DEF EngineInv, SesInv
<1>8. /\ ses[s].floor + Len(hist[s]) = ses[s].seq
      /\ \A i \in 1 .. Len(hist[s]) : hist[s][i].seq = ses[s].floor + i
      /\ ses[s].delivered <= ses[s].seq /\ ses[s].delivered >= ses[s].floor
      /\ Len(sent[s]) = ses[s].delivered
  BY <1>7 DEF Live, SesHist, Ever
<1>9. /\ later = {} <=> ses[s].delivered = ses[s].seq
      /\ later # {} => k \in 1 .. Len(hist[s]) /\ ses[s].floor + k = ses[s].delivered + 1
  <2> DEFINE h == hist[s]  d == ses[s].delivered  f == ses[s].floor  q == ses[s].seq
  <2>1. /\ h \in Seq(Event) /\ d \in Nat /\ f \in Nat /\ q \in Nat
        /\ f + Len(h) = q /\ d <= q /\ d >= f
    BY <1>3, <1>4, <1>8
  <2>2. \A i \in 1 .. Len(h) : h[i].seq = f + i
    BY <1>8
  <2>3. \A i : i \in later <=> i \in 1 .. Len(h) /\ h[i].seq > d
    BY SMT, <1>4
  <2> HIDE DEF h, d, f, q, later
  <2> DEFINE m == (d - f) + 1
  <2>4. (\A i : i \in later <=> i \in 1 .. Len(h) /\ f + i > d) /\ Len(h) \in Nat
    <3>1. \A i : i \in later <=> i \in 1 .. Len(h) /\ f + i > d
      BY <2>2, <2>3, Zenon
    <3> QED BY SMT, <3>1, <2>1
  <2>5. m \in Nat /\ m >= 1 /\ f + m = d + 1
    BY SMT, <2>1
  <2>6. ASSUME d # q PROVE m \in 1 .. Len(h) /\ m \in later /\ \A j \in later : m <= j
    BY SMT, <2>1, <2>4, <2>5, <2>6
  <2>7. d = q => later = {}
    BY SMT, <2>1, <2>4
  <2>8. ASSUME NEW i \in later, \A j \in later : i <= j PROVE i = m
    <3>1. i \in Nat /\ d # q
      BY SMT, <2>1, <2>4, <2>7
    <3> QED BY SMT, <2>5, <2>6, <2>8, <3>1
  <2> HIDE DEF m
  <2>9. later # {} => k \in later /\ \A j \in later : k <= j
    BY <2>6, <2>7
  <2> HIDE DEF k
  <2> QED BY <2>5, <2>6, <2>7, <2>8, <2>9 DEF h, d, f, q
<1> HIDE DEF k, later
<1>13. ASSUME reader' \in {"reply", "read"}, NEW u \in BOOLEAN, NEW v \in BOOLEAN,
              u \/ ses[s].delivered = ses[s].seq,
              ses' = [ses EXCEPT ![s].suspended = u, ![s].refused = v], sent' = sent
       PROVE  EngineInv'
  <2>1. \A x : Flushed(x)' = FALSE
    BY <1>13 DEF Flushed
  <2>2. \A x \in Ids \ {s} : Flushed(x)' = Flushed(x)
    BY <2>1, <1>0 DEF Flushed
  <2>3. SesHist([ses[s] EXCEPT !.suspended = u], hist[s], FALSE, FALSE)
    BY <1>0, <1>1, <1>5, <1>13, SuspendedHist
  <2> QED BY <1>0, <1>1, <1>5, <1>6, <1>13, <2>1, <2>2, <2>3, DeliveryFlags
<1>14. CASE /\ later = {} /\ ses' = [ses EXCEPT ![s].refused = FALSE]
            /\ reader' \in {"reply", "read"} /\ UNCHANGED <<queue, sent>>
  <2>1. ses' = [ses EXCEPT ![s].suspended = ses[s].suspended, ![s].refused = FALSE]
    BY <1>0, <1>1, <1>2, <1>14, RecordFields DEF Record
  <2>2. ses[s].delivered = ses[s].seq
    BY <1>9, <1>14
  <2> QED BY <1>3, <1>13, <1>14, <2>1, <2>2
<1>15. CASE /\ ses' = [ses EXCEPT ![s].suspended = TRUE, ![s].refused = TRUE]
            /\ reader' \in {"reply", "read"} /\ UNCHANGED <<queue, sent>>
  BY <1>13, <1>15
<1>16. CASE /\ later # {} /\ sent' = [sent EXCEPT ![s] = Append(@, e)]
            /\ ses' = [ses EXCEPT ![s].delivered = e.seq]
            /\ UNCHANGED <<reader, flushing>>
  <2>1. k \in 1 .. Len(hist[s]) /\ ses[s].floor + k = ses[s].delivered + 1
    BY <1>9, <1>16
  <2>2. e \in Event /\ e.seq = Len(sent[s]) + 1 /\ e.seq \in Nat
    <3>1. e \in Event
      BY SMT, <2>1, <1>4
    <3>2. e.seq = Len(sent[s]) + 1
      BY <2>1, <1>8, Zenon
    <3> QED BY SMT, <3>1, <3>2, <1>4
  <2> HIDE DEF e
  <2>3. sent'[s] = Append(sent[s], e) /\ sent' \in [Ids -> Seq(Event)]
    BY SMT, <1>0, <1>1, <1>2, <1>4, <1>16, <2>2
  <2>4. [ses[s] EXCEPT !.delivered = e.seq] \in Record
    BY <1>0, <1>1, <1>2, <2>2 DEF Record
  <2>5. ses'[s] = [ses[s] EXCEPT !.delivered = e.seq] /\ ses' \in [Ids -> Record]
    BY <1>0, <1>1, <1>2, <1>16, <2>4
  <2>6. /\ ses'[s].turn = ses[s].turn /\ ses'[s].seq = ses[s].seq /\ ses'[s].floor = ses[s].floor
        /\ ses'[s].running = ses[s].running /\ ses'[s].cancelled = ses[s].cancelled
        /\ ses'[s].replay = ses[s].replay /\ ses'[s].delivered = e.seq
        /\ ses'[s].suspended = ses[s].suspended
    BY SMT, <1>0, <1>1, <1>2, <2>5 DEF Record
  <2>7. \A x \in Ids \ {s} : ses'[x] = ses[x] /\ sent'[x] = sent[x]
    BY <1>2, <1>16
  <2>8. \A x : /\ OnTurn(x)' = OnTurn(x) /\ Aborted(x)' = Aborted(x)
               /\ Emitted(x)' = Emitted(x) /\ Flushed(x)' = Flushed(x)
    BY <1>6, <1>16 DEF OnTurn, Active, Aborted, Emitted, Flushed
  <2>9. \A x \in Ids \ {s} : Same(x)
    BY <1>6, <2>7, <2>8 DEF Same
  <2>10. After(sent[s], Len(sent[s]), e)
    <3>1. CASE k = 1
      BY SMT, <3>1, <1>3, <1>4, <1>7, <1>8, <2>1 DEF e, Live, SesOrder
    <3>2. CASE k > 1
      <4>1. k \in 2 .. Len(hist[s]) /\ k - 1 \in 1 .. Len(hist[s])
        BY SMT, <3>2, <2>1
      <4>2. Follows(hist[s][k - 1], e)
        BY <4>1, <1>7 DEF e, Live, SesOrder
      <4>3. ses[s].floor + (k - 1) = Len(sent[s]) /\ Len(sent[s]) # 0
        <5> DEFINE d == ses[s].delivered  f == ses[s].floor
        <5>1. d \in Nat /\ f \in Nat /\ f + k = d + 1 /\ Len(sent[s]) = d /\ k \in Nat /\ k > 1
          BY SMT, <4>1, <2>1, <1>3, <1>4, <1>8
        <5> HIDE DEF d, f
        <5>2. f + (k - 1) = d /\ d # 0
          BY SMT, <5>1
        <5> QED BY <5>1, <5>2 DEF d, f
      <4>4. hist[s][k - 1] = sent[s][Len(sent[s])]
        <5>1. ses[s].floor + (k - 1) <= Len(sent[s])
          BY SMT, <4>3, <1>4
        <5> QED BY <5>1, <4>1, <4>3, <1>7, Zenon DEF Live, SesOrder
      <4> QED BY <4>2, <4>3, <4>4 DEF After
    <3> QED BY SMT, <3>1, <3>2, <2>1
  <2>11. Ever(ses[s], sent[s], Aborted(s))'
    <3>1. Ever(ses'[s], Append(sent[s], e), Aborted(s))
      BY <1>0, <1>2, <1>4, <1>7, <2>2, <2>5, <2>6, <2>10, DeliverEver
    <3> QED BY <3>1, <2>3, <2>8
  <2>12. Len(sent[s]) + 1 = ses[s].seq => LastOK(ses[s], OnTurn(s), e)
    <3>1. Len(sent[s]) + 1 = ses[s].seq => k = Len(hist[s])
      BY SMT, <2>1, <1>3, <1>4, <1>8
    <3> QED BY SMT, <3>1, <2>1, <1>4, <1>7 DEF e, Live, SesLast
  <2>13. \A i \in 1 .. Len(hist[s]) : ses[s].floor + i = Len(sent[s]) + 1 => hist[s][i] = e
    <3>1. \A i \in 1 .. Len(hist[s]) : ses[s].floor + i = Len(sent[s]) + 1 => i = k
      BY SMT, <2>1, <1>3, <1>4, <1>8
    <3> QED BY <3>1 DEF e
  <2>14. /\ SesOrder(ses'[s], hist[s], Append(sent[s], e))
         /\ SesLast(ses'[s], hist[s], Append(sent[s], e), OnTurn(s))
         /\ SesSilent(ses'[s], hist[s], OnTurn(s), Aborted(s))
    <3>1. ses[s].floor <= Len(sent[s]) /\ ses[s] \in Record /\ ses'[s] \in Record
      BY <1>0, <1>1, <1>2, <1>3, <1>8, <2>5
    <3> QED BY <3>1, <1>4, <1>7, <1>8, <2>2, <2>6, <2>12, <2>13, DeliverLive DEF Live
  <2>15. SesHist(ses'[s], hist[s], FALSE, TRUE)
    BY SMT, <1>3, <1>4, <1>8, <2>1, <2>2, <2>6 DEF SesHist
  <2>16. Live(ses[s], hist[s], sent[s], OnTurn(s), Aborted(s), Emitted(s), Flushed(s))'
    <3>1. Emitted(s)' = FALSE /\ Flushed(s)' = TRUE
      BY <1>0, <1>1, <1>5, <2>8 DEF Emitted, Flushed
    <3> QED BY <1>6, <2>3, <2>8, <2>14, <2>15, <3>1 DEF Live
  <2>17. Shapes'
    <3>1. \A x \in Ids : x > issued => x # s
      BY <1>0, ShapeFacts DEF EngineInv
    <3>2. \A x \in Ids : x > issued => ses'[x] = Fresh /\ sent'[x] = << >>
      BY <3>1, <2>7 DEF EngineInv, Shapes
    <3> QED BY <3>2, <1>6, <2>3, <2>5 DEF EngineInv, Shapes
  <2>18. LockInv'
    BY <1>6, <1>16 DEF EngineInv, LockInv, Holds
  <2>19. \A x \in Ids : ses'[x].running = ses[x].running /\ ses'[x].replay = ses[x].replay
    BY <2>6, <2>7
  <2>20. TurnInv'
    BY <1>6, <2>19, ShapeFacts DEF EngineInv, TurnInv, Active
  <2>21. SesInv'
    BY <1>0, <1>5, <1>6, <2>9, <2>11, <2>16, TouchOne
  <2>22. \A x \in Ids, r \in Requests : Ran(x, r) => Ran(x, r)'
    BY <2>8, <2>19 DEF Ran
  <2>23. RunInv'
    BY SMT, <1>6, <2>22, RunKept, ShapeFacts DEF EngineInv
  <2> QED BY <2>17, <2>18, <2>20, <2>21, <2>23 DEF EngineInv
<1> QED BY <1>0, <1>14, <1>15, <1>16 DEF FlushNext, e, later, k
----------------------------------------------------------------------------
(* session/abort, session/close and Engine.Close interrupt the turns of    *)
(* some sessions and release those of them that have none.                 *)

LEMMA AbortLive ==
    ASSUME NEW r \in Record, NEW q \in Record, NEW h \in Seq(Event), NEW t \in Seq(Event),
           NEW W, NEW A, NEW B, Live(r, h, t, W, A, FALSE, FALSE), Ever(r, t, A),
           q.turn = r.turn, q.seq = r.seq, q.floor = r.floor, q.delivered = r.delivered,
           q.running = r.running, q.suspended = r.suspended, q.cancelled = r.running,
           \A x \in W : x.pc = "provider" /\ r.running,
           \A n \in B : n \in A \/ (r.running /\ n = r.turn),
           r.running => W # {}
    PROVE  Live(q, h, t, W, B, FALSE, FALSE) /\ Ever(q, t, B)
<1>1. SesHist(q, h, FALSE, FALSE) /\ SesOrder(q, h, t)
  BY Zenon DEF Live, SesHist, SesOrder
<1>2. SesLast(q, h, t, W)
  BY Zenon DEF Live, SesLast, LastOK
<1>3. SesSilent(q, h, W, B)
  <2>1. \A i \in 1 .. Len(h) : r.running /\ h[i].kind = "chunk" => h[i].turn # r.turn
    <3> SUFFICES ASSUME NEW i \in 1 .. Len(h), r.running, h[i].kind = "chunk"
                 PROVE  h[i].turn # r.turn
      OBVIOUS
    <3>1. h[i].turn < r.turn
      BY DEF Live, SesSilent
    <3>2. h[i] \in Event
      BY SMT
    <3>3. h[i].turn \in Nat /\ r.turn \in Nat
      BY <3>2 DEF Event, Record
    <3> QED BY SMT, <3>1, <3>3
  <2> QED BY <2>1, Zenon DEF Live, SesSilent
<1>4. Ever(q, t, B)
  <2>1. r.turn <= r.turn
    BY SMT, RecordFields
  <2> QED BY <2>1, Zenon DEF Ever
<1> QED BY <1>1, <1>2, <1>3, <1>4 DEF Live

LEMMA AbortedAdds ==
    ASSUME NEW S, aborted' = aborted \union Interrupted(S), NEW x
    PROVE  /\ x \notin S => Aborted(x)' = Aborted(x)
           /\ \A n \in Aborted(x)' : n \in Aborted(x) \/ (ses[x].running /\ n = ses[x].turn)
<1>1. \A y \in Interrupted(S) : y[1] \in S /\ ses[y[1]].running /\ y[2] = ses[y[1]].turn
  BY SMT DEF Interrupted
<1>2. Aborted(x) \subseteq Aborted(x)'
  BY DEF Aborted
<1>3. \A n \in Aborted(x)' : n \in Aborted(x) \/ (x \in S /\ ses[x].running /\ n = ses[x].turn)
  BY <1>1 DEF Aborted
<1> QED BY <1>2, <1>3

LEMMA InterruptStep ==
    ASSUME EngineInv, cur = NoEvent, \A w \in Workers : ~Holds(w), reader # "flush", reader' # "flush",
           NEW S \in SUBSET alive, NEW gone \in SUBSET S, \A x \in gone : ~ses[x].running,
           UNCHANGED <<issued, cur, work, sent, runs>>,
           aborted' = aborted \union Interrupted(S),
           alive' = alive \ gone,
           hist' = [x \in Ids |-> IF x \in gone THEN << >> ELSE hist[x]],
           ses' \in [Ids -> Record], \A x \in Ids \ S : ses'[x] = ses[x],
           \A x \in S : /\ ses'[x].turn = ses[x].turn /\ ses'[x].seq = ses[x].seq
                        /\ ses'[x].floor = ses[x].floor /\ ses'[x].delivered = ses[x].delivered
                        /\ ses'[x].running = ses[x].running /\ ses'[x].suspended = ses[x].suspended
                        /\ ses'[x].replay = ses[x].replay /\ ses'[x].cancelled = ses[x].running
    PROVE  EngineInv'
<1>1. alive \subseteq Ids /\ ses \in [Ids -> Record]
  BY ShapeFacts DEF EngineInv, Shapes
<1> USE <1>1
<1>2. Shapes'
  <2>1. \A x \in Ids : x > issued => x \notin alive
    BY ShapeFacts DEF EngineInv
  <2>2. \A x \in Ids : x > issued => ses'[x] = Fresh /\ sent[x] = << >>
    BY <2>1 DEF EngineInv, Shapes
  <2>3. Interrupted(S) \subseteq Ids \X Nat
    <3>1. \A x \in S : x \in Ids /\ ses[x].turn \in Nat
      BY RecordFields
    <3> QED BY SMT, <3>1 DEF Interrupted
  <2>4. hist' \in [Ids -> Seq(Event)]
    BY SMT DEF EngineInv, Shapes
  <2>5. \A x \in Ids : x \notin alive' => hist'[x] = << >>
    BY DEF EngineInv, Shapes
  <2> QED BY <2>2, <2>3, <2>4, <2>5 DEF EngineInv, Shapes
<1>3. LockInv'
  BY DEF EngineInv, LockInv, Holds
<1>4. \A x \in Ids : ses'[x].running = ses[x].running /\ ses'[x].replay = ses[x].replay
  OBVIOUS
<1>5. TurnInv'
  BY SMT, <1>4 DEF EngineInv, TurnInv, Active
<1>6. \A x : /\ OnTurn(x)' = OnTurn(x) /\ Emitted(x)' = Emitted(x) /\ Flushed(x)' = Flushed(x)
             /\ Emitted(x) = FALSE /\ Flushed(x) = FALSE
  BY DEF OnTurn, Active, Emitted, Flushed
<1>7. \A x : /\ x \notin S => Aborted(x)' = Aborted(x)
             /\ \A n \in Aborted(x)' : n \in Aborted(x) \/ (ses[x].running /\ n = ses[x].turn)
  BY AbortedAdds
<1>8. \A x \in Ids \ S : Same(x)
  BY <1>6, <1>7 DEF Same
<1>9. ASSUME NEW x \in S
      PROVE  /\ Live(ses'[x], hist[x], sent[x], OnTurn(x), Aborted(x)', FALSE, FALSE)
             /\ Ever(ses[x], sent[x], Aborted(x))'
  <2>1. /\ Live(ses[x], hist[x], sent[x], OnTurn(x), Aborted(x), FALSE, FALSE)
        /\ Ever(ses[x], sent[x], Aborted(x))
    BY <1>6 DEF EngineInv, SesInv
  <2>2. \A y \in OnTurn(x) : y.pc = "provider" /\ ses[x].running
    BY SMT DEF OnTurn, Active, Holds, EngineInv, TurnInv
  <2>3. ses[x].running => OnTurn(x) # {}
    <3> SUFFICES ASSUME ses[x].running PROVE OnTurn(x) # {}
      OBVIOUS
    <3>1. PICK w \in Workers : Active(w) /\ work[w].s = x
      BY DEF EngineInv, TurnInv
    <3>2. work[w] \in OnTurn(x)
      BY <3>1 DEF OnTurn
    <3> QED BY <3>2
  <2>4. /\ ses[x] \in Record /\ ses'[x] \in Record /\ hist[x] \in Seq(Event)
        /\ sent[x] \in Seq(Event)
    BY ShapeFacts DEF EngineInv
  <2>5. /\ Live(ses'[x], hist[x], sent[x], OnTurn(x), Aborted(x)', FALSE, FALSE)
        /\ Ever(ses'[x], sent[x], Aborted(x)')
    <3>1. \A n \in Aborted(x)' : n \in Aborted(x) \/ (ses[x].running /\ n = ses[x].turn)
      BY <1>7
    <3> DEFINE B == Aborted(x)'  q == ses'[x]  r == ses[x]  h == hist[x]  t == sent[x]
               W == OnTurn(x)  A == Aborted(x)
    <3>2. /\ q.turn = r.turn /\ q.seq = r.seq
          /\ q.floor = r.floor /\ q.delivered = r.delivered
          /\ q.running = r.running /\ q.suspended = r.suspended
          /\ q.cancelled = r.running
      OBVIOUS
    <3>3. /\ r \in Record /\ q \in Record /\ h \in Seq(Event) /\ t \in Seq(Event)
          /\ Live(r, h, t, W, A, FALSE, FALSE) /\ Ever(r, t, A)
          /\ \A y \in W : y.pc = "provider" /\ r.running
          /\ \A n \in B : n \in A \/ (r.running /\ n = r.turn)
          /\ r.running => W # {}
      BY <2>1, <2>2, <2>3, <2>4, <3>1
    <3> HIDE DEF B, q, r, h, t, W, A
    <3>4. Live(q, h, t, W, B, FALSE, FALSE) /\ Ever(q, t, B)
      BY ONLY <3>2, <3>3, AbortLive, Zenon
    <3> QED BY <3>4 DEF B, q, h, t, W
  <2> QED BY <2>5
<1>10. SesInv'
  <2>1. \A x \in Ids : Ever(ses[x], sent[x], Aborted(x))'
    BY <1>8, <1>9, SameKept DEF EngineInv
  <2>2. ASSUME NEW x \in alive'
        PROVE  Live(ses[x], hist[x], sent[x], OnTurn(x), Aborted(x), Emitted(x), Flushed(x))'
    <3>1. x \in alive /\ x \in Ids /\ hist'[x] = hist[x]
      OBVIOUS
    <3>2. CASE x \in S
      BY <1>6, <1>9, <3>1, <3>2
    <3>3. CASE x \notin S
      BY <1>8, <3>1, <3>3, SameKept DEF EngineInv
    <3> QED BY <3>2, <3>3
  <2> QED BY <2>1, <2>2 DEF SesInv
<1>11. RunInv'
  <2>1. \A x \in Ids, r \in Requests : Ran(x, r) => Ran(x, r)'
    BY <1>4, <1>6 DEF Ran
  <2> QED BY SMT, <2>1, RunKept, ShapeFacts DEF EngineInv
<1> QED BY <1>2, <1>3, <1>5, <1>10, <1>11 DEF EngineInv
\* A session's record after an abort or a close.
LEMMA InterruptFields ==
    ASSUME NEW r \in Record, NEW c \in BOOLEAN, NEW q,
           q = [r EXCEPT !.closed = c, !.cancelled = r.running]
    PROVE  /\ q \in Record /\ q.turn = r.turn /\ q.seq = r.seq
           /\ q.floor = r.floor /\ q.delivered = r.delivered
           /\ q.running = r.running /\ q.suspended = r.suspended
           /\ q.replay = r.replay /\ q.cancelled = r.running
  BY DEF Record

LEMMA AbortStep ==
    ASSUME EngineInv, NEW s \in Ids, SessionAbort(s)
    PROVE  EngineInv'
<1> USE DEF SessionAbort, histVars
<1>1. ses \in [Ids -> Record] /\ hist \in [Ids -> Seq(Event)] /\ s \in alive
  BY DEF EngineInv, Shapes
<1>2. cur = NoEvent /\ reader # "flush" /\ \A w \in Workers : ~Holds(w)
  BY UnlockedFacts
<1>3. reader' # "flush"
  BY DEF Answered
<1>4. ses[s] \in Record /\ ses[s].closed \in BOOLEAN /\ ses[s].running \in BOOLEAN
  BY <1>1, RecordFields
<1>5. ses'[s] = [ses[s] EXCEPT !.cancelled = ses[s].running]
  BY <1>1
<1>6. /\ ses'[s] \in Record /\ ses'[s].turn = ses[s].turn /\ ses'[s].seq = ses[s].seq
      /\ ses'[s].floor = ses[s].floor /\ ses'[s].delivered = ses[s].delivered
      /\ ses'[s].running = ses[s].running /\ ses'[s].suspended = ses[s].suspended
      /\ ses'[s].replay = ses[s].replay /\ ses'[s].cancelled = ses[s].running
  BY SMT, <1>4, <1>5 DEF Record
<1>7. ses' \in [Ids -> Record] /\ \A x \in Ids \ {s} : ses'[x] = ses[x]
  BY <1>1, <1>6
<1> DEFINE S == {s}
<1>8. alive' = alive \ {} /\ hist' = [x \in Ids |-> IF x \in {} THEN << >> ELSE hist[x]]
  BY <1>1
<1>9. S \in SUBSET alive /\ {} \in SUBSET S /\ \A x \in {} : ~ses[x].running
  BY <1>1
<1>10. /\ \A x \in Ids \ S : ses'[x] = ses[x]
       /\ \A x \in S : /\ ses'[x].turn = ses[x].turn /\ ses'[x].seq = ses[x].seq
                       /\ ses'[x].floor = ses[x].floor /\ ses'[x].delivered = ses[x].delivered
                       /\ ses'[x].running = ses[x].running /\ ses'[x].suspended = ses[x].suspended
                       /\ ses'[x].replay = ses[x].replay /\ ses'[x].cancelled = ses[x].running
       /\ aborted' = aborted \union Interrupted(S)
       /\ UNCHANGED <<issued, cur, work, sent, runs>>
  BY <1>6, <1>7
<1> HIDE DEF S, SessionAbort
<1> QED BY <1>2, <1>3, <1>7, <1>8, <1>9, <1>10, InterruptStep

LEMMA CloseStep ==
    ASSUME EngineInv, NEW s \in Ids, SessionClose(s)
    PROVE  EngineInv'
<1> USE DEF SessionClose, Release
<1> DEFINE gone == {t \in {s} : ~ses[t].running}
<1>1. ses \in [Ids -> Record] /\ s \in alive
  BY DEF EngineInv, Shapes
<1>2. cur = NoEvent /\ reader # "flush" /\ \A w \in Workers : ~Holds(w)
  BY UnlockedFacts
<1>3. reader' # "flush"
  BY DEF Answered
<1>4. ses[s] \in Record
  BY <1>1
<1>5. ses'[s] = [ses[s] EXCEPT !.closed = TRUE, !.cancelled = ses[s].running]
  BY <1>1
<1>6. /\ ses'[s] \in Record /\ ses'[s].turn = ses[s].turn /\ ses'[s].seq = ses[s].seq
      /\ ses'[s].floor = ses[s].floor /\ ses'[s].delivered = ses[s].delivered
      /\ ses'[s].running = ses[s].running /\ ses'[s].suspended = ses[s].suspended
      /\ ses'[s].replay = ses[s].replay /\ ses'[s].cancelled = ses[s].running
  BY <1>4, <1>5, InterruptFields
<1>7. ses' \in [Ids -> Record] /\ \A x \in Ids \ {s} : ses'[x] = ses[x]
  BY <1>1, <1>6
<1> DEFINE S == {s}
<1>8. /\ S \in SUBSET alive /\ gone \in SUBSET S /\ \A x \in gone : ~ses[x].running
      /\ alive' = alive \ gone /\ hist' = [x \in Ids |-> IF x \in gone THEN << >> ELSE hist[x]]
  BY <1>1
<1>9. /\ \A x \in Ids \ S : ses'[x] = ses[x]
      /\ \A x \in S : /\ ses'[x].turn = ses[x].turn /\ ses'[x].seq = ses[x].seq
                      /\ ses'[x].floor = ses[x].floor /\ ses'[x].delivered = ses[x].delivered
                      /\ ses'[x].running = ses[x].running /\ ses'[x].suspended = ses[x].suspended
                      /\ ses'[x].replay = ses[x].replay /\ ses'[x].cancelled = ses[x].running
      /\ aborted' = aborted \union Interrupted(S)
      /\ UNCHANGED <<issued, cur, work, sent, runs>>
  BY <1>6, <1>7
<1> HIDE DEF gone, S, SessionClose
<1> QED BY <1>2, <1>3, <1>7, <1>8, <1>9, InterruptStep

LEMMA LeaveStep ==
    ASSUME EngineInv, ReaderLeaves
    PROVE  EngineInv'
<1> USE DEF ReaderLeaves, EngineClose, Release
<1> DEFINE gone == {t \in alive : ~ses[t].running}
<1>1. ses \in [Ids -> Record] /\ alive \subseteq Ids
  BY ShapeFacts DEF EngineInv, Shapes
<1>2. cur = NoEvent /\ reader # "flush" /\ \A w \in Workers : ~Holds(w)
  BY UnlockedFacts
<1>3. ASSUME NEW x \in alive
      PROVE  /\ ses'[x] \in Record /\ ses'[x].turn = ses[x].turn /\ ses'[x].seq = ses[x].seq
             /\ ses'[x].floor = ses[x].floor /\ ses'[x].delivered = ses[x].delivered
             /\ ses'[x].running = ses[x].running /\ ses'[x].suspended = ses[x].suspended
             /\ ses'[x].replay = ses[x].replay /\ ses'[x].cancelled = ses[x].running
  <2>1. ses[x] \in Record /\ ses'[x] = [ses[x] EXCEPT !.closed = TRUE, !.cancelled = ses[x].running]
    BY <1>1
  <2> QED BY <2>1, InterruptFields
<1>4. ses' \in [Ids -> Record] /\ \A x \in Ids \ alive : ses'[x] = ses[x]
  BY <1>1, <1>3
<1>5. /\ alive \in SUBSET alive /\ gone \in SUBSET alive /\ \A x \in gone : ~ses[x].running
      /\ alive' = alive \ gone /\ hist' = [x \in Ids |-> IF x \in gone THEN << >> ELSE hist[x]]
  OBVIOUS
<1> HIDE DEF gone
<1> QED BY <1>2, <1>3, <1>4, <1>5, InterruptStep

----------------------------------------------------------------------------
(* A session is created, with the record it already has.                   *)
LEMMA NewStep ==
    ASSUME EngineInv, SessionNew
    PROVE  EngineInv'
<1> USE DEF SessionNew, histVars
<1>1. cur = NoEvent /\ reader # "flush" /\ \A w \in Workers : ~Holds(w)
  BY UnlockedFacts
<1>2. PICK s \in Ids : s = issued + 1 /\ s > issued /\ s \notin alive
  BY SMT, EngineAssumption DEF EngineInv, Shapes, Ids
<1>3. ses' = ses /\ ses[s] = Fresh /\ sent[s] = << >> /\ hist[s] = << >>
  BY <1>2 DEF EngineInv, Shapes
<1>4. alive' = alive \union {s} /\ UNCHANGED <<hist, cur, work, sent, runs, aborted, flushing>>
  BY <1>2
<1> USE <1>4
<1>5. Shapes'
  <2>1. issued' \in 0 .. MaxIssued /\ alive' \subseteq 1 .. issued'
    <3>1. issued \in Nat /\ MaxIssued \in Nat /\ issued' = issued + 1 /\ issued < MaxIssued
      BY ShapeFacts, EngineAssumption DEF EngineInv
    <3>2. alive \subseteq 1 .. issued
      BY DEF EngineInv, Shapes
    <3> QED BY ONLY <3>1, <3>2, <1>2, <1>4
  <2>2. \A x \in Ids : x > issued' => x > issued
    <3>1. issued \in Nat /\ MaxIssued \in Nat /\ issued' = issued + 1
      BY ShapeFacts, EngineAssumption DEF EngineInv
    <3> QED BY ONLY <3>1 DEF Ids
  <2> QED BY <1>3, <2>1, <2>2 DEF EngineInv, Shapes
<1>6. reader' # "flush"
  BY DEF Answered
<1>7. LockInv'
  BY <1>6 DEF EngineInv, LockInv, Holds
<1>8. TurnInv'
  BY SMT, <1>3 DEF EngineInv, TurnInv, Active, Fresh
<1>9. \A x : /\ OnTurn(x)' = OnTurn(x) /\ Aborted(x)' = Aborted(x)
             /\ Emitted(x)' = Emitted(x) /\ Flushed(x)' = Flushed(x)
  BY <1>1, <1>6 DEF OnTurn, Active, Aborted, Emitted, Flushed
<1>10. \A x \in Ids : Same(x)
  BY <1>3, <1>9 DEF Same
<1>11. Live(ses[s], hist[s], sent[s], OnTurn(s), Aborted(s), Emitted(s), Flushed(s))'
  <2>1. OnTurn(s) = {} /\ Emitted(s) = FALSE /\ Flushed(s) = FALSE
    BY <1>1, <1>2, NoneOnTurn DEF EngineInv, Emitted, Flushed
  <2>2. Live(Fresh, << >>, << >>, {}, Aborted(s), FALSE, FALSE)
    BY SMT DEF Live, SesHist, SesOrder, SesLast, SesSilent, Fresh
  <2> QED BY <1>3, <1>9, <2>1, <2>2
<1>12. Ever(ses[s], sent[s], Aborted(s))'
  BY <1>10, SameKept DEF EngineInv
<1>13. SesInv'
  BY <1>1, <1>2, <1>10, <1>11, <1>12, TouchOne
<1>14. RunInv'
  <2>1. \A x \in Ids, r \in Requests : Ran(x, r) => Ran(x, r)'
    BY <1>3, <1>9 DEF Ran
  <2>2. issued' \in Nat /\ issued' >= issued
    BY SMT, ShapeFacts DEF EngineInv
  <2> QED BY <2>1, <2>2, RunKept DEF EngineInv
<1> QED BY <1>5, <1>7, <1>8, <1>13, <1>14 DEF EngineInv
----------------------------------------------------------------------------
(* The steps of a turn.                                                    *)

\* The goroutine x of a turn goes on to y: the provider is called, or returns.
LEMMA ProgressLive ==
    ASSUME NEW r, NEW h, NEW t, NEW x, NEW y, NEW A, NEW on, NEW fl,
           Live(r, h, t, {x}, A, on, fl),
           \/ x.pc = "starting" /\ y.pc = "provider"
           \/ /\ x.pc = "provider" /\ y.pc = "finishing" /\ y.todo # << >>
              /\ Rank["started"] < Rank[Head(y.todo)]
              /\ r.cancelled => Head(y.todo) # "chunk"
    PROVE  Live(r, h, t, {y}, A, on, fl)
<1>1. \A e : LastOK(r, {x}, e) => LastOK(r, {y}, e)
  BY Zenon DEF LastOK
<1>2. SesLast(r, h, t, {y})
  BY <1>1, Zenon DEF Live, SesLast
<1>3. SesSilent(r, h, {y}, A)
  BY Zenon DEF Live, SesSilent
<1> QED BY <1>2, <1>3 DEF Live

\* The turn ends: its last event is a terminal one.
LEMMA EndLive ==
    ASSUME NEW r, NEW q, NEW h, NEW t, NEW x, NEW A, NEW on, NEW fl,
           Live(r, h, t, {x}, A, on, fl),
           x.pc = "finishing", x.todo = << >>, ~q.running,
           q.turn = r.turn, q.seq = r.seq, q.floor = r.floor, q.delivered = r.delivered,
           q.suspended = r.suspended
    PROVE  Live(q, h, t, {}, A, on, fl)
<1>1. SesHist(q, h, on, fl) /\ SesOrder(q, h, t)
  BY Zenon DEF Live, SesHist, SesOrder
<1>2. \A e : LastOK(r, {x}, e) => LastOK(q, {}, e)
  BY Zenon DEF LastOK
<1>3. SesLast(q, h, t, {})
  BY <1>2, Zenon DEF Live, SesLast
<1>4. SesSilent(q, h, {}, A)
  BY Zenon DEF Live, SesSilent
<1> QED BY <1>1, <1>3, <1>4 DEF Live

\* A goroutine on a turn moves on, and the others stay where they are.
LEMMA OnTurnStep ==
    ASSUME TurnInv, NEW w \in Workers, Active(w), NEW s, work[w].s = s,
           \A v \in Workers \ {w} : work'[v] = work[v], Active(w)' => work'[w].s = s
    PROVE  /\ \A x : x # s => OnTurn(x)' = OnTurn(x)
           /\ Active(w)' => OnTurn(s)' = {work'[w]}
           /\ ~Active(w)' => OnTurn(s)' = {}
<1>1. ASSUME NEW x, x # s PROVE OnTurn(x)' = OnTurn(x)
  <2>1. \A v \in Workers : (Active(v) /\ work[v].s = x) \/ (Active(v)' /\ work'[v].s = x)
                             => work'[v] = work[v]
    BY <1>1
  <2> QED BY <2>1, TurnKept
<1>2. \A v \in Workers : Active(v)' /\ work'[v].s = s => v = w
  BY SMT DEF TurnInv, Active
<1>3. OnTurn(s)' = {work'[v] : v \in {u \in Workers : Active(u)' /\ work'[u].s = s}}
  BY DEF OnTurn
<1>4. ASSUME Active(w)' PROVE OnTurn(s)' = {work'[w]}
  <2>1. {u \in Workers : Active(u)' /\ work'[u].s = s} = {w}
    BY <1>2, <1>4
  <2> QED BY <1>3, <2>1
<1>5. ASSUME ~Active(w)' PROVE OnTurn(s)' = {}
  <2>1. {u \in Workers : Active(u)' /\ work'[u].s = s} = {}
    BY <1>2, <1>5
  <2> QED BY <1>3, <2>1
<1> QED BY <1>1, <1>4, <1>5

\* A goroutine that goes on within its turn.
LEMMA ProgressStep ==
    ASSUME EngineInv, NEW w \in Workers, NEW s, work[w].s = s, cur = NoEvent,
           \/ work[w].pc = "starting" /\ work'[w].pc = "provider"
           \/ /\ work[w].pc = "provider" /\ work'[w].pc = "finishing" /\ reader # "flush"
              /\ \A v \in Workers : ~Holds(v)
              /\ work'[w].todo # << >>
              /\ Rank["started"] < Rank[Head(work'[w].todo)]
              /\ ses[s].cancelled => Head(work'[w].todo) # "chunk",
           work' \in [Workers -> Worker], \A v \in Workers \ {w} : work'[v] = work[v],
           work'[w].s = work[w].s, work'[w].request = work[w].request,
           UNCHANGED <<issued, alive, ses, hist, cur, sent, runs, aborted, flushing>>,
           (reader' = "flush") = (reader = "flush")
    PROVE  EngineInv'
<1>1. Active(w) /\ Active(w)' /\ s \in alive /\ s \in Ids /\ work'[w].s = s
  BY ShapeFacts DEF Active, EngineInv, TurnInv
<1>2. Shapes'
  BY DEF EngineInv, Shapes
<1>3. LockInv'
  BY DEF EngineInv, LockInv, Holds
<1>4. \A v \in Workers : (Active(v)' <=> Active(v)) /\ work'[v].s = work[v].s
  BY <1>1 DEF Active
<1>5. TurnInv'
  BY SMT, <1>4 DEF EngineInv, TurnInv
<1>6. /\ \A x : x # s => OnTurn(x)' = OnTurn(x)
      /\ OnTurn(s)' = {work'[w]} /\ OnTurn(s) = {work[w]}
  BY <1>1, OnTurnStep, OneOnTurn DEF EngineInv
<1>7. \A x : Aborted(x)' = Aborted(x) /\ Emitted(x)' = Emitted(x) /\ Flushed(x)' = Flushed(x)
  BY DEF Aborted, Emitted, Flushed
<1>8. \A x \in Ids \ {s} : Same(x)
  BY <1>6, <1>7 DEF Same
<1>9. /\ Ever(ses[s], sent[s], Aborted(s))
      /\ Live(ses[s], hist[s], sent[s], {work[w]}, Aborted(s), Emitted(s), Flushed(s))
  BY <1>1, <1>6 DEF EngineInv, SesInv
<1>10. Live(ses[s], hist[s], sent[s], {work'[w]}, Aborted(s), Emitted(s), Flushed(s))
  <2>2. \/ work[w].pc = "starting" /\ work'[w].pc = "provider"
        \/ /\ work[w].pc = "provider" /\ work'[w].pc = "finishing" /\ work'[w].todo # << >>
           /\ Rank["started"] < Rank[Head(work'[w].todo)]
           /\ ses[s].cancelled => Head(work'[w].todo) # "chunk"
    OBVIOUS
  <2> QED BY ONLY <1>9, <2>2, ProgressLive, Zenon
<1>11. /\ Ever(ses[s], sent[s], Aborted(s))'
       /\ Live(ses[s], hist[s], sent[s], OnTurn(s), Aborted(s), Emitted(s), Flushed(s))'
  BY <1>6, <1>7, <1>9, <1>10
<1>12. SesInv'
  <2>1. alive' \subseteq alive \union {s}
    OBVIOUS
  <2> QED BY <1>1, <1>8, <1>11, <2>1, TouchOne
<1>13. RunInv'
  <2>1. \A x \in Ids, r \in Requests : Ran(x, r) => Ran(x, r)'
    BY <1>6 DEF Ran
  <2> QED BY SMT, <2>1, RunKept, ShapeFacts DEF EngineInv
<1> QED BY <1>2, <1>3, <1>5, <1>12, <1>13 DEF EngineInv

LEMMA CallStep ==
    ASSUME EngineInv, NEW w \in Workers, CallProvider(w)
    PROVE  EngineInv'
<1> USE DEF CallProvider, histVars
<1>1. work \in [Workers -> Worker] /\ work[w] \in Worker
  BY DEF EngineInv, Shapes
<1>2. work'[w] = [work[w] EXCEPT !.pc = "provider"]
  BY <1>1
<1>3. /\ work'[w] \in Worker /\ work'[w].pc = "provider" /\ work'[w].s = work[w].s
      /\ work'[w].request = work[w].request
  BY <1>1, <1>2 DEF Worker, PCs
<1>4. work' \in [Workers -> Worker] /\ \A v \in Workers \ {w} : work'[v] = work[v]
  BY <1>1, <1>3
<1>5. (reader' = "flush") = (reader = "flush")
  OBVIOUS
<1> QED BY <1>3, <1>4, <1>5, ProgressStep

LEMMA ReturnStep ==
    ASSUME EngineInv, NEW w \in Workers, ProviderReturns(w)
    PROVE  EngineInv'
<1> USE DEF ProviderReturns, histVars
<1>1. work \in [Workers -> Worker] /\ work[w] \in Worker
  BY DEF EngineInv, Shapes
<1>2. PICK reason \in Reasons(work[w].s), usage \in BOOLEAN :
        work' = [work EXCEPT ![w].pc = "finishing", ![w].todo = LastEvents(reason, usage)]
  OBVIOUS
<1>3. /\ LastEvents(reason, usage) \in Todos \ {<< >>}
      /\ Rank["started"] < Rank[Head(LastEvents(reason, usage))]
      /\ reason = "cancelled" => Head(LastEvents(reason, usage)) # "chunk"
  BY LastEventsFacts DEF Reasons
<1>4. ses[work[w].s].cancelled => reason = "cancelled"
  BY DEF Reasons
<1>5. work'[w] = [work[w] EXCEPT !.pc = "finishing", !.todo = LastEvents(reason, usage)]
  BY <1>1, <1>2
<1>6. /\ work'[w] \in Worker /\ work'[w].pc = "finishing" /\ work'[w].s = work[w].s
      /\ work'[w].request = work[w].request /\ work'[w].todo = LastEvents(reason, usage)
  BY <1>1, <1>3, <1>5 DEF Worker, PCs
<1>7. work' \in [Workers -> Worker] /\ \A v \in Workers \ {w} : work'[v] = work[v]
  BY <1>1, <1>2, <1>6
<1>8. cur = NoEvent /\ reader # "flush" /\ \A v \in Workers : ~Holds(v)
  BY UnlockedFacts
<1> HIDE DEF ProviderReturns
<1>9. /\ UNCHANGED <<issued, alive, ses, hist, cur, sent, runs, aborted, flushing, reader>>
      /\ work[w].pc = "provider"
  BY DEF ProviderReturns
<1> QED BY <1>3, <1>4, <1>6, <1>7, <1>8, <1>9, ProgressStep
LEMMA EndStep ==
    ASSUME EngineInv, NEW w \in Workers, TurnEnds(w)
    PROVE  EngineInv'
<1>0. PICK s : s = work[w].s
  OBVIOUS
<1> DEFINE r == work[w].request
           gone == {t \in {s} : ses[t].closed}
<1>1. /\ work[w].pc = "finishing" /\ work[w].todo = << >> /\ cur = NoEvent
      /\ ses' = [ses EXCEPT ![s].running = FALSE, ![s].cancelled = FALSE,
                            ![s].replay = Remembered(s, r)]
      /\ alive' = alive \ gone
      /\ hist' = [x \in Ids |-> IF x \in gone THEN << >> ELSE hist[x]]
      /\ work' = [work EXCEPT ![w] = [Idle EXCEPT !.pc = "reply"]]
      /\ UNCHANGED <<reader, flushing, issued, cur, sent, runs, aborted>>
  BY <1>0 DEF TurnEnds, Release
<1> USE <1>1
<1>2. Holds(w) /\ Active(w) /\ s \in alive /\ s \in Ids /\ reader # "flush" /\ alive \subseteq Ids
  BY <1>0, ShapeFacts DEF EngineInv, TurnInv, LockInv, Holds, Active
<1> USE <1>2
<1>3. /\ ses \in [Ids -> Record] /\ work \in [Workers -> Worker] /\ ses[s] \in Record
      /\ r \in Requests \union {NoRequest}
  <2>1. ses \in [Ids -> Record] /\ work \in [Workers -> Worker]
    BY DEF EngineInv, Shapes
  <2> QED BY <2>1 DEF Worker
<1>4. Remembered(s, r) \subseteq Requests /\ ses[s].replay \subseteq Remembered(s, r)
      /\ (r # NoRequest => r \in Remembered(s, r))
  BY <1>3, RecordFields DEF Remembered
<1> HIDE DEF r, gone
<1>5. ses'[s] = [ses[s] EXCEPT !.running = FALSE, !.cancelled = FALSE, !.replay = Remembered(s, r)]
  BY <1>3
<1>6. /\ ses'[s] \in Record /\ ~ses'[s].running /\ ses'[s].turn = ses[s].turn
      /\ ses'[s].seq = ses[s].seq /\ ses'[s].floor = ses[s].floor
      /\ ses'[s].delivered = ses[s].delivered /\ ses'[s].suspended = ses[s].suspended
      /\ ses'[s].replay = Remembered(s, r)
  BY <1>3, <1>4, <1>5 DEF Record
<1>7. ses' \in [Ids -> Record] /\ \A x \in Ids \ {s} : ses'[x] = ses[x]
  BY <1>3, <1>6
<1> USE <1>7
<1>8. /\ work' \in [Workers -> Worker] /\ \A v \in Workers \ {w} : work'[v] = work[v]
      /\ ~Active(w)' /\ ~Holds(w)'
  <2>1. [Idle EXCEPT !.pc = "reply"] \in Worker /\ [Idle EXCEPT !.pc = "reply"].pc = "reply"
    BY DEF Idle, Worker, PCs, Todos
  <2> QED BY <1>3, <2>1 DEF Active, Holds
<1>9. gone \subseteq {s} /\ (\A x \in Ids \ {s} : hist'[x] = hist[x])
      /\ (s \notin gone => hist'[s] = hist[s]) /\ (s \in gone => hist'[s] = << >>)
  BY DEF gone
<1>10. Shapes'
  <2>1. \A x \in Ids : x > issued => x # s
    BY ShapeFacts DEF EngineInv
  <2>2. \A x \in Ids : x > issued => ses'[x] = Fresh /\ sent[x] = << >>
    BY <2>1 DEF EngineInv, Shapes
  <2>3. hist' \in [Ids -> Seq(Event)]
    BY SMT DEF EngineInv, Shapes
  <2>4. \A x \in Ids : x \notin alive' => hist'[x] = << >>
    BY DEF EngineInv, Shapes
  <2> QED BY <1>8, <2>2, <2>3, <2>4 DEF EngineInv, Shapes
<1>11. LockInv'
  BY <1>8 DEF EngineInv, LockInv, Holds
<1>12. \A v \in Workers : Active(v)' => v # w /\ Active(v) /\ work'[v] = work[v] /\ work[v].s # s
  BY <1>0, <1>8 DEF EngineInv, TurnInv, Active
<1>13. TurnInv'
  <2>1. \A v \in Workers : Active(v)' => work'[v].s \in alive' /\ ses'[work'[v].s].running
    BY SMT, <1>9, <1>12 DEF EngineInv, TurnInv
  <2>2. \A v, u \in Workers : Active(v)' /\ Active(u)' /\ work'[v].s = work'[u].s => v = u
    BY <1>12 DEF EngineInv, TurnInv
  <2>3. ASSUME NEW x \in alive', ses'[x].running
        PROVE  \E v \in Workers : Active(v)' /\ work'[v].s = x
    <3>1. x # s /\ x \in alive /\ ses[x].running
      BY <1>6, <2>3
    <3>2. PICK v \in Workers : Active(v) /\ work[v].s = x
      BY <3>1 DEF EngineInv, TurnInv
    <3>3. v # w /\ work'[v] = work[v] /\ Active(v)'
      BY <3>1, <3>2, <1>0, <1>8 DEF Active
    <3> QED BY <3>2, <3>3
  <2> QED BY <2>1, <2>2, <2>3 DEF TurnInv
<1>14. /\ \A x : x # s => OnTurn(x)' = OnTurn(x)
       /\ OnTurn(s)' = {} /\ OnTurn(s) = {work[w]}
  BY <1>0, <1>8, OnTurnStep, OneOnTurn DEF EngineInv
<1>15. \A x : Aborted(x)' = Aborted(x) /\ Emitted(x)' = Emitted(x) /\ Flushed(x)' = Flushed(x)
  BY DEF Aborted, Emitted, Flushed
<1>16. \A x \in Ids \ {s} : Same(x)
  BY <1>9, <1>14, <1>15 DEF Same
<1>17. /\ Ever(ses[s], sent[s], Aborted(s))
       /\ Live(ses[s], hist[s], sent[s], {work[w]}, Aborted(s), Emitted(s), Flushed(s))
  BY <1>14 DEF EngineInv, SesInv
<1>18. Ever(ses[s], sent[s], Aborted(s))'
  BY <1>6, <1>15, <1>17, Zenon DEF Ever
<1>19. Live(ses'[s], hist[s], sent[s], {}, Aborted(s), Emitted(s), Flushed(s))
  BY ONLY <1>1, <1>6, <1>17, EndLive, Zenon
<1>20. s \in alive' =>
         Live(ses[s], hist[s], sent[s], OnTurn(s), Aborted(s), Emitted(s), Flushed(s))'
  BY <1>9, <1>14, <1>15, <1>19
<1>21. SesInv'
  BY <1>16, <1>18, <1>20, TouchOne
<1>22. RunInv'
  <2>1. ASSUME NEW x \in Ids, NEW z \in Requests, Ran(x, z) PROVE Ran(x, z)'
    <3>1. CASE x # s
      BY <1>14, <2>1, <3>1 DEF Ran
    <3>2. CASE x = s
      <4>1. z \in ses[s].replay \/ z = r
        BY <1>14, <2>1, <3>2 DEF Ran, r
      <4>2. z # NoRequest
        BY EngineAssumption
      <4> QED BY <1>4, <1>6, <3>2, <4>1, <4>2 DEF Ran
    <3> QED BY <3>1, <3>2
  <2> QED BY SMT, <2>1, RunKept, ShapeFacts DEF EngineInv
<1> QED BY <1>10, <1>11, <1>13, <1>21, <1>22 DEF EngineInv
\* The first part of emit, for session s and event e, by goroutine w.
LEMMA EmitStep ==
    ASSUME EngineInv, cur = NoEvent, reader # "flush", reader' # "flush",
           NEW w \in Workers, NEW s \in alive, NEW e \in Event,
           cur' = [s |-> s, event |-> e], hist' = [hist EXCEPT ![s] = Append(@, e)],
           ses' \in [Ids -> Record], \A x \in Ids \ {s} : ses'[x] = ses[x],
           ses'[s].running, ses'[s].delivered = ses[s].delivered, ses'[s].turn >= ses[s].turn,
           work' \in [Workers -> Worker], \A v \in Workers \ {w} : work'[v] = work[v],
           Holds(w)', work'[w].s = s, Active(w) => work[w].s = s,
           \A v \in Workers \ {w} : ~Holds(v) /\ (Active(v) => work[v].s # s),
           UNCHANGED <<issued, alive, sent, aborted>>,
           runs' \in Seq(Ids \X (Requests \union {NoRequest})),
           Live(ses'[s], Append(hist[s], e), sent[s], {work'[w]}, Aborted(s), TRUE, FALSE),
           CurOK(ses'[s], Append(hist[s], e), sent[s], {work'[w]}, e)
    PROVE  /\ Shapes' /\ LockInv' /\ TurnInv' /\ SesInv'
           /\ OnTurn(s)' = {work'[w]} /\ \A x : x # s => OnTurn(x)' = OnTurn(x)
<1>1. s \in Ids /\ ses \in [Ids -> Record] /\ hist \in [Ids -> Seq(Event)]
  BY ShapeFacts DEF EngineInv, Shapes
<1>2. hist'[s] = Append(hist[s], e) /\ hist' \in [Ids -> Seq(Event)]
      /\ \A x \in Ids \ {s} : hist'[x] = hist[x]
  BY <1>1, AppendSeq
<1>3. cur' \in [s : Ids, event : Event] /\ cur'.s = s /\ cur'.event = e
  BY <1>1
<1> USE <1>3
<1>4. cur' # NoEvent
  BY EngineAssumption
<1>5. Shapes'
  <2>1. \A x \in Ids : x > issued => x # s
    BY ShapeFacts DEF EngineInv
  <2>2. \A x \in Ids : x > issued => ses'[x] = Fresh /\ sent[x] = << >>
    BY <2>1 DEF EngineInv, Shapes
  <2>3. \A x \in Ids : x \notin alive => hist'[x] = << >>
    BY <1>2 DEF EngineInv, Shapes
  <2> QED BY <1>2, <2>2, <2>3 DEF EngineInv, Shapes
<1>6. Active(w)' /\ \A v \in Workers \ {w} : (Active(v)' <=> Active(v)) /\ ~Holds(v)'
  BY DEF Active, Holds
<1> USE <1>6
<1>7. LockInv'
  BY DEF LockInv
<1>8. TurnInv'
  <2>1. \A v \in Workers : Active(v)' => work'[v].s \in alive /\ ses'[work'[v].s].running
    <3>1. \A v \in Workers \ {w} : Active(v)' =>
            work'[v] = work[v] /\ work[v].s \in alive /\ ses[work[v].s].running /\ work[v].s # s
      BY DEF EngineInv, TurnInv
    <3>2. alive \subseteq Ids
      BY ShapeFacts DEF EngineInv
    <3>3. ASSUME NEW v \in Workers \ {w}, Active(v)'
          PROVE  work'[v].s \in alive /\ ses'[work'[v].s].running
      <4>1. PICK x : x = work[v].s
        OBVIOUS
      <4>2. x \in Ids \ {s} /\ x \in alive /\ ses[x].running /\ work'[v].s = x
        BY <3>1, <3>2, <3>3, <4>1
      <4>3. ses'[x] = ses[x]
        BY <4>2
      <4> QED BY <4>2, <4>3
    <3> QED BY <3>3
  <2>2. ASSUME NEW v \in Workers, NEW u \in Workers, Active(v)', Active(u)', work'[v].s = work'[u].s
        PROVE  v = u
    <3>1. \A z \in Workers \ {w} : Active(z)' => Active(z) /\ work'[z] = work[z] /\ work[z].s # s
      OBVIOUS
    <3>2. CASE v = w \/ u = w
      BY <2>2, <3>1, <3>2
    <3>3. CASE v # w /\ u # w
      <4>1. Active(v) /\ Active(u) /\ work'[v] = work[v] /\ work'[u] = work[u]
        BY <2>2, <3>1, <3>3
      <4>2. work[v].s = work[u].s
        BY <2>2, <4>1
      <4> QED BY <4>1, <4>2 DEF EngineInv, TurnInv
    <3> QED BY <3>2, <3>3
  <2>3. ASSUME NEW x \in alive, ses'[x].running
        PROVE  \E v \in Workers : Active(v)' /\ work'[v].s = x
    <3>1. CASE x = s
      BY <3>1
    <3>2. CASE x # s
      <4>1. ses[x].running
        BY <2>3, <3>2, ShapeFacts DEF EngineInv
      <4>2. PICK v \in Workers : Active(v) /\ work[v].s = x
        BY <4>1 DEF EngineInv, TurnInv
      <4> QED BY <3>2, <4>2
    <3> QED BY <3>1, <3>2
  <2> QED BY <2>1, <2>2, <2>3 DEF TurnInv
<1>9. OnTurn(s)' = {work'[w]}
  <2>1. {u \in Workers : Active(u)' /\ work'[u].s = s} = {w}
    OBVIOUS
  <2>2. OnTurn(s)' = {work'[v] : v \in {u \in Workers : Active(u)' /\ work'[u].s = s}}
    BY DEF OnTurn
  <2> QED BY SMT, <2>1, <2>2
<1>10. ASSUME NEW x, x # s PROVE OnTurn(x)' = OnTurn(x)
  <2>1. \A v \in Workers : (Active(v) /\ work[v].s = x) \/ (Active(v)' /\ work'[v].s = x)
                             => work'[v] = work[v]
    BY <1>10
  <2> QED BY <2>1, TurnKept
<1>11. /\ \A x : Aborted(x)' = Aborted(x) /\ Flushed(x)' = Flushed(x)
       /\ \A x : x # s => Emitted(x)' = Emitted(x)
       /\ Emitted(s)' = TRUE /\ Flushed(s)' = FALSE
  BY <1>4 DEF Aborted, Emitted, Flushed
<1>12. \A x \in Ids \ {s} : Same(x)
  BY <1>2, <1>10, <1>11 DEF Same
<1>13. Ever(ses[s], sent[s], Aborted(s))'
  <2>1. Ever(ses[s], sent[s], Aborted(s))
    BY <1>1 DEF EngineInv, SesInv
  <2>2. \A n \in Aborted(s) : n \in Nat
    <3>1. aborted \subseteq Ids \X Nat
      BY DEF EngineInv, Shapes
    <3> QED BY ONLY <3>1, AbortedTurns, Zenon
  <2>3. ses[s].turn \in Nat /\ ses'[s].turn \in Nat
    BY <1>1, RecordFields
  <2>4. ASSUME NEW n \in Aborted(s) PROVE n <= ses'[s].turn
    <3>1. n \in Nat /\ n <= ses[s].turn /\ ses'[s].turn >= ses[s].turn
      BY <2>1, <2>2 DEF Ever
    <3> QED BY SMT, <2>3, <3>1
  <2> QED BY <2>1, <2>4, <1>11, Zenon DEF Ever
<1>14. Live(ses[s], hist[s], sent[s], OnTurn(s), Aborted(s), Emitted(s), Flushed(s))'
  BY <1>2, <1>9, <1>11
<1>15. CurOK(ses[cur.s], hist[cur.s], sent[cur.s], OnTurn(cur.s), cur.event)'
  <2>1. OnTurn(cur.s)' = {work'[w]}
    BY <1>9 DEF OnTurn
  <2> QED BY <1>2, <2>1
<1>16. SesInv'
  BY <1>1, <1>12, <1>13, <1>14, <1>15, TouchOne
<1> QED BY <1>5, <1>7, <1>8, <1>9, <1>10, <1>16
LEMMA FinishStep ==
    ASSUME EngineInv, NEW w \in Workers, FinishEmits(w)
    PROVE  EngineInv'
<1>0. PICK s : s = work[w].s
  OBVIOUS
<1>1. PICK kind : kind = Head(work[w].todo)
  OBVIOUS
<1>2. PICK size \in Nat : Emit(s, kind, size) /\ ses' = [ses EXCEPT ![s].seq = @ + 1, ![s].bytes = @ + size]
  BY <1>0, <1>1, EngineAssumption DEF FinishEmits
<1>3. /\ work[w].pc = "finishing" /\ work[w].todo # << >> /\ cur = NoEvent
      /\ work' = [work EXCEPT ![w].todo = Tail(@)]
      /\ UNCHANGED <<reader, flushing, issued, alive, sent, runs, aborted>>
  BY DEF FinishEmits
<1>4. Holds(w) /\ Active(w) /\ s \in alive /\ s \in Ids /\ reader # "flush" /\ ses[s].running
  BY <1>0, <1>3, ShapeFacts DEF EngineInv, TurnInv, LockInv, Holds, Active
<1>5. /\ ses \in [Ids -> Record] /\ work \in [Workers -> Worker] /\ ses[s] \in Record
      /\ hist[s] \in Seq(Event) /\ sent[s] \in Seq(Event) /\ work[w].todo \in Todos
  <2>1. ses \in [Ids -> Record] /\ work \in [Workers -> Worker]
    BY DEF EngineInv, Shapes
  <2> QED BY <1>4, <2>1, ShapeFacts DEF EngineInv, Worker
<1>6. /\ kind \in Kinds \ {"started"} /\ Tail(work[w].todo) \in Todos
      /\ Tail(work[w].todo) = << >> => Rank[kind] = 4
      /\ Tail(work[w].todo) # << >> => Rank[kind] < Rank[Head(Tail(work[w].todo))]
                                       /\ Head(Tail(work[w].todo)) # "chunk"
  BY <1>1, <1>3, <1>5, TodoFacts
<1> DEFINE e == [seq |-> ses[s].seq + 1, turn |-> ses[s].turn, kind |-> kind, size |-> size]
<1>7. ses[s].seq \in Nat /\ ses[s].turn \in Nat /\ ses[s].bytes \in Int
  BY <1>5, RecordFields
<1>8. e \in Event /\ e.seq = ses[s].seq + 1 /\ e.turn = ses[s].turn /\ e.kind = kind
  BY SMT, <1>6, <1>7 DEF Event
<1>9. cur' = [s |-> s, event |-> e] /\ hist' = [hist EXCEPT ![s] = Append(@, e)]
  BY <1>2 DEF Emit
<1> HIDE DEF e
<1>10. ses'[s] = [ses[s] EXCEPT !.seq = @ + 1, !.bytes = @ + size]
  BY <1>2, <1>4, <1>5
<1>11. /\ ses'[s] \in Record /\ ses'[s].seq = ses[s].seq + 1 /\ ses'[s].turn = ses[s].turn
       /\ ses'[s].floor = ses[s].floor /\ ses'[s].delivered = ses[s].delivered
       /\ ses'[s].suspended = ses[s].suspended /\ ses'[s].running = ses[s].running
       /\ ses'[s].cancelled = ses[s].cancelled /\ ses'[s].replay = ses[s].replay
  <2> DEFINE r == ses[s]  b == ses[s].bytes + size  n == ses[s].seq + 1
  <2>1. r \in Record /\ b \in Int /\ n \in Nat /\ ses'[s] = [r EXCEPT !.seq = n, !.bytes = b]
    BY SMT, <1>5, <1>7, <1>10
  <2> HIDE DEF r, b, n
  <2>2. [r EXCEPT !.seq = n, !.bytes = b] \in Record
    BY <2>1 DEF Record
  <2>3. /\ ses'[s].seq = n /\ ses'[s].turn = r.turn /\ ses'[s].floor = r.floor
        /\ ses'[s].delivered = r.delivered /\ ses'[s].suspended = r.suspended
        /\ ses'[s].running = r.running /\ ses'[s].cancelled = r.cancelled
        /\ ses'[s].replay = r.replay
    BY <2>1 DEF Record
  <2> QED BY <2>1, <2>2, <2>3 DEF r, n
<1>12. ses' \in [Ids -> Record] /\ \A x \in Ids \ {s} : ses'[x] = ses[x]
  BY <1>2, <1>5, <1>11
<1>13. work'[w] = [work[w] EXCEPT !.todo = Tail(work[w].todo)] /\ work[w] \in Worker
  BY <1>3, <1>5
<1>14. /\ work'[w] \in Worker /\ work'[w].pc = "finishing" /\ work'[w].s = s
       /\ work'[w].todo = Tail(work[w].todo) /\ work'[w].request = work[w].request
  <2> DEFINE d == Tail(work[w].todo)
  <2>1. d \in Todos /\ work'[w] = [work[w] EXCEPT !.todo = d]
    BY <1>6, <1>13
  <2> HIDE DEF d
  <2>2. /\ work'[w] \in Worker /\ work'[w].pc = work[w].pc /\ work'[w].s = work[w].s
        /\ work'[w].todo = d /\ work'[w].request = work[w].request
    BY <1>13, <2>1 DEF Worker
  <2> QED BY <1>0, <1>3, <2>2 DEF d
<1>15. work' \in [Workers -> Worker] /\ \A v \in Workers \ {w} : work'[v] = work[v]
  BY <1>3, <1>5, <1>14
<1>16. OnTurn(s) = {work[w]}
  BY <1>0, <1>4, OneOnTurn DEF EngineInv
<1>17. /\ Ever(ses[s], sent[s], Aborted(s))
       /\ Live(ses[s], hist[s], sent[s], {work[w]}, Aborted(s), FALSE, FALSE)
  <2>1. Emitted(s) = FALSE /\ Flushed(s) = FALSE
    BY <1>3, <1>4 DEF Emitted, Flushed
  <2> QED BY <1>4, <1>16, <2>1 DEF EngineInv, SesInv
<1>18. /\ Live(ses'[s], Append(hist[s], e), sent[s], {work'[w]}, Aborted(s), TRUE, FALSE)
       /\ CurOK(ses'[s], Append(hist[s], e), sent[s], {work'[w]}, e)
  <2>1. LastOK(ses'[s], {work'[w]}, e)
    BY <1>4, <1>6, <1>8, <1>11, <1>14, Zenon DEF LastOK
  <2>2. ses[s].seq > 0 /\ ses[s].turn > 0
    <3>1. (ses[s].seq = 0 <=> ses[s].turn = 0) /\ ses[s].seq > 0
      BY <1>4, <1>17 DEF Live, SesOrder
    <3> QED BY SMT, <1>7, <3>1
  <2>3. \A p \in Event : LastOK(ses[s], {work[w]}, p) => Follows(p, e)
    BY <1>1, <1>3, <1>8 DEF LastOK, Follows
  <2>4. e.kind = "chunk" => e.turn \notin Aborted(s)
    BY <1>1, <1>3, <1>8, <1>17, Zenon DEF Live, SesSilent
  <2>5. SesSilent(ses'[s], hist[s], {work'[w]}, Aborted(s))
    BY <1>6, <1>11, <1>14, <1>17, Zenon DEF Live, SesSilent
  <2>6. \A x \in {work'[w]} : x.pc # "finishing" => e.kind # "chunk"
    BY <1>14
  <2> DEFINE q == ses'[s]  y == work'[w]
  <2>7. /\ q \in Record /\ q.seq = ses[s].seq + 1 /\ q.floor = ses[s].floor
        /\ q.delivered = ses[s].delivered /\ q.suspended = ses[s].suspended
        /\ e.seq = q.seq /\ e.turn = q.turn /\ q.turn >= ses[s].turn /\ q.turn > 0
    BY SMT, <1>7, <1>8, <1>11, <2>2
  <2>8. /\ LastOK(q, {y}, e) /\ SesSilent(q, hist[s], {y}, Aborted(s))
        /\ \A x \in {y} : x.pc # "finishing" => e.kind # "chunk"
    BY <2>1, <2>5, <2>6
  <2>9. ses[s].seq # 0
    BY SMT, <1>7, <2>2
  <2> HIDE DEF q, y
  <2>10. /\ Live(q, Append(hist[s], e), sent[s], {y}, Aborted(s), TRUE, FALSE)
         /\ CurOK(q, Append(hist[s], e), sent[s], {y}, e)
    BY ONLY <1>5, <1>8, <1>17, <2>3, <2>4, <2>7, <2>8, <2>9, EmitLive, ZenonT(30)
  <2> QED BY <2>10 DEF q, y
<1>19. \A v \in Workers \ {w} : ~Holds(v) /\ (Active(v) => work[v].s # s)
  BY <1>0, <1>4 DEF EngineInv, LockInv, TurnInv
<1>20. /\ Shapes' /\ LockInv' /\ TurnInv' /\ SesInv'
       /\ OnTurn(s)' = {work'[w]} /\ \A x : x # s => OnTurn(x)' = OnTurn(x)
  <2>1. Holds(w)' /\ reader' # "flush" /\ ses'[s].turn >= ses[s].turn /\ ses'[s].running
    BY SMT, <1>3, <1>4, <1>7, <1>11, <1>14 DEF Holds
  <2>2. runs' \in Seq(Ids \X (Requests \union {NoRequest}))
    BY <1>3 DEF EngineInv, Shapes
  <2> QED BY <1>0, <1>3, <1>4, <1>8, <1>9, <1>11, <1>12, <1>14, <1>15, <1>18, <1>19, <2>1, <2>2,
             EmitStep
<1>21. RunInv'
  <2>1. ASSUME NEW x \in Ids, NEW z \in Requests, Ran(x, z) PROVE Ran(x, z)'
    <3>1. CASE x # s
      BY <1>12, <1>20, <2>1, <3>1 DEF Ran
    <3>2. CASE x = s
      BY <1>11, <1>14, <1>16, <1>20, <2>1, <3>2 DEF Ran
    <3> QED BY <3>1, <3>2
  <2> QED BY SMT, <1>3, <2>1, RunKept, ShapeFacts DEF EngineInv
<1> QED BY <1>20, <1>21 DEF EngineInv
LEMMA StartStep ==
    ASSUME EngineInv, NEW w \in Workers, NEW s \in Ids, NEW r \in Requests \union {NoRequest},
           PromptStarts(w, s, r)
    PROVE  EngineInv'
<1>1. /\ work[w].pc = "idle" /\ MayStart(s, r) /\ reader' = "await"
      /\ runs' = Append(runs, <<s, r>>)
      /\ UNCHANGED <<flushing, issued, alive, sent, aborted>>
  BY DEF PromptStarts
<1>2. cur = NoEvent /\ reader # "flush" /\ \A v \in Workers : ~Holds(v)
  BY UnlockedFacts DEF PromptStarts
<1>3. s \in alive /\ ~Replayed(s, r) /\ ~ses[s].running
  BY <1>1 DEF MayStart
<1>4. /\ ses \in [Ids -> Record] /\ work \in [Workers -> Worker] /\ ses[s] \in Record
      /\ hist[s] \in Seq(Event) /\ sent[s] \in Seq(Event)
  BY ShapeFacts DEF EngineInv, Shapes
<1>5. ses[s].seq \in Nat /\ ses[s].turn \in Nat /\ ses[s].bytes \in Int
  BY <1>4, RecordFields
<1> DEFINE e == [seq |-> ses[s].seq + 1, turn |-> ses[s].turn + 1, kind |-> "started", size |-> 1]
           z == [pc |-> "starting", s |-> s, request |-> r, todo |-> << >>]
<1>6. e \in Event /\ e.seq = ses[s].seq + 1 /\ e.turn = ses[s].turn + 1 /\ e.kind = "started"
  BY SMT, <1>5 DEF Event, Kinds
<1>7. z \in Worker /\ z.pc = "starting" /\ z.s = s /\ z.request = r
  BY DEF Worker, PCs, Todos
<1>8. /\ cur' = [s |-> s, event |-> e] /\ hist' = [hist EXCEPT ![s] = Append(@, e)]
      /\ work' = [work EXCEPT ![w] = z]
  BY DEF PromptStarts
<1> HIDE DEF e, z
<1>9. /\ work'[w] = z /\ work' \in [Workers -> Worker] /\ \A v \in Workers \ {w} : work'[v] = work[v]
  BY <1>4, <1>7, <1>8
<1>10. /\ ses'[s] \in Record /\ ses'[s].seq = ses[s].seq + 1 /\ ses'[s].turn = ses[s].turn + 1
       /\ ses'[s].floor = ses[s].floor /\ ses'[s].delivered = ses[s].delivered
       /\ ses'[s].suspended = ses[s].suspended /\ ses'[s].running
       /\ ses'[s].replay = ses[s].replay
  <2> DEFINE q == ses[s]  b == ses[s].bytes + 1  n == ses[s].seq + 1  t == ses[s].turn + 1
  <2>1. /\ q \in Record /\ b \in Int /\ n \in Nat /\ t \in Nat
        /\ ses'[s] = [q EXCEPT !.running = TRUE, !.cancelled = FALSE, !.turn = t, !.seq = n, !.bytes = b]
    <3>1. b \in Int /\ n \in Nat /\ t \in Nat
      BY SMT, <1>5
    <3>2. ses'[s] = [q EXCEPT !.running = TRUE, !.cancelled = FALSE, !.turn = t, !.seq = n, !.bytes = b]
      BY <1>4 DEF PromptStarts
    <3> QED BY <1>4, <3>1, <3>2
  <2> HIDE DEF q, b, n, t
  <2>2. ses'[s] \in Record
    BY <2>1 DEF Record
  <2>3. /\ ses'[s].seq = n /\ ses'[s].turn = t /\ ses'[s].floor = q.floor
        /\ ses'[s].delivered = q.delivered /\ ses'[s].suspended = q.suspended
        /\ ses'[s].running /\ ses'[s].replay = q.replay
    BY <2>1 DEF Record
  <2> QED BY <2>2, <2>3 DEF q, n, t
<1>11. ses' \in [Ids -> Record] /\ \A x \in Ids \ {s} : ses'[x] = ses[x]
  <2>1. \A x \in Ids \ {s} : ses'[x] = ses[x]
    BY <1>4 DEF PromptStarts
  <2>2. ses' = [x \in Ids |-> ses'[x]]
    BY <1>4 DEF PromptStarts
  <2>3. \A x \in Ids : ses'[x] \in Record
    BY <1>4, <1>10, <2>1
  <2> QED BY <2>1, <2>2, <2>3
<1>12. OnTurn(s) = {}
  BY <1>3, NoneOnTurn DEF EngineInv
<1>13. /\ Ever(ses[s], sent[s], Aborted(s))
       /\ Live(ses[s], hist[s], sent[s], {}, Aborted(s), FALSE, FALSE)
  <2>1. Emitted(s) = FALSE /\ Flushed(s) = FALSE
    BY <1>2 DEF Emitted, Flushed
  <2> QED BY <1>3, <1>12, <2>1 DEF EngineInv, SesInv
<1>14. /\ Live(ses'[s], Append(hist[s], e), sent[s], {z}, Aborted(s), TRUE, FALSE)
       /\ CurOK(ses'[s], Append(hist[s], e), sent[s], {z}, e)
  <2> DEFINE q == ses'[s]
  <2>1. /\ q \in Record /\ q.seq = ses[s].seq + 1 /\ q.floor = ses[s].floor
        /\ q.delivered = ses[s].delivered /\ q.suspended = ses[s].suspended
        /\ e.seq = q.seq /\ e.turn = q.turn /\ q.turn >= ses[s].turn /\ q.turn > 0
        /\ q.turn = ses[s].turn + 1
    BY SMT, <1>5, <1>6, <1>10
  <2>2. q.running
    BY <1>10
  <2> HIDE DEF q
  <2>3. LastOK(q, {z}, e)
    BY <1>6, <1>7, <2>1, <2>2, Zenon DEF LastOK
  <2>4. ses[s].seq = 0 => e.kind = "started" /\ e.turn = 1
    <3>1. ses[s].seq = 0 <=> ses[s].turn = 0
      BY <1>13 DEF Live, SesOrder
    <3> QED BY SMT, <1>5, <1>6, <3>1
  <2>5. ASSUME NEW p \in Event, LastOK(ses[s], {}, p) PROVE Follows(p, e)
    BY <1>3, <1>6, <2>5 DEF LastOK, Follows
  <2>6. e.kind # "chunk"
    BY <1>6
  <2>7. SesSilent(q, hist[s], {z}, Aborted(s))
    <3>1. q.turn \notin Aborted(s)
      <4>1. q.turn \in Aborted(s) => q.turn <= ses[s].turn
        BY <1>13 DEF Ever
      <4>2. ~(q.turn <= ses[s].turn)
        BY SMTT(30), <1>5, <2>1
      <4> QED BY <4>1, <4>2
    <3>2. \A i \in 1 .. Len(hist[s]) : hist[s][i].turn < q.turn /\ hist[s][i].turn <= q.turn
      <4> TAKE i \in 1 .. Len(hist[s])
      <4>1. hist[s][i] \in Event
        BY SMT, <1>4
      <4>2. hist[s][i].turn \in Nat
        BY <4>1 DEF Event
      <4>3. hist[s][i].turn <= ses[s].turn
        BY <1>13 DEF Live, SesSilent
      <4> QED BY SMTT(30), <4>2, <4>3, <1>5, <2>1
    <3>3. \A i \in 1 .. Len(hist[s]) : hist[s][i].kind = "chunk" => hist[s][i].turn \notin Aborted(s)
      BY <1>13 DEF Live, SesSilent
    <3> QED BY <1>7, <3>1, <3>2, <3>3, Zenon DEF SesSilent
  <2>8. /\ Live(q, Append(hist[s], e), sent[s], {z}, Aborted(s), TRUE, FALSE)
        /\ CurOK(q, Append(hist[s], e), sent[s], {z}, e)
    BY ONLY <1>4, <1>6, <1>13, <2>1, <2>3, <2>4, <2>5, <2>6, <2>7, EmitLive, ZenonT(30)
  <2> QED BY <2>8 DEF q
<1>15. /\ Shapes' /\ LockInv' /\ TurnInv' /\ SesInv'
       /\ OnTurn(s)' = {work'[w]} /\ \A x : x # s => OnTurn(x)' = OnTurn(x)
  <2>1. Holds(w)' /\ reader' # "flush" /\ ses'[s].turn >= ses[s].turn /\ ~Active(w)
    BY SMTT(30), <1>1, <1>5, <1>7, <1>9, <1>10 DEF Holds, Active
  <2>2. runs' \in Seq(Ids \X (Requests \union {NoRequest}))
    BY SMT, <1>1 DEF EngineInv, Shapes
  <2>3. \A v \in Workers \ {w} : ~Holds(v) /\ (Active(v) => work[v].s # s)
    BY <1>2, <1>3 DEF EngineInv, TurnInv
  <2> QED BY <1>1, <1>2, <1>3, <1>6, <1>7, <1>8, <1>9, <1>10, <1>11, <1>14, <2>1, <2>2, <2>3,
             EmitStep
<1>16. \A x \in Ids, y \in Requests : Ran(x, y) => Ran(x, y)'
  BY <1>10, <1>11, <1>12, <1>15 DEF Ran
<1>17. RunInv'
  <2>1. /\ runs \in Seq(Ids \X (Requests \union {NoRequest})) /\ Len(runs) \in Nat
        /\ Len(runs') = Len(runs) + 1 /\ runs'[Len(runs) + 1] = <<s, r>>
        /\ \A i \in 1 .. Len(runs) : runs'[i] = runs[i]
    BY SMT, <1>1 DEF EngineInv, Shapes
  <2>2. ASSUME NEW i \in 1 .. Len(runs)
        PROVE  /\ runs[i][1] \in Ids /\ runs[i][2] \in Requests \union {NoRequest}
               /\ runs[i][1] <= issued /\ (runs[i][2] # NoRequest => Ran(runs[i][1], runs[i][2]))
    <3>1. runs[i] \in Ids \X (Requests \union {NoRequest})
      BY SMT, <2>1
    <3> QED BY <3>1 DEF EngineInv, RunInv
  <2>3. \A i \in 1 .. Len(runs) : runs[i] = <<s, r>> => r = NoRequest
    <3> SUFFICES ASSUME NEW i \in 1 .. Len(runs), runs[i] = <<s, r>>, r # NoRequest PROVE FALSE
      OBVIOUS
    <3>1. Ran(s, r)
      BY SMT, <2>2
    <3> QED BY <3>1, <1>3, <1>12 DEF Ran, Replayed
  <2>4. RunOnce'
    <3>1. \A i, j \in 1 .. Len(runs) : runs[i] = runs[j] /\ runs[i][2] # NoRequest => i = j
      BY SMT, <2>1 DEF EngineInv, RunInv, RunOnce
    <3>2. <<s, r>>[2] = r
      OBVIOUS
    <3>3. \A i \in 1 .. Len(runs') : i \in 1 .. Len(runs) \/ i = Len(runs) + 1
      BY SMT, <2>1
    <3>4. DOMAIN runs' = 1 .. Len(runs')
      BY SMT, <1>1, <2>1
    <3>5. ASSUME NEW i \in 1 .. Len(runs'), NEW j \in 1 .. Len(runs'),
                 runs'[i] = runs'[j], runs'[i][2] # NoRequest
          PROVE  i = j
      <4>1. CASE i \in 1 .. Len(runs) /\ j \in 1 .. Len(runs)
        <5>1. runs'[i] = runs[i] /\ runs'[j] = runs[j]
          BY <4>1, <2>1, Zenon
        <5>2. runs[i] = runs[j] /\ runs[i][2] # NoRequest
          BY <3>5, <5>1, Zenon
        <5> QED BY ONLY <4>1, <5>2, <3>1, Zenon
      <4>2. CASE i \in 1 .. Len(runs) /\ j = Len(runs) + 1
        BY <4>2, <3>5, <3>2, <2>1, <2>3, Zenon
      <4>3. CASE i = Len(runs) + 1 /\ j \in 1 .. Len(runs)
        BY <4>3, <3>5, <3>2, <2>1, <2>3, Zenon
      <4> QED BY <4>1, <4>2, <4>3, <3>3, Zenon
    <3> QED BY <3>4, <3>5, Zenon DEF RunOnce
  <2>5. s <= issued
    BY <1>3, ShapeFacts DEF EngineInv
  <2>6. r # NoRequest => Ran(s, r)'
    BY <1>7, <1>9, <1>15 DEF Ran
  <2>7. ASSUME NEW i \in 1 .. Len(runs')
        PROVE  (runs[i][1] <= issued /\ (runs[i][2] # NoRequest => Ran(runs[i][1], runs[i][2])))'
    <3>1. CASE i \in 1 .. Len(runs)
      <4>1. PICK x \in Ids, y \in Requests \union {NoRequest} :
                x = runs[i][1] /\ y = runs[i][2]
        BY <2>2, <3>1
      <4>2. runs'[i] = runs[i] /\ x <= issued' /\ (y # NoRequest => Ran(x, y)')
        BY <1>1, <1>16, <2>1, <2>2, <3>1, <4>1
      <4> QED BY <4>1, <4>2
    <3>2. CASE i = Len(runs) + 1
      <4>1. runs'[i][1] = s /\ runs'[i][2] = r
        BY SMT, <2>1, <3>2
      <4> QED BY <4>1, <2>5, <2>6, <1>1
    <3> QED BY SMT, <3>1, <3>2, <2>1
  <2> QED BY <2>4, <2>7 DEF RunInv
<1> QED BY <1>15, <1>17 DEF EngineInv
\* One of the emitting session's, or of the largest session's, events goes.
LEMMA EvictStep ==
    ASSUME EngineInv, Evict
    PROVE  EngineInv'
<1>1. /\ cur # NoEvent
      /\ UNCHANGED <<reader, flushing, issued, alive, cur, work, sent, runs, aborted>>
  BY DEF Evict
<1> USE <1>1
<1>2. cur.s \in alive /\ cur.s \in Ids /\ reader # "flush"
  <2>1. PICK w \in Workers : Holds(w) /\ work[w].s = cur.s
    BY DEF EngineInv, LockInv
  <2>2. Active(w)
    BY <2>1 DEF Holds, Active
  <2> QED BY <2>1, <2>2, ShapeFacts DEF EngineInv, LockInv, TurnInv
<1>3. PICK s \in alive : EvictOldest(s) /\ hist[s] # << >>
  <2>1. CASE OverOwn(cur.s) /\ EvictOldest(cur.s)
    BY SMT, <2>1, <1>2 DEF OverOwn
  <2>2. CASE \E s \in Largest : EvictOldest(s)
    BY <2>2 DEF Largest
  <2> QED BY <2>1, <2>2 DEF Evict
<1> USE <1>3
<1>4. s \in Ids /\ ses \in [Ids -> Record] /\ ses[s] \in Record /\ hist \in [Ids -> Seq(Event)]
      /\ hist[s] \in Seq(Event) /\ sent[s] \in Seq(Event)
  BY ShapeFacts DEF EngineInv, Shapes
<1> USE <1>4
<1>5. /\ Len(hist[s]) > 0 /\ Tail(hist[s]) \in Seq(Event) /\ Head(hist[s]) \in Event
  BY SMT
<1>6. ses[s].floor \in Nat /\ ses[s].bytes \in Int /\ Head(hist[s]).size \in Nat
  BY <1>5, RecordFields DEF Event, Record
<1>7. /\ ses'[s] \in Record /\ ses'[s].floor = ses[s].floor + 1 /\ ses'[s].seq = ses[s].seq
      /\ ses'[s].turn = ses[s].turn /\ ses'[s].delivered = ses[s].delivered
      /\ ses'[s].suspended = ses[s].suspended /\ ses'[s].running = ses[s].running
      /\ ses'[s].cancelled = ses[s].cancelled /\ ses'[s].replay = ses[s].replay
  <2> DEFINE q == ses[s]  b == ses[s].bytes - Head(hist[s]).size  f == ses[s].floor + 1
  <2>1. q \in Record /\ b \in Int /\ f \in Nat /\ ses'[s] = [q EXCEPT !.bytes = b, !.floor = f]
    BY SMT, <1>6 DEF EvictOldest
  <2> HIDE DEF q, b, f
  <2>2. ses'[s] \in Record
    BY <2>1 DEF Record
  <2>3. /\ ses'[s].floor = f /\ ses'[s].seq = q.seq /\ ses'[s].turn = q.turn
        /\ ses'[s].delivered = q.delivered /\ ses'[s].suspended = q.suspended
        /\ ses'[s].running = q.running /\ ses'[s].cancelled = q.cancelled
        /\ ses'[s].replay = q.replay
    BY <2>1 DEF Record
  <2> QED BY <2>2, <2>3 DEF q, f
<1>8. /\ ses' \in [Ids -> Record] /\ \A x \in Ids \ {s} : ses'[x] = ses[x]
      /\ hist' \in [Ids -> Seq(Event)] /\ hist'[s] = Tail(hist[s])
      /\ \A x \in Ids \ {s} : hist'[x] = hist[x]
  BY <1>5, <1>7 DEF EvictOldest
<1> USE <1>8
<1>9. Shapes'
  <2>4. \A x \in Ids : x > issued' => x # s /\ x > issued
    BY ShapeFacts DEF EngineInv
  <2>2. \A x \in Ids : x > issued' => ses'[x] = Fresh /\ sent'[x] = << >>
    BY <2>4 DEF EngineInv, Shapes
  <2>3. \A x \in Ids : x \notin alive' => hist'[x] = << >>
    BY DEF EngineInv, Shapes
  <2> QED BY <2>2, <2>3 DEF EngineInv, Shapes
<1>10. LockInv'
  BY DEF EngineInv, LockInv, Holds
<1>11. /\ \A x : OnTurn(x)' = OnTurn(x) /\ Aborted(x)' = Aborted(x)
       /\ \A x : Emitted(x)' = Emitted(x) /\ Flushed(x)' = Flushed(x)
  BY DEF OnTurn, Aborted, Emitted, Flushed, Active
<1>12. TurnInv'
  <2>1. \A x \in Ids : ses'[x].running = ses[x].running
    BY <1>7
  <2>2. alive \subseteq Ids
    BY ShapeFacts DEF EngineInv
  <2> QED BY <2>1, <2>2 DEF EngineInv, TurnInv, Active
<1>13. SesInv'
  <2>1. Live(ses[s], hist[s], sent[s], OnTurn(s), Aborted(s), Emitted(s), FALSE)
    <3>1. Flushed(s) = FALSE
      BY <1>2 DEF Flushed
    <3> QED BY <3>1 DEF EngineInv, SesInv
  <2> DEFINE q == ses'[s]
  <2>2. /\ Live(q, Tail(hist[s]), sent[s], OnTurn(s), Aborted(s), Emitted(s), FALSE)
        /\ \A e : CurOK(ses[s], hist[s], sent[s], OnTurn(s), e)
                    => CurOK(q, Tail(hist[s]), sent[s], OnTurn(s), e)
    <3>1. Emitted(s) \in BOOLEAN
      BY DEF Emitted
    <3>2. /\ q \in Record /\ q.floor = ses[s].floor + 1 /\ q.seq = ses[s].seq
          /\ q.turn = ses[s].turn /\ q.delivered = ses[s].delivered
          /\ q.suspended = ses[s].suspended /\ q.running = ses[s].running
          /\ q.cancelled = ses[s].cancelled
      BY <1>7
    <3> HIDE DEF q
    <3> QED BY ONLY <1>4, <1>5, <2>1, <3>1, <3>2, EvictLive, ZenonT(30)
  <2>3. Ever(ses[s], sent[s], Aborted(s))'
    BY <1>7, <1>11 DEF EngineInv, SesInv, Ever
  <2>4. Live(ses[s], hist[s], sent[s], OnTurn(s), Aborted(s), Emitted(s), Flushed(s))'
    <3>1. Flushed(s)' = FALSE
      BY <1>2 DEF Flushed
    <3> QED BY <3>1, <1>11, <2>2
  <2>5. \/ CurOK(ses[cur.s], hist[cur.s], sent[cur.s], OnTurn(cur.s), cur.event)'
        \/ cur' = cur /\ cur.s \in Ids \ {s}
    <3>1. CASE cur.s = s
      <4>1. CurOK(ses[s], hist[s], sent[s], OnTurn(s), cur.event)
        BY <3>1 DEF EngineInv, SesInv
      <4>2. CurOK(q, Tail(hist[s]), sent[s], OnTurn(s), cur.event)
        BY <4>1, <2>2
      <4> QED BY <4>2, <3>1, <1>11
    <3>2. CASE cur.s # s
      BY <3>2, <1>2
    <3> QED BY <3>1, <3>2
  <2>6. \A x \in Ids \ {s} : Same(x)
    BY <1>11 DEF Same
  <2> QED BY <2>3, <2>4, <2>5, <2>6, TouchOne
<1>14. RunInv'
  <2>1. \A x \in Ids, y \in Requests : Ran(x, y) => Ran(x, y)'
    BY <1>7, <1>11 DEF Ran
  <2>2. issued' \in Nat /\ issued' >= issued
    <3>1. issued' = issued /\ issued \in Nat
      BY ShapeFacts DEF EngineInv
    <3> QED BY SMT, <3>1
  <2> QED BY <2>1, <2>2, RunKept DEF EngineInv
<1> QED BY <1>9, <1>10, <1>12, <1>13, <1>14 DEF EngineInv
\* The event is delivered, or its session is suspended.
LEMMA DeliverStep ==
    ASSUME EngineInv, EmitDeliver
    PROVE  EngineInv'
<1>1. /\ cur # NoEvent /\ cur' = NoEvent /\ Deliver(cur.s, cur.event)
      /\ UNCHANGED <<reader, flushing, issued, alive, hist, work, runs, aborted>>
  BY DEF EmitDeliver
<1> USE <1>1
<1>2. cur.s \in alive /\ cur.s \in Ids /\ cur.event \in Event /\ reader # "flush"
  <2>1. PICK w \in Workers : Holds(w) /\ work[w].s = cur.s
    BY DEF EngineInv, LockInv
  <2>2. Active(w)
    BY <2>1 DEF Holds, Active
  <2> QED BY <2>1, <2>2 DEF EngineInv, LockInv, TurnInv, Shapes
<1>3. PICK s \in alive, e \in Event : s = cur.s /\ e = cur.event /\ s \in Ids
  BY <1>2
<1> USE <1>3
<1>4. /\ ses \in [Ids -> Record] /\ ses[s] \in Record /\ sent \in [Ids -> Seq(Event)]
      /\ hist[s] \in Seq(Event) /\ sent[s] \in Seq(Event) /\ s \in Ids
  BY ShapeFacts DEF EngineInv, Shapes
<1> USE <1>4
<1>5. /\ ses[s].floor \in Nat /\ ses[s].seq \in Nat /\ ses[s].delivered \in Nat /\ e.seq \in Nat
      /\ ses[s].suspended \in BOOLEAN /\ Len(hist[s]) \in Nat /\ Len(sent[s]) \in Nat
  BY SMT, RecordFields DEF Event
<1>6. /\ Live(ses[s], hist[s], sent[s], OnTurn(s), Aborted(s), TRUE, FALSE)
      /\ CurOK(ses[s], hist[s], sent[s], OnTurn(s), e) /\ Ever(ses[s], sent[s], Aborted(s))
  <2>1. Emitted(s) = TRUE /\ Flushed(s) = FALSE
    BY <1>2 DEF Emitted, Flushed
  <2> QED BY <2>1 DEF EngineInv, SesInv
<1> USE <1>6
<1>7. /\ \A x : OnTurn(x)' = OnTurn(x) /\ Aborted(x)' = Aborted(x) /\ Flushed(x)' = Flushed(x)
      /\ Emitted(s)' = FALSE /\ Flushed(s)' = FALSE
      /\ \A x \in Ids \ {s} : Emitted(x)' = Emitted(x)
  BY <1>2 DEF OnTurn, Aborted, Emitted, Flushed, Active
<1>8. /\ ses' \in [Ids -> Record] /\ sent' \in [Ids -> Seq(Event)]
      /\ \A x \in Ids \ {s} : ses'[x] = ses[x] /\ sent'[x] = sent[x]
      /\ ses'[s].seq = ses[s].seq /\ ses'[s].floor = ses[s].floor /\ ses'[s].turn = ses[s].turn
      /\ ses'[s].running = ses[s].running /\ ses'[s].cancelled = ses[s].cancelled
      /\ ses'[s].replay = ses[s].replay
      /\ Ever(ses'[s], sent'[s], Aborted(s))
      /\ Live(ses'[s], hist[s], sent'[s], OnTurn(s), Aborted(s), FALSE, FALSE)
  <2>1. CASE /\ ~ses[s].suspended /\ sent' = [sent EXCEPT ![s] = Append(@, e)]
             /\ ses' = [ses EXCEPT ![s].delivered = e.seq]
    <3> DEFINE r == ses[s]  d == e.seq  q == ses'[s]  t == sent[s]  h == hist[s]
    <3>1. r \in Record /\ d \in Nat /\ q = [r EXCEPT !.delivered = d]
      BY <1>5, <2>1
    <3>2. /\ q \in Record /\ q.delivered = d /\ q.seq = r.seq /\ q.floor = r.floor
          /\ q.turn = r.turn /\ q.running = r.running /\ q.cancelled = r.cancelled
          /\ q.replay = r.replay /\ q.suspended = r.suspended
      <4> HIDE DEF r, d, q
      <4>1. q \in Record
        BY <3>1 DEF Record
      <4>2. /\ q.delivered = d /\ q.seq = r.seq /\ q.floor = r.floor
            /\ q.turn = r.turn /\ q.running = r.running /\ q.cancelled = r.cancelled
            /\ q.replay = r.replay /\ q.suspended = r.suspended
        BY <3>1 DEF Record
      <4> QED BY <4>1, <4>2
    <3>3. /\ sent'[s] = Append(t, e) /\ sent' \in [Ids -> Seq(Event)]
          /\ \A x \in Ids \ {s} : ses'[x] = ses[x] /\ sent'[x] = sent[x]
      BY SMT, <2>1
    <3>4. ses' \in [Ids -> Record]
      BY <2>1, <3>2
    <3>5. e.seq = Len(t) + 1 /\ Len(t) + 1 = r.seq /\ Len(t) = r.delivered
      BY SMTT(30), <1>5, <2>1 DEF Live, SesHist, CurOK, Ever
    <3>6. After(t, Len(t), e) /\ LastOK(r, OnTurn(s), e)
      BY <3>5 DEF CurOK
    <3>8. r.floor + Len(h) = r.seq
      BY DEF Live, SesHist
    <3>7. ASSUME NEW i \in 1 .. Len(h), r.floor + i = Len(t) + 1 PROVE h[i] = e
      <4>1. i = Len(h) /\ Len(h) > 0
        <5> HIDE DEF r, h, t
        <5> QED BY SMTT(30), <1>5, <3>5, <3>7, <3>8 DEF r, h, t
      <4> QED BY <4>1 DEF CurOK
    <3>9. SesHist(q, h, FALSE, FALSE)
      <4>1. /\ q.floor + Len(h) = q.seq /\ q.delivered = q.seq
            /\ \A i \in 1 .. Len(h) : h[i].seq = q.floor + i
        BY <3>2, <3>5 DEF Live, SesHist
      <4>2. q.seq \in Nat
        BY <1>5, <3>2
      <4>3. q.delivered <= q.seq
        BY ONLY <4>1, <4>2, SMT
      <4> QED BY <4>1, <4>3 DEF SesHist
    <3> HIDE DEF q
    <3>10. Ever(q, Append(t, e), Aborted(s))
      BY ONLY <1>3, <1>4, <1>6, <3>2, <3>5, <3>6, DeliverEver, ZenonT(30)
    <3>11. /\ SesOrder(q, h, Append(t, e)) /\ SesLast(q, h, Append(t, e), OnTurn(s))
           /\ SesSilent(q, h, OnTurn(s), Aborted(s))
      <4>1. SesOrder(r, h, t) /\ SesLast(r, h, t, OnTurn(s)) /\ SesSilent(r, h, OnTurn(s), Aborted(s))
        BY DEF Live
      <4>2. /\ r \in Record /\ h \in Seq(Event) /\ t \in Seq(Event) /\ e \in Event
        OBVIOUS
      <4>3. /\ q \in Record /\ q.seq = r.seq /\ q.floor = r.floor /\ q.turn = r.turn
            /\ q.running = r.running /\ q.cancelled = r.cancelled
        BY <3>2
      <4>4. Len(t) = r.delivered /\ Len(t) + 1 = r.seq
        BY <3>5
      <4>5. LastOK(r, OnTurn(s), e)
        BY <3>6
      <4> HIDE DEF r, t, h
      <4> QED BY ONLY <4>1, <4>2, <4>3, <4>4, <4>5, <3>7, <3>8, DeliverLive, ZenonT(30)
    <3>12. Live(q, h, Append(t, e), OnTurn(s), Aborted(s), FALSE, FALSE)
      BY <3>9, <3>11 DEF Live
    <3> QED BY <3>2, <3>3, <3>4, <3>10, <3>12 DEF q
  <2>2. CASE /\ \/ ses' = [ses EXCEPT ![s].suspended = TRUE, ![s].refused = TRUE]
                \/ ses[s].suspended /\ ses' = ses
             /\ sent' = sent
    <3> DEFINE r == ses[s]  q == ses'[s]
    <3>1. /\ r \in Record /\ (q = [r EXCEPT !.suspended = TRUE, !.refused = TRUE]
                              \/ (r.suspended /\ q = r))
      BY <2>2
    <3>2. /\ q \in Record /\ q.delivered = r.delivered /\ q.seq = r.seq /\ q.floor = r.floor
          /\ q.turn = r.turn /\ q.running = r.running /\ q.cancelled = r.cancelled
          /\ q.replay = r.replay /\ q.suspended
      <4> HIDE DEF r, q
      <4>1. q \in Record
        BY <3>1 DEF Record
      <4>2. /\ q.delivered = r.delivered /\ q.seq = r.seq /\ q.floor = r.floor
            /\ q.turn = r.turn /\ q.running = r.running /\ q.cancelled = r.cancelled
            /\ q.replay = r.replay /\ q.suspended
        BY <3>1 DEF Record
      <4> QED BY <4>1, <4>2
    <3>3. ses' \in [Ids -> Record] /\ \A x \in Ids \ {s} : ses'[x] = ses[x]
      BY <2>2, <3>2
    <3> HIDE DEF q
    <3>4. Ever(q, sent[s], Aborted(s))
      BY <3>2 DEF Ever
    <3>5. SesHist(q, hist[s], FALSE, FALSE)
      BY <1>5, <3>2 DEF Live, SesHist
    <3>6. \A x : LastOK(r, OnTurn(s), x) => LastOK(q, OnTurn(s), x)
      BY <3>2, Zenon DEF LastOK
    <3>7. /\ SesOrder(q, hist[s], sent[s]) /\ SesLast(q, hist[s], sent[s], OnTurn(s))
          /\ SesSilent(q, hist[s], OnTurn(s), Aborted(s))
      BY <3>2, <3>6 DEF Live, SesOrder, SesLast, SesSilent
    <3>8. Live(q, hist[s], sent[s], OnTurn(s), Aborted(s), FALSE, FALSE)
      BY <3>5, <3>7 DEF Live
    <3> QED BY <2>2, <3>2, <3>3, <3>4, <3>8 DEF q
  <2> QED BY <2>1, <2>2 DEF Deliver
<1>9. Shapes'
  <2>4. \A x \in Ids : x > issued' => x # s /\ x > issued
    BY ShapeFacts DEF EngineInv
  <2>2. \A x \in Ids : x > issued' => ses'[x] = Fresh /\ sent'[x] = << >>
    BY <1>8, <2>4 DEF EngineInv, Shapes
  <2> QED BY <1>8, <2>2 DEF EngineInv, Shapes
<1>10. LockInv'
  BY DEF EngineInv, LockInv, Holds
<1>11. /\ \A x \in Ids : ses'[x].running = ses[x].running /\ ses'[x].replay = ses[x].replay
       /\ alive \subseteq Ids
  BY <1>8, ShapeFacts DEF EngineInv
<1>12. TurnInv'
  BY <1>11 DEF EngineInv, TurnInv, Active
<1>13. SesInv'
  <2>1. /\ Ever(ses[s], sent[s], Aborted(s))'
        /\ Live(ses[s], hist[s], sent[s], OnTurn(s), Aborted(s), Emitted(s), Flushed(s))'
    BY <1>7, <1>8
  <2>2. \A x \in Ids \ {s} : Same(x)
    BY <1>7, <1>8 DEF Same
  <2> QED BY <2>1, <2>2, TouchOne
<1>14. RunInv'
  <2>1. \A x \in Ids, y \in Requests : Ran(x, y) => Ran(x, y)'
    BY <1>7, <1>11 DEF Ran
  <2>2. issued' \in Nat /\ issued' >= issued
    <3>1. issued' = issued /\ issued \in Nat
      BY ShapeFacts DEF EngineInv
    <3> QED BY ONLY <3>1, SMT
  <2> QED BY <2>1, <2>2, RunKept DEF EngineInv
<1> QED BY <1>9, <1>10, <1>12, <1>13, <1>14 DEF EngineInv
----------------------------------------------------------------------------
(* The theorems.                                                           *)

LEMMA InitInv == Init => EngineInv
<1> SUFFICES ASSUME Init PROVE EngineInv
  OBVIOUS
<1> USE DEF Init
<1>1. Fresh \in Record /\ Idle \in Worker
  <2>1. 0 \in Nat /\ 0 \in Int
    BY SMT
  <2> QED BY <2>1 DEF Fresh, Record, Idle, Worker, PCs, Todos
<1>2. /\ Fresh.seq = 0 /\ Fresh.turn = 0 /\ Fresh.delivered = 0 /\ Idle.pc = "idle"
  BY DEF Fresh, Idle
<1>3. Shapes
  BY SMT, <1>1, EngineAssumption DEF Shapes
<1>4. \A w \in Workers : ~Active(w) /\ ~Holds(w)
  BY <1>2 DEF Active, Holds
<1>5. LockInv /\ TurnInv
  BY <1>4 DEF LockInv, TurnInv
<1>6. SesInv
  <2>1. \A s \in Ids : Aborted(s) = {} /\ sent[s] = << >> /\ ses[s] = Fresh
    BY DEF Aborted
  <2>2. Ever(Fresh, << >>, {})
    BY SMT, <1>2 DEF Ever
  <2> QED BY <2>1, <2>2 DEF SesInv
<1>7. RunInv
  BY SMT DEF RunInv, RunOnce
<1> QED BY <1>3, <1>5, <1>6, <1>7 DEF EngineInv

LEMMA NextInv == EngineInv /\ [Next]_vars => EngineInv'
<1> SUFFICES ASSUME EngineInv, [Next]_vars PROVE EngineInv'
  OBVIOUS
<1>1. CASE UNCHANGED vars
  <2>1. Quiet
    BY <1>1 DEF vars, connVars, histVars, Quiet, EngineInv, Shapes
  <2> QED BY <2>1, QuietStep
<1>2. CASE \/ Initialize \/ Trivial \/ ReaderReplies \/ WriterTakes \/ WriterWrites
           \/ Cancelled \/ ConnectionEnds
  BY <1>2, QuietSteps, QuietStep
<1>3. CASE SessionNew \/ FlushNext \/ Evict \/ EmitDeliver \/ ReaderLeaves
  BY <1>3, NewStep, FlushStep, EvictStep, DeliverStep, LeaveStep
<1>4. ASSUME NEW s \in Ids,
             SessionSuspend(s) \/ SessionResume(s) \/ SessionAbort(s) \/ SessionClose(s)
      PROVE  EngineInv'
  BY <1>4, SuspendStep, ResumeStep, AbortStep, CloseStep
<1>5. ASSUME NEW s \in Ids, NEW w \in Workers, NEW r \in Requests \union {NoRequest},
             PromptAnswered(w, s, r) \/ PromptStarts(w, s, r)
      PROVE  EngineInv'
  <2>1. CASE PromptAnswered(w, s, r)
    BY <2>1, QuietSteps, QuietStep
  <2>2. CASE PromptStarts(w, s, r)
    BY <2>2, StartStep
  <2> QED BY <1>5, <2>1, <2>2
<1>6. ASSUME NEW w \in Workers, WorkerSteps(w)
      PROVE  EngineInv'
  <2>1. CASE WorkerReplies(w)
    BY <2>1, QuietSteps, QuietStep
  <2>2. CASE CallProvider(w) \/ ProviderReturns(w) \/ FinishEmits(w) \/ TurnEnds(w)
    BY <2>2, CallStep, ReturnStep, FinishStep, EndStep
  <2> QED BY <1>6, <2>1, <2>2 DEF WorkerSteps
<1> QED BY <1>1, <1>2, <1>3, <1>4, <1>5, <1>6 DEF Next

(* The invariant of serveConnection and its Engine: in every reachable     *)
(* state of emit, flushSession, the session handlers and the prompt        *)
(* goroutines, whatever the limits and however many goroutines there are.  *)
THEOREM EngineInvariant == Spec => []EngineInv
  BY InitInv, NextInv, PTL DEF Spec

(* The events the transport accepts for a session are numbered 1, 2, 3,    *)
(* ... without a gap or a repetition, through refusals, suspensions,       *)
(* replays by flushSession and evictions.                                  *)
THEOREM GapFreeCorrect == Spec => []GapFree
<1>1. EngineInv => GapFree
  <2> SUFFICES ASSUME EngineInv, NEW s \in Ids, NEW i \in DOMAIN sent[s]
               PROVE  sent[s][i].seq = i
    BY DEF GapFree
  <2>1. i \in 1 .. Len(sent[s])
    BY SMTT(30), ShapeFacts DEF EngineInv, Shapes
  <2> QED BY <2>1 DEF EngineInv, SesInv, Ever
<1> QED BY <1>1, EngineInvariant, PTL

(* The peer sees every turn of a session as started, at most one chunk, at *)
(* most one usage and one terminal event, in that order, and one turn      *)
(* after the other (HandlePrompt, finish, emit).                           *)
THEOREM TurnGrammarCorrect == Spec => []TurnGrammar
<1>1. EngineInv => TurnGrammar
  <2> SUFFICES ASSUME EngineInv, NEW s \in Ids, NEW i \in DOMAIN sent[s]
               PROVE  IF i = 1 THEN sent[s][i].kind = "started" /\ sent[s][i].turn = 1
                      ELSE Follows(sent[s][i - 1], sent[s][i])
    BY DEF TurnGrammar
  <2>1. i \in 1 .. Len(sent[s]) /\ Len(sent[s]) \in Nat
    BY SMT, ShapeFacts DEF EngineInv, Shapes
  <2>2. After(sent[s], i - 1, sent[s][i])
    BY <2>1 DEF EngineInv, SesInv, Ever
  <2> QED BY SMT, <2>1, <2>2 DEF After
<1> QED BY <1>1, EngineInvariant, PTL

(* The provider runs at most once for a request id of a session: a repeat  *)
(* joins the running turn or finds its outcome in the replay cache.        *)
THEOREM RunOnceCorrect == Spec => []RunOnce
<1>1. EngineInv => RunOnce
  BY DEF EngineInv, RunInv
<1> QED BY <1>1, EngineInvariant, PTL

(* The history of a session never holds text of a turn that an abort, a    *)
(* close or the end of the connection found running: finish drops it.      *)
THEOREM AbortedSilentCorrect == Spec => []AbortedSilent
<1>1. EngineInv => AbortedSilent
  <2> SUFFICES ASSUME EngineInv, NEW s \in Ids, NEW i \in DOMAIN hist[s],
                      hist[s][i].kind = "chunk", <<s, hist[s][i].turn>> \in aborted
               PROVE  FALSE
    BY DEF AbortedSilent
  <2>1. hist[s] \in Seq(Event) /\ i \in 1 .. Len(hist[s])
    BY SMT DEF EngineInv, Shapes
  <2>2. s \in alive
    <3>1. s \notin alive => hist[s] = << >>
      BY DEF EngineInv, Shapes
    <3>2. hist[s] # << >>
      BY SMT, <2>1
    <3> QED BY <3>1, <3>2
  <2>3. hist[s][i].turn \notin Aborted(s)
    BY <2>1, <2>2 DEF EngineInv, SesInv, Live, SesSilent
  <2>4. hist[s][i].turn \in Aborted(s)
    <3> DEFINE n == hist[s][i].turn
    <3>1. <<s, n>> \in aborted /\ <<s, n>>[1] = s /\ <<s, n>>[2] = n
      OBVIOUS
    <3> QED BY <3>1 DEF Aborted
  <2> QED BY <2>3, <2>4
<1> QED BY <1>1, EngineInvariant, PTL

----------------------------------------------------------------------------
(* The inductive invariant, on top of EngineInv.                           *)

\* The counters of the sessions and of the engine are what is retained.
Counters ==
    /\ total = Retained
    /\ \A s \in Ids : ses[s].bytes \in Nat
    /\ \A s \in alive : ses[s].bytes = Bytes(hist[s])

\* Only the session whose event is being emitted may hold too many events,
\* and only meanwhile the engine too many bytes.
Within ==
    /\ \A s \in Ids : Len(hist[s]) <= MaxEvents \/ (cur # NoEvent /\ cur.s = s)
    /\ cur = NoEvent => total <= MaxTotal

QueueOK == queue \in Seq(Nat) /\ Len(queue) <= QueueCap

\* A turn with a request id has a place in the replay cache.
ReplayOK ==
    /\ \A s \in Ids : IsFiniteSet(ses[s].replay) /\ Cardinality(ses[s].replay) <= MaxReplay
    /\ \A w \in Workers : Active(w) /\ work[w].request # NoRequest =>
         Cardinality(ses[work[w].s].replay) < MaxReplay

\* Once the engine is closed, only running turns keep their sessions.
ClosingOK ==
    /\ reader \in {"closing", "done"} => \A s \in alive : ses[s].closed /\ ses[s].running
    /\ reader = "done" => alive = {}

Plain ==
    /\ open \in BOOLEAN /\ initialized \in BOOLEAN
    /\ reader \in {"read", "reply", "await", "flush", "closing", "done"}
    /\ flushing \in Ids \union {0} /\ calls \in 0 .. MaxCalls
    /\ Cardinality(alive) <= MaxSessions

----------------------------------------------------------------------------
(* What the account needs to know of sums and of finite sets.  The steps   *)
(* of the connection are shown to keep the account whenever these laws     *)
(* hold; the libraries that prove the laws are instantiated at the end.    *)

Summable(f, n) == \A i \in 1 .. n : f[i] \in Int

\* A set of numbers has a least one.
LeastLaw == \A T \in SUBSET Nat : T # {} => \E m \in T : \A n \in T : m <= n

\* SumUpTo adds up, place by place, numbers of either sign.
EmptyLaw == \A f : SumUpTo(f, 0) = 0
SumLaw == \A n \in Nat : \A f :
    /\ Summable(f, n + 1) => SumUpTo(f, n + 1) = SumUpTo(f, n) + f[n + 1]
    /\ (\A i \in 1 .. n : f[i] = 0) => SumUpTo(f, n) = 0
    /\ (\A i \in 1 .. n : f[i] \in Nat) =>
         SumUpTo(f, n) \in Nat /\ \A k \in 1 .. n : f[k] <= SumUpTo(f, n)
PairLaw == \A n \in Nat : \A f, g :
    /\ Summable(f, n) /\ (\A i \in 1 .. n : f[i] = g[i]) => SumUpTo(f, n) = SumUpTo(g, n)
    /\ Summable(f, n + 1) /\ (\A i \in 1 .. n : g[i] = f[i + 1]) =>
         SumUpTo(g, n) = SumUpTo(f, n + 1) - f[1]
ChangeLaw == \A n \in Nat : \A f, g : \A k \in 1 .. n :
    Summable(f, n) /\ Summable(g, n) /\ (\A i \in 1 .. n : i # k => f[i] = g[i]) =>
      SumUpTo(g, n) = SumUpTo(f, n) + g[k] - f[k]
MinusLaw == \A n \in Nat : \A f, g, h :
    Summable(f, n) /\ Summable(g, n) /\ (\A i \in 1 .. n : h[i] = f[i] - g[i]) =>
      SumUpTo(h, n) = SumUpTo(f, n) - SumUpTo(g, n)

\* Cardinality counts.
NoneLaw == IsFiniteSet({}) /\ Cardinality({}) = 0 /\ \A n \in Nat : IsFiniteSet(1 .. n)
CountLaw == \A S : IsFiniteSet(S) =>
    /\ Cardinality(S) \in Nat
    /\ \A T \in SUBSET S : IsFiniteSet(T) /\ Cardinality(T) <= Cardinality(S)
    /\ \A x : /\ IsFiniteSet(S \union {x})
              /\ \/ Cardinality(S \union {x}) = Cardinality(S)
                 \/ Cardinality(S \union {x}) = Cardinality(S) + 1

Laws ==
    LeastLaw /\ EmptyLaw /\ SumLaw /\ PairLaw /\ ChangeLaw /\ MinusLaw /\ NoneLaw /\ CountLaw

LEMMA SumLaws ==
    ASSUME Laws, NEW n \in Nat, NEW f
    PROVE  /\ Summable(f, n + 1) => SumUpTo(f, n + 1) = SumUpTo(f, n) + f[n + 1]
           /\ (\A i \in 1 .. n : f[i] = 0) => SumUpTo(f, n) = 0
           /\ (\A i \in 1 .. n : f[i] \in Nat) =>
                SumUpTo(f, n) \in Nat /\ \A k \in 1 .. n : f[k] <= SumUpTo(f, n)
  BY DEF Laws, SumLaw

LEMMA SumPairs ==
    ASSUME Laws, NEW n \in Nat, NEW f, NEW g
    PROVE  /\ Summable(f, n) /\ (\A i \in 1 .. n : f[i] = g[i]) => SumUpTo(f, n) = SumUpTo(g, n)
           /\ Summable(f, n + 1) /\ (\A i \in 1 .. n : g[i] = f[i + 1]) =>
                SumUpTo(g, n) = SumUpTo(f, n + 1) - f[1]
  BY DEF Laws, PairLaw

LEMMA SetLaws ==
    ASSUME Laws, NEW S, IsFiniteSet(S)
    PROVE  /\ Cardinality(S) \in Nat
           /\ \A T \in SUBSET S : IsFiniteSet(T) /\ Cardinality(T) <= Cardinality(S)
           /\ \A x : /\ IsFiniteSet(S \union {x})
                     /\ \/ Cardinality(S \union {x}) = Cardinality(S)
                        \/ Cardinality(S \union {x}) = Cardinality(S) + 1
  BY DEF Laws, CountLaw

LEMMA FirstLaws ==
    ASSUME Laws
    PROVE  /\ \A T \in SUBSET Nat : T # {} => \E m \in T : \A n \in T : m <= n
           /\ \A f : SumUpTo(f, 0) = 0
           /\ IsFiniteSet({}) /\ Cardinality({}) = 0
           /\ \A n \in Nat : IsFiniteSet(1 .. n)
  BY DEF Laws, LeastLaw, EmptyLaw, NoneLaw

----------------------------------------------------------------------------
(* The bytes of a history.                                                 *)

LEMMA BytesFacts ==
    ASSUME Laws, NEW h \in Seq(Event)
    PROVE  /\ Bytes(h) \in Nat
           /\ Len(h) = 0 => Bytes(h) = 0
<1> DEFINE f == [i \in DOMAIN h |-> h[i].size]
<1>1. Len(h) \in Nat /\ DOMAIN h = 1 .. Len(h) /\ \A i \in 1 .. Len(h) : h[i] \in Event
  BY SMT
<1>2. \A i \in 1 .. Len(h) : f[i] \in Nat
  BY <1>1 DEF Event
<1> HIDE DEF f
<1>3. SumUpTo(f, Len(h)) \in Nat
  BY <1>1, <1>2, SumLaws
<1>4. SumUpTo(f, 0) = 0
  BY FirstLaws
<1> QED BY <1>3, <1>4 DEF Bytes, f

LEMMA BytesAppend ==
    ASSUME Laws, NEW h \in Seq(Event), NEW e \in Event
    PROVE  Bytes(Append(h, e)) = Bytes(h) + e.size
<1> DEFINE g == Append(h, e)
           u == [i \in DOMAIN h |-> h[i].size]
           v == [i \in DOMAIN g |-> g[i].size]
<1>1. /\ Len(h) \in Nat /\ DOMAIN h = 1 .. Len(h) /\ \A i \in 1 .. Len(h) : h[i] \in Event
      /\ Len(g) = Len(h) + 1 /\ DOMAIN g = 1 .. (Len(h) + 1)
      /\ \A i \in 1 .. Len(h) : g[i] = h[i] /\ i \in 1 .. (Len(h) + 1)
      /\ \A i \in 1 .. (Len(h) + 1) : g[i] \in Event
      /\ g[Len(h) + 1] = e /\ Len(h) + 1 \in 1 .. (Len(h) + 1)
  BY SMT
<1> HIDE DEF g
<1>2. /\ \A i \in 1 .. Len(h) : u[i] = h[i].size /\ v[i] = u[i]
      /\ \A i \in 1 .. (Len(h) + 1) : v[i] = g[i].size
      /\ v[Len(h) + 1] = e.size
  BY <1>1
<1>3. \A x \in Event : x.size \in Int
  BY SMT DEF Event
<1>4. Summable(u, Len(h)) /\ Summable(v, Len(h) + 1)
  BY <1>1, <1>2, <1>3 DEF Summable
<1> HIDE DEF u, v
<1>5. SumUpTo(v, Len(h) + 1) = SumUpTo(v, Len(h)) + v[Len(h) + 1]
  BY <1>1, <1>4, SumLaws
<1>6. SumUpTo(u, Len(h)) = SumUpTo(v, Len(h))
  BY <1>1, <1>2, <1>4, SumPairs
<1>7. Bytes(h) = SumUpTo(u, Len(h)) /\ Bytes(g) = SumUpTo(v, Len(h) + 1)
  BY <1>1 DEF Bytes, u, v
<1> QED BY <1>2, <1>5, <1>6, <1>7 DEF g

LEMMA BytesTail ==
    ASSUME Laws, NEW h \in Seq(Event), Len(h) > 0
    PROVE  /\ Bytes(Tail(h)) = Bytes(h) - Head(h).size
           /\ Head(h).size \in Nat /\ Tail(h) \in Seq(Event) /\ Len(Tail(h)) < Len(h)
<1> DEFINE g == Tail(h)
           n == Len(h) - 1
           u == [i \in DOMAIN h |-> h[i].size]
           v == [i \in DOMAIN g |-> g[i].size]
<1>1. /\ n \in Nat /\ Len(h) = n + 1 /\ DOMAIN h = 1 .. (n + 1)
      /\ \A i \in 1 .. (n + 1) : h[i] \in Event
      /\ Len(g) = n /\ DOMAIN g = 1 .. n /\ g \in Seq(Event) /\ n < n + 1
      /\ \A i \in 1 .. n : g[i] = h[i + 1] /\ i + 1 \in 1 .. (n + 1)
      /\ h[1] = Head(h) /\ 1 \in 1 .. (n + 1)
  BY SMT
<1> HIDE DEF g, n
<1>2. /\ \A i \in 1 .. (n + 1) : u[i] = h[i].size
      /\ \A i \in 1 .. n : v[i] = u[i + 1]
      /\ u[1] = Head(h).size
  BY <1>1
<1>3. \A x \in Event : x.size \in Int /\ x.size \in Nat
  BY SMT DEF Event
<1>4. Summable(u, n + 1)
  BY <1>1, <1>2, <1>3 DEF Summable
<1> HIDE DEF u, v
<1>5. SumUpTo(v, n) = SumUpTo(u, n + 1) - u[1]
  BY <1>1, <1>2, <1>4, SumPairs
<1>6. Bytes(h) = SumUpTo(u, n + 1) /\ Bytes(g) = SumUpTo(v, n)
  BY <1>1 DEF Bytes, u, v
<1>7. Bytes(g) = Bytes(h) - Head(h).size
  BY <1>2, <1>5, <1>6
<1>8. Head(h).size \in Nat /\ g \in Seq(Event) /\ Len(g) < Len(h)
  BY <1>1, <1>3
<1> QED BY <1>7, <1>8 DEF g

----------------------------------------------------------------------------
(* The counters.                                                           *)

\* Bytes(hist[s]) for all sessions, as numbers to be summed.
LEMMA HistoryNumbers ==
    ASSUME Laws, Shapes, NEW f, f = [s \in Ids |-> Bytes(hist[s])]
    PROVE  /\ MaxIssued \in Nat /\ Ids = 1 .. MaxIssued
           /\ \A s \in Ids : f[s] = Bytes(hist[s]) /\ f[s] \in Nat
           /\ \A s \in 1 .. MaxIssued : f[s] = Bytes(hist[s]) /\ f[s] \in Nat
           /\ Summable(f, MaxIssued)
           /\ Retained = SumUpTo(f, MaxIssued)
<1>1. MaxIssued \in Nat /\ Ids = 1 .. MaxIssued
  BY EngineAssumption DEF Ids
<1>2. \A s \in Ids : f[s] = Bytes(hist[s]) /\ f[s] \in Nat
  BY ShapeFacts, BytesFacts
<1>3. \A x \in Nat : x \in Int
  BY SMT
<1>4. Summable(f, MaxIssued)
  BY <1>1, <1>2, <1>3 DEF Summable
<1> QED BY <1>1, <1>2, <1>4 DEF Retained

\* Steps that leave the histories alone; a session that is new is empty.
LEMMA CountKept ==
    ASSUME Counters, UNCHANGED <<hist, total>>,
           \A s \in Ids : ses'[s].bytes = ses[s].bytes \/ (s \notin alive /\ ses'[s].bytes = 0),
           \A s \in alive' : s \in Ids /\ (s \in alive \/ Bytes(hist[s]) = ses'[s].bytes),
           alive \subseteq Ids
    PROVE  Counters'
<1>1. Retained' = Retained
  BY DEF Retained
<1>2. 0 \in Nat
  BY SMT
<1>3. \A s \in Ids : ses'[s].bytes \in Nat
  BY <1>2 DEF Counters
<1>4. \A s \in alive' : ses'[s].bytes = Bytes(hist[s])
  BY DEF Counters
<1> QED BY <1>1, <1>3, <1>4 DEF Counters

\* A history and the two counters change by as much: emit and evictOldest.
LEMMA CountOne ==
    ASSUME Laws, Shapes, Shapes', Counters, NEW s \in alive, NEW g \in Seq(Event), alive' = alive,
           hist' = [hist EXCEPT ![s] = g],
           total' = total + Bytes(g) - Bytes(hist[s]),
           ses'[s].bytes = ses[s].bytes + Bytes(g) - Bytes(hist[s]),
           \A x \in Ids \ {s} : ses'[x].bytes = ses[x].bytes
    PROVE  Counters'
<1>1. PICK f : f = [x \in Ids |-> Bytes(hist[x])]
  OBVIOUS
<1>2. PICK k : k = [x \in Ids |-> Bytes(hist'[x])]
  OBVIOUS
<1>3. /\ MaxIssued \in Nat /\ Ids = 1 .. MaxIssued
      /\ \A x \in Ids : f[x] = Bytes(hist[x]) /\ f[x] \in Nat
      /\ Summable(f, MaxIssued) /\ Retained = SumUpTo(f, MaxIssued)
  BY <1>1, HistoryNumbers
<1>4. /\ \A x \in Ids : k[x] = Bytes(hist'[x]) /\ k[x] \in Nat
      /\ Summable(k, MaxIssued) /\ Retained' = SumUpTo(k, MaxIssued)
  <2>1. Shapes' => /\ \A x \in Ids : k[x] = Bytes(hist'[x]) /\ k[x] \in Nat
                   /\ Summable(k, MaxIssued) /\ Retained' = SumUpTo(k, MaxIssued)
    <3>1. \A x \in Ids : k[x] = Bytes(hist'[x])
      BY <1>2
    <3>2. ASSUME Shapes' PROVE \A x \in Ids : hist'[x] \in Seq(Event)
      BY <3>2 DEF Shapes
    <3>3. ASSUME Shapes' PROVE \A x \in Ids : k[x] \in Nat
      BY <3>1, <3>2, <3>3, BytesFacts
    <3>4. \A x \in Nat : x \in Int
      BY SMT
    <3>5. ASSUME Shapes' PROVE Summable(k, MaxIssued)
      BY <1>3, <3>3, <3>4, <3>5 DEF Summable
    <3>6. Retained' = SumUpTo(k, MaxIssued)
      BY <1>2 DEF Retained
    <3> QED BY <3>1, <3>3, <3>5, <3>6
  <2> QED BY <2>1
<1>5. s \in Ids /\ alive \subseteq Ids /\ hist \in [Ids -> Seq(Event)]
  BY ShapeFacts DEF Shapes
<1>6. hist'[s] = g /\ \A x \in Ids \ {s} : hist'[x] = hist[x]
  BY <1>5
<1>7. (\A x \in 1 .. MaxIssued : x # s => f[x] = k[x]) /\ s \in 1 .. MaxIssued
  <2>1. ASSUME NEW x \in Ids, x # s PROVE f[x] = k[x]
    <3>1. hist'[x] = hist[x]
      BY <1>6, <2>1
    <3>2. f[x] = Bytes(hist[x]) /\ k[x] = Bytes(hist'[x])
      BY <1>3, <1>4
    <3> QED BY <3>1, <3>2
  <2> QED BY <1>3, <1>5, <2>1
<1>8. SumUpTo(k, MaxIssued) = SumUpTo(f, MaxIssued) + k[s] - f[s]
  <2>1. MaxIssued \in Nat /\ Summable(f, MaxIssued) /\ Summable(k, MaxIssued)
    BY <1>3, <1>4
  <2>2. ChangeLaw
    BY DEF Laws
  <2> QED BY ONLY <1>7, <2>1, <2>2, Zenon DEF ChangeLaw
<1>9. total' = Retained'
  BY <1>3, <1>4, <1>5, <1>6, <1>8 DEF Counters
<1>10. ses'[s].bytes = Bytes(hist'[s])
  <2>1. ses[s].bytes = Bytes(hist[s])
    BY DEF Counters
  <2>2. Bytes(hist[s]) \in Nat /\ Bytes(g) \in Nat
    BY <1>5, BytesFacts
  <2>3. Bytes(hist[s]) + Bytes(g) - Bytes(hist[s]) = Bytes(g)
    BY SMT, <2>2
  <2> QED BY <1>6, <2>1, <2>3
<1>11. \A x \in Ids : ses'[x].bytes \in Nat
  BY <1>6, <1>10, BytesFacts DEF Counters
<1>12. \A x \in alive' : ses'[x].bytes = Bytes(hist'[x])
  BY <1>5, <1>6, <1>10 DEF Counters
<1> QED BY <1>9, <1>11, <1>12 DEF Counters

\* releaseSession, for any set of sessions.
LEMMA CountReleased ==
    ASSUME Laws, Shapes, Counters, NEW gone, gone \subseteq alive, Release(gone),
           \A x \in Ids : ses'[x].bytes = ses[x].bytes
    PROVE  Counters' /\ total' <= total /\ \A x \in Ids : hist'[x] = hist[x] \/ hist'[x] = << >>
<1>1. PICK f : f = [x \in Ids |-> Bytes(hist[x])]
  OBVIOUS
<1>2. PICK k : k = [x \in Ids |-> Bytes(hist'[x])]
  OBVIOUS
<1>3. PICK d : d = [x \in Ids |-> IF x \in gone THEN ses[x].bytes ELSE 0]
  OBVIOUS
<1>4. /\ MaxIssued \in Nat /\ Ids = 1 .. MaxIssued
      /\ \A x \in Ids : f[x] = Bytes(hist[x]) /\ f[x] \in Nat
      /\ Summable(f, MaxIssued) /\ Retained = SumUpTo(f, MaxIssued)
  BY <1>1, HistoryNumbers
<1> USE <1>4
<1>5. alive \subseteq Ids /\ hist \in [Ids -> Seq(Event)]
  BY ShapeFacts DEF Shapes
<1>6. \A x \in Ids : hist'[x] = IF x \in gone THEN << >> ELSE hist[x]
  BY DEF Release
<1>7. \A x \in Ids : d[x] = (IF x \in gone THEN ses[x].bytes ELSE 0) /\ d[x] \in Nat
  <2>1. 0 \in Nat
    BY SMT
  <2> QED BY <1>3, <2>1 DEF Counters
<1>8. Bytes(<< >>) = 0
  <2>1. << >> \in Seq(Event) /\ Len(<< >>) = 0
    BY SMT
  <2> QED BY <2>1, BytesFacts
<1>9. \A x \in Ids : k[x] = f[x] - d[x]
  <2> TAKE x \in Ids
  <2>1. k[x] = Bytes(hist'[x])
    BY <1>2
  <2>2. f[x] - f[x] = 0 /\ f[x] - 0 = f[x]
    BY SMT
  <2>3. CASE x \in gone
    <3>1. d[x] = f[x]
      BY <1>5, <1>7, <2>3 DEF Counters
    <3> QED BY <1>6, <1>8, <2>1, <2>2, <2>3, <3>1
  <2>4. CASE x \notin gone
    BY <1>6, <1>7, <2>1, <2>2, <2>4
  <2> QED BY <2>3, <2>4
<1>10. Summable(d, MaxIssued)
  <2>1. \A x \in Nat : x \in Int
    BY SMT
  <2> QED BY <1>7, <2>1 DEF Summable
<1>11. SumUpTo(k, MaxIssued) = SumUpTo(f, MaxIssued) - SumUpTo(d, MaxIssued)
  <2>1. /\ MaxIssued \in Nat /\ Summable(f, MaxIssued) /\ Summable(d, MaxIssued)
        /\ \A i \in 1 .. MaxIssued : k[i] = f[i] - d[i]
    BY <1>9, <1>10
  <2>2. MinusLaw
    BY DEF Laws
  <2> QED BY ONLY <2>1, <2>2, Zenon DEF MinusLaw
<1>12. total' = Retained'
  <2>1. Retained' = SumUpTo(k, MaxIssued)
    BY <1>2 DEF Retained
  <2>2. total' = total - SumUpTo(d, MaxIssued)
    BY <1>3 DEF Release
  <2> QED BY <1>11, <2>1, <2>2 DEF Counters
<1>13. total' <= total
  <2>1. SumUpTo(d, MaxIssued) \in Nat /\ SumUpTo(f, MaxIssued) \in Nat
    BY <1>7, SumLaws
  <2>2. total = SumUpTo(f, MaxIssued) /\ total' = total - SumUpTo(d, MaxIssued)
    BY <1>3 DEF Release, Counters
  <2> QED BY SMT, <2>1, <2>2
<1>14. \A x \in alive' : ses'[x].bytes = Bytes(hist'[x])
  BY <1>5, <1>6 DEF Release, Counters
<1> QED BY <1>6, <1>12, <1>13, <1>14 DEF Counters

----------------------------------------------------------------------------
(* What the steps do to the fields that count.                             *)

Tame(s) ==
    /\ ses'[s].bytes = ses[s].bytes /\ ses'[s].replay = ses[s].replay
    /\ ses'[s].closed = ses[s].closed /\ ses'[s].running = ses[s].running

\* A goroutine is on a turn only if it was, except in PromptStarts.
WorkKept ==
    \A w \in Workers : Active(w)' =>
        Active(w) /\ work'[w].s = work[w].s /\ work'[w].request = work[w].request

\* Steps that leave sessions, histories and turns alone.
LEMMA StillSteps ==
    ASSUME EngineInv,
           \/ Initialize \/ Trivial \/ ReaderReplies \/ WriterTakes \/ WriterWrites
           \/ Cancelled \/ ConnectionEnds
           \/ \E w \in Workers : WorkerReplies(w) \/ CallProvider(w) \/ ProviderReturns(w)
           \/ \E w \in Workers, s \in Ids, r \in Requests \union {NoRequest} : PromptAnswered(w, s, r)
    PROVE  UNCHANGED <<hist, total, alive, ses, cur>> /\ WorkKept
<1>0. work \in [Workers -> Worker]
  BY DEF EngineInv, Shapes
<1>1. ASSUME work' = work PROVE WorkKept
  BY <1>1 DEF WorkKept, Active
<1>2. ASSUME NEW w \in Workers,
             work' = [work EXCEPT ![w] = Idle] \/ work' = [work EXCEPT ![w] = [Idle EXCEPT !.pc = "reply"]]
      PROVE  WorkKept
  <2>1. Idle.pc = "idle" /\ [Idle EXCEPT !.pc = "reply"].pc = "reply"
    BY DEF Idle
  <2>2. work'[w].pc \in {"idle", "reply"} /\ \A v \in Workers \ {w} : work'[v] = work[v]
    BY <1>0, <1>2, <2>1
  <2> QED BY <2>2 DEF WorkKept, Active
<1>3. ASSUME NEW w \in Workers, CallProvider(w) \/ ProviderReturns(w) PROVE WorkKept
  <2>1. PICK x : /\ work' = [work EXCEPT ![w] = x]
                 /\ x.s = work[w].s /\ x.request = work[w].request
    <3>1. work[w] \in Worker
      BY <1>0
    <3>2. CASE CallProvider(w)
      <4>1. work' = [work EXCEPT ![w] = [work[w] EXCEPT !.pc = "provider"]]
        BY <1>0, <3>2 DEF CallProvider
      <4>2. \A y \in Worker : LET x == [y EXCEPT !.pc = "provider"] IN x.s = y.s /\ x.request = y.request
        BY DEF Worker
      <4> QED BY <3>1, <4>1, <4>2
    <3>3. CASE ProviderReturns(w)
      <4>1. PICK todo : work' = [work EXCEPT ![w].pc = "finishing", ![w].todo = todo]
        BY <3>3 DEF ProviderReturns
      <4>2. work' = [work EXCEPT ![w] = [work[w] EXCEPT !.pc = "finishing", !.todo = todo]]
        BY <1>0, <4>1
      <4>3. \A y \in Worker : LET x == [y EXCEPT !.pc = "finishing", !.todo = todo] IN x.s = y.s /\ x.request = y.request
        BY DEF Worker
      <4> QED BY <3>1, <4>2, <4>3
    <3> QED BY <1>3, <3>2, <3>3
  <2>2. work'[w] = x /\ \A v \in Workers \ {w} : work'[v] = work[v]
    BY <1>0, <2>1
  <2>3. Active(w)
    BY <1>3 DEF CallProvider, ProviderReturns, Active
  <2> QED BY <2>1, <2>2, <2>3 DEF WorkKept, Active
<1>4. CASE Initialize \/ Trivial \/ ReaderReplies
  BY <1>1, <1>4 DEF Initialize, Trivial, ReaderReplies, histVars
<1>5. CASE WriterTakes \/ WriterWrites \/ Cancelled \/ ConnectionEnds
  BY <1>1, <1>5 DEF WriterTakes, WriterWrites, Cancelled, ConnectionEnds, histVars
<1>6. ASSUME NEW w \in Workers, WorkerReplies(w) \/ CallProvider(w) \/ ProviderReturns(w)
      PROVE  UNCHANGED <<hist, total, alive, ses, cur>> /\ WorkKept
  <2>1. UNCHANGED <<hist, total, alive, ses, cur>>
    BY <1>6 DEF WorkerReplies, CallProvider, ProviderReturns, histVars
  <2>2. WorkerReplies(w) => WorkKept
    BY <1>2 DEF WorkerReplies
  <2> QED BY <1>3, <1>6, <2>1, <2>2
<1>7. ASSUME NEW w \in Workers, NEW s \in Ids, NEW r \in Requests \union {NoRequest},
             PromptAnswered(w, s, r)
      PROVE  UNCHANGED <<hist, total, alive, ses, cur>> /\ WorkKept
  BY <1>2, <1>7 DEF PromptAnswered, histVars
<1> QED BY <1>4, <1>5, <1>6, <1>7

\* Steps that set flags of a session or record what was delivered.
LEMMA TameSteps ==
    ASSUME EngineInv,
           \/ \E s \in Ids : SessionSuspend(s) \/ SessionResume(s) \/ SessionAbort(s)
           \/ FlushNext \/ EmitDeliver
    PROVE  /\ UNCHANGED <<hist, total, alive, work>> /\ WorkKept
           /\ cur' = cur \/ EmitDeliver
           /\ \A s \in Ids : Tame(s)
<1>0. ses \in [Ids -> Record]
  BY DEF EngineInv, Shapes
<1> USE <1>0
<1>1. ASSUME NEW s \in Ids, NEW r, ses' = [ses EXCEPT ![s] = r],
             r.bytes = ses[s].bytes, r.replay = ses[s].replay,
             r.closed = ses[s].closed, r.running = ses[s].running
      PROVE  \A x \in Ids : Tame(x)
  <2>1. ses'[s] = r /\ \A x \in Ids \ {s} : ses'[x] = ses[x]
    BY <1>1
  <2> QED BY <1>1, <2>1 DEF Tame
<1>2. ses' = ses => \A x \in Ids : Tame(x)
  BY DEF Tame
<1>3. ASSUME NEW s \in Ids,
             \/ \E u : ses' = [ses EXCEPT ![s].suspended = u]
             \/ \E v : ses' = [ses EXCEPT ![s].refused = v]
             \/ \E u, v : ses' = [ses EXCEPT ![s].suspended = u, ![s].refused = v]
             \/ \E d : ses' = [ses EXCEPT ![s].delivered = d]
             \/ \E c : ses' = [ses EXCEPT ![s].cancelled = c]
      PROVE  \A x \in Ids : Tame(x)
  <2>0. ses[s] \in Record
    OBVIOUS
  <2>1. ASSUME NEW u, ses' = [ses EXCEPT ![s].suspended = u] PROVE \A x \in Ids : Tame(x)
    <3>1. PICK r : r = [ses[s] EXCEPT !.suspended = u]
      OBVIOUS
    <3>2. ses' = [ses EXCEPT ![s] = r]
      BY <2>1, <3>1
    <3>3. /\ r.bytes = ses[s].bytes /\ r.replay = ses[s].replay
          /\ r.closed = ses[s].closed /\ r.running = ses[s].running
      BY <2>0, <3>1 DEF Record
    <3> QED BY <1>1, <3>2, <3>3
  <2>2. ASSUME NEW u, ses' = [ses EXCEPT ![s].refused = u] PROVE \A x \in Ids : Tame(x)
    <3>1. PICK r : r = [ses[s] EXCEPT !.refused = u]
      OBVIOUS
    <3>2. ses' = [ses EXCEPT ![s] = r]
      BY <2>2, <3>1
    <3>3. /\ r.bytes = ses[s].bytes /\ r.replay = ses[s].replay
          /\ r.closed = ses[s].closed /\ r.running = ses[s].running
      BY <2>0, <3>1 DEF Record
    <3> QED BY <1>1, <3>2, <3>3
  <2>3. ASSUME NEW u, NEW v, ses' = [ses EXCEPT ![s].suspended = u, ![s].refused = v] PROVE \A x \in Ids : Tame(x)
    <3>1. PICK r : r = [ses[s] EXCEPT !.suspended = u, !.refused = v]
      OBVIOUS
    <3>2. ses' = [ses EXCEPT ![s] = r]
      BY <2>3, <3>1
    <3>3. /\ r.bytes = ses[s].bytes /\ r.replay = ses[s].replay
          /\ r.closed = ses[s].closed /\ r.running = ses[s].running
      BY <2>0, <3>1 DEF Record
    <3> QED BY <1>1, <3>2, <3>3
  <2>4. ASSUME NEW u, ses' = [ses EXCEPT ![s].delivered = u] PROVE \A x \in Ids : Tame(x)
    <3>1. PICK r : r = [ses[s] EXCEPT !.delivered = u]
      OBVIOUS
    <3>2. ses' = [ses EXCEPT ![s] = r]
      BY <2>4, <3>1
    <3>3. /\ r.bytes = ses[s].bytes /\ r.replay = ses[s].replay
          /\ r.closed = ses[s].closed /\ r.running = ses[s].running
      BY <2>0, <3>1 DEF Record
    <3> QED BY <1>1, <3>2, <3>3
  <2>5. ASSUME NEW u, ses' = [ses EXCEPT ![s].cancelled = u] PROVE \A x \in Ids : Tame(x)
    <3>1. PICK r : r = [ses[s] EXCEPT !.cancelled = u]
      OBVIOUS
    <3>2. ses' = [ses EXCEPT ![s] = r]
      BY <2>5, <3>1
    <3>3. /\ r.bytes = ses[s].bytes /\ r.replay = ses[s].replay
          /\ r.closed = ses[s].closed /\ r.running = ses[s].running
      BY <2>0, <3>1 DEF Record
    <3> QED BY <1>1, <3>2, <3>3
  <2> QED BY <1>3, <2>1, <2>2, <2>3, <2>4, <2>5
<1>4. work' = work => WorkKept
  BY DEF WorkKept, Active
<1>5. ASSUME NEW s \in Ids, SessionSuspend(s) \/ SessionResume(s) \/ SessionAbort(s)
      PROVE  UNCHANGED <<hist, total, alive, cur, work>> /\ \A x \in Ids : Tame(x)
  <2>1. UNCHANGED <<hist, total, alive, cur, work>>
    BY <1>5 DEF SessionSuspend, SessionResume, SessionAbort, histVars
  <2>2. CASE SessionSuspend(s)
    <3>1. \E u : ses' = [ses EXCEPT ![s].suspended = u]
      BY <2>2 DEF SessionSuspend
    <3> QED BY <1>3, <2>1, <3>1
  <2>3. CASE SessionResume(s)
    <3>1. \/ \E u : ses' = [ses EXCEPT ![s].suspended = u]
          \/ \E u, v : ses' = [ses EXCEPT ![s].suspended = u, ![s].refused = v]
      BY <2>3 DEF SessionResume
    <3> QED BY <1>3, <2>1, <3>1
  <2>4. CASE SessionAbort(s)
    <3>1. \E u : ses' = [ses EXCEPT ![s].cancelled = u]
      BY <2>4 DEF SessionAbort
    <3> QED BY <1>3, <2>1, <3>1
  <2> QED BY <1>5, <2>1, <2>2, <2>3, <2>4
<1>6. CASE FlushNext
  <2>1. UNCHANGED <<hist, total, alive, cur, work>>
    BY <1>6 DEF FlushNext, histVars
  <2>2. flushing \in Ids
    BY <1>6, ShapeFacts DEF FlushNext, EngineInv, LockInv
  <2>3. \/ \E v : ses' = [ses EXCEPT ![flushing].refused = v]
        \/ \E u, v : ses' = [ses EXCEPT ![flushing].suspended = u, ![flushing].refused = v]
        \/ \E d : ses' = [ses EXCEPT ![flushing].delivered = d]
    BY <1>6 DEF FlushNext
  <2> QED BY <1>3, <1>4, <2>1, <2>2, <2>3
<1>7. CASE EmitDeliver
  <2>1. UNCHANGED <<hist, total, alive, work>>
    BY <1>7 DEF EmitDeliver
  <2>2. cur.s \in Ids
    BY <1>7 DEF EmitDeliver, EngineInv, Shapes
  <2>3. \/ ses' = ses
        \/ \E u, v : ses' = [ses EXCEPT ![cur.s].suspended = u, ![cur.s].refused = v]
        \/ \E d : ses' = [ses EXCEPT ![cur.s].delivered = d]
    BY <1>7 DEF EmitDeliver, Deliver
  <2> QED BY <1>2, <1>3, <1>4, <1>7, <2>1, <2>2, <2>3
<1> QED BY <1>4, <1>5, <1>6, <1>7

\* emit: one session's history grows by an event.
Emits(s, e) ==
    /\ s \in alive /\ e \in Event /\ cur = NoEvent /\ cur'.s = s /\ cur' # NoEvent
    /\ hist' = [hist EXCEPT ![s] = Append(@, e)] /\ total' = total + e.size /\ alive' = alive
    /\ ses'[s].bytes = ses[s].bytes + e.size
    /\ \A x \in Ids \ {s} : ses'[x] = ses[x]
    /\ ses'[s].replay = ses[s].replay /\ ses'[s].closed = ses[s].closed /\ ses'[s].running

LEMMA StartEmits ==
    ASSUME EngineInv, NEW w \in Workers, NEW s \in Ids, NEW r \in Requests \union {NoRequest},
           PromptStarts(w, s, r)
    PROVE  /\ \E e : Emits(s, e)
           /\ work'[w].s = s /\ work'[w].request = r
           /\ \A v \in Workers \ {w} : work'[v] = work[v]
<1>1. cur = NoEvent
  BY UnlockedFacts DEF PromptStarts
<1>2. s \in alive /\ alive' = alive
  BY DEF PromptStarts, MayStart
<1>3. /\ ses \in [Ids -> Record] /\ work \in [Workers -> Worker] /\ ses[s] \in Record
  BY ShapeFacts DEF EngineInv, Shapes
<1> USE <1>3
<1>4. ses[s].seq \in Nat /\ ses[s].turn \in Nat
  BY RecordFields
<1>5. PICK e : e = [seq |-> ses[s].seq + 1, turn |-> ses[s].turn + 1, kind |-> "started", size |-> 1]
  OBVIOUS
<1>6. e \in Event /\ e.size = 1
  <2>1. ses[s].seq + 1 \in Nat /\ ses[s].turn + 1 \in Nat /\ 1 \in Nat
    BY SMT, <1>4
  <2> QED BY <1>5, <2>1 DEF Event, Kinds
<1>7. cur' = [s |-> s, event |-> e] /\ hist' = [hist EXCEPT ![s] = Append(@, e)] /\ total' = total + 1
  BY <1>5 DEF PromptStarts
<1>8. cur'.s = s /\ cur' # NoEvent
  <2>1. cur'.s = s /\ cur' \in [s : Ids, event : Event]
    BY <1>6, <1>7
  <2> QED BY <2>1, EngineAssumption
<1>9. \A x \in Ids \ {s} : ses'[x] = ses[x]
  BY DEF PromptStarts
<1>10. /\ ses'[s].bytes = ses[s].bytes + 1 /\ ses'[s].replay = ses[s].replay
       /\ ses'[s].closed = ses[s].closed /\ ses'[s].running
  <2>1. ses'[s] = [ses[s] EXCEPT !.running = TRUE, !.cancelled = FALSE, !.turn = @ + 1,
                                 !.seq = @ + 1, !.bytes = @ + 1]
    BY DEF PromptStarts
  <2> QED BY <2>1 DEF Record
<1>11. Emits(s, e)
  BY <1>1, <1>2, <1>6, <1>7, <1>8, <1>9, <1>10 DEF Emits
<1>12. work'[w] = [pc |-> "starting", s |-> s, request |-> r, todo |-> << >>]
  BY DEF PromptStarts
<1>13. \A v \in Workers \ {w} : work'[v] = work[v]
  BY DEF PromptStarts
<1>14. work'[w].s = s /\ work'[w].request = r
  BY ONLY <1>12, SMT
<1> QED BY <1>11, <1>13, <1>14

LEMMA FinishEmitted ==
    ASSUME EngineInv, NEW w \in Workers, FinishEmits(w)
    PROVE  (\E e : Emits(work[w].s, e)) /\ WorkKept
<1>0. PICK s : s = work[w].s
  OBVIOUS
<1>1. cur = NoEvent /\ Active(w) /\ alive' = alive
  BY DEF FinishEmits, Active
<1>2. s \in alive /\ s \in Ids /\ ses[s].running
  BY <1>0, <1>1, ShapeFacts DEF EngineInv, TurnInv
<1>3. /\ ses \in [Ids -> Record] /\ work \in [Workers -> Worker] /\ ses[s] \in Record /\ work[w] \in Worker
  BY <1>2, ShapeFacts DEF EngineInv, Shapes
<1> USE <1>3
<1>4. ses[s].seq \in Nat /\ ses[s].turn \in Nat
  BY RecordFields
<1>5. PICK kind, size : /\ kind = Head(work[w].todo) /\ size \in (IF kind = "chunk" THEN Sizes ELSE {1})
                        /\ Emit(s, kind, size)
                        /\ ses' = [ses EXCEPT ![s].seq = @ + 1, ![s].bytes = @ + size]
  BY <1>0 DEF FinishEmits
<1>6. PICK e : e = [seq |-> ses[s].seq + 1, turn |-> ses[s].turn, kind |-> kind, size |-> size]
  OBVIOUS
<1>7. e \in Event /\ e.size = size
  <2>1. work[w].todo \in Todos /\ work[w].todo # << >>
    BY DEF FinishEmits, Worker
  <2>2. kind \in Kinds
    BY <1>5, <2>1, TodoFacts
  <2>3. ses[s].seq + 1 \in Nat /\ 1 \in Nat
    BY SMT, <1>4
  <2>4. Sizes \subseteq Nat
    BY EngineAssumption
  <2>5. size \in Nat
    BY <1>5, <2>3, <2>4
  <2> QED BY <1>4, <1>6, <2>2, <2>3, <2>5 DEF Event
<1>8. cur' = [s |-> s, event |-> e] /\ hist' = [hist EXCEPT ![s] = Append(@, e)] /\ total' = total + size
  BY <1>5, <1>6 DEF Emit
<1>9. cur'.s = s /\ cur' # NoEvent
  <2>1. cur'.s = s /\ cur' \in [s : Ids, event : Event]
    BY <1>2, <1>7, <1>8
  <2> QED BY <2>1, EngineAssumption
<1>10. \A x \in Ids \ {s} : ses'[x] = ses[x]
  BY <1>5
<1>11. /\ ses'[s].bytes = ses[s].bytes + size /\ ses'[s].replay = ses[s].replay
       /\ ses'[s].closed = ses[s].closed /\ ses'[s].running = ses[s].running
  <2>1. ses'[s] = [ses[s] EXCEPT !.seq = @ + 1, !.bytes = @ + size]
    BY <1>2, <1>5
  <2> QED BY <2>1 DEF Record
<1>12. Emits(s, e)
  BY <1>1, <1>2, <1>7, <1>8, <1>9, <1>10, <1>11 DEF Emits
<1>13. WorkKept
  <2>1. work'[w] = [work[w] EXCEPT !.todo = Tail(@)]
    BY DEF FinishEmits
  <2>2. \A v \in Workers \ {w} : work'[v] = work[v]
    BY DEF FinishEmits
  <2>3. work'[w].s = work[w].s /\ work'[w].request = work[w].request
    BY <2>1 DEF Worker
  <2> QED BY <1>1, <2>2, <2>3 DEF WorkKept, Active
<1> QED BY <1>0, <1>12, <1>13

\* evictOldest, of any session.
Evicts(s) ==
    /\ s \in alive /\ Len(hist[s]) > 0
    /\ hist' = [hist EXCEPT ![s] = Tail(@)] /\ total' = total - Head(hist[s]).size
    /\ ses'[s].bytes = ses[s].bytes - Head(hist[s]).size
    /\ \A x \in Ids \ {s} : ses'[x] = ses[x]
    /\ ses'[s].replay = ses[s].replay /\ ses'[s].closed = ses[s].closed
    /\ ses'[s].running = ses[s].running

LEMMA EvictEvicts ==
    ASSUME EngineInv, Evict
    PROVE  /\ \E s \in alive : Evicts(s)
           /\ UNCHANGED <<alive, cur, work>> /\ cur # NoEvent /\ WorkKept
<1>1. UNCHANGED <<alive, cur, work>> /\ cur # NoEvent
  BY DEF Evict
<1>2. WorkKept
  BY <1>1 DEF WorkKept, Active
<1>3. cur.s \in alive
  <2>1. PICK w \in Workers : Holds(w) /\ work[w].s = cur.s
    BY <1>1 DEF EngineInv, LockInv
  <2> QED BY <2>1 DEF EngineInv, TurnInv, Holds, Active
<1>4. PICK s \in alive : EvictOldest(s) /\ (Len(hist[s]) > 0 \/ hist[s] # << >>)
  BY <1>3 DEF Evict, OverOwn, Largest
<1>5. ses \in [Ids -> Record] /\ ses[s] \in Record /\ s \in Ids /\ hist[s] \in Seq(Event)
  BY ShapeFacts DEF EngineInv, Shapes
<1>6. Len(hist[s]) > 0
  <2>1. \A h \in Seq(Event) : h # << >> => Len(h) > 0
    BY SMT
  <2> QED BY <1>4, <1>5, <2>1
<1>7. \A x \in Ids \ {s} : ses'[x] = ses[x]
  BY <1>4, <1>5 DEF EvictOldest
<1>8. /\ ses'[s].bytes = ses[s].bytes - Head(hist[s]).size /\ ses'[s].replay = ses[s].replay
      /\ ses'[s].closed = ses[s].closed /\ ses'[s].running = ses[s].running
  <2>1. ses'[s] = [ses[s] EXCEPT !.bytes = @ - Head(hist[s]).size, !.floor = @ + 1]
    BY <1>4, <1>5 DEF EvictOldest
  <2> QED BY <1>5, <2>1 DEF Record
<1>9. Evicts(s)
  BY <1>4, <1>6, <1>7, <1>8 DEF Evicts, EvictOldest
<1> QED BY <1>1, <1>2, <1>9

\* releaseSession, with the flags its callers set.
Releases(gone) ==
    /\ gone \subseteq alive /\ Release(gone) /\ cur = NoEvent /\ cur' = NoEvent
    /\ \A x \in Ids : ses'[x].bytes = ses[x].bytes

LEMMA CloseReleases ==
    ASSUME EngineInv, NEW s \in Ids, SessionClose(s)
    PROVE  /\ Releases({t \in {s} : ~ses[t].running}) /\ WorkKept
           /\ \A x \in Ids : ses'[x].replay = ses[x].replay
<1>1. cur = NoEvent /\ cur' = cur /\ s \in alive
  BY UnlockedFacts DEF SessionClose
<1>2. ses \in [Ids -> Record] /\ ses[s] \in Record
  BY DEF EngineInv, Shapes
<1>3. \A x \in Ids \ {s} : ses'[x] = ses[x]
  BY <1>2 DEF SessionClose
<1>4. ses'[s].bytes = ses[s].bytes /\ ses'[s].replay = ses[s].replay
  <2>1. ses'[s] = [ses[s] EXCEPT !.closed = TRUE, !.cancelled = ses[s].running]
    BY <1>2 DEF SessionClose
  <2> QED BY <1>2, <2>1 DEF Record
<1>5. WorkKept
  BY DEF SessionClose, WorkKept, Active
<1> QED BY <1>1, <1>3, <1>4, <1>5 DEF Releases, SessionClose

LEMMA LeaveReleases ==
    ASSUME EngineInv, ReaderLeaves
    PROVE  /\ Releases({s \in alive : ~ses[s].running}) /\ WorkKept
           /\ \A x \in Ids : ses'[x].replay = ses[x].replay
           /\ \A x \in alive' : x \in Ids /\ ses'[x].closed /\ ses'[x].running
<1>1. cur = NoEvent /\ cur' = cur
  BY UnlockedFacts DEF ReaderLeaves
<1>2. ses \in [Ids -> Record] /\ alive \subseteq Ids
  BY ShapeFacts DEF EngineInv, Shapes
<1>3. \A x \in Ids : ses'[x] = IF x \in alive THEN [ses[x] EXCEPT !.closed = TRUE, !.cancelled = ses[x].running]
                              ELSE ses[x]
  BY DEF ReaderLeaves, EngineClose
<1>4. \A r \in Record : LET q == [r EXCEPT !.closed = TRUE, !.cancelled = r.running]
                        IN  q.bytes = r.bytes /\ q.replay = r.replay /\ q.closed /\ q.running = r.running
  BY DEF Record
<1>5. \A x \in Ids : ses'[x].bytes = ses[x].bytes /\ ses'[x].replay = ses[x].replay
  BY <1>2, <1>3, <1>4
<1>6. WorkKept
  BY DEF ReaderLeaves, WorkKept, Active
<1>7. \A x \in alive' : x \in alive /\ ses[x].running
  BY DEF ReaderLeaves, EngineClose, Release
<1>8. \A x \in alive' : x \in Ids /\ ses'[x].closed /\ ses'[x].running
  <2> TAKE x \in alive'
  <2>1. x \in alive /\ x \in Ids /\ ses[x].running /\ ses[x] \in Record
    BY <1>2, <1>7
  <2>2. ses'[x] = [ses[x] EXCEPT !.closed = TRUE, !.cancelled = ses[x].running]
    BY <1>3, <2>1
  <2> QED BY <1>4, <2>1, <2>2
<1> QED BY <1>1, <1>5, <1>6, <1>8 DEF Releases, ReaderLeaves, EngineClose

LEMMA EndReleases ==
    ASSUME EngineInv, NEW w \in Workers, TurnEnds(w)
    PROVE  LET s == work[w].s IN
           /\ Releases({t \in {s} : ses[t].closed}) /\ WorkKept /\ ~Active(w)'
           /\ s \in alive /\ Active(w)
           /\ ses'[s].replay = Remembered(s, work[w].request)
           /\ \A x \in Ids \ {s} : ses'[x] = ses[x]
<1>0. PICK s : s = work[w].s
  OBVIOUS
<1>1. cur = NoEvent /\ cur' = cur /\ Active(w)
  BY DEF TurnEnds, Active
<1>2. s \in alive /\ s \in Ids
  BY <1>0, <1>1, ShapeFacts DEF EngineInv, TurnInv
<1>3. ses \in [Ids -> Record] /\ ses[s] \in Record /\ work \in [Workers -> Worker]
  BY <1>2 DEF EngineInv, Shapes
<1>4. \A x \in Ids \ {s} : ses'[x] = ses[x]
  BY <1>0, <1>3 DEF TurnEnds
<1>5. ses'[s].bytes = ses[s].bytes /\ ses'[s].replay = Remembered(s, work[w].request)
  <2>1. ses'[s] = [ses[s] EXCEPT !.running = FALSE, !.cancelled = FALSE,
                                 !.replay = Remembered(s, work[w].request)]
    BY <1>0, <1>2, <1>3 DEF TurnEnds
  <2> QED BY <1>3, <2>1 DEF Record
<1>6. work'[w].pc = "reply" /\ \A v \in Workers \ {w} : work'[v] = work[v]
  <2>1. [Idle EXCEPT !.pc = "reply"].pc = "reply"
    BY DEF Idle
  <2> QED BY <1>3, <2>1 DEF TurnEnds
<1>7. WorkKept /\ ~Active(w)'
  BY <1>6 DEF WorkKept, Active
<1>8. Releases({t \in {s} : ses[t].closed})
  BY <1>0, <1>1, <1>2, <1>4, <1>5 DEF Releases, TurnEnds
<1> QED BY <1>0, <1>1, <1>2, <1>4, <1>5, <1>7, <1>8

----------------------------------------------------------------------------
(* Counters and limits of the history.                                     *)

LEMMA EmitCounts ==
    ASSUME Laws, EngineInv, EngineInv', Counters, Within, NEW s \in Ids, NEW e, Emits(s, e)
    PROVE  Counters' /\ Within'
<1>1. Shapes /\ Shapes' /\ hist \in [Ids -> Seq(Event)] /\ hist[s] \in Seq(Event)
  BY DEF EngineInv, Shapes
<1>2. PICK g : g = Append(hist[s], e)
  OBVIOUS
<1>3. hist' = [hist EXCEPT ![s] = g] /\ s \in alive /\ alive' = alive /\ e \in Event
  BY <1>2 DEF Emits
<1>4. g \in Seq(Event) /\ Bytes(g) = Bytes(hist[s]) + e.size
  BY <1>1, <1>2, <1>3, AppendSeq, BytesAppend
<1>5. Bytes(hist[s]) \in Nat /\ e.size \in Nat /\ ses[s].bytes = Bytes(hist[s])
  BY <1>1, <1>3, BytesFacts DEF Event, Counters
<1>6. total \in Nat
  <2>1. PICK f : f = [x \in Ids |-> Bytes(hist[x])]
    OBVIOUS
  <2> QED BY <1>1, <2>1, HistoryNumbers, SumLaws DEF Counters
<1>7. /\ total + e.size = total + Bytes(g) - Bytes(hist[s])
      /\ ses[s].bytes + e.size = ses[s].bytes + Bytes(g) - Bytes(hist[s])
  BY ONLY <1>4, <1>5, <1>6, SMT
<1>8. Counters'
  BY <1>1, <1>3, <1>4, <1>7, CountOne DEF Emits
<1>9. \A x \in Ids : hist'[x] = hist[x] \/ x = s
  BY <1>1, <1>3
<1>10. Within'
  BY <1>9 DEF Emits, Within
<1> QED BY <1>8, <1>10

LEMMA EvictCounts ==
    ASSUME Laws, EngineInv, EngineInv', Counters, Within, NEW s \in alive, Evicts(s),
           UNCHANGED <<alive, cur>>, cur # NoEvent
    PROVE  Counters' /\ Within'
<1>1. Shapes /\ Shapes' /\ hist \in [Ids -> Seq(Event)] /\ s \in Ids /\ hist[s] \in Seq(Event)
  BY ShapeFacts DEF EngineInv, Shapes
<1> USE <1>1
<1>2. PICK g : g = Tail(hist[s])
  OBVIOUS
<1>3. hist' = [hist EXCEPT ![s] = g] /\ Len(hist[s]) > 0
  BY <1>2 DEF Evicts
<1>4. /\ g \in Seq(Event) /\ Bytes(g) = Bytes(hist[s]) - Head(hist[s]).size
      /\ Head(hist[s]).size \in Nat /\ Len(g) < Len(hist[s])
  BY <1>2, <1>3, BytesTail
<1>5. Bytes(hist[s]) \in Nat /\ ses[s].bytes = Bytes(hist[s])
  BY BytesFacts DEF Counters
<1>6. total \in Nat
  <2>1. PICK f : f = [x \in Ids |-> Bytes(hist[x])]
    OBVIOUS
  <2> QED BY <2>1, HistoryNumbers, SumLaws DEF Counters
<1>7. /\ total - Head(hist[s]).size = total + Bytes(g) - Bytes(hist[s])
      /\ ses[s].bytes - Head(hist[s]).size = ses[s].bytes + Bytes(g) - Bytes(hist[s])
  BY ONLY <1>4, <1>5, <1>6, SMT
<1>8. Counters'
  BY <1>3, <1>4, <1>7, CountOne DEF Evicts
<1>9. \A x \in Ids \ {s} : hist'[x] = hist[x]
  BY <1>3
<1>10. hist'[s] = g
  BY <1>3
<1>11. Len(hist[s]) <= MaxEvents => Len(g) <= MaxEvents
  <2>1. MaxEvents \in Nat /\ Len(g) \in Nat /\ Len(hist[s]) \in Nat
    <3>1. \A h \in Seq(Event) : Len(h) \in Nat
      BY SMT
    <3> QED BY <1>4, <3>1, EngineAssumption
  <2> QED BY ONLY <1>4, <2>1, SMT
<1>12. Within'
  BY <1>9, <1>10, <1>11 DEF Within
<1> QED BY <1>8, <1>12

LEMMA ReleaseCounts ==
    ASSUME Laws, EngineInv, Counters, Within, NEW gone, Releases(gone)
    PROVE  Counters' /\ Within'
<1>1. Shapes
  BY DEF EngineInv
<1>2. Counters' /\ total' <= total /\ \A x \in Ids : hist'[x] = hist[x] \/ hist'[x] = << >>
  BY <1>1, CountReleased DEF Releases
<1>3. total \in Nat /\ total' \in Int
  <2>1. PICK f : f = [x \in Ids |-> Bytes(hist[x])]
    OBVIOUS
  <2>2. total \in Nat
    BY <1>1, <2>1, HistoryNumbers, SumLaws DEF Counters
  <2>3. PICK d : d = [x \in Ids |-> IF x \in gone THEN ses[x].bytes ELSE 0]
    OBVIOUS
  <2>4. MaxIssued \in Nat /\ Ids = 1 .. MaxIssued /\ 0 \in Nat
    BY SMT, EngineAssumption DEF Ids
  <2>5. \A x \in 1 .. MaxIssued : d[x] \in Nat
    BY <2>3, <2>4 DEF Counters
  <2>6. SumUpTo(d, MaxIssued) \in Nat
    BY <2>4, <2>5, SumLaws
  <2>7. total' = total - SumUpTo(d, MaxIssued)
    BY <2>3 DEF Releases, Release
  <2> QED BY ONLY <2>2, <2>6, <2>7, SMTT(30)
<1>4. MaxTotal \in Nat /\ MaxEvents \in Nat /\ Len(<< >>) = 0
  BY SMT, EngineAssumption
<1>5. total' <= MaxTotal
  <2>1. total <= MaxTotal
    BY DEF Releases, Within
  <2> QED BY ONLY <1>2, <1>3, <1>4, <2>1, SMTT(30)
<1>6. Len(<< >>) <= MaxEvents
  BY ONLY <1>4, SMT
<1> QED BY <1>2, <1>5, <1>6 DEF Within, Releases

\* Some holder of events has the most bytes: total is an upper bound of them.
LEMMA LargestExists ==
    ASSUME Laws, EngineInv, Counters, Largest = {}
    PROVE  total = 0
<1>1. PICK f : f = [x \in Ids |-> Bytes(hist[x])]
  OBVIOUS
<1>2. /\ MaxIssued \in Nat /\ Ids = 1 .. MaxIssued
      /\ \A x \in 1 .. MaxIssued : f[x] = Bytes(hist[x]) /\ f[x] \in Nat
      /\ total = SumUpTo(f, MaxIssued)
  BY <1>1, HistoryNumbers DEF EngineInv, Counters
<1> USE <1>2
<1>3. total \in Nat /\ \A x \in 1 .. MaxIssued : f[x] <= total
  BY SumLaws
<1>4. alive \subseteq Ids /\ \A x \in Ids : x \notin alive => hist[x] = << >>
  BY ShapeFacts DEF EngineInv, Shapes
<1>5. \A x \in alive : ses[x].bytes \in Nat /\ ses[x].bytes <= total
  <2> TAKE x \in alive
  <2>1. x \in 1 .. MaxIssued
    BY <1>4
  <2> QED BY <1>3, <2>1 DEF Counters
<1> DEFINE holders == {x \in alive : hist[x] # << >>}
           T == {total - ses[x].bytes : x \in holders}
<1>6. holders = {}
  <2> SUFFICES ASSUME holders # {} PROVE FALSE
    OBVIOUS
  <2>1. T \in SUBSET Nat /\ T # {}
    <3>1. ASSUME NEW x \in holders PROVE total - ses[x].bytes \in Nat
      <4>1. ses[x].bytes \in Nat /\ ses[x].bytes <= total
        BY <1>5
      <4> QED BY ONLY <1>3, <4>1, SMT
    <3> QED BY <3>1
  <2>2. PICK m \in T : \A n \in T : m <= n
    BY <2>1, FirstLaws
  <2>3. PICK x \in holders : m = total - ses[x].bytes
    BY <2>2
  <2>4. ASSUME NEW y \in holders PROVE ses[y].bytes <= ses[x].bytes
    <3>1. total - ses[x].bytes <= total - ses[y].bytes
      BY <2>2, <2>3
    <3>2. ses[x].bytes \in Nat /\ ses[y].bytes \in Nat
      BY <1>5
    <3> QED BY ONLY <1>3, <3>1, <3>2, SMTT(30)
  <2>5. x \in Largest
    BY <2>4 DEF Largest
  <2> QED BY <2>5
<1>7. \A x \in 1 .. MaxIssued : f[x] = 0
  <2> TAKE x \in 1 .. MaxIssued
  <2>1. hist[x] = << >>
    BY <1>4, <1>6
  <2>2. << >> \in Seq(Event) /\ Len(<< >>) = 0
    BY SMT
  <2> QED BY <2>1, <2>2, BytesFacts
<1> QED BY <1>7, SumLaws

LEMMA DeliverWithin ==
    ASSUME Laws, EngineInv, Counters, Within, EmitDeliver
    PROVE  Within'
<1>1. UNCHANGED <<hist, total>> /\ cur' = NoEvent /\ ~Overdue /\ cur.s \in Ids
  BY DEF EmitDeliver, EngineInv, Shapes
<1>2. MaxEvents \in Nat /\ MaxTotal \in Nat /\ \A x \in Ids : Len(hist[x]) \in Nat
  BY EngineAssumption, ShapeFacts DEF EngineInv
<1>3. Len(hist[cur.s]) <= MaxEvents
  <2>1. ~(Len(hist[cur.s]) > 0 /\ Len(hist[cur.s]) > MaxEvents) /\ Len(hist[cur.s]) \in Nat
    BY <1>1, <1>2 DEF Overdue, OverOwn
  <2> QED BY ONLY <1>2, <2>1, SMT
<1>4. \A x \in Ids : Len(hist[x]) <= MaxEvents
  BY <1>3 DEF Within
<1>5. total <= MaxTotal
  <2>1. total \in Nat
    <3>1. PICK f : f = [x \in Ids |-> Bytes(hist[x])]
      OBVIOUS
    <3> QED BY <3>1, HistoryNumbers, SumLaws DEF Counters, EngineInv
  <2>2. ~(total > MaxTotal) \/ total = 0
    BY <1>1, LargestExists DEF Overdue
  <2> QED BY ONLY <1>2, <2>1, <2>2, SMT
<1> QED BY <1>1, <1>4, <1>5 DEF Within

LEMMA NewCounts ==
    ASSUME Laws, EngineInv, Counters, Within, SessionNew
    PROVE  /\ Counters' /\ Within'
           /\ issued + 1 \in Ids /\ issued + 1 \notin alive
           /\ ses'[issued + 1] = Fresh /\ \A x \in Ids \ {issued + 1} : ses'[x] = ses[x]
<1>1. issued \in Nat /\ MaxIssued \in Nat /\ issued < MaxIssued
  BY ShapeFacts, EngineAssumption DEF EngineInv, SessionNew
<1>2. issued + 1 \in Ids /\ issued + 1 > issued
  BY ONLY <1>1, SMT DEF Ids
<1>3. issued + 1 \notin alive /\ alive \subseteq Ids
  BY <1>2, ShapeFacts DEF EngineInv
<1>4. ses \in [Ids -> Record] /\ hist[issued + 1] = << >>
  BY <1>2, <1>3 DEF EngineInv, Shapes
<1>5. ses'[issued + 1] = Fresh /\ \A x \in Ids \ {issued + 1} : ses'[x] = ses[x]
  BY <1>2, <1>4 DEF SessionNew
<1>6. Fresh.bytes = 0 /\ Bytes(<< >>) = 0
  <2>1. << >> \in Seq(Event) /\ Len(<< >>) = 0
    BY SMT
  <2>2. Fresh.bytes = 0
    BY DEF Fresh
  <2> QED BY <2>1, <2>2, BytesFacts
<1>7. UNCHANGED <<hist, total, cur>> /\ alive' = alive \union {issued + 1}
  BY DEF SessionNew, histVars
<1>8. Counters'
  BY <1>2, <1>3, <1>4, <1>5, <1>6, <1>7, CountKept
<1>9. Within'
  BY <1>7 DEF Within
<1> QED BY <1>2, <1>3, <1>5, <1>8, <1>9

----------------------------------------------------------------------------
(* The queue.                                                              *)

LEMMA QueueKept ==
    ASSUME QueueOK, queue' = queue PROVE QueueOK'
  BY DEF QueueOK

LEMMA QueueGrows ==
    ASSUME QueueOK, NEW n \in Nat, Fits(n), queue' = Append(queue, n) PROVE QueueOK'
<1>1. queue \in Seq(Nat) /\ Len(queue) < QueueCap /\ QueueCap \in Nat
  BY EngineAssumption DEF QueueOK, Fits
<1> QED BY SMT, <1>1 DEF QueueOK

LEMMA QueueSteps ==
    ASSUME Laws, EngineInv, QueueOK, [Next]_vars PROVE QueueOK'
<1>0. 1 \in Nat /\ \A e \in Event : e.size \in Nat
  BY SMT DEF Event
<1>1. CASE Send \/ UNCHANGED connVars
  BY <1>0, <1>1, QueueKept, QueueGrows DEF Send, connVars
<1>2. CASE FlushNext
  <2>1. flushing \in Ids /\ hist[flushing] \in Seq(Event)
    BY <1>2, ShapeFacts DEF FlushNext, EngineInv, LockInv
  <2> DEFINE h == hist[flushing]
             later == {i \in DOMAIN h : h[i].seq > ses[flushing].delivered}
             k == CHOOSE i \in later : \A j \in later : i <= j
  <2>2. \/ queue' = queue
        \/ later # {} /\ Fits(h[k].size) /\ queue' = Append(queue, h[k].size)
    BY <1>2 DEF FlushNext
  <2>3. DOMAIN h \subseteq Nat /\ \A i \in DOMAIN h : h[i] \in Event
    BY SMT, <2>1
  <2>4. later # {} => k \in later
    <3>1. later \in SUBSET Nat
      BY <2>3
    <3> HIDE DEF later
    <3>2. later # {} => \E i \in later : \A j \in later : i <= j
      BY <3>1, FirstLaws
    <3> QED BY <3>2
  <2>5. later # {} => h[k].size \in Nat
    BY <1>0, <2>3, <2>4
  <2> HIDE DEF h, k, later
  <2> QED BY <2>2, <2>5, QueueKept, QueueGrows
<1>3. CASE EmitDeliver
  <2>1. cur.event \in Event
    BY <1>3 DEF EmitDeliver, EngineInv, Shapes
  <2>2. queue' = queue \/ (Fits(cur.event.size) /\ queue' = Append(queue, cur.event.size))
    BY <1>3 DEF EmitDeliver, Deliver
  <2> QED BY <1>0, <2>1, <2>2, QueueKept, QueueGrows
<1>4. CASE WriterTakes
  <2>1. queue \in Seq(Nat) /\ queue # << >> /\ queue' = Tail(queue) /\ Len(queue) <= QueueCap
    BY <1>4 DEF WriterTakes, QueueOK
  <2>2. QueueCap \in Nat
    BY EngineAssumption
  <2> QED BY SMT, <2>1, <2>2 DEF QueueOK
<1>5. CASE UNCHANGED vars \/ Evict \/ Cancelled \/ WriterWrites \/ ReaderLeaves
  BY <1>5, QueueKept DEF vars, Evict, connVars, Cancelled, WriterWrites, ReaderLeaves
<1>6. CASE Initialize \/ Trivial \/ SessionNew \/ ReaderReplies \/ ConnectionEnds
  BY <1>6, <1>1 DEF Initialize, Trivial, SessionNew, ReaderReplies, ConnectionEnds
<1>7. ASSUME NEW s \in Ids,
             SessionSuspend(s) \/ SessionResume(s) \/ SessionAbort(s) \/ SessionClose(s)
      PROVE  QueueOK'
  BY <1>7, <1>1 DEF SessionSuspend, SessionResume, SessionAbort, SessionClose
<1>8. ASSUME NEW s \in Ids, NEW w \in Workers, NEW r \in Requests \union {NoRequest},
             PromptAnswered(w, s, r) \/ PromptStarts(w, s, r)
      PROVE  QueueOK'
  BY <1>8, <1>1 DEF PromptAnswered, PromptStarts
<1>9. ASSUME NEW w \in Workers, WorkerSteps(w) PROVE QueueOK'
  BY <1>9, <1>1 DEF WorkerSteps, CallProvider, ProviderReturns, FinishEmits, TurnEnds, WorkerReplies
<1> QED BY <1>2, <1>3, <1>4, <1>5, <1>6, <1>7, <1>8, <1>9 DEF Next

----------------------------------------------------------------------------
(* The replay cache.                                                       *)

LEMMA ReplayKept ==
    ASSUME Laws, EngineInv, ReplayOK, WorkKept,
           \A s \in Ids : ses'[s].replay = ses[s].replay \/ (s \notin alive /\ ses'[s].replay = {})
    PROVE  ReplayOK'
<1>1. IsFiniteSet({}) /\ Cardinality({}) <= MaxReplay
  <2>1. MaxReplay \in Nat /\ IsFiniteSet({}) /\ Cardinality({}) = 0
    BY FirstLaws, EngineAssumption
  <2> QED BY ONLY <2>1, SMT
<1>2. \A s \in Ids : IsFiniteSet(ses'[s].replay) /\ Cardinality(ses'[s].replay) <= MaxReplay
  BY <1>1 DEF ReplayOK
<1>3. ASSUME NEW w \in Workers, Active(w)', work'[w].request # NoRequest
      PROVE  Cardinality(ses'[work'[w].s].replay) < MaxReplay
  <2>1. Active(w) /\ work'[w].s = work[w].s /\ work'[w].request = work[w].request
    BY <1>3 DEF WorkKept
  <2>2. work[w].s \in alive /\ work[w].s \in Ids
    BY <2>1, ShapeFacts DEF EngineInv, TurnInv
  <2> QED BY <1>3, <2>1, <2>2 DEF ReplayOK
<1> QED BY <1>2, <1>3 DEF ReplayOK

LEMMA ReplayStart ==
    ASSUME EngineInv, ReplayOK, NEW w \in Workers, NEW s \in Ids,
           NEW r \in Requests \union {NoRequest}, PromptStarts(w, s, r)
    PROVE  ReplayOK'
<1>1. PICK e : Emits(s, e)
  BY StartEmits
<1>2. \A x \in Ids : ses'[x].replay = ses[x].replay
  BY <1>1 DEF Emits
<1>3. work'[w].s = s /\ work'[w].request = r /\ \A v \in Workers \ {w} : work'[v] = work[v]
  BY StartEmits
<1>4. r # NoRequest => Cardinality(ses[s].replay) < MaxReplay
  BY DEF PromptStarts, MayStart
<1>5. ASSUME NEW v \in Workers, Active(v)', work'[v].request # NoRequest
      PROVE  Cardinality(ses'[work'[v].s].replay) < MaxReplay
  <2>1. CASE v = w
    BY <1>2, <1>3, <1>4, <1>5, <2>1
  <2>2. CASE v # w
    <3>1. work'[v] = work[v] /\ Active(v)
      BY <1>3, <1>5, <2>2 DEF Active
    <3>2. work[v].s \in Ids
      BY <3>1, ShapeFacts DEF EngineInv, TurnInv
    <3> QED BY <1>2, <1>5, <3>1, <3>2 DEF ReplayOK
  <2> QED BY <2>1, <2>2
<1> QED BY <1>2, <1>5 DEF ReplayOK

LEMMA ReplayEnd ==
    ASSUME Laws, EngineInv, ReplayOK, NEW w \in Workers, TurnEnds(w)
    PROVE  ReplayOK'
<1>0. PICK s, r : s = work[w].s /\ r = work[w].request
  OBVIOUS
<1>1. /\ WorkKept /\ ~Active(w)' /\ s \in alive /\ Active(w)
      /\ ses'[s].replay = Remembered(s, r) /\ \A x \in Ids \ {s} : ses'[x] = ses[x]
  BY <1>0, EndReleases
<1> USE <1>1
<1>2. s \in Ids /\ MaxReplay \in Nat
  BY ShapeFacts, EngineAssumption DEF EngineInv
<1>3. IsFiniteSet(ses[s].replay) /\ Cardinality(ses[s].replay) <= MaxReplay
  BY <1>2 DEF ReplayOK
<1>4. IsFiniteSet(ses'[s].replay) /\ Cardinality(ses'[s].replay) <= MaxReplay
  <2>1. CASE r = NoRequest
    <3>1. Remembered(s, r) = ses[s].replay
      BY <2>1 DEF Remembered
    <3> QED BY <1>3, <3>1
  <2>2. CASE r # NoRequest
    <3>1. Remembered(s, r) = ses[s].replay \union {r}
      BY <2>2 DEF Remembered
    <3>2. Cardinality(ses[s].replay) < MaxReplay
      BY <1>0, <2>2 DEF ReplayOK
    <3>3. Cardinality(ses[s].replay) \in Nat
      BY <1>3, SetLaws
    <3>4. /\ IsFiniteSet(ses[s].replay \union {r})
          /\ \/ Cardinality(ses[s].replay \union {r}) = Cardinality(ses[s].replay)
             \/ Cardinality(ses[s].replay \union {r}) = Cardinality(ses[s].replay) + 1
      BY <1>3, SetLaws
    <3>5. Cardinality(ses[s].replay \union {r}) <= MaxReplay
      BY ONLY <1>2, <3>2, <3>3, <3>4, SMT
    <3> QED BY <3>1, <3>4, <3>5
  <2> QED BY <2>1, <2>2
<1>5. \A x \in Ids : IsFiniteSet(ses'[x].replay) /\ Cardinality(ses'[x].replay) <= MaxReplay
  BY <1>4 DEF ReplayOK
<1>6. ASSUME NEW v \in Workers, Active(v)', work'[v].request # NoRequest
      PROVE  Cardinality(ses'[work'[v].s].replay) < MaxReplay
  <2>1. v # w /\ Active(v) /\ work'[v].s = work[v].s /\ work'[v].request = work[v].request
    BY <1>6 DEF WorkKept
  <2>2. work[v].s # s /\ work[v].s \in Ids
    BY <1>0, <2>1, ShapeFacts DEF EngineInv, TurnInv
  <2> QED BY <1>6, <2>1, <2>2 DEF ReplayOK
<1> QED BY <1>5, <1>6 DEF ReplayOK

----------------------------------------------------------------------------
(* The end of the connection.                                              *)

\* Steps other than those of the read loop on its way out.
LEMMA ClosingKept ==
    ASSUME ClosingOK, reader' \in {"closing", "done"} => reader' = reader,
           reader' = reader /\ reader \in {"closing", "done"} =>
             /\ alive' \subseteq alive
             /\ \A s \in alive' : ses'[s].closed = ses[s].closed /\ ses'[s].running = ses[s].running
    PROVE  ClosingOK'
<1>1. ASSUME reader' \in {"closing", "done"}
      PROVE  (\A s \in alive' : ses'[s].closed /\ ses'[s].running) /\ (reader' = "done" => alive' = {})
  <2>1. reader' = reader /\ reader \in {"closing", "done"}
    BY <1>1
  <2> QED BY <2>1 DEF ClosingOK
<1> QED BY <1>1 DEF ClosingOK

LEMMA ClosingEnd ==
    ASSUME EngineInv, ClosingOK, NEW w \in Workers, TurnEnds(w)
    PROVE  ClosingOK'
<1>0. PICK s : s = work[w].s
  OBVIOUS
<1>1. /\ s \in alive /\ Releases({t \in {s} : ses[t].closed})
      /\ \A x \in Ids \ {s} : ses'[x] = ses[x]
  BY <1>0, EndReleases
<1>2. reader' = reader /\ alive' = alive \ {t \in {s} : ses[t].closed} /\ alive \subseteq Ids
  BY <1>1, ShapeFacts DEF TurnEnds, Releases, Release, EngineInv
<1>3. ASSUME reader \in {"closing", "done"} PROVE \A x \in alive' : x # s /\ x \in Ids
  BY <1>1, <1>2, <1>3 DEF ClosingOK
<1> QED BY <1>1, <1>2, <1>3, ClosingKept

LEMMA ClosingDone ==
    ASSUME EngineInv, ClosingOK, ConnectionEnds
    PROVE  ClosingOK'
<1>1. reader = "closing" /\ UNCHANGED <<alive, ses>> /\ \A w \in Workers : ~Active(w)
  BY DEF ConnectionEnds, Active
<1>2. \A s \in alive : ses[s].closed /\ ses[s].running
  BY <1>1 DEF ClosingOK
<1>3. alive = {}
  BY <1>1, <1>2 DEF EngineInv, TurnInv
<1> QED BY <1>1, <1>3 DEF ClosingOK

\* What else the steps do to the read loop.
LEMMA ReaderSteps ==
    ASSUME Plain, [Next]_vars, ~ReaderLeaves, ~ConnectionEnds
    PROVE  /\ reader' \in {"closing", "done"} => reader' = reader
           /\ open' \in BOOLEAN /\ initialized' \in BOOLEAN
           /\ reader' \in {"read", "reply", "await", "flush", "closing", "done"}
           /\ flushing' \in Ids \union {0}
           /\ calls' = calls \/ (calls < MaxCalls /\ calls' = calls + 1)
<1> USE DEF Plain, connVars, Answered, Reads
<1>1. CASE UNCHANGED vars \/ Initialize \/ Trivial \/ SessionNew
  BY <1>1 DEF vars, Initialize, Trivial, SessionNew
<1>2. CASE FlushNext \/ Evict \/ EmitDeliver \/ ReaderReplies
  BY <1>2 DEF FlushNext, Evict, EmitDeliver, ReaderReplies, Send
<1>3. CASE WriterTakes \/ WriterWrites \/ Cancelled
  BY <1>3 DEF WriterTakes, WriterWrites, Cancelled
<1>4. ASSUME NEW s \in Ids,
             \/ SessionSuspend(s) \/ SessionResume(s) \/ SessionAbort(s) \/ SessionClose(s)
             \/ \E w \in Workers, r \in Requests \union {NoRequest} :
                  PromptAnswered(w, s, r) \/ PromptStarts(w, s, r)
      PROVE  /\ reader' \in {"closing", "done"} => reader' = reader
             /\ open' \in BOOLEAN /\ initialized' \in BOOLEAN
             /\ reader' \in {"read", "reply", "await", "flush", "closing", "done"}
             /\ flushing' \in Ids \union {0}
             /\ calls' = calls \/ (calls < MaxCalls /\ calls' = calls + 1)
  BY <1>4 DEF SessionSuspend, SessionResume, SessionAbort, SessionClose, PromptAnswered, PromptStarts
<1>5. ASSUME NEW w \in Workers, WorkerSteps(w)
      PROVE  /\ reader' \in {"closing", "done"} => reader' = reader
             /\ open' \in BOOLEAN /\ initialized' \in BOOLEAN
             /\ reader' \in {"read", "reply", "await", "flush", "closing", "done"}
             /\ flushing' \in Ids \union {0}
             /\ calls' = calls \/ (calls < MaxCalls /\ calls' = calls + 1)
  BY <1>5 DEF WorkerSteps, CallProvider, ProviderReturns, FinishEmits, TurnEnds, WorkerReplies, Send
<1> QED BY <1>1, <1>2, <1>3, <1>4, <1>5 DEF Next

LEMMA PlainStep ==
    ASSUME Laws, EngineInv, Plain, [Next]_vars, alive' \subseteq alive \/ SessionNew
    PROVE  Plain'
<1>1. /\ open' \in BOOLEAN /\ initialized' \in BOOLEAN
      /\ reader' \in {"read", "reply", "await", "flush", "closing", "done"}
      /\ flushing' \in Ids \union {0}
      /\ calls' = calls \/ (calls < MaxCalls /\ calls' = calls + 1)
  <2>1. CASE ReaderLeaves \/ ConnectionEnds
    BY <2>1 DEF ReaderLeaves, ConnectionEnds, Plain, connVars
  <2>2. CASE ~ReaderLeaves /\ ~ConnectionEnds
    BY <2>2, ReaderSteps
  <2> QED BY <2>1, <2>2
<1>2. calls' \in 0 .. MaxCalls
  <2>1. calls \in 0 .. MaxCalls /\ MaxCalls \in Nat
    BY EngineAssumption DEF Plain
  <2>2. calls' = calls \/ (calls < MaxCalls /\ calls' = calls + 1)
    BY <1>1
  <2> QED BY ONLY <2>1, <2>2, SMT
<1>3. IsFiniteSet(alive)
  <2>1. issued \in Nat /\ alive \subseteq 1 .. issued
    BY ShapeFacts DEF EngineInv, Shapes
  <2>2. IsFiniteSet(1 .. issued)
    BY <2>1, FirstLaws
  <2> QED BY <2>1, <2>2, SetLaws
<1>4. Cardinality(alive) \in Nat /\ MaxSessions \in Nat
  BY <1>3, SetLaws, EngineAssumption
<1>5. Cardinality(alive') <= MaxSessions
  <2>1. CASE alive' \subseteq alive
    <3>1. IsFiniteSet(alive') /\ Cardinality(alive') <= Cardinality(alive)
      BY <1>3, <2>1, SetLaws
    <3>2. Cardinality(alive') \in Nat /\ Cardinality(alive) <= MaxSessions
      BY <3>1, SetLaws DEF Plain
    <3> QED BY ONLY <1>4, <3>1, <3>2, SMT
  <2>2. CASE SessionNew
    <3>1. alive' = alive \union {issued + 1} /\ Cardinality(alive) < MaxSessions
      BY <2>2 DEF SessionNew
    <3>2. \/ Cardinality(alive \union {issued + 1}) = Cardinality(alive)
          \/ Cardinality(alive \union {issued + 1}) = Cardinality(alive) + 1
      BY <1>3, SetLaws
    <3> QED BY ONLY <1>4, <3>1, <3>2, SMTT(30)
  <2> QED BY <2>1, <2>2
<1> QED BY <1>1, <1>2, <1>5 DEF Plain

----------------------------------------------------------------------------
(* The theorem.                                                            *)

BudgetInv ==
    EngineInv /\ Counters /\ Within /\ QueueOK /\ ReplayOK /\ ClosingOK /\ Plain

LEMMA BudgetInit == ASSUME Laws, Init PROVE BudgetInv
<1>1. EngineInv
  BY InitInv
<1>2. /\ alive = {} /\ total = 0 /\ cur = NoEvent /\ queue = << >> /\ reader = "read"
      /\ \A s \in Ids : ses[s] = Fresh /\ hist[s] = << >>
      /\ \A w \in Workers : work[w] = Idle
  BY DEF Init
<1> USE <1>2
<1>3. Fresh.bytes = 0 /\ Fresh.replay = {} /\ Idle.pc = "idle"
  BY DEF Fresh, Idle
<1>4. /\ 0 \in Nat /\ Len(<< >>) = 0 /\ << >> \in Seq(Event) /\ << >> \in Seq(Nat)
      /\ \A n \in Nat : 0 <= n
  BY SMT
<1>5. /\ MaxSessions \in Nat /\ MaxReplay \in Nat /\ MaxEvents \in Nat /\ MaxTotal \in Nat
      /\ QueueCap \in Nat /\ MaxCalls \in Nat
  BY EngineAssumption
<1>6. Counters
  <2>1. PICK f : f = [x \in Ids |-> Bytes(hist[x])]
    OBVIOUS
  <2>2. /\ MaxIssued \in Nat /\ Ids = 1 .. MaxIssued /\ Retained = SumUpTo(f, MaxIssued)
        /\ \A x \in 1 .. MaxIssued : f[x] = Bytes(hist[x])
    BY <1>1, <2>1, HistoryNumbers DEF EngineInv
  <2>3. Bytes(<< >>) = 0
    BY <1>4, BytesFacts
  <2>4. \A x \in 1 .. MaxIssued : f[x] = 0
    BY <2>2, <2>3
  <2>5. Retained = 0
    BY <2>2, <2>4, SumLaws
  <2> QED BY <1>3, <1>4, <2>5 DEF Counters
<1>7. Within /\ QueueOK
  BY <1>4, <1>5 DEF Within, QueueOK
<1>8. ReplayOK
  <2>1. IsFiniteSet({}) /\ Cardinality({}) = 0
    BY FirstLaws
  <2>2. \A s \in Ids : ses[s].replay = {}
    BY <1>3
  <2>3. \A s \in Ids : IsFiniteSet(ses[s].replay) /\ Cardinality(ses[s].replay) <= MaxReplay
    BY ONLY <1>4, <1>5, <2>1, <2>2, Zenon
  <2>4. \A w \in Workers : ~Active(w)
    BY <1>3 DEF Active
  <2> QED BY <2>3, <2>4 DEF ReplayOK
<1>9. ClosingOK
  BY DEF ClosingOK
<1>10. Plain
  <2>1. 0 \in 0 .. MaxCalls
    BY ONLY <1>5, SMT
  <2> QED BY <1>4, <1>5, <2>1, FirstLaws DEF Plain, Init
<1> QED BY <1>1, <1>6, <1>7, <1>8, <1>9, <1>10 DEF BudgetInv

LEMMA BudgetNext == ASSUME Laws, BudgetInv, [Next]_vars PROVE BudgetInv'
<1>1. EngineInv /\ Counters /\ Within /\ QueueOK /\ ReplayOK /\ ClosingOK /\ Plain
  BY DEF BudgetInv
<1> USE <1>1
<1>2. EngineInv'
  BY NextInv
<1>3. QueueOK'
  BY QueueSteps
<1>4. /\ alive \subseteq Ids
      /\ ~ReaderLeaves /\ ~ConnectionEnds => (reader' \in {"closing", "done"} => reader' = reader)
  BY ShapeFacts, ReaderSteps DEF EngineInv
<1> USE <1>4
\* What is left to show.
<1> DEFINE Rest == Counters' /\ Within' /\ ReplayOK' /\ ClosingOK' /\ (alive' \subseteq alive \/ SessionNew)
<1>5. Rest => BudgetInv'
  BY <1>2, <1>3, PlainStep DEF BudgetInv
<1> USE <1>5
<1>6. ASSUME UNCHANGED <<hist, total, alive, cur>>, WorkKept, \A s \in Ids : Tame(s),
             reader' \in {"closing", "done"} => reader' = reader
      PROVE  Rest
  <2>1. Counters'
    BY <1>6, CountKept DEF Tame
  <2>2. Within'
    BY <1>6 DEF Within
  <2>3. ReplayOK'
    BY <1>6, ReplayKept DEF Tame
  <2>4. ClosingOK'
    BY <1>6, ClosingKept DEF Tame
  <2> QED BY <1>6, <2>1, <2>2, <2>3, <2>4
<1>7. ASSUME UNCHANGED <<hist, total, alive, ses, cur>>, WorkKept, ~ReaderLeaves, ~ConnectionEnds
      PROVE  Rest
  <2>1. \A s \in Ids : Tame(s)
    BY <1>7 DEF Tame
  <2> QED BY <1>6, <1>7, <2>1
<1>8. CASE UNCHANGED vars
  <2>1. Counters' /\ Within' /\ ReplayOK' /\ ClosingOK' /\ alive' = alive
    BY <1>8 DEF vars, Counters, Within, ReplayOK, ClosingOK, Retained, Active
  <2> QED BY <2>1
<1>9. CASE ConnectionEnds
  <2>1. UNCHANGED <<hist, total, alive, ses, cur>> /\ WorkKept
    BY <1>9, StillSteps
  <2>2. Counters'
    BY <2>1, CountKept
  <2>3. Within'
    BY <2>1 DEF Within
  <2>4. ReplayOK'
    BY <2>1, ReplayKept
  <2>5. ClosingOK'
    BY <1>9, ClosingDone
  <2> QED BY <2>1, <2>2, <2>3, <2>4, <2>5
<1>10. CASE ReaderLeaves
  <2>1. /\ Releases({s \in alive : ~ses[s].running}) /\ WorkKept
        /\ \A x \in Ids : ses'[x].replay = ses[x].replay
        /\ \A x \in alive' : x \in Ids /\ ses'[x].closed /\ ses'[x].running
    BY <1>10, LeaveReleases
  <2>2. Counters' /\ Within'
    BY <2>1, ReleaseCounts
  <2>3. ReplayOK'
    BY <2>1, ReplayKept
  <2>4. ClosingOK'
    BY <1>10, <2>1 DEF ReaderLeaves, ClosingOK
  <2>5. alive' \subseteq alive
    BY <2>1 DEF Releases, Release
  <2> QED BY <2>2, <2>3, <2>4, <2>5
<1> SUFFICES ASSUME Next, ~ConnectionEnds, ~ReaderLeaves PROVE BudgetInv'
  BY <1>8, <1>9, <1>10
<1>11. CASE \/ Initialize \/ Trivial \/ ReaderReplies \/ WriterTakes \/ WriterWrites \/ Cancelled
            \/ \E w \in Workers : WorkerReplies(w) \/ CallProvider(w) \/ ProviderReturns(w)
            \/ \E w \in Workers, s \in Ids, r \in Requests \union {NoRequest} : PromptAnswered(w, s, r)
  <2>1. UNCHANGED <<hist, total, alive, ses, cur>> /\ WorkKept
    BY <1>11, StillSteps
  <2> QED BY <1>7, <2>1
<1>12. CASE \/ \E s \in Ids : SessionSuspend(s) \/ SessionResume(s) \/ SessionAbort(s)
            \/ FlushNext \/ EmitDeliver
  <2>1. /\ UNCHANGED <<hist, total, alive>> /\ WorkKept /\ (cur' = cur \/ EmitDeliver)
        /\ \A s \in Ids : Tame(s)
    BY <1>12, TameSteps
  <2>2. CASE cur' = cur
    BY <1>6, <2>1, <2>2
  <2>3. CASE EmitDeliver
    <3>1. Within'
      BY <2>3, DeliverWithin
    <3>2. Counters'
      BY <2>1, CountKept DEF Tame
    <3>3. ReplayOK'
      BY <2>1, ReplayKept DEF Tame
    <3>4. ClosingOK'
      BY <2>1, ClosingKept DEF Tame
    <3> QED BY <2>1, <3>1, <3>2, <3>3, <3>4
  <2> QED BY <2>1, <2>2, <2>3
<1>13. CASE SessionNew
  <2>1. /\ Counters' /\ Within'
        /\ issued + 1 \in Ids /\ issued + 1 \notin alive
        /\ ses'[issued + 1] = Fresh /\ \A x \in Ids \ {issued + 1} : ses'[x] = ses[x]
    BY <1>13, NewCounts
  <2>2. WorkKept
    BY <1>13 DEF SessionNew, WorkKept, Active
  <2>3. Fresh.replay = {}
    BY DEF Fresh
  <2>4. ReplayOK'
    BY <2>1, <2>2, <2>3, ReplayKept
  <2>5. reader' \notin {"closing", "done"}
    BY <1>13 DEF SessionNew, Answered
  <2>6. ClosingOK'
    BY <2>5 DEF ClosingOK
  <2> QED BY <1>13, <2>1, <2>4, <2>6
<1>14. ASSUME NEW s \in Ids, SessionClose(s) PROVE BudgetInv'
  <2>1. /\ Releases({t \in {s} : ~ses[t].running}) /\ WorkKept
        /\ \A x \in Ids : ses'[x].replay = ses[x].replay
    BY <1>14, CloseReleases
  <2>2. Counters' /\ Within'
    BY <2>1, ReleaseCounts
  <2>3. ReplayOK'
    BY <2>1, ReplayKept
  <2>4. reader' \notin {"closing", "done"}
    BY <1>14 DEF SessionClose, Answered
  <2>5. ClosingOK'
    BY <2>4 DEF ClosingOK
  <2>6. alive' \subseteq alive
    BY <2>1 DEF Releases, Release
  <2> QED BY <2>2, <2>3, <2>5, <2>6
<1>15. ASSUME NEW w \in Workers, NEW s \in Ids, NEW r \in Requests \union {NoRequest},
              PromptStarts(w, s, r)
       PROVE  BudgetInv'
  <2>1. PICK e : Emits(s, e)
    BY <1>15, StartEmits
  <2>2. Counters' /\ Within'
    BY <1>2, <2>1, EmitCounts
  <2>3. ReplayOK'
    BY <1>15, ReplayStart
  <2>4. reader' \notin {"closing", "done"}
    BY <1>15 DEF PromptStarts
  <2>5. ClosingOK'
    BY <2>4 DEF ClosingOK
  <2> QED BY <2>1, <2>2, <2>3, <2>5 DEF Emits
<1>16. ASSUME NEW w \in Workers, FinishEmits(w) PROVE BudgetInv'
  <2>1. (\E e : Emits(work[w].s, e)) /\ WorkKept
    BY <1>16, FinishEmitted
  <2>2. PICK s, e : Emits(s, e) /\ s = work[w].s
    BY <2>1
  <2>3. s \in Ids /\ s \in alive /\ ses[s].running
    <3>1. Active(w)
      BY <1>16 DEF FinishEmits, Active
    <3> QED BY <2>2, <3>1 DEF EngineInv, TurnInv
  <2>4. Counters' /\ Within'
    BY <1>2, <2>2, <2>3, EmitCounts
  <2>5. ReplayOK'
    BY <2>1, <2>2, ReplayKept DEF Emits
  <2>6. ClosingOK'
    <3>1. \A x \in alive' : x \in Ids /\ ses'[x].closed = ses[x].closed /\ (ses[x].running => ses'[x].running)
      BY <2>2 DEF Emits
    <3>2. reader' = reader /\ alive' = alive
      BY <1>16 DEF FinishEmits
    <3> QED BY <3>1, <3>2 DEF ClosingOK
  <2> QED BY <2>2, <2>4, <2>5, <2>6 DEF Emits
<1>17. CASE Evict
  <2>1. /\ \E s \in alive : Evicts(s)
        /\ UNCHANGED <<alive, cur, work>> /\ cur # NoEvent /\ WorkKept
    BY <1>17, EvictEvicts
  <2>2. PICK s \in alive : Evicts(s)
    BY <2>1
  <2>3. Counters' /\ Within'
    BY <1>2, <2>1, <2>2, EvictCounts
  <2>4. \A x \in Ids : /\ ses'[x].replay = ses[x].replay
                       /\ ses'[x].closed = ses[x].closed /\ ses'[x].running = ses[x].running
    BY <2>2 DEF Evicts
  <2>5. ReplayOK'
    BY <2>1, <2>4, ReplayKept
  <2>6. ClosingOK'
    BY <2>1, <2>4, ClosingKept
  <2> QED BY <2>1, <2>3, <2>5, <2>6
<1>18. ASSUME NEW w \in Workers, TurnEnds(w) PROVE BudgetInv'
  <2>1. Releases({t \in {work[w].s} : ses[t].closed})
    BY <1>18, EndReleases
  <2>2. Counters' /\ Within'
    BY <2>1, ReleaseCounts
  <2>3. ReplayOK' /\ ClosingOK'
    BY <1>18, ReplayEnd, ClosingEnd
  <2>4. alive' \subseteq alive
    BY <2>1 DEF Releases, Release
  <2> QED BY <2>2, <2>3, <2>4
<1> QED BY <1>11, <1>12, <1>13, <1>14, <1>15, <1>16, <1>17, <1>18 DEF Next, WorkerSteps

LEMMA BudgetEnough == ASSUME Laws, BudgetInv PROVE BudgetExact
<1>1. EngineInv /\ Counters /\ Within /\ QueueOK /\ ReplayOK /\ ClosingOK /\ Plain
  BY DEF BudgetInv
<1> USE <1>1
<1>2. /\ alive \subseteq Ids
      /\ \A s \in Ids : ses[s] \in Record /\ hist[s] \in Seq(Event)
  BY ShapeFacts DEF EngineInv
<1>3. ses \in [Ids -> Session]
  <2>1. \A r \in Record : r.bytes \in Nat => r \in Session
    BY SMT DEF Record, Session
  <2>2. \A s \in Ids : ses[s] \in Session
    BY <1>2, <2>1 DEF Counters
  <2>3. ses = [s \in Ids |-> ses[s]]
    BY DEF EngineInv, Shapes
  <2> QED BY <2>2, <2>3
<1>4. cur = NoEvent => total <= MaxTotal /\ \A s \in Ids : Len(hist[s]) <= MaxEvents
  BY DEF Within
<1>5. TypeOK
  BY <1>3, <1>4 DEF TypeOK, Plain, QueueOK, ReplayOK, EngineInv, Shapes
<1>6. reader = "done" => alive = {} /\ total = 0
  <2> SUFFICES ASSUME reader = "done" PROVE alive = {} /\ total = 0
    OBVIOUS
  <2>1. alive = {}
    BY DEF ClosingOK
  <2>2. PICK f : f = [x \in Ids |-> Bytes(hist[x])]
    OBVIOUS
  <2>3. /\ MaxIssued \in Nat /\ Ids = 1 .. MaxIssued /\ Retained = SumUpTo(f, MaxIssued)
        /\ \A x \in 1 .. MaxIssued : f[x] = Bytes(hist[x])
    BY <2>2, HistoryNumbers DEF EngineInv
  <2>4. \A x \in Ids : hist[x] = << >>
    BY <2>1 DEF EngineInv, Shapes
  <2>5. << >> \in Seq(Event) /\ Len(<< >>) = 0
    BY SMT
  <2>6. Bytes(<< >>) = 0
    BY <2>5, BytesFacts
  <2>7. \A x \in 1 .. MaxIssued : f[x] = 0
    BY <2>3, <2>4, <2>6
  <2>8. Retained = 0
    BY <2>3, <2>7, SumLaws
  <2> QED BY <2>1, <2>8 DEF Counters
<1>7. ASSUME NEW s \in alive
      PROVE  /\ ses[s].bytes = Bytes(hist[s])
             /\ ses[s].floor + Len(hist[s]) = ses[s].seq
             /\ \A i \in DOMAIN hist[s] : hist[s][i].seq = ses[s].floor + i
  <2>1. ses[s].bytes = Bytes(hist[s])
    BY DEF Counters
  <2>2. DOMAIN hist[s] = 1 .. Len(hist[s])
    BY SMTT(30), <1>2
  <2>3. /\ ses[s].floor + Len(hist[s]) = ses[s].seq
        /\ \A i \in 1 .. Len(hist[s]) : hist[s][i].seq = ses[s].floor + i
    BY <1>2 DEF EngineInv, SesInv, Live, SesHist
  <2> QED BY <2>1, <2>2, <2>3
<1> QED BY <1>5, <1>6, <1>7 DEF BudgetExact, Counters

----------------------------------------------------------------------------
(* The laws, from the libraries, and the theorems.                         *)

INSTANCE SumsProofs
INSTANCE FiniteSetTheorems

LEMMA LawsHold == Laws
<1>1. LeastLaw
  BY Least DEF LeastLaw
<1>2. EmptyLaw
  BY SumEmpty DEF EmptyLaw
<1>3. SumLaw
  BY SumStep, SumZero, SumBounds DEF SumLaw, Summable, Numbers
<1>4. PairLaw
  BY SumSame, SumTail DEF PairLaw, Summable, Numbers
<1>5. ChangeLaw
  BY SumChange DEF ChangeLaw, Summable, Numbers
<1>6. MinusLaw
  BY SumMinus DEF MinusLaw, Summable, Numbers
<1>7. NoneLaw
  <2>1. \A n \in Nat : 1 \in Int /\ n \in Int
    BY SMT
  <2> QED BY <2>1, FS_EmptySet, FS_Interval DEF NoneLaw
<1>8. CountLaw
  BY FS_CardinalityType, FS_Subset, FS_AddElement DEF CountLaw
<1> QED BY <1>1, <1>2, <1>3, <1>4, <1>5, <1>6, <1>7, <1>8 DEF Laws

(* The limits and the byte accounting of serveConnection, emit, evict and  *)
(* Release, with what they need of the turns, in one inductive invariant.  *)
THEOREM BudgetInvariant == Spec => []BudgetInv
<1>1. Init => BudgetInv
  BY LawsHold, BudgetInit
<1>2. BudgetInv /\ [Next]_vars => BudgetInv'
  BY LawsHold, BudgetNext
<1> QED BY <1>1, <1>2, PTL DEF Spec

(* The byte counters of the sessions and of the engine are exactly what    *)
(* the histories retain, through evictions from any session and releases   *)
(* by a close, by the end of a turn and by the end of the connection; no   *)
(* queue, history, replay cache or session table outgrows its limit; and   *)
(* when serveConnection has returned nothing is retained.                  *)
THEOREM BudgetExactCorrect == Spec => []BudgetExact
<1>1. BudgetInv => BudgetExact
  BY LawsHold, BudgetEnough
<1> QED BY <1>1, BudgetInvariant, PTL
=============================================================================
