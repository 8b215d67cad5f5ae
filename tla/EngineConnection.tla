-------------------------- MODULE EngineConnection --------------------------
(***************************************************************************)
(* One connection of an engine process: serveConnection (server.go) with   *)
(* its reader, prompt goroutines, writer and bounded outbound queue, and   *)
(* the Engine it owns (protocol.go, limits.go) with its sessions, turns,   *)
(* retained event history, suspension and replay.                          *)
(*                                                                         *)
(* Engine.mu is held over several steps when a handler emits more than one *)
(* event, because the writer drains the queue meanwhile: Unlocked says     *)
(* that nobody is inside such a handler.  cur is the event that is being   *)
(* emitted, between its append to the history and its delivery.            *)
(***************************************************************************)
EXTENDS Integers, FiniteSets, Sequences, Sums

CONSTANTS Workers,      \* prompt goroutines (maxPendingPrompts slots)
          Requests,     \* non-empty request ids
          NoRequest,    \* the empty request id
          NoEvent,      \* no event is being emitted
          Sizes,        \* sizes of a chunk event; every other frame has size 1
          MaxSessions,  \* maxSessions
          MaxReplay,    \* maxReplayRequests
          MaxEvents,    \* maxHistoryEvents
          MaxBytes,     \* maxHistoryBytes
          MaxTotal,     \* maxEngineHistoryBytes
          QueueCap,     \* outboundQueueSize
          QueueBytes,   \* maxOutboundBytes
          MaxIssued,    \* bound: sessions ever created
          MaxTurns,     \* bound: turns of a session
          MaxCalls      \* bound: requests the peer sends

Ids     == 1 .. MaxIssued
Kinds   == {"started", "chunk", "usage", "done", "failed"}
Event   == [seq : Nat, turn : Nat, kind : Kinds, size : Nat]

ASSUME EngineAssumption ==
    /\ NoRequest \notin Requests
    /\ NoEvent \notin [s : Ids, event : Event]
    /\ Sizes \subseteq Nat \ {0}
    /\ \A n \in {MaxSessions, MaxReplay, MaxEvents, MaxBytes, MaxTotal,
                 QueueCap, QueueBytes, MaxIssued, MaxTurns, MaxCalls} : n \in Nat

VARIABLES
    open,         \* the connection's context is not cancelled
    reader,       \* the read loop: what it is doing
    flushing,     \* the session that session/resume is replaying
    initialized,  \* the handshake is done
    calls,        \* requests read so far
    queue,        \* sizes of the frames in outgoing
    writing,      \* size of the frame the writer is writing, 0 if none
    shut,         \* Engine.closed
    issued,       \* Engine.nextSession
    alive,        \* DOMAIN Engine.sessions
    ses,          \* the engineSession of each id
    hist,         \* Engine.events
    total,        \* Engine.historyBytes
    cur,          \* the event being emitted, with its session
    work,         \* the prompt goroutines
    sent,         \* history: events accepted by the transport
    runs,         \* history: provider calls as <<session, request>>, in order
    aborted       \* history: turns an abort or close found running

vars == <<open, reader, flushing, initialized, calls, queue, writing,
          shut, issued, alive, ses, hist, total, cur, work, sent, runs, aborted>>

connVars == <<open, queue, writing>>
histVars == <<hist, total, cur>>

\* refused records that the transport, not the peer, suspended the session.
Session == [turn : Nat, seq : Nat, delivered : Nat, floor : Nat, bytes : Nat,
            suspended : BOOLEAN, refused : BOOLEAN, running : BOOLEAN,
            closed : BOOLEAN, cancelled : BOOLEAN, replay : SUBSET Requests]
Fresh   == [turn |-> 0, seq |-> 0, delivered |-> 0, floor |-> 0, bytes |-> 0,
            suspended |-> FALSE, refused |-> FALSE, running |-> FALSE,
            closed |-> FALSE, cancelled |-> FALSE, replay |-> {}]
Idle    == [pc |-> "idle", s |-> 0, request |-> NoRequest, todo |-> << >>]

Init ==
    /\ open = TRUE
    /\ reader = "read" /\ flushing = 0 /\ initialized = FALSE /\ calls = 0
    /\ queue = << >> /\ writing = 0
    /\ shut = FALSE /\ issued = 0 /\ alive = {}
    /\ ses = [s \in Ids |-> Fresh]
    /\ hist = [s \in Ids |-> << >>]
    /\ total = 0 /\ cur = NoEvent
    /\ work = [w \in Workers |-> Idle]
    /\ sent = [s \in Ids |-> << >>]
    /\ runs = << >> /\ aborted = {}

----------------------------------------------------------------------------
\* Nobody is inside a handler that holds Engine.mu over several steps.
Unlocked ==
    /\ reader # "flush"
    /\ \A w \in Workers : work[w].pc \notin {"starting", "finishing"}

QueuedBytes == SumUpTo(queue, Len(queue))

\* enqueue accepts a frame.  The frame being written holds no place in the
\* channel, but its bytes count until it is written.
Fits(size) ==
    open /\ Len(queue) < QueueCap /\ QueuedBytes + writing + size <= QueueBytes

\* send: a response that does not fit ends the connection.
Send ==
    \/ Fits(1) /\ queue' = Append(queue, 1) /\ UNCHANGED <<open, writing>>
    \/ ~Fits(1) /\ open' = FALSE /\ UNCHANGED <<queue, writing>>

----------------------------------------------------------------------------
\* emit, first part: number the event, retain it and account for it.
Emit(s, kind, size) ==
    LET e == [seq |-> ses[s].seq + 1, turn |-> ses[s].turn, kind |-> kind, size |-> size]
    IN  /\ cur' = [s |-> s, event |-> e]
        /\ hist' = [hist EXCEPT ![s] = Append(@, e)]
        /\ total' = total + size

OverOwn(s) ==
    Len(hist[s]) > 0 /\ (Len(hist[s]) > MaxEvents \/ ses[s].bytes > MaxBytes)

Largest ==
    LET holders == {s \in alive : hist[s] # << >>}
    IN  {s \in holders : \A t \in holders : ses[t].bytes <= ses[s].bytes}

MutantEvictOldest(s) ==
    /\ hist' = [hist EXCEPT ![s] = Tail(@)]
    /\ total' = total - Head(hist[s]).size
    /\ ses' = [ses EXCEPT ![s].bytes = @ - Head(hist[s]).size]

\* evictOldest.
EvictOldest(s) ==
    /\ hist' = [hist EXCEPT ![s] = Tail(@)]
    /\ total' = total - Head(hist[s]).size
    /\ ses' = [ses EXCEPT ![s].bytes = @ - Head(hist[s]).size, ![s].floor = @ + 1]

Overdue == OverOwn(cur.s) \/ (total > MaxTotal /\ Largest # {})

\* emit, the eviction loops: first the session's own limits, then the engine's.
Evict ==
    /\ cur # NoEvent
    /\ \/ OverOwn(cur.s) /\ EvictOldest(cur.s)
       \/ /\ ~OverOwn(cur.s) /\ total > MaxTotal
          /\ \E s \in Largest : EvictOldest(s)
    /\ UNCHANGED <<connVars, reader, flushing, initialized, calls, shut, issued,
                   alive, cur, work, sent, runs, aborted>>

MutantDeliver(s, e) ==
    \/ /\ ~ses[s].suspended /\ Fits(e.size)
       /\ queue' = Append(queue, e.size)
       /\ sent' = [sent EXCEPT ![s] = Append(@, e)]
       /\ ses' = [ses EXCEPT ![s].delivered = e.seq]
    \/ /\ ses[s].suspended \/ ~Fits(e.size)
       /\ UNCHANGED <<queue, sent, ses>>

\* emit, last part: offer the event to the transport.
Deliver(s, e) ==
    \/ /\ ~ses[s].suspended /\ Fits(e.size)
       /\ queue' = Append(queue, e.size)
       /\ sent' = [sent EXCEPT ![s] = Append(@, e)]
       /\ ses' = [ses EXCEPT ![s].delivered = e.seq]
    \/ /\ ~ses[s].suspended /\ ~Fits(e.size)
       /\ ses' = [ses EXCEPT ![s].suspended = TRUE, ![s].refused = TRUE]
       /\ UNCHANGED <<queue, sent>>
    \/ /\ ses[s].suspended
       /\ UNCHANGED <<queue, sent, ses>>

EmitDeliver ==
    /\ cur # NoEvent /\ ~Overdue
    /\ Deliver(cur.s, cur.event)
    /\ cur' = NoEvent
    /\ UNCHANGED <<open, writing, reader, flushing, initialized, calls, shut,
                   issued, alive, hist, total, work, runs, aborted>>

\* releaseSession, as a relation between the sets and counters it changes.
Release(gone) ==
    /\ alive' = alive \ gone
    /\ hist' = [s \in Ids |-> IF s \in gone THEN << >> ELSE hist[s]]
    /\ total' = total - SumUpTo([s \in Ids |-> IF s \in gone THEN ses[s].bytes ELSE 0], MaxIssued)

----------------------------------------------------------------------------
\* The read loop takes the next request off the wire.
Reads ==
    /\ reader = "read" /\ initialized
    /\ calls < MaxCalls /\ calls' = calls + 1

\* A request without an id is a notification and gets no response.
Answered == reader' \in {"reply", "read"}

Initialize ==
    /\ reader = "read" /\ ~initialized
    /\ initialized' = TRUE /\ reader' = "reply"
    /\ UNCHANGED <<connVars, flushing, calls, shut, issued, alive, ses, histVars,
                   work, sent, runs, aborted>>

\* Malformed frames, health, unknown methods, too early and refused requests.
Trivial ==
    /\ reader = "read" /\ calls < MaxCalls /\ calls' = calls + 1
    /\ reader' = "reply"
    /\ UNCHANGED <<connVars, flushing, initialized, shut, issued, alive, ses, histVars,
                   work, sent, runs, aborted>>

SessionNew ==
    /\ Reads /\ Unlocked
    /\ ~shut /\ Cardinality(alive) < MaxSessions /\ issued < MaxIssued
    /\ issued' = issued + 1
    /\ alive' = alive \union {issued + 1}
    /\ ses' = [ses EXCEPT ![issued + 1] = Fresh]
    /\ Answered
    /\ UNCHANGED <<connVars, flushing, initialized, shut, histVars, work, sent, runs,
                   aborted>>

SessionSuspend(s) ==
    /\ Reads /\ Unlocked /\ s \in alive
    /\ ses' = [ses EXCEPT ![s].suspended = TRUE]
    /\ Answered
    /\ UNCHANGED <<connVars, flushing, initialized, shut, issued, alive, histVars, work,
                   sent, runs, aborted>>

\* flushSession: the events after the last delivered one are no longer retained.
Expired(s) == ses[s].delivered < ses[s].floor

\* session/resume with nothing to replay, or with events that are gone.
SessionResume(s) ==
    /\ Reads /\ Unlocked /\ s \in alive
    /\ \/ /\ ses[s].delivered = ses[s].seq
          /\ ses' = [ses EXCEPT ![s].suspended = FALSE, ![s].refused = FALSE]
          /\ Answered /\ UNCHANGED flushing
       \/ /\ ses[s].delivered # ses[s].seq /\ Expired(s)
          /\ ses' = [ses EXCEPT ![s].suspended = TRUE]
          /\ Answered /\ UNCHANGED flushing
       \/ /\ ses[s].delivered # ses[s].seq /\ ~Expired(s)
          /\ ses' = [ses EXCEPT ![s].suspended = FALSE]
          /\ flushing' = s /\ reader' = "flush"
    /\ UNCHANGED <<connVars, initialized, shut, issued, alive, histVars, work, sent,
                   runs, aborted>>

\* flushSession: replay the next retained event, or stop.
FlushNext ==
    LET s == flushing
        later == {i \in DOMAIN hist[s] : hist[s][i].seq > ses[s].delivered}
        e == hist[s][CHOOSE i \in later : \A j \in later : i <= j]
    IN  /\ reader = "flush"
        /\ \/ /\ later = {}
              /\ ses' = [ses EXCEPT ![s].refused = FALSE]
              /\ reader' \in {"reply", "read"} /\ flushing' = 0
              /\ UNCHANGED <<queue, sent>>
           \/ /\ later # {} /\ Fits(e.size)
              /\ queue' = Append(queue, e.size)
              /\ sent' = [sent EXCEPT ![s] = Append(@, e)]
              /\ ses' = [ses EXCEPT ![s].delivered = e.seq]
              /\ UNCHANGED <<reader, flushing>>
           \/ /\ later # {} /\ ~Fits(e.size)
              /\ ses' = [ses EXCEPT ![s].suspended = TRUE, ![s].refused = TRUE]
              /\ reader' \in {"reply", "read"} /\ flushing' = 0
              /\ UNCHANGED <<queue, sent>>
    /\ UNCHANGED <<open, writing, initialized, calls, shut, issued, alive,
                   histVars, work, runs, aborted>>

Interrupted(S) == {<<s, ses[s].turn>> : s \in {t \in S : ses[t].running}}

SessionAbort(s) ==
    /\ Reads /\ Unlocked /\ s \in alive
    /\ ses' = [ses EXCEPT ![s].cancelled = ses[s].running]
    /\ aborted' = aborted \union Interrupted({s})
    /\ Answered
    /\ UNCHANGED <<connVars, flushing, initialized, shut, issued, alive, histVars, work,
                   sent, runs>>

SessionClose(s) ==
    /\ Reads /\ Unlocked /\ s \in alive
    /\ ses' = [ses EXCEPT ![s].closed = TRUE, ![s].cancelled = ses[s].running]
    /\ aborted' = aborted \union Interrupted({s})
    /\ Release({t \in {s} : ~ses[t].running})
    /\ Answered
    /\ UNCHANGED <<connVars, flushing, initialized, shut, issued, cur, work, sent, runs>>

----------------------------------------------------------------------------
\* session/prompt: what makes the engine answer without running a turn.
Replayed(s, r) == r \in ses[s].replay

MayStart(s, r) ==
    /\ s \in alive /\ ~Replayed(s, r)
    /\ ~ses[s].closed /\ ~ses[s].suspended
    /\ ~ses[s].running
    /\ r # NoRequest => Cardinality(ses[s].replay) < MaxReplay

\* The prompt is answered from the replay cache or refused; w sends the answer.
PromptAnswered(w, s, r) ==
    /\ Reads /\ Unlocked
    /\ work[w].pc = "idle" /\ ~MayStart(s, r)
    /\ work' = [work EXCEPT ![w] = [Idle EXCEPT !.pc = "reply"]]
    /\ UNCHANGED <<connVars, reader, flushing, initialized, shut, issued, alive, ses,
                   histVars, sent, runs, aborted>>

\* The turn starts.  The reader waits until it is cancellable.
PromptStarts(w, s, r) ==
    /\ Reads /\ Unlocked
    /\ work[w].pc = "idle" /\ MayStart(s, r)
    /\ ses[s].turn < MaxTurns
    /\ reader' = "await"
    /\ cur' = [s |-> s, event |-> [seq |-> ses[s].seq + 1, turn |-> ses[s].turn + 1,
                                   kind |-> "started", size |-> 1]]
    /\ hist' = [hist EXCEPT ![s] = Append(@, cur'.event)]
    /\ total' = total + 1
    /\ ses' = [ses EXCEPT ![s].running = TRUE, ![s].cancelled = FALSE,
                          ![s].turn = @ + 1, ![s].seq = @ + 1, ![s].bytes = @ + 1]
    /\ work' = [work EXCEPT ![w] = [pc |-> "starting", s |-> s, request |-> r, todo |-> << >>]]
    /\ runs' = Append(runs, <<s, r>>)
    /\ UNCHANGED <<connVars, flushing, initialized, shut, issued, alive, sent, aborted>>

\* Engine.mu is released and the provider called; ready lets the reader go on.
CallProvider(w) ==
    /\ work[w].pc = "starting" /\ cur = NoEvent
    /\ work' = [work EXCEPT ![w].pc = "provider"]
    /\ reader' = IF reader = "await" THEN "read" ELSE reader
    /\ UNCHANGED <<connVars, flushing, initialized, calls, shut, issued, alive, ses,
                   histVars, sent, runs, aborted>>

MutantReasons(s) == {"completed", "failed", "cancelled"}

\* How a turn may end once the provider has returned.
Reasons(s) ==
    IF ses[s].cancelled THEN {"cancelled"} ELSE {"completed", "failed", "cancelled"}

MutantLastEvents(reason, usage) ==
    (IF reason = "completed" THEN <<"chunk">> ELSE << >>) \o
    (IF reason = "failed" THEN <<"failed">> ELSE <<"done">>) \o
    (IF usage THEN <<"usage">> ELSE << >>)

\* The events that end a turn.
LastEvents(reason, usage) ==
    LET last == IF reason = "failed" THEN "failed" ELSE "done" IN
    IF reason = "completed"
    THEN IF usage THEN <<"chunk", "usage", last>> ELSE <<"chunk", last>>
    ELSE IF usage THEN <<"usage", last>> ELSE <<last>>

\* The provider returns and Engine.mu is taken again.
ProviderReturns(w) ==
    /\ work[w].pc = "provider" /\ Unlocked
    /\ \E reason \in Reasons(work[w].s), usage \in BOOLEAN :
        work' = [work EXCEPT ![w].pc = "finishing", ![w].todo = LastEvents(reason, usage)]
    /\ UNCHANGED <<connVars, reader, flushing, initialized, calls, shut, issued, alive,
                   ses, histVars, sent, runs, aborted>>

FinishEmits(w) ==
    LET s == work[w].s  kind == Head(work[w].todo) IN
    /\ work[w].pc = "finishing" /\ work[w].todo # << >> /\ cur = NoEvent
    /\ \E size \in IF kind = "chunk" THEN Sizes ELSE {1} :
        /\ Emit(s, kind, size)
        /\ ses' = [ses EXCEPT ![s].seq = @ + 1, ![s].bytes = @ + size]
    /\ work' = [work EXCEPT ![w].todo = Tail(@)]
    /\ UNCHANGED <<connVars, reader, flushing, initialized, calls, shut, issued, alive,
                   sent, runs, aborted>>

MutantRemembered(s, r) ==
    IF ses[s].cancelled THEN ses[s].replay ELSE ses[s].replay \union ({r} \ {NoRequest})

\* remember.
Remembered(s, r) == ses[s].replay \union ({r} \ {NoRequest})

\* The result is remembered, the turn is over and a closed session is released.
TurnEnds(w) ==
    LET s == work[w].s  r == work[w].request IN
    /\ work[w].pc = "finishing" /\ work[w].todo = << >> /\ cur = NoEvent
    /\ ses' = [ses EXCEPT ![s].running = FALSE, ![s].cancelled = FALSE,
                          ![s].replay = Remembered(s, r)]
    /\ Release({t \in {s} : ses[t].closed})
    /\ work' = [work EXCEPT ![w] = [Idle EXCEPT !.pc = "reply"]]
    /\ UNCHANGED <<connVars, reader, flushing, initialized, calls, shut, issued, cur,
                   sent, runs, aborted>>

----------------------------------------------------------------------------
WorkerReplies(w) ==
    /\ work[w].pc = "reply"
    /\ work' = [work EXCEPT ![w] = Idle]
    /\ Send \/ UNCHANGED connVars
    /\ UNCHANGED <<reader, flushing, initialized, calls, shut, issued, alive, ses,
                   histVars, sent, runs, aborted>>

ReaderReplies ==
    /\ reader = "reply" /\ reader' = "read"
    /\ Send
    /\ UNCHANGED <<flushing, initialized, calls, shut, issued, alive, ses, histVars,
                   work, sent, runs, aborted>>

\* The writer goroutine takes a frame, and has written it or failed to within
\* writeTimeout.
WriterTakes ==
    /\ open /\ writing = 0 /\ queue # << >>
    /\ writing' = Head(queue) /\ queue' = Tail(queue)
    /\ UNCHANGED <<open, reader, flushing, initialized, calls, shut, issued,
                   alive, ses, histVars, work, sent, runs, aborted>>

WriterWrites ==
    /\ writing # 0 /\ writing' = 0
    /\ open' \in {open, FALSE}
    /\ UNCHANGED <<queue, reader, flushing, initialized, calls, shut, issued,
                   alive, ses, histVars, work, sent, runs, aborted>>

\* The server is stopped.
Cancelled ==
    /\ open /\ open' = FALSE
    /\ UNCHANGED <<queue, writing, reader, flushing, initialized, calls, shut,
                   issued, alive, ses, histVars, work, sent, runs, aborted>>

MutantCloseQuietly ==
    /\ shut' = TRUE
    /\ ses' = [s \in Ids |-> IF s \in alive THEN [ses[s] EXCEPT !.closed = TRUE] ELSE ses[s]]
    /\ aborted' = aborted \union Interrupted(alive)
    /\ Release({s \in alive : ~ses[s].running})

\* Engine.Close.
EngineClose ==
    /\ shut' = TRUE
    /\ ses' = [s \in Ids |-> IF s \in alive
                THEN [ses[s] EXCEPT !.closed = TRUE, !.cancelled = ses[s].running] ELSE ses[s]]
    /\ aborted' = aborted \union Interrupted(alive)
    /\ Release({s \in alive : ~ses[s].running})

\* The read loop ends, at the end of the stream or because the context is
\* cancelled, and the deferred function cancels and closes the engine.  A
\* reader that gives up while it awaits a turn meets Engine.mu in Close, so
\* it gets no further than one that saw the turn start.
ReaderLeaves ==
    /\ reader = "read" /\ Unlocked
    /\ open' = FALSE
    /\ reader' = "closing"
    /\ EngineClose
    /\ UNCHANGED <<queue, writing, flushing, initialized, calls, issued, cur,
                   work, sent, runs>>

\* prompts.Wait and <-writerDone.
ConnectionEnds ==
    /\ reader = "closing" /\ writing = 0 /\ \A w \in Workers : work[w].pc = "idle"
    /\ reader' = "done"
    /\ UNCHANGED <<connVars, flushing, initialized, calls, shut, issued, alive, ses,
                   histVars, work, sent, runs, aborted>>

WorkerSteps(w) ==
    CallProvider(w) \/ ProviderReturns(w) \/ FinishEmits(w) \/ TurnEnds(w) \/ WorkerReplies(w)

Next ==
    \/ Initialize \/ Trivial \/ SessionNew
    \/ \E s \in Ids :
        \/ SessionSuspend(s) \/ SessionResume(s) \/ SessionAbort(s) \/ SessionClose(s)
        \/ \E w \in Workers, r \in Requests \union {NoRequest} :
            PromptAnswered(w, s, r) \/ PromptStarts(w, s, r)
    \/ FlushNext \/ Evict \/ EmitDeliver
    \/ \E w \in Workers : WorkerSteps(w)
    \/ ReaderReplies \/ WriterTakes \/ WriterWrites \/ Cancelled \/ ReaderLeaves \/ ConnectionEnds

Spec == Init /\ [][Next]_vars

(* Goroutines that can run do run; providers honor cancellation (server.go *)
(* requires it), so a cancelled call returns; and the requests left in the *)
(* reader's buffer are finitely many, so the read loop gets to see that    *)
(* its connection is closed.                                               *)
FairSpec ==
    /\ Spec
    /\ WF_vars(FlushNext) /\ WF_vars(Evict) /\ WF_vars(EmitDeliver)
    /\ WF_vars(ReaderReplies) /\ WF_vars(WriterWrites) /\ WF_vars(ConnectionEnds)
    /\ SF_vars(~open /\ ReaderLeaves)
    /\ \A w \in Workers :
        /\ WF_vars(CallProvider(w)) /\ WF_vars(FinishEmits(w))
        /\ WF_vars(TurnEnds(w)) /\ WF_vars(WorkerReplies(w))
        /\ SF_vars(ProviderReturns(w) /\ ses[work[w].s].cancelled)

----------------------------------------------------------------------------
(* Every variable keeps its shape; live sessions are issued ones, and the  *)
(* replay cache and the retained history stay within their limits whenever *)
(* no event is being emitted.                                              *)
TypeOK ==
    /\ open \in BOOLEAN /\ initialized \in BOOLEAN
    /\ reader \in {"read", "reply", "await", "flush", "closing", "done"}
    /\ flushing \in Ids \union {0} /\ calls \in 0 .. MaxCalls
    /\ Len(queue) <= QueueCap
    /\ issued \in 0 .. MaxIssued /\ alive \subseteq 1 .. issued
    /\ Cardinality(alive) <= MaxSessions
    /\ ses \in [Ids -> Session]
    /\ \A s \in Ids : Cardinality(ses[s].replay) <= MaxReplay
    /\ cur = NoEvent => /\ total <= MaxTotal
                        /\ \A s \in Ids : Len(hist[s]) <= MaxEvents

(* What the peer of a session receives is a gap-free prefix of the         *)
(* session's events, in order and without repetition, however delivery is  *)
(* refused, suspended, replayed or refused again (emit, flushSession).     *)
GapFree ==
    \A s \in Ids : \A i \in DOMAIN sent[s] : sent[s][i].seq = i

\* The bytes of a sequence of events, and of all that are retained.
Bytes(h) == SumUpTo([i \in DOMAIN h |-> h[i].size], Len(h))
Retained == SumUpTo([s \in Ids |-> Bytes(hist[s])], MaxIssued)

(* The retained history is exactly the tail after historyFloor, and the    *)
(* byte counters of the sessions and of the engine are what is retained:   *)
(* evictions, which take from any session, and releases keep them exact,   *)
(* and nothing is left of either when serveConnection has returned.        *)
BudgetExact ==
    /\ TypeOK
    /\ total = Retained
    /\ reader = "done" => alive = {} /\ total = 0
    /\ \A s \in alive :
        /\ ses[s].bytes = Bytes(hist[s])
        /\ ses[s].floor + Len(hist[s]) = ses[s].seq
        /\ \A i \in DOMAIN hist[s] : hist[s][i].seq = ses[s].floor + i

Rank == [k \in Kinds |-> IF k = "started" THEN 1 ELSE IF k = "chunk" THEN 2
                         ELSE IF k = "usage" THEN 3 ELSE 4]

\* Event e may come right after event p.
Follows(p, e) ==
    \/ p.turn = e.turn /\ Rank[p.kind] < Rank[e.kind]
    \/ p.turn + 1 = e.turn /\ Rank[p.kind] = 4 /\ e.kind = "started"

(* The events of a turn are started, at most one chunk, at most one usage  *)
(* and one terminal event, in that order, and turns do not overlap         *)
(* (engine-protocol.md, "Event ordering").                                 *)
TurnGrammar ==
    \A s \in Ids : \A i \in DOMAIN sent[s] :
        IF i = 1 THEN sent[s][i].kind = "started" /\ sent[s][i].turn = 1
        ELSE Follows(sent[s][i - 1], sent[s][i])

(* A request id runs the provider at most once in a session, whether it is *)
(* repeated while the turn runs, after it or after a cancellation.         *)
RunOnce ==
    \A i, j \in DOMAIN runs :
        runs[i] = runs[j] /\ runs[i][2] # NoRequest => i = j

(* A turn that an abort or a close found running delivers no text: the     *)
(* answer of a provider that ignored or outran the cancellation is dropped.*)
AbortedSilent ==
    \A s \in Ids : \A i \in DOMAIN hist[s] :
        hist[s][i].kind = "chunk" => <<s, hist[s][i].turn>> \notin aborted

(* A cancelled connection is torn down: every prompt goroutine ends and    *)
(* serveConnection returns.                                                *)
TeardownCompletes == ~open ~> reader = "done"
=============================================================================
