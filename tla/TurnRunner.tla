----------------------------- MODULE TurnRunner -----------------------------
(***************************************************************************)
(* The turn engine of the supervisor (runtime/runner.go, with the mailbox  *)
(* and lifecycle operations of runtime/supervisor.go it races with).       *)
(*                                                                         *)
(* Run claims one pending message per tick, waits for a worker slot and    *)
(* hands the message to a goroutine; executeTurn calls the provider        *)
(* outside the supervisor lock and commits the answer with finishTurn.     *)
(* finishTurn writes two databases that do not commit together: the        *)
(* supervisor blob (persistLocked) and the context store.                  *)
(*                                                                         *)
(* Every handler runs under Supervisor.mu and either persists or restores  *)
(* the committed blob, so memory and disk agree whenever the lock is free  *)
(* and a handler is one action.  finishTurn is the exception: it is split  *)
(* at its durable writes, with the lock held in between (Unlocked).        *)
(***************************************************************************)
EXTENDS Integers, Sequences, FiniteSets, Sums

CONSTANTS
    App,         \* application ids that may be created
    Msg,         \* message sequence numbers, minted in increasing order
    Slot,        \* worker slots (turnConcurrency)
    Text,        \* non-empty turn outputs the provider may produce
    Usage,       \* token costs a provider may report
    Limit,       \* non-zero token limits an operator may set
    Wakes,       \* wake policies in use, of {"on_event", "manual"}
    Taints,      \* whether payloads declare taint, a subset of BOOLEAN
    Commands,    \* control calls in use, of {"state", "retire", "mailbox"}
    NoText,      \* the empty output of a failed or retired turn
    NoApp,       \* owner of a message that was never enqueued
    MaxTokens,   \* the largest uint64: where saturatingAdd stops
    MinBand,     \* the floor of maxThrottleBand (64 tokens in the code)
    MailboxCap,  \* mailboxMaxMessages: open messages per application
    MaxMishaps   \* bound on crashes, stop signals, failed writes, busy answers

ASSUME MsgAssumption == Msg \subseteq Nat \ {0}
ASSUME InputAssumption ==
    Wakes \subseteq {"on_event", "manual"} /\ Taints \subseteq BOOLEAN
ASSUME TextAssumption == NoText \notin Text
ASSUME AppAssumption == NoApp \notin App
ASSUME TokenAssumption ==
    /\ MaxTokens \in Nat /\ MinBand \in Nat /\ MailboxCap \in Nat /\ MaxMishaps \in Nat
    /\ Usage \subseteq 0..MaxTokens
    /\ Limit \subseteq 1..MaxTokens

VARIABLES
    \* the supervisor blob: Applications
    appState, wake, used, limit, tainted,
    \* the supervisor blob: Mailbox, Prepared, Results
    status, owner, carries, prepared, results,
    \* the context store: committed entries and its idempotency table
    journal, appended, checkpoints,
    \* memory of the process: inflight, lastClaim, the Run loop, the workers
    inflight, recent, run, runMsg, stopping, failure, pc, held, answer, failed,
    \* history: messages a control client holds, and mishaps so far
    clientHeld, mishaps

appVars  == <<appState, wake, used, limit, tainted>>
mailVars == <<status, owner, carries>>
turnVars == <<prepared, results>>
ctxVars  == <<journal, appended, checkpoints>>
loopVars == <<run, runMsg, stopping, failure>>
workVars == <<pc, held, answer, failed>>
histVars == <<clientHeld>>
vars == <<appVars, mailVars, turnVars, ctxVars, inflight, recent, loopVars,
          workVars, histVars, mishaps>>

-----------------------------------------------------------------------------
NoMsg == 0

NoTurn == [status |-> "none", text |-> NoText, usage |-> 0]

\* What finishTurn freezes in Prepared: the provider's output, or a failure,
\* whose text is always empty.
Turn == [status : {"completed"}, text : Text, usage : Usage]
          \cup [status : {"failed"}, text : {NoText}, usage : Usage \cup {0}]

NoResult == [status |-> "none", text |-> NoText, usage |-> 0, checkpoint |-> 0]

Result == [status : {"completed", "failed", "budget_exhausted", "retired"},
           text : Text \cup {NoText}, usage : Usage \cup {0}, checkpoint : Nat]

\* One entry of the context store: the message's ":result" append.
Entry == [msg : Msg, text : Text \cup {NoText}]

NotAppended == [done |-> FALSE, text |-> NoText]
AppendRow == [done : BOOLEAN, text : Text \cup {NoText}]

PCs == {"idle", "start", "call", "finish", "append", "checkpoint", "commit",
        "requeue", "clear"}

TypeOK ==
    /\ appState \in [App -> {"none", "serving", "frozen", "tombstoned"}]
    /\ wake \in [App -> {"on_event", "manual"}]
    /\ used \in [App -> 0..MaxTokens]
    /\ limit \in [App -> 0..MaxTokens]
    /\ tainted \in [App -> BOOLEAN]
    /\ status \in [Msg -> {"none", "pending", "claimed", "acked", "expired"}]
    /\ owner \in [Msg -> App \cup {NoApp}]
    /\ carries \in [Msg -> BOOLEAN]
    /\ prepared \in [Msg -> Turn \cup {NoTurn}]
    /\ results \in [Msg -> Result \cup {NoResult}]
    /\ journal \in Seq(Entry)
    /\ appended \in [Msg -> AppendRow]
    /\ checkpoints \in [Msg -> Nat]
    /\ inflight \in SUBSET App
    /\ recent \in SUBSET App
    /\ run \in {"down", "tick", "slot", "stopped"}
    /\ runMsg \in Msg \cup {NoMsg}
    /\ stopping \in BOOLEAN
    /\ failure \in BOOLEAN
    /\ pc \in [Slot -> PCs]
    /\ held \in [Slot -> Msg \cup {NoMsg}]
    /\ answer \in [Slot -> Turn \cup {NoTurn}]
    /\ failed \in [Slot -> BOOLEAN]
    /\ clientHeld \in SUBSET Msg
    /\ mishaps \in 0..MaxMishaps

Init ==
    /\ appState = [a \in App |-> "none"]
    /\ wake = [a \in App |-> "on_event"]
    /\ used = [a \in App |-> 0]
    /\ limit = [a \in App |-> 0]
    /\ tainted = [a \in App |-> FALSE]
    /\ status = [m \in Msg |-> "none"]
    /\ owner = [m \in Msg |-> NoApp]
    /\ carries = [m \in Msg |-> FALSE]
    /\ prepared = [m \in Msg |-> NoTurn]
    /\ results = [m \in Msg |-> NoResult]
    /\ journal = <<>>
    /\ appended = [m \in Msg |-> NotAppended]
    /\ checkpoints = [m \in Msg |-> 0]
    /\ inflight = {}
    /\ recent = {}
    /\ run = "tick"
    /\ runMsg = NoMsg
    /\ stopping = FALSE
    /\ failure = FALSE
    /\ pc = [w \in Slot |-> "idle"]
    /\ held = [w \in Slot |-> NoMsg]
    /\ answer = [w \in Slot |-> NoTurn]
    /\ failed = [w \in Slot |-> FALSE]
    /\ clientHeld = {}
    /\ mishaps = 0

-----------------------------------------------------------------------------
(* Guards and helpers *)

Up == run # "down"

\* Supervisor.mu is free: no worker is inside the locked part of finishTurn.
Unlocked == \A w \in Slot : pc[w] \notin {"append", "checkpoint", "commit"}

\* A crash, stop signal, failed write or busy answer; finitely many happen.
Mishap ==
    /\ mishaps < MaxMishaps
    /\ mishaps' = mishaps + 1

\* Mutant: the addition runs past the largest count.
MutantUnboundedAdd(x, y) == x + y

saturatingAdd(x, y) == IF x + y > MaxTokens THEN MaxTokens ELSE x + y

maxThrottleBand(x) == IF x \div 4 < MinBand THEN MinBand ELSE x \div 4

Open == {"pending", "claimed"}

\* Mutant: messages somebody already holds count as pending.
MutantPendingOrClaimed(a) == {m \in Msg : owner[m] = a /\ status[m] \in Open}

Pending(a) == {m \in Msg : owner[m] = a /\ status[m] = "pending"}

MailboxCount(a) == Cardinality({m \in Msg : owner[m] = a /\ status[m] \in Open})

Exhausted(u, l) == l > 0 /\ u >= l

\* The pressure band below the hard limit, where a claim within
\* throttleClaimInterval of the previous one (recent) is put off.
Throttled(a) ==
    /\ limit[a] > 0
    /\ used[a] < limit[a]
    /\ used[a] >= limit[a] - (limit[a] \div 5)
    /\ a \in recent

Eligible(a) ==
    /\ appState[a] = "serving"
    /\ wake[a] # "manual"
    /\ a \notin inflight
    /\ ~Throttled(a)

Candidate(a) == Eligible(a) /\ Pending(a) # {}

\* The least charged candidate, or one that prefix affinity prefers within
\* the band above the least charged eligible application.  Which prompts
\* share a prefix is left open.
Chosen(a) ==
    /\ Candidate(a)
    /\ \/ \A b \in App : Candidate(b) => used[a] <= used[b]
       \/ \E b \in App : /\ Eligible(b)
                         /\ \A c \in App : Eligible(c) => used[b] <= used[c]
                         /\ used[a] <= saturatingAdd(used[b], maxThrottleBand(used[b]))

-----------------------------------------------------------------------------
(* Control-plane operations.  A refused or failed one changes nothing. *)

CreateApplication(a, p) ==
    /\ Up /\ Unlocked
    /\ appState[a] = "none"
    /\ appState' = [appState EXCEPT ![a] = "serving"]
    /\ wake' = [wake EXCEPT ![a] = p]
    /\ UNCHANGED <<used, limit, tainted, mailVars, turnVars, ctxVars, inflight,
                   recent, loopVars, workVars, histVars, mishaps>>

SetApplicationState(a, st) ==
    /\ Up /\ Unlocked
    /\ appState[a] \notin {"none", "tombstoned"}
    /\ st = "serving" => ~Exhausted(used[a], limit[a])
    /\ appState' = [appState EXCEPT ![a] = st]
    /\ UNCHANGED <<wake, used, limit, tainted, mailVars, turnVars, ctxVars, inflight,
                   recent, loopVars, workVars, histVars, mishaps>>

SetTokenLimit(a, l) ==
    /\ Up /\ Unlocked
    /\ appState[a] \notin {"none", "tombstoned"}
    /\ limit[a] # 0 => l # 0 /\ l <= limit[a]
    /\ limit' = [limit EXCEPT ![a] = l]
    /\ appState' = IF Exhausted(used[a], l)
                     THEN [appState EXCEPT ![a] = "frozen"] ELSE appState
    /\ UNCHANGED <<wake, used, tainted, mailVars, turnVars, ctxVars, inflight,
                   recent, loopVars, workVars, histVars, mishaps>>

\* retiring and tombstoned are one step; the application's open messages
\* expire with it.  inflight and Prepared are left as they are.
RetireApplication(a) ==
    /\ Up /\ Unlocked
    /\ appState[a] \notin {"none", "tombstoned"}
    /\ appState' = [appState EXCEPT ![a] = "tombstoned"]
    /\ status' = [m \in Msg |-> IF owner[m] = a /\ status[m] \in Open
                                  THEN "expired" ELSE status[m]]
    /\ recent' = recent \ {a}
    /\ UNCHANGED <<wake, used, limit, tainted, owner, carries, turnVars, ctxVars,
                   inflight, loopVars, workVars, histVars, mishaps>>

\* persistLocked fails: the blob is restored, lastClaim is not.
RetireFails(a) ==
    /\ Up /\ Unlocked
    /\ appState[a] \notin {"none", "tombstoned"}
    /\ recent' = recent \ {a}
    /\ Mishap
    /\ UNCHANGED <<appVars, mailVars, turnVars, ctxVars, inflight, loopVars,
                   workVars, histVars>>

\* Enqueue, and every delivery that goes through enqueueLocked, of a message
\* with a fresh key; t is whether its payload declares taint.
Enqueue(a, m, t) ==
    /\ Up /\ Unlocked
    /\ appState[a] \notin {"none", "tombstoned"}
    /\ MailboxCount(a) < MailboxCap
    /\ status[m] = "none"
    /\ \A n \in Msg : status[n] = "none" => m <= n
    /\ status' = [status EXCEPT ![m] = "pending"]
    /\ owner' = [owner EXCEPT ![m] = a]
    /\ carries' = [carries EXCEPT ![m] = t]
    /\ UNCHANGED <<appVars, turnVars, ctxVars, inflight, recent, loopVars,
                   workVars, histVars, mishaps>>

\* A control client claims everything pending, frozen and manual
\* applications included; no single-flight slot is taken.
ClaimMailbox(a) ==
    /\ Up /\ Unlocked
    /\ appState[a] \notin {"none", "tombstoned"}
    /\ Pending(a) # {}
    /\ status' = [m \in Msg |-> IF m \in Pending(a) THEN "claimed" ELSE status[m]]
    /\ tainted' = [tainted EXCEPT ![a] = @ \/ \E m \in Pending(a) : carries[m]]
    /\ clientHeld' = clientHeld \cup Pending(a)
    /\ UNCHANGED <<appState, wake, used, limit, owner, carries, turnVars, ctxVars,
                   inflight, recent, loopVars, workVars, mishaps>>

\* Any claimed message may be acknowledged, also one a worker is executing.
AckMailbox(m) ==
    /\ Up /\ Unlocked
    /\ status[m] = "claimed"
    /\ status' = [status EXCEPT ![m] = "acked"]
    /\ clientHeld' = clientHeld \ {m}
    /\ UNCHANGED <<appVars, owner, carries, turnVars, ctxVars, inflight, recent,
                   loopVars, workVars, mishaps>>

-----------------------------------------------------------------------------
(* The Run loop *)

\* Mutant: the claimed message's taint is not accumulated.
MutantClaimUntainted(a, m) ==
    /\ run = "tick" /\ Unlocked
    /\ Chosen(a)
    /\ m \in Pending(a) /\ \A n \in Pending(a) : m <= n
    /\ status' = [status EXCEPT ![m] = "claimed"]
    /\ inflight' = inflight \cup {a}
    /\ recent' = recent \cup {a}
    /\ run' = "slot"
    /\ runMsg' = m
    /\ UNCHANGED <<appVars, owner, carries, turnVars, ctxVars, stopping, failure,
                   workVars, histVars, mishaps>>

\* claimTurn: the chosen application's oldest pending message is claimed, its
\* taint joins the application, and the single-flight slot is taken.
ClaimTurn(a, m) ==
    /\ run = "tick" /\ Unlocked
    /\ Chosen(a)
    /\ m \in Pending(a) /\ \A n \in Pending(a) : m <= n
    /\ status' = [status EXCEPT ![m] = "claimed"]
    /\ tainted' = [tainted EXCEPT ![a] = @ \/ carries[m]]
    /\ inflight' = inflight \cup {a}
    /\ recent' = recent \cup {a}
    /\ run' = "slot"
    /\ runMsg' = m
    /\ UNCHANGED <<appState, wake, used, limit, owner, carries, turnVars, ctxVars,
                   stopping, failure, workVars, histVars, mishaps>>

\* A tick with nothing to claim.
RunIdle ==
    /\ run = "tick" /\ Unlocked
    /\ \A a \in App : ~Candidate(a)
    /\ UNCHANGED vars

\* A delivery or the claim cannot be persisted: Run returns the error.
RunFails ==
    /\ run = "tick" /\ Unlocked
    /\ run' = "stopped"
    /\ Mishap
    /\ UNCHANGED <<appVars, mailVars, turnVars, ctxVars, inflight, recent, runMsg,
                   stopping, failure, workVars, histVars>>

\* The select at the top of the loop sees ctx.Done or a worker's error.
RunReturns ==
    /\ run = "tick"
    /\ stopping \/ failure
    /\ run' = "stopped"
    /\ UNCHANGED <<appVars, mailVars, turnVars, ctxVars, inflight, recent, runMsg,
                   stopping, failure, workVars, histVars, mishaps>>

\* A slot is free: the claimed message goes to a worker goroutine.
Dispatch(w) ==
    /\ run = "slot"
    /\ pc[w] = "idle"
    /\ pc' = [pc EXCEPT ![w] = "start"]
    /\ held' = [held EXCEPT ![w] = runMsg]
    /\ run' = "tick"
    /\ runMsg' = NoMsg
    /\ UNCHANGED <<appVars, mailVars, turnVars, ctxVars, inflight, recent,
                   stopping, failure, answer, failed, histVars, mishaps>>

\* ctx is cancelled while Run waits for a slot: the claim goes back, the
\* single-flight slot stays taken, and Run returns.
AbandonSlot ==
    /\ run = "slot" /\ stopping /\ Unlocked
    /\ \/ /\ status' = [status EXCEPT ![runMsg] = IF @ = "claimed" THEN "pending" ELSE @]
          /\ UNCHANGED mishaps
       \/ /\ Mishap
          /\ UNCHANGED status
    /\ run' = "stopped"
    /\ runMsg' = NoMsg
    /\ UNCHANGED <<appVars, owner, carries, turnVars, ctxVars, inflight, recent,
                   stopping, failure, workVars, histVars>>

\* throttleClaimInterval passes since the application's last claim.
ThrottleElapses(a) ==
    /\ a \in recent
    /\ recent' = recent \ {a}
    /\ UNCHANGED <<appVars, mailVars, turnVars, ctxVars, inflight, loopVars,
                   workVars, histVars, mishaps>>

-----------------------------------------------------------------------------
(* executeTurn, one worker goroutine per slot *)

\* Where a turn goes once its answer is known: ctx.Err() is looked at before
\* finishTurn, and not again.
AfterAnswer == IF stopping THEN "requeue" ELSE "finish"

\* A turn whose answer is already frozen in Prepared skips the provider.
ResumePrepared(w) ==
    /\ pc[w] = "start" /\ Unlocked
    /\ prepared[held[w]] # NoTurn
    /\ pc' = [pc EXCEPT ![w] = AfterAnswer]
    /\ UNCHANGED <<appVars, mailVars, turnVars, ctxVars, inflight, recent, loopVars,
                   held, answer, failed, histVars, mishaps>>

\* The route policy, or a payload that does not parse, fails the turn before
\* any backend is contacted.
RouteDenied(w) ==
    /\ pc[w] = "start" /\ Unlocked
    /\ prepared[held[w]] = NoTurn
    /\ answer' = [answer EXCEPT ![w] = [status |-> "failed", text |-> NoText, usage |-> 0]]
    /\ pc' = [pc EXCEPT ![w] = AfterAnswer]
    /\ UNCHANGED <<appVars, mailVars, turnVars, ctxVars, inflight, recent, loopVars,
                   held, failed, histVars, mishaps>>

\* Mutant: the provider is asked without a look at Prepared.
MutantCallAnyway(w) ==
    /\ pc[w] = "start" /\ Unlocked
    /\ pc' = [pc EXCEPT ![w] = "call"]
    /\ UNCHANGED <<appVars, mailVars, turnVars, ctxVars, inflight, recent, loopVars,
                   held, answer, failed, histVars, mishaps>>

CallProvider(w) ==
    /\ pc[w] = "start" /\ Unlocked
    /\ prepared[held[w]] = NoTurn
    /\ pc' = [pc EXCEPT ![w] = "call"]
    /\ UNCHANGED <<appVars, mailVars, turnVars, ctxVars, inflight, recent, loopVars,
                   held, answer, failed, histVars, mishaps>>

\* The provider answers or fails (timeouts included); an output past
\* maxTextBytes counts as a failure that keeps its usage.
ProviderAnswers(w, t) ==
    /\ pc[w] = "call"
    /\ answer' = [answer EXCEPT ![w] = t]
    /\ pc' = [pc EXCEPT ![w] = AfterAnswer]
    /\ UNCHANGED <<appVars, mailVars, turnVars, ctxVars, inflight, recent, loopVars,
                   held, failed, histVars, mishaps>>

\* The answer carries the taint of a kernel inference session: foldTaint adds
\* it to the application, and ignores a failure to persist it.
ProviderAnswersTainted(w, t) ==
    /\ pc[w] = "call" /\ Unlocked
    /\ t.status = "completed"
    /\ answer' = [answer EXCEPT ![w] = t]
    /\ \/ /\ tainted' = [tainted EXCEPT ![owner[held[w]]] = TRUE]
          /\ UNCHANGED mishaps
       \/ /\ Mishap
          /\ UNCHANGED tainted
    /\ pc' = [pc EXCEPT ![w] = AfterAnswer]
    /\ UNCHANGED <<appState, wake, used, limit, mailVars, turnVars, ctxVars, inflight,
                   recent, loopVars, held, failed, clientHeld>>

\* ErrTurnBusy: a single-slot provider never saw the prompt.
ProviderBusy(w) ==
    /\ pc[w] = "call"
    /\ pc' = [pc EXCEPT ![w] = "requeue"]
    /\ Mishap
    /\ UNCHANGED <<appVars, mailVars, turnVars, ctxVars, inflight, recent, loopVars,
                   held, answer, failed, histVars>>

\* Mutant: a retry overwrites the frozen answer.
MutantPrepareAgain(w) ==
    LET m == held[w] IN
    /\ pc[w] = "finish" /\ Unlocked
    /\ inflight' = inflight \ {owner[m]}
    /\ pc' = [pc EXCEPT ![w] = IF results[m] # NoResult THEN "clear" ELSE "append"]
    /\ prepared' = [prepared EXCEPT ![m] = answer[w]]
    /\ UNCHANGED <<appVars, mailVars, results, ctxVars, recent, loopVars, held,
                   answer, failed, histVars, mishaps>>

\* finishTurn takes the lock, gives up the single-flight slot and freezes the
\* answer in Prepared unless an earlier attempt did; it then keeps the lock.
FinishPrepare(w) ==
    LET m == held[w] IN
    /\ pc[w] = "finish" /\ Unlocked
    /\ inflight' = inflight \ {owner[m]}
    /\ pc' = [pc EXCEPT ![w] = IF results[m] # NoResult THEN "clear" ELSE "append"]
    /\ prepared' = IF results[m] # NoResult \/ prepared[m] # NoTurn THEN prepared
                   ELSE [prepared EXCEPT ![m] = answer[w]]
    /\ UNCHANGED <<appVars, mailVars, results, ctxVars, recent, loopVars, held,
                   answer, failed, histVars, mishaps>>

\* Mutant: the append carries no idempotency key.
MutantAppendAgain(w) ==
    LET m == held[w]
        text == prepared[m].text IN
    /\ pc[w] = "append"
    /\ appended' = [appended EXCEPT ![m] = [done |-> TRUE, text |-> text]]
    /\ journal' = Append(journal, [msg |-> m, text |-> text])
    /\ pc' = [pc EXCEPT ![w] = "checkpoint"]
    /\ UNCHANGED <<appVars, mailVars, turnVars, checkpoints, inflight, recent, loopVars,
                   held, answer, failed, histVars, mishaps>>

\* ContextStore.Append under the key "<message>:result": the first request
\* under the key is applied, a repeat of it is answered from the table, and
\* another text under the same key is refused.
FinishAppend(w) ==
    LET m == held[w]
        text == prepared[m].text IN
    /\ pc[w] = "append"
    /\ appended[m].done => appended[m].text = text
    /\ appended' = [appended EXCEPT ![m] = [done |-> TRUE, text |-> text]]
    /\ journal' = IF appended[m].done THEN journal
                  ELSE Append(journal, [msg |-> m, text |-> text])
    /\ pc' = [pc EXCEPT ![w] = "checkpoint"]
    /\ UNCHANGED <<appVars, mailVars, turnVars, checkpoints, inflight, recent, loopVars,
                   held, answer, failed, histVars, mishaps>>

\* ContextStore.Checkpoint under "<message>:checkpoint" names the journal as
\* it is when the key is first used.
FinishCheckpoint(w) ==
    LET m == held[w] IN
    /\ pc[w] = "checkpoint"
    /\ checkpoints' = [checkpoints EXCEPT ![m] = IF @ = 0 THEN Len(journal) ELSE @]
    /\ pc' = [pc EXCEPT ![w] = "commit"]
    /\ UNCHANGED <<appVars, mailVars, turnVars, journal, appended, inflight, recent,
                   loopVars, held, answer, failed, histVars, mishaps>>

\* Mutant: the budget is not looked at after the charge.
MutantNoFreeze(a, u) == appState[a]

\* The state an application is left in and the status its turn gets, in the
\* order finishTurn decides them: the budget first, the tombstone after it.
FinalState(a, u) == IF Exhausted(u, limit[a]) THEN "frozen" ELSE appState[a]

FinalStatus(a, u, t) ==
    CASE FinalState(a, u) = "tombstoned" -> "retired"
      [] Exhausted(u, limit[a]) -> "budget_exhausted"
      [] OTHER -> t.status

\* The commit of finishTurn: charge, result, acknowledgement and the end of
\* Prepared are one write; the lock is released.
FinishCommit(w) ==
    LET m == held[w]
        a == owner[m]
        t == prepared[m]
        u == saturatingAdd(used[a], t.usage)
        st == FinalStatus(a, u, t)
    IN
    /\ pc[w] = "commit"
    /\ used' = [used EXCEPT ![a] = u]
    /\ appState' = [appState EXCEPT ![a] = FinalState(a, u)]
    /\ results' = [results EXCEPT ![m] =
                     [status |-> st, text |-> IF st = "retired" THEN NoText ELSE t.text,
                      usage |-> t.usage, checkpoint |-> checkpoints[m]]]
    /\ prepared' = [prepared EXCEPT ![m] = NoTurn]
    /\ status' = [status EXCEPT ![m] = "acked"]
    /\ pc' = [pc EXCEPT ![w] = "clear"]
    /\ UNCHANGED <<wake, limit, tainted, owner, carries, ctxVars, inflight, recent,
                   loopVars, held, answer, failed, histVars, mishaps>>

\* Mutant: a commit that fails to persist keeps its charge in memory.
MutantChargeKept(w) ==
    /\ \/ pc[w] = "finish" /\ Unlocked
       \/ pc[w] \in {"append", "checkpoint", "commit"}
    /\ used' = IF pc[w] # "commit" THEN used
               ELSE [used EXCEPT ![owner[held[w]]] = saturatingAdd(@, prepared[held[w]].usage)]
    /\ inflight' = inflight \ {owner[held[w]]}
    /\ failed' = [failed EXCEPT ![w] = TRUE]
    /\ pc' = [pc EXCEPT ![w] = "requeue"]
    /\ Mishap
    /\ UNCHANGED <<appState, wake, limit, tainted, mailVars, turnVars, ctxVars, recent,
                   loopVars, held, answer, histVars>>

\* One of finishTurn's writes fails: what was written before stays, the blob
\* in memory is what was last committed, and the turn returns the error.
FinishFails(w) ==
    /\ \/ pc[w] = "finish" /\ Unlocked
       \/ pc[w] \in {"append", "checkpoint", "commit"}
    /\ inflight' = inflight \ {owner[held[w]]}
    /\ failed' = [failed EXCEPT ![w] = TRUE]
    /\ pc' = [pc EXCEPT ![w] = "requeue"]
    /\ Mishap
    /\ UNCHANGED <<appVars, mailVars, turnVars, ctxVars, recent, loopVars, held,
                   answer, histVars>>

\* Mutant: whatever happened to the message meanwhile, it goes back.
MutantRequeueAny(w) ==
    /\ pc[w] = "requeue" /\ Unlocked
    /\ status' = [status EXCEPT ![held[w]] = "pending"]
    /\ pc' = [pc EXCEPT ![w] = "clear"]
    /\ UNCHANGED <<appVars, owner, carries, turnVars, ctxVars, inflight, recent,
                   loopVars, held, answer, failed, histVars, mishaps>>

\* requeueClaim: only a message that is still claimed goes back.
RequeueClaim(w) ==
    /\ pc[w] = "requeue" /\ Unlocked
    /\ status' = [status EXCEPT ![held[w]] = IF @ = "claimed" THEN "pending" ELSE @]
    /\ pc' = [pc EXCEPT ![w] = "clear"]
    /\ UNCHANGED <<appVars, owner, carries, turnVars, ctxVars, inflight, recent,
                   loopVars, held, answer, failed, histVars, mishaps>>

RequeueFails(w) ==
    /\ pc[w] = "requeue" /\ Unlocked
    /\ status[held[w]] = "claimed"
    /\ failed' = [failed EXCEPT ![w] = TRUE]
    /\ pc' = [pc EXCEPT ![w] = "clear"]
    /\ Mishap
    /\ UNCHANGED <<appVars, mailVars, turnVars, ctxVars, inflight, recent, loopVars,
                   held, answer, histVars>>

\* Mutant: a turn that gave its claim back keeps the single-flight slot.
MutantKeepInflight(w) ==
    /\ pc[w] = "clear" /\ Unlocked
    /\ failure' = (failure \/ failed[w])
    /\ pc' = [pc EXCEPT ![w] = "idle"]
    /\ held' = [held EXCEPT ![w] = NoMsg]
    /\ answer' = [answer EXCEPT ![w] = NoTurn]
    /\ failed' = [failed EXCEPT ![w] = FALSE]
    /\ UNCHANGED <<appVars, mailVars, turnVars, ctxVars, inflight, recent, run, runMsg,
                   stopping, histVars, mishaps>>

\* The deferred clearInflight, then the worker reports its error to Run and
\* frees its slot.
ClearInflight(w) ==
    /\ pc[w] = "clear" /\ Unlocked
    /\ inflight' = inflight \ {owner[held[w]]}
    /\ failure' = (failure \/ failed[w])
    /\ pc' = [pc EXCEPT ![w] = "idle"]
    /\ held' = [held EXCEPT ![w] = NoMsg]
    /\ answer' = [answer EXCEPT ![w] = NoTurn]
    /\ failed' = [failed EXCEPT ![w] = FALSE]
    /\ UNCHANGED <<appVars, mailVars, turnVars, ctxVars, recent, run, runMsg,
                   stopping, histVars, mishaps>>

-----------------------------------------------------------------------------
(* Process lifetime *)

\* Everything the process keeps in memory is gone.
Vanish ==
    /\ run' = "down"
    /\ runMsg' = NoMsg
    /\ stopping' = FALSE
    /\ failure' = FALSE
    /\ inflight' = {}
    /\ recent' = {}
    /\ pc' = [w \in Slot |-> "idle"]
    /\ held' = [w \in Slot |-> NoMsg]
    /\ answer' = [w \in Slot |-> NoTurn]
    /\ failed' = [w \in Slot |-> FALSE]
    /\ clientHeld' = {}
    /\ UNCHANGED <<appVars, mailVars, turnVars, ctxVars>>

Crash == Up /\ Vanish /\ Mishap

\* SIGTERM or SIGINT cancels the context.
StopSignal ==
    /\ Up /\ ~stopping
    /\ stopping' = TRUE
    /\ Mishap
    /\ UNCHANGED <<appVars, mailVars, turnVars, ctxVars, inflight, recent, run, runMsg,
                   failure, workVars, histVars>>

\* Run has returned and its workers are done: the process ends.
Exit ==
    /\ run = "stopped"
    /\ \A w \in Slot : pc[w] = "idle"
    /\ Vanish
    /\ UNCHANGED mishaps

\* NewSupervisor's load: claims of the previous process go back to pending,
\* those of a tombstoned application expire.
Load ==
    /\ run = "down"
    /\ run' = "tick"
    /\ status' = [m \in Msg |->
                    CASE status[m] \in Open /\ appState[owner[m]] = "tombstoned" -> "expired"
                      [] status[m] = "claimed" /\ appState[owner[m]] # "tombstoned" -> "pending"
                      [] OTHER -> status[m]]
    /\ UNCHANGED <<appVars, owner, carries, turnVars, ctxVars, inflight, recent, runMsg,
                   stopping, failure, workVars, histVars, mishaps>>

-----------------------------------------------------------------------------
Control ==
    \/ \E a \in App : \/ \E p \in Wakes : CreateApplication(a, p)
                      \/ \E l \in Limit \cup {0} : SetTokenLimit(a, l)
                      \/ \E m \in Msg, t \in Taints : Enqueue(a, m, t)
    \/ /\ "state" \in Commands
       /\ \E a \in App, st \in {"serving", "frozen"} : SetApplicationState(a, st)
    \/ /\ "retire" \in Commands
       /\ \E a \in App : RetireApplication(a) \/ RetireFails(a)
    \/ /\ "mailbox" \in Commands
       /\ \/ \E a \in App : ClaimMailbox(a)
          \/ \E m \in Msg : AckMailbox(m)

Loop ==
    \/ \E a \in App, m \in Msg : ClaimTurn(a, m)
    \/ \E a \in App : ThrottleElapses(a)
    \/ RunIdle
    \/ RunFails
    \/ RunReturns
    \/ \E w \in Slot : Dispatch(w)
    \/ AbandonSlot

Worker(w) ==
    \/ ResumePrepared(w)
    \/ RouteDenied(w)
    \/ CallProvider(w)
    \/ \E t \in Turn : ProviderAnswers(w, t) \/ ProviderAnswersTainted(w, t)
    \/ ProviderBusy(w)
    \/ FinishPrepare(w)
    \/ FinishAppend(w)
    \/ FinishCheckpoint(w)
    \/ FinishCommit(w)
    \/ FinishFails(w)
    \/ RequeueClaim(w)
    \/ RequeueFails(w)
    \/ ClearInflight(w)

Process == Crash \/ StopSignal \/ Exit \/ Load

Next == Control \/ Loop \/ (\E w \in Slot : Worker(w)) \/ Process

Spec == Init /\ [][Next]_vars

\* What the Go runtime schedules: goroutines and the ticker keep going, a
\* provider call ends (at its two-minute timeout at the latest), the
\* supervisor is restarted, and the select at the top of Run, which picks
\* among ready cases at random, does not overlook ctx.Done for ever.
Fairness ==
    /\ WF_vars(\E a \in App, m \in Msg : ClaimTurn(a, m))
    /\ \A a \in App : WF_vars(ThrottleElapses(a))
    /\ WF_vars(\E w \in Slot : Dispatch(w))
    /\ WF_vars(AbandonSlot)
    /\ SF_vars(RunReturns)
    /\ \A w \in Slot : WF_vars(Worker(w))
    /\ WF_vars(Exit)
    /\ WF_vars(Load)

FairSpec == Spec /\ Fairness

-----------------------------------------------------------------------------
(* Safety *)

\* The messages in the hands of Run or of a worker that has not settled or
\* given back its claim.
Active == {"start", "call", "finish", "append", "checkpoint", "commit", "requeue"}

Executing(w, m) == pc[w] \in Active /\ held[w] = m

WaitingForSlot(m) == run = "slot" /\ runMsg = m

\* A message is never in two hands: no interleaving of claims, requeues,
\* client claims, retirements and restarts gives one message to two workers,
\* or to a worker while Run still waits for a slot with it.
OneHolder ==
    \A m \in Msg :
        /\ \A v, w \in Slot : Executing(v, m) /\ Executing(w, m) => v = w
        /\ \A w \in Slot : ~(Executing(w, m) /\ WaitingForSlot(m))

\* The provider is only ever asked about a message whose answer is not yet
\* frozen, journaled or committed: after finishTurn's first write no crash,
\* failed write or requeue makes the model run again for the same message.
NeverRerun ==
    \A w \in Slot : pc[w] = "call" =>
        /\ prepared[held[w]] = NoTurn
        /\ results[held[w]] = NoResult
        /\ ~appended[held[w]].done

\* However often a turn is retried across the two stores, its result is in
\* the context at most once, and once the turn is committed it is there with
\* the committed text (which a retired application's result leaves out).
JournalOnce ==
    /\ \A i, j \in DOMAIN journal : journal[i].msg = journal[j].msg => i = j
    /\ \A m \in Msg : results[m] # NoResult =>
          \E i \in 1..results[m].checkpoint :
              /\ i \in DOMAIN journal
              /\ journal[i].msg = m
              /\ results[m].status # "retired" => journal[i].text = results[m].text

\* The usages committed for application a, by message.
LastMsg == CHOOSE n \in Msg \cup {0} : \A m \in Msg : m <= n
Charges(a) == [m \in 1..LastMsg |->
                 IF m \in Msg /\ owner[m] = a /\ results[m] # NoResult THEN results[m].usage ELSE 0]

\* Every committed turn is charged to its application once and nothing else
\* is: the account is the (saturating) sum of the committed usages, through
\* failed commits, requeues and restarts.
ChargedOnce ==
    \A a \in App :
        LET sum == SumUpTo(Charges(a), LastMsg)
        IN  used[a] = IF sum > MaxTokens THEN MaxTokens ELSE sum

\* An application that may be scheduled has budget left, whatever turns were
\* committed and limits narrowed while others were in flight.
ServingWithinBudget ==
    \A a \in App : appState[a] = "serving" => ~Exhausted(used[a], limit[a])

\* Taint that a message declares is in its application's durable label from
\* the moment the message is handed out, through requeues and restarts.
TaintCarried ==
    \A m \in Msg :
        carries[m] /\ (status[m] \in {"claimed", "acked"} \/ prepared[m] # NoTurn)
            => tainted[owner[m]]

\* What a message has been settled to stays: an acknowledged one is never
\* handed out again, an expired one at most becomes acknowledged by the turn
\* that was running, and a committed result never changes.
SettledIsFinal ==
    [][\A m \in Msg : /\ status[m] = "acked" => status'[m] = "acked"
                      /\ status[m] = "expired" => status'[m] \in {"expired", "acked"}
                      /\ results[m] # NoResult => results'[m] = results[m]]_vars

-----------------------------------------------------------------------------
(* Liveness *)

Runnable(m) ==
    /\ status[m] # "none"
    /\ appState[owner[m]] = "serving"
    /\ wake[owner[m]] # "manual"
    /\ m \notin clientHeld

\* A message of an application that stays serving, and that no client has
\* claimed for good, is eventually settled: the single-flight slots, the
\* throttle, the worker slots, requeues and the restarts after errors never
\* shut it out for ever.
EveryMessageSettles ==
    \A m \in Msg : <>[]Runnable(m) => <>(status[m] \in {"acked", "expired"})

-----------------------------------------------------------------------------
(* The inductive invariant behind the safety properties *)

Locked == {"append", "checkpoint", "commit"}

\* Who holds what: an idle worker and an idle Run hold nothing, a dead
\* process has no workers, a held message exists and is not pending, and at
\* most one worker is inside finishTurn's locked part.
HoldersOK ==
    /\ \A w \in Slot : pc[w] = "idle" <=> held[w] = NoMsg
    /\ run = "slot" <=> runMsg # NoMsg
    /\ run = "down" => \A w \in Slot : pc[w] = "idle"
    /\ \A m \in Msg : status[m] # "none" <=> owner[m] # NoApp
    /\ \A w \in Slot : pc[w] # "idle" => status[held[w]] # "none"
    /\ \A w \in Slot : pc[w] \in Active => status[held[w]] # "pending"
    /\ run = "slot" => status[runMsg] \notin {"none", "pending"}
    /\ \A v, w \in Slot : pc[v] \in Locked /\ pc[w] \in Locked => v = w

\* How far a turn has got: the answer is known before finishTurn, frozen
\* while the lock is held, journaled before the checkpoint, and nobody
\* executes a message that has a result.
ProgressOK ==
    /\ \A w \in Slot : pc[w] = "finish" => answer[w] # NoTurn \/ prepared[held[w]] # NoTurn
    /\ \A w \in Slot : pc[w] = "call" => prepared[held[w]] = NoTurn
    /\ \A w \in Slot : pc[w] \in Locked => prepared[held[w]] # NoTurn
    /\ \A w \in Slot : pc[w] \in {"checkpoint", "commit"} => appended[held[w]].done
    /\ \A w \in Slot : pc[w] \in Active => results[held[w]] = NoResult
    /\ run = "slot" => results[runMsg] = NoResult
    /\ \A m \in Msg : results[m] # NoResult => /\ prepared[m] = NoTurn
                                               /\ status[m] = "acked"
                                               /\ appended[m].done

\* The frozen answer and the context store agree: what is journaled for a
\* message without a result is its frozen answer, and a result keeps the text.
FrozenOK ==
    /\ \A m \in Msg : prepared[m] # NoTurn => status[m] # "none"
    /\ \A m \in Msg : appended[m].done => \/ results[m] # NoResult
                                          \/ /\ prepared[m] # NoTurn
                                             /\ prepared[m].text = appended[m].text
    /\ \A m \in Msg : results[m] # NoResult /\ results[m].status # "retired"
                          => results[m].text = appended[m].text

\* Journal entries and rows of the idempotency table are one to one.
EntriesOK ==
    /\ \A i \in DOMAIN journal :
          /\ appended[journal[i].msg].done
          /\ appended[journal[i].msg].text = journal[i].text
    /\ \A m \in Msg : appended[m].done => \E i \in DOMAIN journal : journal[i].msg = m
    /\ \A i, j \in DOMAIN journal : journal[i].msg = journal[j].msg => i = j

\* A checkpoint covers the entry it was taken for, and the commit uses it.
CheckpointsOK ==
    /\ \A m \in Msg : /\ checkpoints[m] <= Len(journal)
                      /\ checkpoints[m] # 0 =>
                           \E i \in 1..checkpoints[m] : journal[i].msg = m
    /\ \A w \in Slot : pc[w] = "commit" => checkpoints[held[w]] # 0
    /\ \A m \in Msg : results[m] # NoResult =>
          results[m].checkpoint # 0 /\ results[m].checkpoint = checkpoints[m]

JournalOK == FrozenOK /\ EntriesOK /\ CheckpointsOK

IInv == TypeOK /\ HoldersOK /\ OneHolder /\ ProgressOK /\ JournalOK

-----------------------------------------------------------------------------
(* What the repository's text says and the code does not keep *)

\* runner.go: "One turn per application at a time: parallel fan-out spreads
\* across applications, never within one application's turn order."
SingleFlight ==
    \A v, w \in Slot : v # w /\ pc[v] = "call" /\ pc[w] = "call"
        => owner[held[v]] # owner[held[w]]

-----------------------------------------------------------------------------
(* Refinement: the turn engine implements TurnLedger *)

\* The answer a message's turn is bound to: frozen in Prepared until the
\* commit, and afterwards what the context and the result record keep of it.
OutcomeOf(m) ==
    [decided |-> prepared[m] # NoTurn \/ results[m] # NoResult,
     text |-> IF prepared[m] # NoTurn THEN prepared[m].text ELSE appended[m].text,
     cost |-> IF prepared[m] # NoTurn THEN prepared[m].usage ELSE results[m].usage]

Ledger == INSTANCE TurnLedger WITH
    payer <- owner,
    outcome <- [m \in Msg |-> OutcomeOf(m)],
    settled <- {m \in Msg : results[m] # NoResult},
    account <- used

\* Every behaviour of the runner is one of the ledger: through retries,
\* crashes between the two stores, retirements and client acknowledgements a
\* message's answer is decided once, journaled once and charged once.
ImplementsLedger == Ledger!LSpec

=============================================================================
