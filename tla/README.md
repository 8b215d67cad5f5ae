# TLA+ verification of the AOK supervisor

AOK runs long-lived agent *applications* in a guest VM. A Go supervisor
(`src/runtime`) owns their lifecycle, mailboxes, token budgets, taint labels and
contexts; providers (a local engine process, a kernel inference session, an HTTP
model service) execute one *turn* per mailbox message. This directory holds a
TLA+ model of the supervisor and of the parts it talks to, TLC configurations
that check it on small instances, and TLAPS proofs for instances of any size.

## The system and its parts

The supervisor keeps its state as one JSON blob in SQLite. Every handler takes
`Supervisor.mu`, changes the blob in memory and calls `persistLocked`, which
writes it or restores the last committed one. Memory and disk therefore agree
whenever the lock is free, and a handler that persists once is one atomic action
of the model. The exceptions are modelled as such: the kernel's post path keeps
a cursor in memory only, `RecoveryPending` is process-local (`KernelWake`),
`escalateExportLocked` refuses on a full queue after it has swept and audited
without writing (`TaintGate`, `Authority`), and a failed `contexts.Create` or
`ForkTo` leaves a kernel id drawn in memory (`Applications`). These modules keep
the blob twice, as `mem` and `disk`.

The context store is a second SQLite database. The two never commit together and
are bridged by idempotency keys, so whatever touches both, or the kernel, or a
peer process, is split at its durable steps.

| Part | Source | Modules |
|---|---|---|
| Turn runner: claim, execute, finish, requeue, restart | `runner.go`, `supervisor.go`, `mailbox.go`, `ledger.go` | `TurnRunner`, `TurnLedger`, `MCTurnRunner`, `TurnRunnerProofs` |
| Timers and LSFS bindings | `wake.go`, `runner.go`, `mailbox.go` | `WakeSources`, `MCWakeSources`, `WakeSourcesProofs` |
| Kernel wake path and application registry | `kernelwake.go`, `wake.go`, `kernel/patches/0010` | `KernelWake`, `MCKernelWake` |
| Message gateway | `gateway.go` | `Gateway`, `MCGateway`, `GatewayProofs` |
| Export gate and artifact transfers | `taint.go`, `hostfs.go` | `TaintGate`, `MCTaintGate`, `TaintGateProofs` |
| Engine protocol server | `server.go`, `protocol.go`, `limits.go` | `EngineConnection`, `MCEngineConnection`, `EngineConnectionProofs` |
| Context store, applications over it | `context_store.go`, `supervisor.go`, `runner.go` | `ContextLog`, `ContextStore`, `Applications`, `MCApplications`, `ApplicationsProofs` |
| Audit chain, witness, tokens, revocation, mounts | `supervisor.go`, `witness.go`, `policy.go`, `revocation.go`, `hostfs.go` | `Authority`, `MCAuthority`, `AuthorityProofs` |

`Sums` and `SumsProofs` are shared: sums of what a counter counts, and induction.

The parts meet in the mailbox and in the blob. Timers, bindings, the kernel and
the gateway fill the mailbox; the turn runner empties it, charges the budget,
extends the context and folds taint; the gate and the gateway's reply path read
the taint; every handler extends the audit chain. Each module models its part in
full and the others by what they do to the state the part sees: `Consume` stands
for the turn runner in the wake modules, `FinishTurn` in `Gateway`, one turn
at a time in `Applications`, `ClaimMailbox` in `TaintGate`.

Operators named `Mutant...` stand next to the definition they are a faulty
variant of. They are used by no specification; they record, for each property,
an error in the code that the property would catch.

## Modules

### TurnRunner and TurnLedger

`Run` is the variable `run` ("tick", "slot" while it waits for a worker with
`runMsg` in hand, "stopped", "down"); each worker goroutine is a program counter
`pc[w]` with its message `held[w]` and the provider's `answer[w]`. Applications
are `appState`, `wake`, `used`, `limit`, `tainted`; mailbox messages are
`status`, `owner`, `carries`; `prepared` and `results` are the maps of the same
name. `journal`, `appended` and `checkpoints` are the context store: its entries
and its idempotency rows for the keys `<message>:result` and
`<message>:checkpoint`.

`finishTurn` is four actions, one per durable write (`FinishPrepare`,
`FinishAppend`, `FinishCheckpoint`, `FinishCommit`), with the lock held from the
first to the last (`Unlocked` guards every other locked handler); `FinishFails`
is a failed write at any of them and `Crash` may strike between any two. The
deferred `clearInflight` and the release of the slot are one action.

Left open: which prompts share a prefix (affinity may pick any candidate inside
the band), what providers answer and when. `on_quiescent` behaves like `on_event`
in the code and in the model. A duplicate `Enqueue` changes nothing and is a
stutter. Audit records, attempts, generations, route records and payload bytes
are state that these properties do not tell apart.

`TurnLedger` is the promise of the turn engine in four steps per message:
`Submit`, `Decide`, `Record`, `Settle`. `TurnRunner` is shown to implement it by
TLC (`ImplementsLedger`) and by proof (`Refinement`).

### WakeSources

Timers and bindings without a kernel. A pass (`deliverTimers`, then
`deliverLSFS`) holds the lock, stages its work in `mem` and writes it at its end
(`TimersEnd`, `LSFSEnd`); control handlers come between passes; a crash or a
failed write (`PassFails`, `Crash`) comes anywhere. The clock is monotone. The
branch of `deliverLSFS` for tombstoned applications is dead, because
`RetireApplication` disables their bindings.

### KernelWake

The registry of patch 0010 (`queue`, `lastId`, `merged`), the supervisor's
passes over it, the snapshot taken by `Close`, its recovery by `attachKernel`,
crashes of the process and reboots of the VM. A queue's boot id is the boot the
events were read in; `event_seq` is the order of event ids; a closed handle is
one whose cursor is 0; commit cursors count per context; every application has a
kernel id.

### Gateway

Each handler persists once and is one action; a failed write is `Rebuild`, which
is also what a restart does to the process-local map `sourced`. Denied replies
write an audit record only and are stutters. The network may deliver an inbound
message any number of times in any order; the transporter may forget what it
carries at any time.

A message has the idempotency key it was sent under and the envelope its payload
reads as, each a conversation and a sequence or none. `DeliverInbound` writes
both; a control client (`Send`) may use any key that `Enqueue` does not reserve
and any payload, the gateway's included. `rescanSourcedLocked` reads the payload
of every message (`EnvelopeSource`), whoever sent it. Which messages a
conversation has delivered is the history field `routed`, which no action reads.

### TaintGate

The confirmation queue with its sweep and time limit, one-shot release, and
`ExportArtifact` as the two critical sections it is. Requests are numbered by
`CreatedAt`; "serving" stands for every state but tombstoned; a release counts
from the durable write that consumes the request. The clock is monotone.

### EngineConnection

One connection: the read loop (`reader`), the prompt goroutines (`work`), the
writer, the outbound queue with its two limits, and the `Engine` with sessions,
retained events, suspension and replay. A handler that emits several events
holds `Engine.mu` while the writer drains the queue, so emission is a sequence of
steps (`Emit`, `Evict`, `EmitDeliver`). Reading a prompt and starting its turn
are one step, because the reader waits for it. Chunk sizes are small numbers and
other frames have size 1. The exhaustion of sequence numbers is left out, and so
is `budget_exhausted`, which a hard limit of 0 makes unreachable.

### ContextLog, ContextStore and Applications

`ContextStore` has one action per operation; a SQLite transaction makes each
atomic. A hash is modelled by what is hashed. `Rot` changes the stored bytes of a
blob, which every read must notice. `Create` has no prefix, as its only caller
passes none. `Restore` is part of the store's interface but no handler of the
supervisor calls it yet. Reads are the refinement mapping: `ContextContent` is
what `Pages` and `ReadPage` let an owner put together. `ContextLog` is what the
store promises, without pages, hashes and transactions; that the store implements
it is checked by TLC (`ImplementsLog`) and proved (`ImplementsLogCorrect`).

`Applications` composes the store with the part of the supervisor that owns
contexts: creating, forking, retiring, and turns. A turn is `ClaimTurn` (with the
message's declared taint), `ExecuteTurn` (with `foldTaint`, when the provider
labels its answer), `FinishPrepare`, `FinishAppend`, `FinishCheckpoint` and
`FinishCommit`; `RequeueClaim` gives it back. `worker` says which applications are
in flight and holds an answer that is not frozen yet. `foldTaint` may fail to
write, which the code ignores; the history variable `dropped` records the
contexts this has happened to, and those forked from them. A crash and a failed
write both continue from the blob on disk. A requeued message is one that is not
with a worker; that a requeue's own write fails and leaves the claim is
`TurnRunner`'s subject.

### Authority

The audit chain with `previousHash` beside the blob, restarts that verify it,
checkpoints signed by a witness, capability tokens with attenuation and the
revocation registry, the policy, and hostfs mounts. Hashes are ideal: a hash is
what is hashed, and the contents of a record are represented by its time. A
signature that verifies is membership in the set of what was signed. Decisions
(`Allowed`, `CheckHostfs`) are predicates of the state, asked at every moment;
their audit records are `checkToken`. The version and size limits of mounts and
the wording of reasons are left out.

## Runs

| Run | Configuration | Checks |
|---|---|---|
| `turn_recovery` | `TurnRecovery.cfg` | `TypeOK`, `OneHolder`, `NeverRerun`, `JournalOnce`, `ChargedOnce`, `EveryMessageSettles` |
| `turn_control` | `TurnControl.cfg` | `TaintCarried`, `ServingWithinBudget`, `SettledIsFinal`, `ImplementsLedger` |
| `turn_single_flight` | `TurnSingleFlight.cfg` | `SingleFlight`: violated |
| `wake_sources` | `WakeSources.cfg` | `CursorMatchesMailbox`, `TimerKeyFresh`, `TimerAccounted`, `MailboxBounded`, `OthersDoNotBlock` |
| `kernel_wake` | `KernelWake.cfg` | `NoEventLost`, `KeyNamesOneEvent`, `InOrder`, `ExpiriesCounted`, `CapturedNotDropped`, `EventuallyWoken` |
| `kernel_rollback` | `KernelRollback.cfg` | `RollbackKeepsPosts`: violated |
| `gateway` | `Gateway.cfg` | `CursorIsLatest`, `ReplyToOrigin`, `ReplyArrives` |
| `taint_gate` | `TaintGate.cfg` | `OneShot`, `ReleasedAsApproved`, `ExportPrecedesImport` |
| `engine` | `EngineConnection.cfg` | `GapFree`, `TurnGrammar`, `RunOnce`, `BudgetExact`, `AbortedSilent` |
| `engine_teardown` | `EngineTeardown.cfg` | `TeardownCompletes` |
| `contexts` | `Contexts.cfg` | `ContextsDistinct`, `TaintFollowsContent`, `ImplementsLog` |
| `authority` | `Authority.cfg` | `HistoryHolds`, `AllowedByChain`, `MountsHold` |

Each module's type invariant is a conjunct of one of its properties where it is
not listed by itself. What the runs show:

* **A turn happens once.** `turn_recovery` lets a crash, a stop signal, a failed
  write or a busy answer strike anywhere in `claimTurn`, `executeTurn` and
  `finishTurn`. A message is in one hand at a time, its answer is decided once,
  is in the context once and is charged once, and every message of a serving
  application is settled in the end. `turn_control` adds clients that claim and
  acknowledge the same messages and an operator who changes limits and states:
  the runner still implements `TurnLedger`, an application in the serving state
  has budget left, and declared taint is durable before a message is handed out.
* **A wake-up happens once.** In `wake_sources` the messages on disk are exactly
  those the durable cursors and timers account for, through full mailboxes,
  disabled bindings, failed passes and crashes. `kernel_wake` shows the same for
  the kernel's queue over two boots: events are not lost, not reordered, not
  confused with another boot's, and snapshots survive until they are delivered.
* **Messages go where they belong.** `gateway`: the inbound cursor and the
  mailbox agree, also when clients use the gateway's keys; a rebuilt source map
  still names the conversation of every message one has delivered, and the reply
  to it goes there; the reply to any other message goes at most to the
  conversation its payload names, if that one is bound to the application; and a
  staged reply arrives unless its channel is revoked.
* **Nothing leaves without a decision.** `taint_gate`: an approval releases one
  export, of the text and for the application it was given for, in time; an
  export that is staged passed the gate before any import. The last judges an
  export when it is at the gate; what happens between the gate and the staging
  is in the model, but no property is about it.
* **The engine's stream is whole.** `engine`: what a peer receives is gap-free
  and well formed however delivery is refused and resumed, a request id runs
  once, the byte budgets are exact. `engine_teardown`: a cancelled connection
  ends.
* **Contexts keep their content.** `contexts`: the store implements `ContextLog`
  under sealing, sharing, forks, restores and blobs that go bad; no two
  applications share a context or a kernel id although the two databases fail
  independently; the taint a message declared is where its content is, and so
  is the provider's label of an answer unless its write failed.
* **The record and the rights hold.** `authority`: chain and checkpoints verify in
  memory and on disk whatever was not written; a token never allows more than
  the tokens it was derived from, and nothing once one of them is revoked;
  mounts are exactly those that were answered.

### Bounds

Every bound is a constant named in its module (`Max...`, and the capacities of
the code shrunk to 1, 2 or 3). They are chosen so that each case the properties
are about occurs: two messages and two workers make claims compete, a capacity
of one or two is reached and passed, two boots make one event id appear twice,
two commits are more than a batch of one, four calls suffice to start, suspend,
resume and repeat a turn. `MaxMishaps` bounds crashes, failed writes and busy answers, one
in most runs: recovery itself is then free of further failures, and
`turn_recovery` allows two as long as there is one message.

`EveryMessageSettles` and `EventuallyWoken` are checked with one application.
They cover what may block an application by itself (single flight, slots, busy
answers, a full mailbox), not the competition of several for the runner, the
throttle between them, or the rest of a drain pass behind a full mailbox
(`kernelwake.go:347`). Capacities are counted in messages, not in bytes.

The constraints of the MC modules split a state space into a sum of scenarios
that do not interact: timers or bindings (`OneSource`), confirmations or
transfers (`OneHalf`), one session with request ids or two without
(`OneOrTwo`), tokens or mounts or the witness (`OneTopic`), several expiries or
a failure (`FewExpiries`), one inbound message beside a client's (`FewMessages`), one
budget for all that happens to contexts (`WithinBudget`, where a third context
costs two). `contexts` has two data values, one of messages that declare taint
and one that the provider labels. In the runs with
liveness they cut off only steps of the environment that no fairness forces.
Symmetry is used in safety runs only.

### Fairness

* `TurnRunner.FairSpec`: weak fairness for goroutines, the ticker and the
  supervisor's restart by PID 1; a provider call ends because its context has a
  two-minute timeout; strong fairness for `RunReturns`, because Go's `select`
  chooses among ready cases at random.
* `WakeSources.FairSpec`, `KernelWake.FairSpec`: `Run` ticks for ever, which is
  weak fairness on the steps of a pass; consumers are enabled only between
  passes, so theirs is strong. `EventuallyWoken` excuses a reboot, which empties
  the kernel's queues.
* `Gateway.FairSpec`: a transporter claims again after every reconnect (weak) and
  of attempts repeated for ever some get through (strong).
* `EngineConnection.FairSpec`: weak fairness for runnable goroutines and for the
  writer, whose writes have a deadline; strong fairness for the return of a
  cancelled provider, which `server.go` requires, and for the read loop's notice
  of a closed connection, because the requests left in its buffer are finitely
  many.

## Proofs

Every invariant and every refinement that a run checks is also a theorem, except
those of `KernelWake`. The theorems hold for every value of the constants that
satisfies the named assumptions: bounds and capacities are natural numbers (where
the code has a positive limit, positive), absent values are not members of their
sets, inputs are of the listed kinds. Finite are only the messages in
`ChargedOnceCorrect` (so that there is a sum) and the applications of
`Authority`, whose paths moreover have a length (`PathAssumption`).

| Theorem | Module | States |
|---|---|---|
| `Invariant` | `TurnRunnerProofs` | `IInv` is an invariant |
| `TypeCorrect` | | `TypeOK`; token counters stay within their width |
| `OneHolderCorrect` | | no message is in two hands |
| `NeverRerunCorrect` | | the provider is not asked again once an answer is frozen |
| `JournalOnceCorrect` | | a result is in the context at most once, and within its checkpoint once committed |
| `SettledIsFinalCorrect` | | acknowledged stays acknowledged, results never change |
| `BudgetCorrect` | | an application that may be scheduled has budget left |
| `TaintCorrect` | | declared taint is in the durable label once its message is handed out |
| `ChargedOnceCorrect` | | tokens used are the saturating sum of the recorded usages |
| `Refinement` | | `TurnRunner` implements `TurnLedger` |
| `WakeInvariant` | `WakeSourcesProofs` | `WakeInv` is an invariant |
| `CursorMatchesMailboxCorrect` | | messages of a binding are those its durable cursor has passed |
| `TimerKeyFreshCorrect` | | an armed timer's next key is not taken |
| `TimerAccountedCorrect` | | a timer moves on disk only with its message |
| `MailboxBoundedCorrect` | | no pass gets around the mailbox's limits |
| `GatewayInvariant` | `GatewayProofs` | `GatewayInv` is an invariant |
| `CursorIsLatestCorrect` | | the cursor of a conversation is its newest message's |
| `ReplyToOriginCorrect` | | what a conversation delivered is answered to it, whatever clients send |
| `TaintGateInvariant` | `TaintGateProofs` | `TaintGateInv` is an invariant |
| `OneShotCorrect` | | an approval releases once |
| `ReleasedAsApprovedCorrect` | | for the application and text that were asked for, in time |
| `ExportPrecedesImportCorrect` | | a staged export passed the gate before any import |
| `EngineInvariant`, `BudgetInvariant` | `EngineConnectionProofs` | `EngineInv`, `BudgetInv` are invariants |
| `GapFreeCorrect` | | a peer receives a gap-free prefix of the events |
| `TurnGrammarCorrect` | | in the order of the protocol |
| `RunOnceCorrect` | | a request id runs once in a session |
| `AbortedSilentCorrect` | | an aborted turn retains no text |
| `BudgetExactCorrect` | | byte counters are what is retained, and within all limits |
| `ApplicationsInvariant` | `ApplicationsProofs` | `AppInv` is an invariant |
| `ContextsDistinctCorrect` | | no two applications share a context or a kernel id |
| `TaintFollowsContentCorrect` | | an application with tainted content is tainted on disk, but for labels whose write failed |
| `ImplementsLogCorrect` | | `Applications` implements `ContextLog` |
| `AuthorityInvariant` | `AuthorityProofs` | `AuthorityInv` is an invariant |
| `HistoryHoldsCorrect` | | chain and checkpoints verify in memory and on disk |
| `AllowedByChainCorrect` | | a token allows nothing beyond its chain, or after a revocation |
| `MountsHoldCorrect` | | mounts in force are those that were answered |
| `ChainAppendOnly` | | no step drops or changes a record on disk |

Each preservation proof goes through the actions one by one, or in groups that
leave its conjuncts alone. Why the properties are not inductive as they stand,
and what is added:

* **`IInv`** is `TypeOK /\ HoldersOK /\ OneHolder /\ ProgressOK /\ JournalOK`. That
  a claim finds no other holder needs that held messages are not pending
  (`HoldersOK`, which also says that one worker at most is in the locked part of
  `finishTurn`). `NeverRerun` and `JournalOnce` need to know how far a worker has
  got (`ProgressOK`) and that blob and store agree (`JournalOK`: what is
  journaled for a message without a result is its frozen answer; idempotency rows
  and journal entries are one to one; a checkpoint covers its entry).
  `ServingWithinBudget` also needs that an application not created yet is within
  budget (`BudgetOK`), `TaintCarried` that every message in a hand is covered
  whatever its status became (`TaintOK`). The refinement maps `Enqueue` to
  `Submit`, `FinishPrepare` to `Decide`, `FinishAppend` to `Record`,
  `FinishCommit` to `Settle` and every other action to a stutter.
* **`WakeInv`** states the correspondence of messages and cursors for memory and
  for disk, with the cursor that `deliverLSFS` has in a local variable in place
  of the stored one while it is at a binding (`CursorOf`), and what
  `deliverTimers` has staged and not yet written (`StagedInv`): only so does the
  write at the end of a pass keep the blob on disk consistent. Timer messages are
  of the past (`TimersOK`), so the next key of a timer is new.
* **`GatewayInv`** adds that the envelope of a delivered message is its key, which
  is at most the cursor and which no other message of the application has, and
  that the source map and the outbox name the bound conversation of the payload:
  so a rebuilt map agrees with the one before it on what was delivered, although
  it may name more.
* **`TaintGateInv`** says that the queue, in memory and as written, agrees with a
  history of what was asked and decided (`Agrees`), because the queue forgets
  settled requests; a sweep keeps that agreement.
* **`EngineInv`** has who holds `Engine.mu` (`LockInv`), that a running turn has one
  goroutine (`TurnInv`), and for each session how retained, delivered and still
  to be emitted events continue each other. **`BudgetInv`** adds that only the
  session whose event is being emitted may exceed a limit, and only meanwhile
  (`Within`).
* **`AppInv`** has the types of the store's tables, that every commit's key is in
  its context's idempotency table (`Tabled`: else a key could have a second
  effect), that applications in memory and on disk are the same but for kernel
  ids drawn in vain, that the taint of a turn is the application's before its
  result is in the context (`Owed`: from the claim on for what the message
  declares, before the answer is frozen for a label that was written), and that
  no id still to be drawn names a
  fork (`ForkKeys`: else a new application would be given an old context). That
  content survives sealing, forks and restores is a lemma about `Content`
  (`ContentFacts`), which is proved by induction on the pages.
* **`AuthorityInv`** says that memory is the chain on disk continued by records
  that were never written (`Continues`), that checkpoints are of written records,
  that a token descends from its ancestors (`Descends`; `grantContains` is shown
  transitive), and that mount ids on disk are passed by the sequence on disk, so
  that a rollback does not give one out twice.

`SumsProofs` has the induction the others use. An induction principle with an
operator as parameter cannot be instantiated by the provers, so it is stated for
a set of numbers: a set that contains 0 and, with every number, the next, has
all of them (from `WFMin` of the library). That recursive functions, as in
`SumUpTo` and `Content`, exist, are unique and compute what they should follows
from it.

The step lemmas of `EngineConnectionProofs` and `ApplicationsProofs` do not see
that induction nor the library of finite sets. The few facts they need are named
(`Laws`: the least number of a set, how sums change when a summand does,
cardinality; `ContentLaw`: what appending to a page and sealing one does
to `Content`) and are hypotheses of those lemmas. The last section of each module
takes in the libraries, proves the facts (`LawsHold`, `ContentLawHolds`) and
discharges the hypotheses, so that the theorems have none.

Only model-checked:

* `KernelWake` (`NoEventLost`, `KeyNamesOneEvent`, `InOrder`, `ExpiriesCounted`,
  `CapturedNotDropped`): its inductive invariant has to relate two queues, two
  snapshots and the delivered messages over several boots, and is not written;
* liveness under fairness, which is beyond the prover: `EveryMessageSettles`,
  `OthersDoNotBlock`, `EventuallyWoken`, `ReplyArrives`, `TeardownCompletes`.

## Where the code departs from its text

Two departures are runs:

* `turn_single_flight`: `finishTurn` gives up the single-flight slot and releases
  the lock; the worker's deferred `clearInflight` gives it up again and may then
  delete the slot of the application's next turn. Two turns of one application
  are with the provider at once, against the comment at `runner.go:186`.
* `kernel_rollback`: the write after a post does not contain the binding's new
  cursor, so a later rollback in the pass forgets the post and the commit is
  posted again, against the comment at `wake.go:189`.

Others were met while modelling. They are visible in the models and have no run:

* `finishTurn` sets "frozen" at the hard limit without a look at the state, so a
  turn that ends after its application retired can revive it (`runner.go:357`).
* `foldTaint` ignores a failed write, which rolls the label back; the labelled
  answer is then frozen and appended to a context whose application may be
  untainted (`taint.go:272`). `TaintFollowsContent` excepts exactly the contexts
  this has happened to.
* A message that a client sent and whose payload reads like the gateway's
  envelope has no source at first and gets one when the map is rebuilt, so that
  its reply goes to a conversation that did not send it, or goes nowhere, as
  restarts have it. `gateway.go:46` says the map records "which conversation
  delivered a mailbox message". `ReplyToOrigin` keeps the two cases apart.
* `snapshotKernel` leaves out applications whose previous snapshot is still being
  recovered (`kernelwake.go:423`).
* `DeliverInbound` keeps the largest sequence only, and refuses a message that
  its successor overtook (`gateway.go:193`).
* The outbox, the transfers and the confirmations forget their oldest settled
  entries at their limits, and with them the idempotency keys
  (`gateway.go:266`, `hostfs.go:238`); an approved request that is not yet used
  counts as settled there (`taint.go:68`).
* After the engine's queue refuses an event, the response to the prompt can be
  refused too, which ends the connection (`server.go:105`).
* The record of a refused escalation is not written, so a witness may sign a head
  that a restart forgets; `RecordCosignature` then refuses it.
* `AttachPID` failing in `process_provider.go` leaves a directory and a listener
  behind.

## Not modelled

* The kernel patches other than 0010: reference counts, task lifetimes and locks
  that live in a kernel tree outside the repository.
* `process_provider.go`: one mutex is held for the whole of `Complete`; to the
  turn runner it is a provider that answers, fails or times out at any time.
* Other providers, the router, the kernel inference session, system-call
  adapters, resource controller and monitor: I/O, or loops without protocol
  state. Their answers are nondeterministic in the models.
* Control and web servers: decoding, authentication and dispatch to handlers that
  are actions of the modules.
* PID 1, sandbox compiler and launcher, command line tools, probes, transport
  helpers, the Swift host program, kernel self tests and build files.
* SQLite is taken to be atomic and durable, JSON to round-trip, hashes and
  signatures to be ideal.

## Running

    tlc -workers 2 -config TurnRecovery.cfg MCTurnRunner
    tlapm TurnRunnerProofs.tla

`PROJECT.json` lists the module of every run, maps definitions to source lines,
and lists the hazards the properties are about.
