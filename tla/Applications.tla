---------------------------- MODULE Applications ----------------------------
(***************************************************************************)
(* Applications on top of the context store.  The supervisor's state and   *)
(* the store are two databases: creating, forking and finishing a turn     *)
(* change the store first and write the state afterwards, so that a crash  *)
(* or a failed write leaves contexts nobody refers to, a sealed parent, or *)
(* a turn whose result is in the context already.  A process that stops    *)
(* and one whose write fails look the same from here: both go on from the  *)
(* state as last written.                                                  *)
(***************************************************************************)
EXTENDS ContextStore

CONSTANTS
    Tainted,       \* data of turns whose message declared taint
    Labelled,      \* data the provider labelled when it answered
    Imports,       \* keys of client imports and restores
    MaxApps,       \* bound: application ids issued
    MaxTurns,      \* bound: turns of an application
    MaxMishaps     \* bound: crashes, failed writes and failed transactions

\* What is left to do: nothing, a claimed message without or with declared
\* taint, or, as data, the answer that finishTurn has prepared.
NoTurn == "none"
Asked  == {"clean", "tainted"}
Turns  == Data \union Asked \union {NoTurn}

ASSUME ApplicationsAssumption ==
    /\ Tainted \subseteq Data /\ Labelled \subseteq Data
    /\ NoTurn \notin Data /\ \A t \in Asked : t \notin Data
    /\ MaxApps \in Nat /\ MaxTurns \in Nat /\ MaxMishaps \in Nat

VARIABLES
    mem,           \* the supervisor's state in memory
    disk,          \* as last written
    lock,          \* the application whose finishTurn holds the lock, or 0
    worker,        \* per application in flight: the provider's answer, or NoTurn
    issued,        \* application ids drawn so far
    mishaps,
    dropped        \* history: contexts of answers whose label was not written

appVars == <<mem, disk, lock, worker, issued, mishaps, dropped>>
vars == <<storeVars, appVars>>

NewApp(o, ctx, kernel, tainted) ==
    [owner |-> o, ctx |-> ctx, kernel |-> kernel, tainted |-> tainted,
     live |-> TRUE, turn |-> NoTurn, turns |-> 0]

Apps == DOMAIN mem.apps

Init ==
    /\ StoreInit
    /\ disk = [apps |-> <<>>, nextKernel |-> 0]
    /\ mem = disk
    /\ lock = 0 /\ worker = <<>> /\ issued = 0 /\ mishaps = 0 /\ dropped = {}

Mishap == mishaps < MaxMishaps /\ mishaps' = mishaps + 1

\* persistLocked succeeds, or restoreLocked brings the last state back.
Written(state) == mem' = state /\ disk' = state /\ UNCHANGED mishaps
RolledBack     == Mishap /\ mem' = disk /\ UNCHANGED disk
persistLocked(state) == Written(state) \/ RolledBack

\* clearInflight
Without(a) == [b \in DOMAIN worker \ {a} |-> worker[b]]

-----------------------------------------------------------------------------
(* Creating and forking *)

Add(app) ==
    persistLocked([apps |-> With(mem.apps, issued', app), nextKernel |-> app.kernel])

\* The store refuses: the kernel id stays drawn, in memory only.
StoreFails ==
    /\ Mishap
    /\ mem' = [mem EXCEPT !.nextKernel = @ + 1]
    /\ UNCHANGED <<storeVars, disk>>

CreateApplication(o) ==
    /\ lock = 0
    /\ issued < MaxApps /\ issued' = issued + 1
    /\ \/ /\ Create(o)
          /\ Add(NewApp(o, Len(owner) + 1, mem.nextKernel + 1, FALSE))
       \/ StoreFails
    /\ UNCHANGED <<lock, worker, dropped>>

\* Mutant: the parent names the operation.
MutantForkKey(id, parent) == <<"fork", parent>>

ForkKey(id, parent) == <<"fork", id>>

\* Mutant: the child starts clean.
MutantInherited(parent) == FALSE

Inherited(parent) == mem.apps[parent].tainted

ForkApplication(parent, o) ==
    LET p   == mem.apps[parent]
        key == ForkKey(issued + 1, parent)
        child == IF Used(p.ctx, key) THEN operations[p.ctx][key].result ELSE Len(owner) + 1
    IN  /\ lock = 0
        /\ p.live
        /\ issued < MaxApps /\ issued' = issued + 1
        /\ \/ /\ IF Used(p.ctx, key) THEN UNCHANGED storeVars
                                     ELSE ForkTo(p.owner, p.ctx, o, key)
              /\ Add(NewApp(o, child, mem.nextKernel + 1, Inherited(parent)))
              /\ dropped' = dropped \union {c \in {child} : p.ctx \in dropped}
           \/ StoreFails /\ UNCHANGED dropped
        /\ UNCHANGED <<lock, worker>>

\* Its messages expire; a turn that a worker is executing is finished all the
\* same.
RetireApplication(a) ==
    /\ lock = 0
    /\ mem.apps[a].live
    /\ LET turn == IF a \in DOMAIN worker THEN mem.apps[a].turn ELSE NoTurn
       IN  persistLocked([mem EXCEPT !.apps[a] = [@ EXCEPT !.live = FALSE, !.turn = turn]])
    /\ UNCHANGED <<storeVars, lock, worker, issued, dropped>>

-----------------------------------------------------------------------------
(* Turns.  The taint a message declares is the application's when the      *)
(* message is claimed, the provider's label before its answer is frozen in *)
(* the state; only then does the store see it.                             *)

\* accumulateTaint; a message that was requeued keeps what it has.
Claimed(app, t) ==
    IF app.turn # NoTurn THEN app
    ELSE [app EXCEPT !.turn = t, !.turns = @ + 1, !.tainted = @ \/ t = "tainted"]

ClaimTurn(a, t) ==
    /\ lock = 0
    /\ mem.apps[a].live /\ a \notin DOMAIN worker
    /\ mem.apps[a].turn = NoTurn => mem.apps[a].turns < MaxTurns
    /\ \/ Written([mem EXCEPT !.apps[a] = Claimed(@, t)]) /\ worker' = With(worker, a, NoTurn)
       \/ RolledBack /\ UNCHANGED worker
    /\ UNCHANGED <<storeVars, lock, issued, dropped>>

\* The label of an answer becomes the application's taint.  A write that fails
\* takes it back, and nobody is told.
foldTaint(a) ==
    \/ Written([mem EXCEPT !.apps[a].tainted = TRUE]) /\ UNCHANGED dropped
    \/ RolledBack /\ dropped' = dropped \union {mem.apps[a].ctx}

\* The provider answers, or fails without a label.
ExecuteTurn(a, d) ==
    /\ a \in DOMAIN worker /\ worker[a] = NoTurn
    /\ mem.apps[a].turn \in Asked
    /\ d \in Tainted <=> mem.apps[a].turn = "tainted"
    /\ worker' = With(worker, a, d)
    /\ IF d \in Labelled THEN lock = 0 /\ foldTaint(a)
                         ELSE UNCHANGED <<mem, disk, mishaps, dropped>>
    /\ UNCHANGED <<storeVars, lock, issued>>

\* The runner has been stopped, or the provider was busy.
RequeueClaim(a) ==
    /\ lock = 0
    /\ a \in DOMAIN worker /\ worker' = Without(a)
    /\ persistLocked(mem)
    /\ UNCHANGED <<storeVars, lock, issued, dropped>>

\* finishTurn freezes the answer, and keeps the lock to the end.
FinishPrepare(a) ==
    /\ lock = 0
    /\ a \in DOMAIN worker /\ worker[a] \in Data
    /\ \/ /\ Written([mem EXCEPT !.apps[a].turn = worker[a]])
          /\ lock' = a /\ worker' = With(worker, a, NoTurn)
       \/ RolledBack /\ worker' = Without(a) /\ UNCHANGED lock
    /\ UNCHANGED <<storeVars, issued, dropped>>

ResultKey(a)     == <<"result", mem.apps[a].turns>>
CheckpointKey(a) == <<"checkpoint", mem.apps[a].turns>>

\* Here a worker comes in that has claimed a turn already prepared.
FinishAppend(a) ==
    LET app == mem.apps[a]
    IN  /\ lock \in {0, a}
        /\ a \in DOMAIN worker /\ app.turn \in Data
        /\ IF Used(app.ctx, ResultKey(a)) THEN UNCHANGED storeVars
           ELSE AppendData(app.owner, app.ctx, ResultKey(a), app.turn)
        /\ lock' = a
        /\ UNCHANGED <<mem, disk, worker, issued, mishaps, dropped>>

FinishCheckpoint(a) ==
    /\ lock = a /\ Used(mem.apps[a].ctx, ResultKey(a))
    /\ Checkpoint(mem.apps[a].owner, mem.apps[a].ctx, CheckpointKey(a))
    /\ UNCHANGED appVars

FinishCommit(a) ==
    /\ lock = a /\ Used(mem.apps[a].ctx, CheckpointKey(a))
    /\ persistLocked([mem EXCEPT !.apps[a].turn = NoTurn])
    /\ lock' = 0 /\ worker' = Without(a)
    /\ UNCHANGED <<storeVars, issued, dropped>>

\* The store meets a blob that has gone bad; the turn is requeued.
FinishFails(a) ==
    LET app == mem.apps[a]
    IN  /\ lock \in {0, a}
        /\ a \in DOMAIN worker /\ app.turn \in Data
        /\ \/ ~Used(app.ctx, ResultKey(a)) /\ AppendRefused(app.ctx, app.turn)
           \/ /\ Used(app.ctx, ResultKey(a)) /\ ~Used(app.ctx, CheckpointKey(a))
              /\ CheckpointRefused(app.ctx)
        /\ lock' = 0 /\ worker' = Without(a)
        /\ persistLocked(mem)
        /\ UNCHANGED <<storeVars, issued, dropped>>

-----------------------------------------------------------------------------
(* Clients, storage, and the process *)

\* The write that follows is of the audit record only.
ImportArtifact(a, k, d) ==
    /\ lock = 0
    /\ mem.apps[a].live
    /\ CommitArtifact(mem.apps[a].owner, mem.apps[a].ctx, <<"artifact", k>>, d)
    /\ UNCHANGED appVars

\* Part of the store's interface; no handler of the supervisor calls it yet.
RestoreContext(a, k, hash) ==
    /\ lock = 0
    /\ mem.apps[a].live
    /\ Restore(mem.apps[a].owner, mem.apps[a].ctx, <<"restore", k>>, hash)
    /\ UNCHANGED appVars

Rots == \E h \in DOMAIN blobs : Rot(h) /\ UNCHANGED appVars

\* load: what a retired application had left to do has expired.
Loaded ==
    [disk EXCEPT !.apps = [a \in DOMAIN @ |->
        IF @[a].live THEN @[a] ELSE [@[a] EXCEPT !.turn = NoTurn]]]

\* The process stops, also between two steps of finishTurn, and loads the
\* state again.
Restart ==
    /\ Mishap
    /\ mem' = Loaded /\ disk' = Loaded /\ lock' = 0 /\ worker' = <<>>
    /\ UNCHANGED <<storeVars, issued, dropped>>

Next ==
    \/ \E o \in Owners : CreateApplication(o)
    \/ \E a \in Apps :
         \/ \E o \in Owners : ForkApplication(a, o)
         \/ RetireApplication(a)
         \/ \E t \in Asked : ClaimTurn(a, t)
         \/ \E d \in Data : ExecuteTurn(a, d)
         \/ RequeueClaim(a) \/ FinishPrepare(a)
         \/ FinishAppend(a) \/ FinishCheckpoint(a) \/ FinishCommit(a) \/ FinishFails(a)
         \/ \E k \in Imports, d \in Data : ImportArtifact(a, k, d)
         \/ \E k \in Imports, g \in grants : RestoreContext(a, k, g[2])
    \/ Rots
    \/ Restart

Spec == Init /\ [][Next]_vars

-----------------------------------------------------------------------------

TypeOK ==
    /\ \A h \in DOMAIN blobs : h[1] = "snap" \/ h \in {"data"} \X Seq(Data)
    /\ owner \in Seq(Owners) /\ Len(owner) <= MaxContexts
    /\ DOMAIN tail = Context /\ DOMAIN pages = Context /\ DOMAIN operations = Context
    /\ Len(commits) <= MaxCommits
    /\ DOMAIN mem.apps \subseteq 1..issued /\ DOMAIN disk.apps \subseteq 1..issued
    /\ lock \in Apps \union {0} /\ DOMAIN worker \subseteq Apps
    /\ issued \in 0..MaxApps /\ mishaps \in 0..MaxMishaps

\* Every application, in memory and on disk, has a context and a kernel id of
\* its own, and is the owner of its context: neither ids drawn by attempts that
\* failed nor contexts they left behind are given out again.
ContextsDistinct ==
    /\ TypeOK
    /\ \A state \in {mem, disk} : \A a \in DOMAIN state.apps :
         /\ state.apps[a].ctx \in Context /\ owner[state.apps[a].ctx] = state.apps[a].owner
         /\ \A b \in DOMAIN state.apps \ {a} :
              /\ state.apps[a].ctx # state.apps[b].ctx
              /\ state.apps[a].kernel # state.apps[b].kernel

\* The data that the context of an application tells of, if in the contexts R
\* labels were dropped.
Telling(R, c) == Tainted \union {d \in Labelled : c \notin R}

\* An application whose context holds data of a message that declared taint,
\* brought there by one of its own turns or shared with it by a fork, is
\* tainted on disk, and so is one that can restore such data from a checkpoint:
\* claimTurn's accumulateTaint and ForkApplication see to it before the data is
\* in the context.  The same holds of data the provider has labelled, unless
\* foldTaint's write failed for this context or for the one it was forked from.
TaintFollowsContent ==
    \A a \in DOMAIN disk.apps :
        LET c == disk.apps[a].ctx
        IN  (\E content \in Saved(c) \union {ContextContent(c)} :
               \E i \in 1..Len(content) : content[i] \in Telling(dropped, c)) => disk.apps[a].tainted
=============================================================================
