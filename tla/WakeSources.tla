---------------------------- MODULE WakeSources ----------------------------
(***************************************************************************)
(* Wake-ups that need no kernel: timers and LSFS bindings, delivered into  *)
(* mailboxes of bounded capacity by deliverTimers and deliverLSFS.  A pass *)
(* stages its deliveries, its timers and its cursors in memory and writes  *)
(* them together at its end.  mem is the blob in memory, disk the blob as  *)
(* last committed; a pass holds the lock, so that only a crash comes       *)
(* between its steps.                                                      *)
(***************************************************************************)
EXTENDS Integers, Sequences, FiniteSets, Sums

CONSTANTS
    NApps,        \* applications, in the order of their ids
    NBindings,    \* binding ids of each application
    NTimers,      \* timer ids of each application
    AppCap,       \* maxApplicationMailboxMessages
    TotalCap,     \* maxSupervisorMailboxMessages
    ScanBatch,    \* wakeScanBatch
    Delays,       \* delays of new timers
    Intervals,    \* their intervals, 0 for a timer that fires once
    MaxCommits,   \* bound: commits of each context
    MaxTime,      \* bound: the clock
    MaxSends,     \* bound: messages sent by control clients
    MaxMishaps    \* bound: crashes and failed writes

ASSUME WakeSourcesAssumption ==
    /\ NApps \in Nat \ {0} /\ NBindings \in Nat /\ NTimers \in Nat
    /\ AppCap \in Nat \ {0} /\ TotalCap \in Nat \ {0} /\ ScanBatch \in Nat \ {0}
    /\ Delays \subseteq Nat \ {0} /\ Intervals \subseteq Nat
    /\ MaxCommits \in Nat /\ MaxTime \in Nat /\ MaxSends \in Nat /\ MaxMishaps \in Nat

VARIABLES
    commits,   \* per application: the kinds of its context's commits
    mem,       \* the blob in memory
    disk,      \* the blob as last committed
    run,       \* "tick" between passes, "timers", "lsfs", "down"
    todo,      \* the timers deliverTimers has not looked at yet
    at,        \* the binding deliverLSFS is at, by position
    scan,      \* its local cursor
    batch,     \* commits left in its batch
    changed,   \* the pass has something to persist
    clock,
    sends,     \* bound: messages sent so far
    mishaps

passVars == <<todo, at, scan, batch, changed>>
vars == <<commits, mem, disk, run, passVars, clock, sends, mishaps>>

App      == 1..NApps
BindKey  == App \X (1..NBindings)
TimerKey == App \X (1..NTimers)

\* The position of a binding in the order of the keys.
Position(k) == (k[1] - 1) * NBindings + k[2]
BindingAt(p) == CHOOSE k \in BindKey : Position(k) = p
Last == NApps * NBindings

NoBinding == [cursor |-> 0, enabled |-> FALSE, exists |-> FALSE, after |-> 0]
NoTimer == [due |-> 0, interval |-> 0]

\* Idempotency keys of messages.
TimerMessage(t, due) == <<"timer", t[2], due>>
CommitMessage(k, c)  == <<"lsfs", k[2], c>>
ClientMessage(n)     == <<"client", n>>

TypeOK ==
    /\ commits \in [App -> Seq({"artifact", "turn"})]
    /\ \A blob \in {mem, disk} :
         /\ blob.live \in SUBSET App
         /\ blob.bindings \in [BindKey -> [cursor : 0..MaxCommits, after : 0..MaxCommits,
                                           enabled : BOOLEAN, exists : BOOLEAN]]
         /\ blob.timers \in [TimerKey -> [due : Nat, interval : Nat]]
         /\ DOMAIN blob.mail = App
    /\ run \in {"down", "tick", "timers", "lsfs"}
    /\ todo \in SUBSET TimerKey /\ at \in 1..(Last + 1)
    /\ scan \in 0..MaxCommits /\ batch \in 0..ScanBatch /\ changed \in BOOLEAN
    /\ clock \in 0..MaxTime /\ sends \in 0..MaxSends /\ mishaps \in 0..MaxMishaps

Init ==
    /\ commits = [a \in App |-> <<>>]
    /\ disk = [live |-> App,
               mail |-> [a \in App |-> <<>>],
               bindings |-> [k \in BindKey |-> NoBinding],
               timers |-> [t \in TimerKey |-> NoTimer]]
    /\ mem = disk
    /\ run = "down"
    /\ todo = {} /\ at = 1 /\ scan = 0 /\ batch = 0 /\ changed = FALSE
    /\ clock = 0 /\ sends = 0 /\ mishaps = 0

Mishap == mishaps < MaxMishaps /\ mishaps' = mishaps + 1

persistLocked(blob) == mem' = blob /\ disk' = blob

restoreLocked == mem' = disk /\ UNCHANGED disk

-----------------------------------------------------------------------------
(* The mailbox *)

Keys(a) == {mem.mail[a][i].key : i \in 1..Len(mem.mail[a])}

OpenCount(blob, a) == Cardinality({i \in 1..Len(blob.mail[a]) : blob.mail[a][i].open})

\* Open messages of all applications.
OpenTotal(blob) == SumUpTo([a \in App |-> OpenCount(blob, a)], NApps)

\* Mutant: only the application's own limit is looked at.
MutantAccepts(a) == OpenCount(mem, a) < AppCap

\* mailboxCapacityLocked and accepts: only pending and claimed messages count.
Accepts(a) == OpenCount(mem, a) < AppCap /\ OpenTotal(mem) < TotalCap

\* enqueueLocked returns ErrMailboxFull.
Full(a, key) == key \notin Keys(a) /\ ~Accepts(a)

\* enqueueLocked otherwise: a known key is answered from the mailbox.
enqueueLocked(a, key) ==
    IF key \in Keys(a) THEN mem
    ELSE [mem EXCEPT !.mail[a] = Append(@, [key |-> key, open |-> TRUE])]

-----------------------------------------------------------------------------
(* Control handlers, between passes *)

AddTimer(t, delay, interval) ==
    /\ run = "tick" /\ t[1] \in mem.live
    /\ mem.timers[t] = NoTimer
    /\ clock + delay <= MaxTime
    /\ persistLocked([mem EXCEPT !.timers[t] = [due |-> clock + delay, interval |-> interval]])
    /\ UNCHANGED <<commits, run, passVars, clock, sends, mishaps>>

AddLSFSBinding(k, after) ==
    /\ run = "tick" /\ k[1] \in mem.live
    /\ ~mem.bindings[k].exists
    /\ persistLocked([mem EXCEPT !.bindings[k] =
                        [cursor |-> after, enabled |-> TRUE, exists |-> TRUE, after |-> after]])
    /\ UNCHANGED <<commits, run, passVars, clock, sends, mishaps>>

SetLSFSBindingEnabled(k, on) ==
    /\ run = "tick" /\ k[1] \in mem.live
    /\ mem.bindings[k].exists /\ mem.bindings[k].enabled # on
    /\ persistLocked([mem EXCEPT !.bindings[k].enabled = on])
    /\ UNCHANGED <<commits, run, passVars, clock, sends, mishaps>>

\* A commit of the application's context, by ImportArtifact or by the runner.
Commit(a, kind) ==
    /\ run = "tick" /\ a \in mem.live
    /\ Len(commits[a]) < MaxCommits
    /\ commits' = [commits EXCEPT ![a] = Append(@, kind)]
    /\ UNCHANGED <<mem, disk, run, passVars, clock, sends, mishaps>>

\* Enqueue with a fresh key.
Send(a) ==
    /\ run = "tick" /\ a \in mem.live
    /\ sends < MaxSends /\ Accepts(a)
    /\ sends' = sends + 1
    /\ persistLocked(enqueueLocked(a, ClientMessage(sends)))
    /\ UNCHANGED <<commits, run, passVars, clock, mishaps>>

\* The oldest open message is claimed, executed and acknowledged.
Consume(a) ==
    /\ run = "tick"
    /\ \E i \in 1..Len(mem.mail[a]) :
         /\ mem.mail[a][i].open /\ \A j \in 1..(i - 1) : ~mem.mail[a][j].open
         /\ persistLocked([mem EXCEPT !.mail[a][i].open = FALSE])
    /\ UNCHANGED <<commits, run, passVars, clock, sends, mishaps>>

\* Open messages expire and bindings are disabled; timers stay until the next
\* pass over them.
RetireApplication(a) ==
    /\ run = "tick" /\ a \in mem.live
    /\ persistLocked([mem EXCEPT
         !.live = @ \ {a},
         !.mail[a] = [i \in 1..Len(@) |-> [@[i] EXCEPT !.open = FALSE]],
         !.bindings = [k \in BindKey |-> IF k[1] = a THEN [@[k] EXCEPT !.enabled = FALSE]
                                                    ELSE @[k]]])
    /\ UNCHANGED <<commits, run, passVars, clock, sends, mishaps>>

TimePasses ==
    /\ run = "tick" /\ clock < MaxTime
    /\ clock' = clock + 1
    /\ UNCHANGED <<commits, mem, disk, run, passVars, sends, mishaps>>

-----------------------------------------------------------------------------
(* deliverTimers *)

\* NewSupervisor and the start of Run.
Load ==
    /\ run = "down"
    /\ run' = "tick"
    /\ mem' = disk
    /\ UNCHANGED <<commits, disk, passVars, clock, sends, mishaps>>

Tick ==
    /\ run = "tick"
    /\ run' = "timers"
    /\ todo' = {t \in TimerKey : mem.timers[t] # NoTimer}
    /\ changed' = FALSE
    /\ UNCHANGED <<commits, mem, disk, at, scan, batch, clock, sends, mishaps>>

\* The order of the pass: by due time, then by key.
Before(t, u) ==
    LET d == mem.timers[t].due
        e == mem.timers[u].due
    IN \/ d < e
       \/ d = e /\ t[1] < u[1]
       \/ d = e /\ t[1] = u[1] /\ t[2] <= u[2]

\* Mutant: a periodic timer is kept as it is.
MutantRearmed(timer) == IF timer.interval = 0 THEN NoTimer ELSE timer

\* A delivered timer is gone, or due again one interval from now.
Rearmed(timer) ==
    IF timer.interval = 0 THEN NoTimer ELSE [timer EXCEPT !.due = clock + timer.interval]

\* Mutant: a timer that does not fit is given up.
MutantTimerFull(t) == mem' = [mem EXCEPT !.timers[t] = NoTimer] /\ changed' = TRUE

\* A timer that does not fit stays due.
TimerFull(t) == UNCHANGED <<mem, changed>>

TimerStep(t) ==
    LET timer == mem.timers[t]
        key == TimerMessage(t, timer.due) IN
    /\ run = "timers" /\ t \in todo /\ \A u \in todo : Before(t, u)
    /\ todo' = todo \ {t}
    /\ \/ /\ t[1] \notin mem.live
          /\ mem' = [mem EXCEPT !.timers[t] = NoTimer]
          /\ changed' = TRUE
       \/ /\ t[1] \in mem.live /\ timer.due > clock
          /\ UNCHANGED <<mem, changed>>
       \/ /\ t[1] \in mem.live /\ timer.due <= clock /\ Full(t[1], key)
          /\ TimerFull(t)
       \/ /\ t[1] \in mem.live /\ timer.due <= clock /\ ~Full(t[1], key)
          /\ mem' = [enqueueLocked(t[1], key) EXCEPT !.timers[t] = Rearmed(timer)]
          /\ changed' = TRUE
    /\ UNCHANGED <<commits, disk, run, at, scan, batch, clock, sends, mishaps>>

\* deliverLSFS goes to the binding at position p.
StartBinding(p) ==
    /\ at' = p
    /\ scan' = IF p > Last THEN 0 ELSE mem.bindings[BindingAt(p)].cursor
    /\ batch' = IF p > Last THEN 0 ELSE ScanBatch

TimersEnd ==
    /\ run = "timers" /\ todo = {}
    /\ IF changed THEN persistLocked(mem) ELSE UNCHANGED <<mem, disk>>
    /\ run' = "lsfs" /\ changed' = FALSE
    /\ StartBinding(1)
    /\ UNCHANGED <<commits, todo, clock, sends, mishaps>>

-----------------------------------------------------------------------------
(* deliverLSFS without a bridge *)

\* The binding being scanned.
Key == BindingAt(at)

\* Its next commit, if there is one in the batch.
HasCommit == at <= Last /\ mem.bindings[Key].enabled /\ batch > 0 /\ scan < Len(commits[Key[1]])
NextKind  == commits[Key[1]][scan + 1]

\* Commits of the runner are passed over.
ScanTurn ==
    /\ run = "lsfs" /\ HasCommit /\ NextKind = "turn"
    /\ scan' = scan + 1 /\ batch' = batch - 1 /\ changed' = TRUE
    /\ UNCHANGED <<commits, mem, disk, run, todo, at, clock, sends, mishaps>>

ScanDeliver ==
    /\ run = "lsfs" /\ HasCommit /\ NextKind = "artifact"
    /\ ~Full(Key[1], CommitMessage(Key, scan + 1))
    /\ mem' = enqueueLocked(Key[1], CommitMessage(Key, scan + 1))
    /\ scan' = scan + 1 /\ batch' = batch - 1 /\ changed' = TRUE
    /\ UNCHANGED <<commits, disk, run, todo, at, clock, sends, mishaps>>

\* Mutant: the cursor moves past a commit that did not fit.
MutantScanned == IF HasCommit THEN scan + 1 ELSE scan

\* The cursor a binding's scan ends with.
Scanned == scan

\* Mutant: a mailbox that is full ends the pass for every binding.
MutantAfterBinding == IF HasCommit THEN Last + 1 ELSE at + 1

\* The pass goes on with this position.
AfterBinding == at + 1

\* The binding is done: no commit is left, or the mailbox is full.
ScanEnd ==
    /\ run = "lsfs" /\ at <= Last
    /\ HasCommit => NextKind = "artifact" /\ Full(Key[1], CommitMessage(Key, scan + 1))
    /\ mem' = IF mem.bindings[Key].enabled
                THEN [mem EXCEPT !.bindings[Key].cursor = Scanned] ELSE mem
    /\ StartBinding(AfterBinding)
    /\ UNCHANGED <<commits, disk, run, todo, changed, clock, sends, mishaps>>

LSFSEnd ==
    /\ run = "lsfs" /\ at > Last
    /\ IF changed THEN persistLocked(mem) ELSE UNCHANGED <<mem, disk>>
    /\ run' = "tick" /\ at' = 1 /\ changed' = FALSE
    /\ UNCHANGED <<commits, todo, scan, batch, clock, sends, mishaps>>

-----------------------------------------------------------------------------
(* Failures *)

Stopped ==
    /\ restoreLocked
    /\ run' = "down"
    /\ todo' = {} /\ at' = 1 /\ scan' = 0 /\ batch' = 0 /\ changed' = FALSE
    /\ Mishap
    /\ UNCHANGED <<commits, clock, sends>>

\* A pass cannot read or write: it is rolled back, Run returns the error and
\* the process ends.  A crash looks the same to the blob.
PassFails == run \in {"timers", "lsfs"} /\ Stopped

Crash == run = "tick" /\ Stopped

Passes == Load \/ Tick \/ (\E t \in TimerKey : TimerStep(t)) \/ TimersEnd
            \/ ScanTurn \/ ScanDeliver \/ ScanEnd \/ LSFSEnd

Next ==
    \/ \E t \in TimerKey, d \in Delays, i \in Intervals : AddTimer(t, d, i)
    \/ \E k \in BindKey, c \in 0..MaxCommits : AddLSFSBinding(k, c)
    \/ \E k \in BindKey, on \in BOOLEAN : SetLSFSBindingEnabled(k, on)
    \/ \E a \in App, kind \in {"artifact", "turn"} : Commit(a, kind)
    \/ \E a \in App : Send(a)
    \/ \E a \in App : Consume(a)
    \/ \E a \in App : RetireApplication(a)
    \/ TimePasses
    \/ Passes
    \/ PassFails \/ Crash

Spec == Init /\ [][Next]_vars

-----------------------------------------------------------------------------
(* Properties *)

\* The comment on WakeBinding: its scan cursor is persisted atomically with
\* mailbox deliveries.  On disk, the messages of a binding are exactly those of
\* the artifact commits between where it started and its cursor, each of them
\* once: none is skipped by a full mailbox, a failed pass, a disabled binding
\* or a crash, and none is delivered twice.
CursorMatchesMailbox ==
    /\ TypeOK
    /\ \A k \in BindKey : disk.bindings[k].exists =>
      \A c \in 1..MaxCommits :
        Cardinality({i \in 1..Len(disk.mail[k[1]]) :
                       disk.mail[k[1]][i].key = CommitMessage(k, c)})
          = IF disk.bindings[k].after < c /\ c <= disk.bindings[k].cursor
               /\ commits[k[1]][c] = "artifact"
            THEN 1 ELSE 0

\* A timer leaves the disk, or moves to its next due time, only together with
\* the message of the due time it had; a periodic timer that waited for room or
\* for a restart fires once and not in a burst.
TimerAccounted ==
    [][\A t \in TimerKey :
         disk.timers[t] # NoTimer /\ disk'.timers[t] # disk.timers[t] /\ t[1] \in disk.live =>
           /\ \E i \in 1..Len(disk'.mail[t[1]]) :
                disk'.mail[t[1]][i].key = TimerMessage(t, disk.timers[t].due)
           /\ disk'.timers[t] # NoTimer =>
                disk'.timers[t].due >= clock + disk.timers[t].interval]_vars

\* The key of an armed timer is fresh: enqueueLocked never takes its message
\* for one that was delivered before, also when a timer id is used again.
TimerKeyFresh ==
    \A t \in TimerKey : disk.timers[t] # NoTimer =>
      \A i \in 1..Len(disk.mail[t[1]]) :
        disk.mail[t[1]][i].key # TimerMessage(t, disk.timers[t].due)

\* The capacity limits hold for every source of messages together, in each
\* mailbox and over all of them.
MailboxBounded ==
    /\ \A a \in App : OpenCount(disk, a) <= AppCap
    /\ OpenTotal(disk) <= TotalCap

\* Run ticks for ever, and the last application works off its mailbox.
FairSpec == Spec /\ WF_vars(Passes) /\ SF_vars(Consume(NApps))

\* The last application's artifact commits are delivered although nobody
\* works off any other mailbox, as long as these cannot use up TotalCap: a
\* full mailbox ends the scan of its own bindings only.
OthersDoNotBlock ==
    \A c \in 1..MaxCommits :
      (/\ c <= Len(commits[NApps]) /\ commits[NApps][c] = "artifact"
       /\ disk.bindings[<<NApps, 1>>].enabled /\ disk.bindings[<<NApps, 1>>].after < c)
        ~> \/ ~disk.bindings[<<NApps, 1>>].enabled
           \/ \E i \in 1..Len(disk.mail[NApps]) :
                disk.mail[NApps][i].key = CommitMessage(<<NApps, 1>>, c)

=============================================================================
