----------------------------- MODULE KernelWake -----------------------------
(***************************************************************************)
(* Wake-ups through the kernel's application registry.  Each application   *)
(* has a durable queue of unacknowledged events in the kernel; it outlives *)
(* the supervisor process and is lost with the VM.  deliverLSFS posts      *)
(* artifact commits into it, kernel timers fire into it, deliverKernel     *)
(* moves its events into the mailbox, and a snapshot carries them across   *)
(* an orderly shutdown.                                                    *)
(*                                                                         *)
(* The supervisor's blob is kept twice: mem is what the process has in     *)
(* memory, disk what persistLocked last committed.  attachKernel,          *)
(* deliverLSFS and deliverKernel each hold the lock from start to end, so  *)
(* only the kernel, a crash and a reboot interleave with their steps.      *)
(***************************************************************************)
EXTENDS Integers, Sequences, FiniteSets

CONSTANTS
    NApps,        \* applications, in the order of their ids
    QueueDepth,   \* AOK_APP_QUEUE_DEPTH
    MailboxCap,   \* maxApplicationMailboxMessages
    MaxFires,     \* bound: expiries of each application's kernel timer
    MaxCommits,   \* bound: commits of each context
    MaxBoots,     \* bound: VM boots
    MaxStops,     \* bound: stop signals
    MaxMishaps    \* bound: crashes, failed writes and calls

ASSUME KernelWakeAssumption ==
    /\ NApps \in Nat \ {0}
    /\ QueueDepth \in Nat \ {0}
    /\ MailboxCap \in Nat \ {0}
    /\ MaxFires \in Nat /\ MaxCommits \in Nat
    /\ MaxStops \in Nat /\ MaxMishaps \in Nat
    /\ MaxBoots \in Nat \ {0}

VARIABLES
    boot,      \* /proc/sys/kernel/random/boot_id
    queue,     \* per application: unacknowledged events, oldest first
    lastId,    \* per application: the last event id issued in this boot
    merged,    \* per application: expiries waiting for a free node
    commits,   \* per application: the kinds of its context's commits
    mem,       \* the blob in memory
    disk,      \* the blob as last committed
    run,       \* where Run is; "down" when the process is
    at,        \* the application a pass is at
    scan,      \* the local copy of a binding's cursor
    changed,   \* deliverLSFS has something to persist
    saved,     \* attachKernel's copy of the snapshot it recovers
    event,     \* the event being delivered
    read,      \* per application: the handle's cursor, 0 without a handle
    fires,     \* history: expiries in this boot
    stops,     \* bound: stop signals so far
    mishaps

kernelVars == <<boot, queue, lastId, merged, fires>>
passVars   == <<at, scan, changed, saved, event, read>>
vars == <<kernelVars, commits, mem, disk, run, passVars, stops, mishaps>>

App == 1..NApps

\* data is the commit an LSFS event names, 0 for a timer; n is coalesced.
Event == [id : Nat, data : Nat, n : Nat]
NoEvent == [id |-> 0, data |-> 0, n |-> 0]

\* A record of KernelPending: an event, the boot of its queue, and the
\* process-local RecoveryPending.
Snapped(b, e, r) == [boot |-> b, event |-> e, recovering |-> r]

\* A mailbox message made from an event; open while pending or claimed.
Message(b, e) == [boot |-> b, event |-> e, open |-> TRUE]

SeqRange(s) == {s[i] : i \in 1..Len(s)}

TypeOK ==
    /\ boot \in 1..MaxBoots
    /\ queue \in [App -> Seq(Event)]
    /\ lastId \in [App -> Nat] /\ merged \in [App -> Nat] /\ read \in [App -> Nat]
    /\ commits \in [App -> Seq({"artifact", "turn"})]
    /\ \A blob \in {mem, disk} :
         /\ blob.live \in SUBSET App
         /\ blob.cursor \in [App -> 0..MaxCommits]
         /\ DOMAIN blob.mail = App /\ DOMAIN blob.pending = App
    /\ run \in {"down", "attach", "recover", "restore", "tick", "lsfs", "posted",
                "drain", "replay", "read", "ack", "clean", "stopped"}
    /\ at \in App
    /\ scan \in 0..MaxCommits
    /\ event \in Event
    /\ stops \in 0..MaxStops /\ mishaps \in 0..MaxMishaps

Init ==
    /\ boot = 1
    /\ queue = [a \in App |-> <<>>]
    /\ lastId = [a \in App |-> 0]
    /\ merged = [a \in App |-> 0]
    /\ fires = [a \in App |-> 0]
    /\ commits = [a \in App |-> <<>>]
    /\ disk = [live |-> App,
               mail |-> [a \in App |-> <<>>],
               pending |-> [a \in App |-> <<>>],
               cursor |-> [a \in App |-> 0]]
    /\ mem = disk
    /\ run = "down"
    /\ at = 1 /\ scan = 0 /\ changed = FALSE
    /\ saved = <<>> /\ event = NoEvent
    /\ read = [a \in App |-> 0]
    /\ stops = 0 /\ mishaps = 0

Mishap == mishaps < MaxMishaps /\ mishaps' = mishaps + 1

-----------------------------------------------------------------------------
(* The blob *)

\* RecoveryPending is not written.
Durable(blob) ==
    [blob EXCEPT !.pending = [a \in App |->
       [i \in 1..Len(@[a]) |-> [@[a][i] EXCEPT !.recovering = FALSE]]]]

persistLocked(blob) == mem' = blob /\ disk' = Durable(blob)

restoreLocked == mem' = disk /\ UNCHANGED disk

markKernelRecoveryPending(blob, a) ==
    [blob EXCEPT !.pending[a] = [i \in 1..Len(@) |-> [@[i] EXCEPT !.recovering = TRUE]]]

-----------------------------------------------------------------------------
(* The mailbox *)

\* Mutant: the key names the event without its boot.
MutantKernelMessageKey(b, e) == <<0, e.id>>

kernelMessageKey(b, e) == <<b, e.id>>

Keys(blob, a) ==
    {kernelMessageKey(m.boot, m.event) : m \in SeqRange(blob.mail[a])}

\* enqueueLocked returns ErrMailboxFull: the key is new and nothing fits.
Full(a, b, e) ==
    /\ kernelMessageKey(b, e) \notin Keys(mem, a)
    /\ Cardinality({i \in 1..Len(mem.mail[a]) : mem.mail[a][i].open}) >= MailboxCap

\* enqueueLocked otherwise: a known key is answered from the mailbox.
enqueueLocked(a, b, e) ==
    IF kernelMessageKey(b, e) \in Keys(mem, a) THEN mem
    ELSE [mem EXCEPT !.mail[a] = Append(@, Message(b, e))]

-----------------------------------------------------------------------------
(* The registry *)

\* aok_app_fire_locked with a free node.
Fired(a, data) ==
    /\ queue' = [queue EXCEPT ![a] = Append(@, [id |-> lastId[a] + 1, data |-> data, n |-> 1])]
    /\ lastId' = [lastId EXCEPT ![a] = @ + 1]

\* A kernel timer attached to the application expires; a full queue counts
\* the expiry and fires it with the next acknowledgement.
TimerFires(a) ==
    /\ fires[a] < MaxFires
    /\ fires' = [fires EXCEPT ![a] = @ + 1]
    /\ \/ /\ Len(queue[a]) < QueueDepth
          /\ Fired(a, 0)
          /\ UNCHANGED merged
       \/ /\ Len(queue[a]) >= QueueDepth
          /\ merged' = [merged EXCEPT ![a] = @ + 1]
          /\ UNCHANGED <<queue, lastId>>
    /\ UNCHANGED <<boot, commits, mem, disk, run, passVars, stops, mishaps>>

\* Mutant: the event that stands for merged expiries counts as one.
MutantFlush(a, q) ==
    IF merged[a] = 0 \/ Len(q) >= QueueDepth THEN q
    ELSE Append(q, [id |-> lastId[a] + 1, data |-> 0, n |-> 1])

\* aok_app_flush_locked: one event for all merged expiries.
Flush(a, q) ==
    IF merged[a] = 0 \/ Len(q) >= QueueDepth THEN q
    ELSE Append(q, [id |-> lastId[a] + 1, data |-> 0, n |-> merged[a]])

\* aok_app_ack_locked and the flush that follows it.
Acked(a, id) ==
    LET rest == SelectSeq(queue[a], LAMBDA e : e.id # id)
        freed == Len(rest) < Len(queue[a]) IN
    /\ queue' = [queue EXCEPT ![a] = IF freed THEN Flush(a, rest) ELSE rest]
    /\ IF freed /\ merged[a] > 0
         THEN lastId' = [lastId EXCEPT ![a] = @ + 1] /\ merged' = [merged EXCEPT ![a] = 0]
         ELSE UNCHANGED <<lastId, merged>>

\* aok_application_restore into an empty queue; EBUSY otherwise.
Restored(a, events) ==
    IF queue[a] # <<>> \/ merged[a] # 0 THEN UNCHANGED <<queue, lastId>>
    ELSE /\ queue' = [queue EXCEPT ![a] = events]
         /\ lastId' = [lastId EXCEPT ![a] =
              IF events[Len(events)].id > @ THEN events[Len(events)].id ELSE @]

-----------------------------------------------------------------------------
(* Passes over the applications *)

\* The pass goes on with the next application, or is over.
NextApp(phase, over) ==
    IF at < NApps THEN at' = at + 1 /\ run' = phase
                  ELSE at' = 1 /\ run' = over

-----------------------------------------------------------------------------
(* attachKernel and deliverPersistedKernelLocked *)

\* NewSupervisor and the start of Run.
Load ==
    /\ run = "down"
    /\ run' = "attach" /\ at' = 1
    /\ mem' = disk
    /\ UNCHANGED <<kernelVars, commits, disk, scan, changed, saved, event, read,
                   stops, mishaps>>

AttachApp ==
    /\ run = "attach"
    /\ \/ /\ at \in mem.live /\ mem.pending[at] # <<>>
          /\ saved' = mem.pending[at]
          /\ mem' = markKernelRecoveryPending(mem, at)
          /\ run' = "recover"
          /\ UNCHANGED at
       \/ /\ at \notin mem.live \/ mem.pending[at] = <<>>
          /\ NextApp("attach", "tick")
          /\ UNCHANGED <<saved, mem>>
    /\ UNCHANGED <<kernelVars, commits, disk, scan, changed, event, read, stops, mishaps>>

\* Where the recovery of an application's snapshot leaves Run.
Recovered ==
    \/ /\ run = "recover"
       /\ \E i \in 1..Len(saved) : saved[i].boot # boot
       /\ NextApp("attach", "tick")
    \/ /\ run = "recover"
       /\ \A i \in 1..Len(saved) : saved[i].boot = boot
       /\ run' = "restore"
       /\ UNCHANGED at
    \/ /\ run = "replay"
       /\ run' = "read"
       /\ UNCHANGED at

\* The oldest record of the snapshot moves into the mailbox, in one write.
DeliverPersisted ==
    LET s == mem.pending[at][1]
        blob == [enqueueLocked(at, s.boot, s.event) EXCEPT !.pending[at] = Tail(@)]
    IN
    /\ run \in {"recover", "replay"}
    /\ ~Full(at, s.boot, s.event)
    /\ persistLocked(blob)
    /\ IF blob.pending[at] = <<>> THEN Recovered ELSE UNCHANGED <<run, at>>
    /\ UNCHANGED <<kernelVars, commits, scan, changed, saved, event, read, stops, mishaps>>

\* A full mailbox leaves the rest for a later tick.
PersistedFull ==
    /\ run \in {"recover", "replay"}
    /\ Full(at, mem.pending[at][1].boot, mem.pending[at][1].event)
    /\ IF run = "recover" THEN NextApp("attach", "tick") ELSE NextApp("drain", "tick")
    /\ UNCHANGED <<kernelVars, commits, mem, disk, scan, changed, saved, event, read,
                   stops, mishaps>>

\* The write fails: what is restored is marked again, so that the snapshot
\* taken at shutdown leaves it alone.
PersistedFails ==
    /\ run \in {"recover", "replay"}
    /\ mem' = markKernelRecoveryPending(disk, at)
    /\ run' = "stopped" /\ Mishap
    /\ UNCHANGED <<kernelVars, commits, disk, passVars, stops>>

\* A snapshot of this boot goes back into a queue that is empty.
RestoreQueue ==
    /\ run = "restore"
    /\ Restored(at, [i \in 1..Len(saved) |-> saved[i].event])
    /\ NextApp("attach", "tick")
    /\ saved' = <<>>
    /\ UNCHANGED <<boot, merged, fires, commits, mem, disk, scan, changed, event, read,
                   stops, mishaps>>

\* No boot id, no handle, or Restore is refused.
AttachFails ==
    /\ run \in {"attach", "restore"}
    /\ run' = "stopped" /\ Mishap
    /\ UNCHANGED <<kernelVars, commits, mem, disk, passVars, stops>>

-----------------------------------------------------------------------------
(* deliverLSFS with a bridge *)

Tick ==
    /\ run = "tick"
    /\ run' = "lsfs" /\ at' = 1
    /\ scan' = mem.cursor[1] /\ changed' = FALSE
    /\ UNCHANGED <<kernelVars, commits, mem, disk, saved, event, read, stops, mishaps>>

\* Mutant: a commit of the runner ends the scan instead of being passed over.
MutantHasCommit ==
    /\ at \in mem.live /\ scan < Len(commits[at])
    /\ commits[at][scan + 1] = "artifact"

\* The binding has a commit after its cursor.
HasCommit == at \in mem.live /\ scan < Len(commits[at])

\* Commits of the runner are passed over.
ScanTurn ==
    /\ run = "lsfs" /\ HasCommit
    /\ commits[at][scan + 1] = "turn"
    /\ scan' = scan + 1 /\ changed' = TRUE
    /\ UNCHANGED <<kernelVars, commits, mem, disk, run, at, saved, event, read, stops, mishaps>>

ScanPost ==
    /\ run = "lsfs" /\ HasCommit
    /\ commits[at][scan + 1] = "artifact"
    /\ Len(queue[at]) < QueueDepth
    /\ Fired(at, scan + 1)
    /\ scan' = scan + 1
    /\ run' = "posted"
    /\ UNCHANGED <<boot, merged, fires, commits, mem, disk, at, changed, saved, event,
                   read, stops, mishaps>>

\* The write that follows a post; the cursor it is for is still the local one.
PostPersist ==
    /\ run = "posted"
    /\ persistLocked(mem)
    /\ run' = "lsfs"
    /\ UNCHANGED <<kernelVars, commits, passVars, stops, mishaps>>

\* The cursor a binding's scan ends with.
Scanned == scan

\* The binding is done: no commit is left, or the queue is full.
ScanOver == HasCommit => commits[at][scan + 1] = "artifact" /\ Len(queue[at]) >= QueueDepth

ScanEnd ==
    LET blob == [mem EXCEPT !.cursor[at] = IF at \in mem.live THEN Scanned ELSE @] IN
    /\ run = "lsfs"
    /\ ScanOver
    /\ NextApp("lsfs", "drain")
    /\ scan' = blob.cursor[at']
    /\ IF at = NApps /\ changed THEN persistLocked(blob)
                                ELSE mem' = blob /\ UNCHANGED disk
    /\ UNCHANGED <<kernelVars, commits, changed, saved, event, read, stops, mishaps>>

\* The read of a binding's commits fails, a post, the write that follows it, or
\* the write at the end of the pass.
ScanFails ==
    /\ \/ run = "lsfs" /\ at \in mem.live /\ scan = mem.cursor[at]
       \/ run = "lsfs" /\ HasCommit /\ commits[at][scan + 1] = "artifact"
       \/ run = "posted"
       \/ run = "lsfs" /\ ScanOver /\ at = NApps /\ changed
    /\ restoreLocked
    /\ run' = "stopped" /\ Mishap
    /\ UNCHANGED <<kernelVars, commits, passVars, stops>>

-----------------------------------------------------------------------------
(* deliverKernel *)

DrainApp ==
    /\ run = "drain"
    /\ \/ /\ at \in mem.live /\ mem.pending[at] # <<>>
          /\ mem' = markKernelRecoveryPending(mem, at)
          /\ run' = "replay"
          /\ UNCHANGED at
       \/ /\ at \in mem.live /\ mem.pending[at] = <<>>
          /\ run' = "read"
          /\ UNCHANGED <<mem, at>>
       \/ /\ at \notin mem.live
          /\ NextApp("drain", "tick")
          /\ UNCHANGED mem
    /\ UNCHANGED <<kernelVars, commits, disk, scan, changed, saved, event, read, stops, mishaps>>

Unread(a) == SelectSeq(queue[a], LAMBDA e : e.id > read[a])

\* Mutant: the event is acknowledged before the mailbox is durable.
MutantDrainPersist(blob) == mem' = blob /\ UNCHANGED disk

\* The event is in the mailbox and in KernelPending before it is acknowledged.
DrainPersist(blob) == persistLocked(blob)

\* The records of KernelPending that are not about this event.
Kept(a, e) == SelectSeq(mem.pending[a], LAMBDA s : s.boot # boot \/ s.event.id # e.id)

DrainRead ==
    LET e == Unread(at)[1] IN
    /\ run = "read" /\ Unread(at) # <<>>
    /\ ~Full(at, boot, e)
    /\ DrainPersist([enqueueLocked(at, boot, e) EXCEPT
                       !.pending[at] = Append(Kept(at, e), Snapped(boot, e, FALSE))])
    /\ read' = [read EXCEPT ![at] = e.id]
    /\ event' = e
    /\ run' = "ack"
    /\ UNCHANGED <<kernelVars, commits, at, scan, changed, saved, stops, mishaps>>

DrainAck ==
    /\ run = "ack"
    /\ Acked(at, event.id)
    /\ mem' = [mem EXCEPT !.pending[at] = Kept(at, event)]
    /\ run' = "clean"
    /\ UNCHANGED <<boot, fires, commits, disk, passVars, stops, mishaps>>

DrainClean ==
    /\ run = "clean"
    /\ persistLocked(mem)
    /\ run' = "read"
    /\ UNCHANGED <<kernelVars, commits, passVars, stops, mishaps>>

DrainEmpty ==
    /\ run = "read" /\ Unread(at) = <<>>
    /\ NextApp("drain", "tick")
    /\ UNCHANGED <<kernelVars, commits, mem, disk, scan, changed, saved, event, read,
                   stops, mishaps>>

\* Mutant: the handle keeps its cursor past the event that did not fit.
MutantReopen(a, e) == read' = [read EXCEPT ![a] = e.id]

\* The handle is dropped: the next one starts with the oldest event again.
Reopen(a, e) == read' = [read EXCEPT ![a] = 0]

\* A full mailbox ends the drain, for every application.
DrainFull ==
    LET e == Unread(at)[1] IN
    /\ run = "read" /\ Unread(at) # <<>>
    /\ Full(at, boot, e)
    /\ Reopen(at, e)
    /\ run' = "tick" /\ at' = 1
    /\ UNCHANGED <<kernelVars, commits, mem, disk, scan, changed, saved, event, stops, mishaps>>

\* A read, a write or an acknowledgement fails.
DrainFails ==
    /\ run \in {"drain", "read", "ack", "clean"}
    /\ \/ run \in {"drain", "read", "ack"} /\ UNCHANGED <<mem, disk>>
       \/ run \in {"read", "clean"} /\ restoreLocked
    /\ run' = "stopped" /\ Mishap
    /\ read' = IF run = "clean" THEN read ELSE [read EXCEPT ![at] = 0]
    /\ UNCHANGED <<kernelVars, commits, at, scan, changed, saved, event, stops>>

-----------------------------------------------------------------------------
(* Other handlers, shutdown, crash and reboot *)

\* The lock is free; workers finish their turns after Run has stopped, too.
Free == run \in {"tick", "stopped"} \/ (run \in {"attach", "drain"} /\ at = 1)

\* A commit of the application's context, by an import or by the runner.
Commit(a, kind) ==
    /\ Free /\ Len(commits[a]) < MaxCommits /\ a \in mem.live
    /\ commits' = [commits EXCEPT ![a] = Append(@, kind)]
    /\ persistLocked(mem)
    /\ UNCHANGED <<kernelVars, run, passVars, stops, mishaps>>

\* The oldest open message is executed and acknowledged.
Consume(a) ==
    /\ Free
    /\ \E i \in 1..Len(mem.mail[a]) :
         /\ mem.mail[a][i].open /\ \A j \in 1..(i - 1) : ~mem.mail[a][j].open
         /\ persistLocked([mem EXCEPT !.mail[a][i].open = FALSE])
    /\ UNCHANGED <<kernelVars, commits, run, passVars, stops, mishaps>>

\* Some handler cannot persist what it changed.
HandlerFails ==
    /\ Free
    /\ restoreLocked
    /\ Mishap
    /\ UNCHANGED <<kernelVars, commits, run, passVars, stops>>

RetireApplication(a) ==
    /\ Free /\ a \in mem.live
    /\ persistLocked([mem EXCEPT !.live = @ \ {a}, !.pending[a] = <<>>,
                        !.mail[a] = [i \in 1..Len(@) |-> [@[i] EXCEPT !.open = FALSE]]])
    /\ read' = [read EXCEPT ![a] = 0]
    /\ UNCHANGED <<kernelVars, commits, run, at, scan, changed, saved, event, stops, mishaps>>

StopSignal ==
    /\ run = "tick" /\ stops < MaxStops
    /\ run' = "stopped" /\ stops' = stops + 1
    /\ UNCHANGED <<kernelVars, commits, mem, disk, passVars, mishaps>>

\* Mutant: the snapshot replaces whatever is pending.
MutantProtected(a) == FALSE

\* Recovery still owns the persisted snapshot.
Protected(a) ==
    \E i \in 1..Len(mem.pending[a]) :
      mem.pending[a][i].recovering \/ mem.pending[a][i].boot # boot

\* snapshotKernel: the unacknowledged events of every queue.
Snapshot(a) == [i \in 1..Len(queue[a]) |-> Snapped(boot, queue[a][i], FALSE)]

\* Close takes the snapshot and ends the process; all of it is best effort: a
\* queue that cannot be read is left out, a failed write leaves out all, and
\* nothing is written when no queue and no snapshot holds anything.
Close ==
    /\ run = "stopped"
    /\ \E failed \in SUBSET mem.live :
         LET captured == {a \in mem.live \ failed : ~Protected(a)} IN
         /\ IF failed = {} THEN UNCHANGED mishaps ELSE Mishap
         /\ \/ disk' = Durable([mem EXCEPT !.pending = [a \in App |->
                            IF a \in captured THEN Snapshot(a) ELSE @[a]]])
            \/ /\ failed = mem.live \/ \A a \in captured : queue[a] \o mem.pending[a] = <<>>
               /\ UNCHANGED disk
    /\ mem' = disk'
    /\ run' = "down"
    /\ at' = 1 /\ scan' = 0 /\ changed' = FALSE /\ saved' = <<>> /\ event' = NoEvent
    /\ read' = [a \in App |-> 0]
    /\ UNCHANGED <<kernelVars, commits, stops>>

Crash ==
    /\ run # "down"
    /\ mem' = disk
    /\ run' = "down"
    /\ at' = 1 /\ scan' = 0 /\ changed' = FALSE /\ saved' = <<>> /\ event' = NoEvent
    /\ read' = [a \in App |-> 0]
    /\ Mishap
    /\ UNCHANGED <<kernelVars, commits, disk, stops>>

\* The VM boots again: the registry starts empty.
Reboot ==
    /\ run = "down" /\ boot < MaxBoots
    /\ boot' = boot + 1
    /\ queue' = [a \in App |-> <<>>]
    /\ lastId' = [a \in App |-> 0]
    /\ merged' = [a \in App |-> 0]
    /\ fires' = [a \in App |-> 0]
    /\ UNCHANGED <<commits, mem, disk, run, passVars, stops, mishaps>>

-----------------------------------------------------------------------------
Attaching == Load \/ AttachApp \/ DeliverPersisted \/ PersistedFull \/ RestoreQueue
Scanning  == Tick \/ ScanTurn \/ ScanPost \/ PostPersist \/ ScanEnd
Draining  == DrainApp \/ DrainRead \/ DrainAck \/ DrainClean \/ DrainEmpty \/ DrainFull
Failing   == AttachFails \/ PersistedFails \/ ScanFails \/ DrainFails \/ HandlerFails

Next ==
    \/ \E a \in App : TimerFires(a)
    \/ \E a \in App, kind \in {"artifact", "turn"} : Commit(a, kind)
    \/ \E a \in App : Consume(a)
    \/ \E a \in App : RetireApplication(a)
    \/ Attaching \/ Scanning \/ Draining \/ Failing
    \/ StopSignal \/ Close \/ Crash \/ Reboot

Spec == Init /\ [][Next]_vars

\* The supervisor is restarted, a tick runs to its end and is followed by
\* another, and the runner works off the mailbox.  Applications may consume
\* only between ticks, which is what the strong fairness is for.
FairSpec ==
    /\ Spec
    /\ WF_vars(Attaching) /\ WF_vars(Scanning) /\ WF_vars(Draining) /\ WF_vars(Close)
    /\ \A a \in App : SF_vars(Consume(a))

-----------------------------------------------------------------------------
(* Properties *)

Delivered(blob, a, b, id) == \E m \in SeqRange(blob.mail[a]) : m.boot = b /\ m.event.id = id
Pending(blob, a, b, id) == \E s \in SeqRange(blob.pending[a]) : s.boot = b /\ s.event.id = id
Queued(a, id) == \E e \in SeqRange(queue[a]) : e.id = id

\* deliverKernel acknowledges an event only after its message is durable: as
\* long as the VM runs, every event the registry issued is still in the queue
\* or in the committed mailbox, whatever failed or crashed in between.
NoEventLost ==
    /\ TypeOK
    /\ \A a \in App, id \in 1..MaxFires + MaxCommits :
      id <= lastId[a] => Queued(a, id) \/ Delivered(disk, a, boot, id) \/ a \notin disk.live

\* A snapshot that reached the disk stays there until its events are in the
\* mailbox: neither a failed recovery nor the next shutdown's snapshot, which
\* sees an unrelated queue after a reboot, overwrites it.
CapturedNotDropped ==
    [][\A a \in disk'.live : \A s \in SeqRange(disk.pending[a]) :
         \/ Pending(disk', a, s.boot, s.event.id)
         \/ Delivered(disk', a, s.boot, s.event.id)]_vars

\* A mailbox key names one event: nothing that is still to be delivered meets
\* a message with its key and another payload, which enqueueLocked would
\* refuse with ErrDuplicateMessage on every later tick.
KeyNamesOneEvent ==
    \A a \in App : \A m \in SeqRange(mem.mail[a]) :
      /\ \A e \in SeqRange(queue[a]) :
           kernelMessageKey(boot, e) = kernelMessageKey(m.boot, m.event) => e = m.event
      /\ \A s \in SeqRange(mem.pending[a]) :
           kernelMessageKey(s.boot, s.event) = kernelMessageKey(m.boot, m.event)
             => s.event = m.event

\* Events of one boot enter the mailbox in the order the registry issued
\* them, through full mailboxes, snapshots, restores and replays.
InOrder ==
    \A a \in App : \A i, j \in 1..Len(mem.mail[a]) :
      i < j /\ mem.mail[a][i].boot = mem.mail[a][j].boot
        => mem.mail[a][i].event.id < mem.mail[a][j].event.id

\* An artifact commit ends up in the mailbox, unless the application retires or
\* the guest reboots: the kernel's queue does not survive a reboot.
EventuallyWoken ==
    \A a \in App, c \in 1..MaxCommits :
      (c <= Len(commits[a]) /\ commits[a][c] = "artifact")
        ~> \/ a \notin mem.live \/ boot > 1
           \/ \E m \in SeqRange(mem.mail[a]) : m.event.data = c

-----------------------------------------------------------------------------
(* What the comments say and the code does not do *)

\* The comment in deliverLSFS: "the cursor must be durable before the scan
\* continues; otherwise a later rollback in this pass would re-post the same
\* commit".  A rollback leaves the cursor past every commit of the binding
\* that this pass has posted and gone on from.
RollbackKeepsPosts ==
    [][run = "lsfs" /\ run' = "stopped" =>
         \A c \in (mem.cursor[at] + 1)..scan :
           commits[at][c] = "artifact" => c <= disk'.cursor[at]]_vars

=============================================================================
