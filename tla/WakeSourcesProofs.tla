------------------------- MODULE WakeSourcesProofs -------------------------
(***************************************************************************)
(* Deliveries of timers and LSFS bindings, for any number of applications, *)
(* timers, bindings and commits and for any capacities: the cursor on disk *)
(* matches the messages, and a timer moves only with its message.          *)
(***************************************************************************)
EXTENDS WakeSources, TLAPS

\* Most steps rearrange first-order facts; the few that compute cite SMT.
USE ZenonT(30)

----------------------------------------------------------------------------
(* Shapes.                                                                 *)

MsgKey  == ({"timer", "lsfs"} \X Nat \X Nat) \cup ({"client"} \X Nat)
Msg     == [key : MsgKey, open : BOOLEAN]
Timer   == [due : Nat, interval : Nat]
Binding == [cursor : 0..MaxCommits, after : 0..MaxCommits, enabled : BOOLEAN, exists : BOOLEAN]
Blob    == [live : SUBSET App, mail : [App -> Seq(Msg)],
            bindings : [BindKey -> Binding], timers : [TimerKey -> Timer]]

Shapes ==
    /\ mem \in Blob /\ disk \in Blob
    /\ commits \in [App -> Seq({"artifact", "turn"})]
    /\ \A a \in App : Len(commits[a]) <= MaxCommits
    /\ run \in {"down", "tick", "timers", "lsfs"}
    /\ todo \in SUBSET TimerKey /\ at \in 1..(Last + 1)
    /\ scan \in 0..MaxCommits /\ batch \in 0..ScanBatch /\ changed \in BOOLEAN
    /\ clock \in 0..MaxTime /\ sends \in 0..MaxSends /\ mishaps \in 0..MaxMishaps

----------------------------------------------------------------------------
(* What a mailbox m tells: which keys it has, each of them once.           *)

KeysOf(m) == {m[i].key : i \in 1..Len(m)}
Unique(m) == \A i, j \in 1..Len(m) : m[i].key = m[j].key => i = j

\* The timer messages in a blob are of the past, and no armed timer has one.
TimersOK(B, now) ==
    /\ \A a \in App : \A x \in KeysOf(B.mail[a]) : x[1] = "timer" => x[3] <= now
    /\ \A t \in TimerKey : B.timers[t] # NoTimer =>
         TimerMessage(t, B.timers[t].due) \notin KeysOf(B.mail[t[1]])

\* A binding b with key k and cursor c, on a context with commits C, and the
\* keys K of its application's mailbox.
BoundTo(b, K, C, k, c) ==
    /\ b.enabled => b.exists
    /\ c \in 0..MaxCommits
    /\ b.exists => b.after <= c /\ (c <= b.after \/ c <= Len(C))
    /\ \A n \in 1..MaxCommits :
         CommitMessage(k, n) \in K
           <=> b.exists /\ b.after < n /\ n <= c /\ C[n] = "artifact"

Bound(B, k, c) == BoundTo(B.bindings[k], KeysOf(B.mail[k[1]]), commits[k[1]], k, c)

\* deliverLSFS has its cursor in a local variable while it is at a binding.
Scanning(k)  == run = "lsfs" /\ at <= Last /\ k = Key
CursorOf(k) == IF Scanning(k) THEN scan ELSE mem.bindings[k].cursor

BindingsInv ==
    /\ \A k \in BindKey : Bound(mem, k, CursorOf(k)) /\ Bound(disk, k, disk.bindings[k].cursor)
    /\ \A k \in BindKey : Scanning(k) /\ ~mem.bindings[k].enabled => scan = mem.bindings[k].cursor

TimersInv ==
    /\ \A a \in App : Unique(mem.mail[a]) /\ Unique(disk.mail[a])
    /\ TimersOK(mem, clock) /\ TimersOK(disk, clock)

\* What deliverTimers has staged for timer t and not yet written.
Moved(t) ==
    /\ t \notin todo
    /\ t[1] \in disk.live =>
         /\ TimerMessage(t, disk.timers[t].due) \in KeysOf(mem.mail[t[1]])
         /\ mem.timers[t] # NoTimer => mem.timers[t].due >= clock + disk.timers[t].interval

StagedInv ==
    /\ run # "down" => mem.live = disk.live
    /\ run \in {"tick", "lsfs"} \/ (run = "timers" /\ ~changed) => mem.timers = disk.timers
    /\ run = "timers" => \A t \in TimerKey : mem.timers[t] = disk.timers[t] \/ Moved(t)

WakeInv == Shapes /\ TimersInv /\ BindingsInv /\ StagedInv

----------------------------------------------------------------------------
(* Keys and positions.                                                     *)

LEMMA AppFacts ==
    /\ \A t \in TimerKey : t[1] \in App /\ t[2] \in Nat
    /\ \A k \in BindKey : k[1] \in App /\ k[2] \in Nat
    /\ \A t, u \in TimerKey : t[1] = u[1] /\ t[2] = u[2] => t = u
    /\ \A k, l \in BindKey : k[1] = l[1] /\ k[2] = l[2] => k = l
  BY WakeSourcesAssumption, SMT DEF App, TimerKey, BindKey

LEMMA MessageFacts ==
    /\ \A t \in TimerKey, d \in Nat :
         LET x == TimerMessage(t, d) IN x \in MsgKey /\ x[1] = "timer" /\ x[2] = t[2] /\ x[3] = d
    /\ \A k \in BindKey, c \in Nat :
         LET x == CommitMessage(k, c) IN x \in MsgKey /\ x[1] = "lsfs" /\ x[2] = k[2] /\ x[3] = c
    /\ \A n \in Nat : ClientMessage(n) \in MsgKey /\ ClientMessage(n)[1] = "client"
  BY AppFacts DEF TimerMessage, CommitMessage, ClientMessage, MsgKey

\* Every position up to the last one is that of a binding.
LEMMA PositionFacts ==
    /\ Last \in Nat
    /\ \A p \in 1..Last : BindingAt(p) \in BindKey /\ Position(BindingAt(p)) = p
<1>1. Last \in Nat
  BY WakeSourcesAssumption, SMT DEF Last
<1>2. ASSUME NEW p \in 1..Last
      PROVE  \E k \in BindKey : Position(k) = p
  <2>1. NBindings \in Nat \ {0} /\ NApps \in Nat /\ p \in Nat /\ p - 1 \in Nat
        /\ p - 1 < NApps * NBindings
    BY <1>1, WakeSourcesAssumption, SMT DEF Last
  <2> DEFINE q == (p - 1) \div NBindings
             r == (p - 1) % NBindings
  <2>2. /\ q \in Int /\ r \in 0..(NBindings - 1) /\ p - 1 = NBindings * q + r
    BY <2>1, SMT
  <2> HIDE DEF q, r
  <2>3. q >= 0
    <3> SUFFICES ASSUME q <= -1 PROVE FALSE
      BY <2>2, SMT
    <3>1. NBindings * q <= NBindings * (-1)
      BY <2>1, <2>2, SMT
    <3> QED BY <2>1, <2>2, <3>1, SMT
  <2>4. q < NApps
    <3> SUFFICES ASSUME q >= NApps PROVE FALSE
      BY <2>1, <2>2, SMT
    <3>1. NBindings * q >= NBindings * NApps
      BY <2>1, <2>2, <2>3, SMT
    <3> QED BY <2>1, <2>2, <3>1, SMT
  <2>5. <<q + 1, r + 1>> \in BindKey
    BY <2>1, <2>2, <2>3, <2>4, SMT DEF BindKey, App
  <2>6. Position(<<q + 1, r + 1>>) = p
    BY <2>1, <2>2, <2>3, SMT DEF Position
  <2> QED BY <2>5, <2>6
<1>3. \A p \in 1..Last : BindingAt(p) \in BindKey /\ Position(BindingAt(p)) = p
  BY <1>2 DEF BindingAt
<1> QED BY <1>1, <1>3

----------------------------------------------------------------------------
(* Mailboxes.                                                              *)

LEMMA SameKeys ==
    ASSUME NEW m \in Seq(Msg), NEW n \in Seq(Msg), Len(n) = Len(m),
           \A i \in 1..Len(m) : n[i].key = m[i].key
    PROVE  KeysOf(n) = KeysOf(m) /\ (Unique(m) => Unique(n))
  BY DEF KeysOf, Unique

LEMMA AddedKey ==
    ASSUME NEW m \in Seq(Msg), NEW x \in Msg, Unique(m), x.key \notin KeysOf(m)
    PROVE  /\ Append(m, x) \in Seq(Msg) /\ Unique(Append(m, x))
           /\ KeysOf(Append(m, x)) = KeysOf(m) \cup {x.key}
<1> DEFINE n == Append(m, x)
<1>1. /\ n \in Seq(Msg) /\ Len(m) \in Nat /\ Len(n) = Len(m) + 1 /\ n[Len(m) + 1] = x
      /\ \A i \in 1..Len(m) : n[i] = m[i]
      /\ \A i \in 1..Len(n) : i \in 1..Len(m) \/ i = Len(m) + 1
      /\ 1..Len(m) \subseteq 1..Len(n) /\ Len(m) + 1 \in 1..Len(n)
  BY SMT
<1> HIDE DEF n
<1>2. Unique(n)
  BY <1>1, SMT DEF Unique, KeysOf
<1>3. KeysOf(n) = KeysOf(m) \cup {x.key}
  BY <1>1 DEF KeysOf
<1> QED BY <1>1, <1>2, <1>3 DEF n

LEMMA BlobFields ==
    ASSUME NEW B \in Blob
    PROVE  /\ B.live \in SUBSET App /\ B.mail \in [App -> Seq(Msg)]
           /\ B.bindings \in [BindKey -> Binding] /\ B.timers \in [TimerKey -> Timer]
  BY DEF Blob

\* enqueueLocked adds the key, and nothing if it is there.
LEMMA EnqueueFacts ==
    ASSUME mem \in Blob, NEW a \in App, NEW x \in MsgKey, \A b \in App : Unique(mem.mail[b]),
           NEW C, C = enqueueLocked(a, x)
    PROVE  /\ C \in Blob /\ C.live = mem.live
           /\ C.bindings = mem.bindings /\ C.timers = mem.timers
           /\ \A b \in App : Unique(C.mail[b])
           /\ KeysOf(C.mail[a]) = KeysOf(mem.mail[a]) \cup {x}
           /\ \A b \in App \ {a} : C.mail[b] = mem.mail[b]
<1>1. CASE x \in Keys(a)
  <2>1. C = mem
    BY <1>1 DEF enqueueLocked
  <2>2. x \in KeysOf(mem.mail[a])
    BY <1>1 DEF KeysOf, Keys
  <2> QED BY <2>1, <2>2
<1>2. CASE x \notin Keys(a)
  <2> DEFINE y == [key |-> x, open |-> TRUE]
             n == Append(mem.mail[a], y)
             f == [mem.mail EXCEPT ![a] = n]
  <2>1. y \in Msg /\ y.key = x
    BY DEF Msg
  <2>2. x \notin KeysOf(mem.mail[a])
    BY <1>2 DEF KeysOf, Keys
  <2>3. mem.mail \in [App -> Seq(Msg)] /\ mem.mail[a] \in Seq(Msg)
    BY BlobFields
  <2>4. n \in Seq(Msg) /\ Unique(n) /\ KeysOf(n) = KeysOf(mem.mail[a]) \cup {x}
    <3> HIDE DEF y
    <3> QED BY <2>1, <2>2, <2>3, AddedKey
  <2>5. C = [mem EXCEPT !.mail = f]
    BY <1>2 DEF enqueueLocked
  <2> HIDE DEF n
  <2>6. f \in [App -> Seq(Msg)] /\ f[a] = n /\ \A b \in App \ {a} : f[b] = mem.mail[b]
    BY <2>3, <2>4
  <2> HIDE DEF f
  <2>7. /\ C \in Blob /\ C.mail = f /\ C.live = mem.live
        /\ C.bindings = mem.bindings /\ C.timers = mem.timers
    BY <2>5, <2>6 DEF Blob
  <2> QED BY <2>4, <2>6, <2>7
<1> QED BY <1>1, <1>2

----------------------------------------------------------------------------
(* Control handlers: the blob is changed and written in one step.          *)

\* Blob C is fit to be written while the commits are as they are.
Fit(C) ==
    /\ C \in Blob /\ \A a \in App : Unique(C.mail[a])
    /\ TimersOK(C, clock)
    /\ \A k \in BindKey : Bound(C, k, C.bindings[k].cursor)

LEMMA TickFit ==
    ASSUME WakeInv, run = "tick"
    PROVE  Fit(mem) /\ mem.live = disk.live /\ mem.timers = disk.timers
<1>1. \A k \in BindKey : CursorOf(k) = mem.bindings[k].cursor
  BY DEF CursorOf, Scanning
<1> QED BY <1>1 DEF WakeInv, Shapes, TimersInv, BindingsInv, StagedInv, Fit

LEMMA DiskFit ==
    ASSUME WakeInv
    PROVE  Fit(disk)
  BY DEF WakeInv, Shapes, TimersInv, BindingsInv, Fit

\* The counters and the place of the pass stay in their ranges.
LEMMA PersistStep ==
    ASSUME WakeInv, NEW C, Fit(C), persistLocked(C), run \in {"tick", "down"}, run' = run,
           UNCHANGED <<commits, passVars, clock, mishaps>>, sends' \in 0..MaxSends
    PROVE  WakeInv'
<1> USE DEF persistLocked, passVars
<1>1. Shapes'
  BY DEF WakeInv, Shapes, Fit
<1>2. TimersInv'
  BY DEF TimersInv, Fit
<1>3. BindingsInv'
  <2>1. \A k \in BindKey : ~Scanning(k)'
    BY DEF Scanning
  <2>2. \A k \in BindKey : CursorOf(k)' = C.bindings[k].cursor
    BY <2>1 DEF CursorOf
  <2>3. \A k \in BindKey : Bound(C, k, C.bindings[k].cursor)'
    BY DEF Fit, Bound
  <2> QED BY <2>1, <2>2, <2>3 DEF BindingsInv, Bound
<1>4. StagedInv'
  BY DEF StagedInv
<1> QED BY <1>1, <1>2, <1>3, <1>4 DEF WakeInv

\* A blob with the keys, the bindings and fewer timers of a fit one is fit.
LEMMA StaysFit ==
    ASSUME NEW B, NEW C \in Blob, Fit(B),
           \A a \in App : Unique(C.mail[a]) /\ KeysOf(C.mail[a]) = KeysOf(B.mail[a]),
           \A t \in TimerKey : C.timers[t] = B.timers[t] \/ C.timers[t] = NoTimer,
           \A k \in BindKey : /\ C.bindings[k].exists = B.bindings[k].exists
                              /\ C.bindings[k].after = B.bindings[k].after
                              /\ C.bindings[k].cursor = B.bindings[k].cursor
                              /\ C.bindings[k].enabled => B.bindings[k].exists
    PROVE  Fit(C)
<1>1. TimersOK(C, clock)
  BY AppFacts DEF Fit, TimersOK
<1>2. \A k \in BindKey : Bound(C, k, C.bindings[k].cursor)
  BY AppFacts DEF Fit, Bound, BoundTo
<1> QED BY <1>1, <1>2 DEF Fit

LEMMA AddTimerStep ==
    ASSUME WakeInv, NEW t \in TimerKey, NEW d \in Delays, NEW i \in Intervals, AddTimer(t, d, i)
    PROVE  WakeInv' /\ disk.timers[t] = NoTimer /\ \A u \in TimerKey \ {t} : disk'.timers[u] = disk.timers[u]
<1> DEFINE x == [due |-> clock + d, interval |-> i]
           f == [mem.timers EXCEPT ![t] = x]
<1>1. clock \in Nat /\ d \in Nat \ {0} /\ i \in Nat
  BY WakeSourcesAssumption, SMT DEF WakeInv, Shapes
<1>2. x \in Timer /\ x.due = clock + d
  BY <1>1, SMT DEF Timer
<1>3. run = "tick" /\ Fit(mem) /\ mem \in Blob /\ mem.timers[t] = NoTimer
      /\ mem.timers = disk.timers
  BY TickFit DEF AddTimer, Fit
<1>4. mem.timers \in [TimerKey -> Timer]
  BY <1>3, BlobFields
<1>5. PICK C : C = [mem EXCEPT !.timers = f]
  OBVIOUS
<1>6. persistLocked(C) /\ run' = run /\ UNCHANGED <<commits, passVars, clock, sends, mishaps>>
  BY <1>5 DEF AddTimer
<1> HIDE DEF x
<1>7. f \in [TimerKey -> Timer] /\ f[t] = x /\ \A u \in TimerKey \ {t} : f[u] = mem.timers[u]
  BY <1>2, <1>4
<1> HIDE DEF f
<1>8. /\ C \in Blob /\ C.timers = f /\ C.mail = mem.mail /\ C.bindings = mem.bindings
  BY <1>3, <1>5, <1>7 DEF Blob
<1>9. TimersOK(C, clock)
  <2>1. TimerMessage(t, x.due) \notin KeysOf(mem.mail[t[1]])
    <3>1. TimerMessage(t, x.due)[1] = "timer" /\ TimerMessage(t, x.due)[3] = clock + d
      BY <1>1, <1>2, MessageFacts, SMT
    <3>2. ~(clock + d <= clock)
      BY <1>1, SMT
    <3> QED BY <3>1, <3>2, <1>3, AppFacts DEF Fit, TimersOK
  <2> QED BY <1>3, <1>7, <1>8, <2>1 DEF Fit, TimersOK
<1>10. Fit(C)
  BY <1>3, <1>8, <1>9 DEF Fit, Bound
<1>11. sends' \in 0..MaxSends
  BY <1>6 DEF WakeInv, Shapes
<1>12. WakeInv'
  BY <1>3, <1>6, <1>10, <1>11, PersistStep
<1> QED BY <1>3, <1>6, <1>7, <1>8, <1>12 DEF persistLocked

LEMMA AddBindingStep ==
    ASSUME WakeInv, NEW k \in BindKey, NEW c \in 0..MaxCommits, AddLSFSBinding(k, c)
    PROVE  WakeInv' /\ disk'.timers = disk.timers
<1> DEFINE x == [cursor |-> c, enabled |-> TRUE, exists |-> TRUE, after |-> c]
           f == [mem.bindings EXCEPT ![k] = x]
<1>1. x \in Binding /\ x.cursor = c /\ x.enabled /\ x.exists /\ x.after = c
  BY DEF Binding
<1>2. run = "tick" /\ Fit(mem) /\ mem \in Blob /\ ~mem.bindings[k].exists
      /\ mem.timers = disk.timers
  BY TickFit DEF AddLSFSBinding, Fit
<1>3. mem.bindings \in [BindKey -> Binding]
  BY <1>2, BlobFields
<1>4. PICK C : C = [mem EXCEPT !.bindings = f]
  OBVIOUS
<1>5. persistLocked(C) /\ run' = run /\ UNCHANGED <<commits, passVars, clock, sends, mishaps>>
  BY <1>4 DEF AddLSFSBinding
<1> HIDE DEF x
<1>6. f \in [BindKey -> Binding] /\ f[k] = x /\ \A l \in BindKey \ {k} : f[l] = mem.bindings[l]
  BY <1>1, <1>3
<1> HIDE DEF f
<1>7. /\ C \in Blob /\ C.timers = mem.timers /\ C.mail = mem.mail /\ C.bindings = f
  BY <1>2, <1>4, <1>6 DEF Blob
<1>8. Bound(C, k, x.cursor)
  <2>1. \A n \in 1..MaxCommits : CommitMessage(k, n) \notin KeysOf(mem.mail[k[1]])
    BY <1>2 DEF Fit, Bound, BoundTo
  <2>2. \A n \in 1..MaxCommits : ~(c < n /\ n <= c)
    BY WakeSourcesAssumption, SMT
  <2> QED BY <1>1, <1>6, <1>7, <2>1, <2>2, SMT DEF Bound, BoundTo
<1>9. Fit(C)
  BY <1>2, <1>6, <1>7, <1>8 DEF Fit, Bound, TimersOK
<1>10. sends' \in 0..MaxSends
  BY <1>5 DEF WakeInv, Shapes
<1>11. WakeInv'
  BY <1>2, <1>5, <1>9, <1>10, PersistStep
<1> QED BY <1>2, <1>5, <1>7, <1>11 DEF persistLocked
LEMMA SetEnabledStep ==
    ASSUME WakeInv, NEW k \in BindKey, NEW on \in BOOLEAN, SetLSFSBindingEnabled(k, on)
    PROVE  WakeInv' /\ disk'.timers = disk.timers
<1> DEFINE b == mem.bindings[k]
           x == [b EXCEPT !.enabled = on]
           f == [mem.bindings EXCEPT ![k] = x]
<1>1. run = "tick" /\ Fit(mem) /\ mem \in Blob /\ b.exists /\ mem.timers = disk.timers
  BY TickFit DEF SetLSFSBindingEnabled, Fit
<1>2. mem.bindings \in [BindKey -> Binding] /\ b \in Binding
  BY <1>1, BlobFields
<1>3. /\ x \in Binding /\ x.cursor = b.cursor /\ x.exists = b.exists /\ x.after = b.after
  <2> HIDE DEF b
  <2> QED BY <1>2 DEF Binding
<1>4. PICK C : C = [mem EXCEPT !.bindings = f]
  OBVIOUS
<1>5. persistLocked(C) /\ run' = run /\ UNCHANGED <<commits, passVars, clock, sends, mishaps>>
  BY <1>4 DEF SetLSFSBindingEnabled
<1> HIDE DEF x
<1>6. f \in [BindKey -> Binding] /\ f[k] = x /\ \A l \in BindKey \ {k} : f[l] = mem.bindings[l]
  BY <1>2, <1>3
<1> HIDE DEF f
<1>7. /\ C \in Blob /\ C.timers = mem.timers /\ C.mail = mem.mail /\ C.bindings = f
  BY <1>1, <1>4, <1>6 DEF Blob
<1>8. \A l \in BindKey : /\ C.bindings[l].exists = mem.bindings[l].exists
                         /\ C.bindings[l].after = mem.bindings[l].after
                         /\ C.bindings[l].cursor = mem.bindings[l].cursor
                         /\ C.bindings[l].enabled => mem.bindings[l].exists
  BY <1>1, <1>3, <1>6, <1>7 DEF Fit, Bound, BoundTo
<1>9. Fit(C)
  BY <1>1, <1>7, <1>8, StaysFit DEF Fit
<1>10. sends' \in 0..MaxSends
  BY <1>5 DEF WakeInv, Shapes
<1>11. WakeInv'
  BY <1>1, <1>5, <1>9, <1>10, PersistStep
<1> QED BY <1>1, <1>5, <1>7, <1>11 DEF persistLocked

LEMMA SendStep ==
    ASSUME WakeInv, NEW a \in App, Send(a)
    PROVE  WakeInv' /\ disk'.timers = disk.timers
<1> DEFINE x == ClientMessage(sends)
<1>1. run = "tick" /\ Fit(mem) /\ mem \in Blob /\ mem.timers = disk.timers
  BY TickFit DEF Send, Fit
<1>2. PICK C : C = enqueueLocked(a, x)
  OBVIOUS
<1>3. persistLocked(C) /\ run' = run /\ UNCHANGED <<commits, passVars, clock, mishaps>>
  BY <1>2 DEF Send
<1>4. sends \in Nat /\ sends' \in 0..MaxSends
  BY WakeSourcesAssumption, SMT DEF WakeInv, Shapes, Send
<1>5. x \in MsgKey /\ x[1] = "client"
  BY <1>4, MessageFacts
<1> HIDE DEF x
<1>6. /\ C \in Blob /\ C.bindings = mem.bindings /\ C.timers = mem.timers
      /\ \A b \in App : Unique(C.mail[b])
      /\ KeysOf(C.mail[a]) = KeysOf(mem.mail[a]) \cup {x}
      /\ \A b \in App \ {a} : C.mail[b] = mem.mail[b]
  BY <1>1, <1>2, <1>5, EnqueueFacts, SMT DEF Fit
<1>7. \A b \in App : \A y \in KeysOf(C.mail[b]) : y \in KeysOf(mem.mail[b]) \/ y = x
  BY <1>6
<1>8. \A b \in App : \A y : y \in KeysOf(mem.mail[b]) => y \in KeysOf(C.mail[b])
  BY <1>6
<1>9. TimersOK(C, clock)
  <2>1. \A t \in TimerKey, d \in Nat : TimerMessage(t, d) # x
    BY <1>5, MessageFacts
  <2>2. \A t \in TimerKey : mem.timers[t].due \in Nat
    BY <1>1, BlobFields DEF Timer
  <2> QED BY <1>1, <1>5, <1>6, <1>7, <2>1, <2>2, AppFacts DEF Fit, TimersOK
<1>10. \A k \in BindKey : Bound(C, k, C.bindings[k].cursor)
  <2> SUFFICES ASSUME NEW k \in BindKey PROVE Bound(C, k, C.bindings[k].cursor)
    OBVIOUS
  <2>1. \A n \in 1..MaxCommits : CommitMessage(k, n) # x
    <3>1. \A n \in 1..MaxCommits : n \in Nat
      BY WakeSourcesAssumption, SMT
    <3> QED BY <1>5, <3>1, MessageFacts
  <2>2. \A n \in 1..MaxCommits : CommitMessage(k, n) \in KeysOf(C.mail[k[1]])
                                   <=> CommitMessage(k, n) \in KeysOf(mem.mail[k[1]])
    BY <1>7, <1>8, <2>1, AppFacts
  <2> QED BY <1>1, <1>6, <2>2 DEF Fit, Bound, BoundTo
<1>11. Fit(C)
  BY <1>6, <1>9, <1>10 DEF Fit
<1>12. WakeInv'
  BY <1>1, <1>3, <1>4, <1>11, PersistStep
<1> QED BY <1>1, <1>3, <1>6, <1>12 DEF persistLocked

\* A message that is closed keeps its key.
LEMMA ClosedMessage ==
    ASSUME NEW x \in Msg
    PROVE  /\ [x EXCEPT !.open = FALSE] \in Msg /\ [x EXCEPT !.open = FALSE].key = x.key
           /\ ~[x EXCEPT !.open = FALSE].open
  BY DEF Msg

\* The mailboxes of C are those of B with some messages closed.
Closes(B, C) ==
    \A b \in App : /\ Len(C.mail[b]) = Len(B.mail[b])
                   /\ \A j \in 1..Len(B.mail[b]) : C.mail[b][j].open => B.mail[b][j].open

LEMMA ConsumeStep ==
    ASSUME WakeInv, NEW a \in App, Consume(a)
    PROVE  WakeInv' /\ disk'.timers = disk.timers /\ Closes(mem, mem') /\ disk' = mem'
<1>1. run = "tick" /\ Fit(mem) /\ mem \in Blob /\ mem.timers = disk.timers
  BY TickFit DEF Consume, Fit
<1>2. PICK i \in 1..Len(mem.mail[a]) : persistLocked([mem EXCEPT !.mail[a][i].open = FALSE])
  BY DEF Consume
<1> DEFINE m == mem.mail[a]
           x == [m[i] EXCEPT !.open = FALSE]
           n == [m EXCEPT ![i] = x]
           f == [mem.mail EXCEPT ![a] = n]
<1>3. mem.mail \in [App -> Seq(Msg)] /\ m \in Seq(Msg)
  BY <1>1, BlobFields
<1>4. PICK C : C = [mem EXCEPT !.mail = f]
  OBVIOUS
<1>5. persistLocked(C) /\ run' = run /\ UNCHANGED <<commits, passVars, clock, sends, mishaps>>
  BY <1>2, <1>4 DEF Consume
<1>6. x \in Msg /\ x.key = m[i].key /\ ~x.open
  <2>1. m[i] \in Msg
    BY <1>3, SMT
  <2> QED BY <2>1, ClosedMessage
<1> HIDE DEF x
<1>7. n \in Seq(Msg) /\ Len(n) = Len(m)
  BY ONLY <1>3, <1>6, i \in 1..Len(m), SMT
<1>8. \A j \in 1..Len(m) : n[j].key = m[j].key /\ (n[j].open => m[j].open)
  BY <1>3, <1>6, SMT
<1> HIDE DEF n
<1>9. KeysOf(n) = KeysOf(m) /\ Unique(n)
  BY <1>1, <1>3, <1>7, <1>8, SameKeys DEF Fit
<1>10. f \in [App -> Seq(Msg)] /\ f[a] = n /\ \A b \in App \ {a} : f[b] = mem.mail[b]
  BY <1>3, <1>7
<1> HIDE DEF f
<1>11. /\ C \in Blob /\ C.timers = mem.timers /\ C.mail = f /\ C.bindings = mem.bindings
  BY <1>1, <1>4, <1>10 DEF Blob
<1>12. Fit(C)
  <2>1. \A b \in App : Unique(C.mail[b]) /\ KeysOf(C.mail[b]) = KeysOf(mem.mail[b])
    BY <1>1, <1>9, <1>10, <1>11 DEF Fit
  <2>2. \A k \in BindKey : mem.bindings[k].enabled => mem.bindings[k].exists
    BY <1>1 DEF Fit, Bound, BoundTo
  <2> QED BY <1>1, <1>11, <2>1, <2>2, StaysFit
<1>13. sends' \in 0..MaxSends
  BY <1>5 DEF WakeInv, Shapes
<1>14. WakeInv'
  BY <1>1, <1>5, <1>12, <1>13, PersistStep
<1>15. Closes(mem, C)
  BY <1>7, <1>8, <1>10, <1>11 DEF Closes
<1> QED BY <1>1, <1>5, <1>11, <1>14, <1>15 DEF persistLocked

LEMMA RetireStep ==
    ASSUME WakeInv, NEW a \in App, RetireApplication(a)
    PROVE  WakeInv' /\ disk'.timers = disk.timers /\ Closes(mem, mem') /\ disk' = mem'
<1> DEFINE m == mem.mail[a]
           n == [i \in 1..Len(m) |-> [m[i] EXCEPT !.open = FALSE]]
           f == [mem.mail EXCEPT ![a] = n]
           off(k) == IF k[1] = a THEN [mem.bindings[k] EXCEPT !.enabled = FALSE] ELSE mem.bindings[k]
           g == [k \in BindKey |-> off(k)]
           l == mem.live \ {a}
<1>1. run = "tick" /\ Fit(mem) /\ mem \in Blob /\ mem.timers = disk.timers
  BY TickFit DEF RetireApplication, Fit
<1>2. /\ mem.mail \in [App -> Seq(Msg)] /\ m \in Seq(Msg) /\ mem.live \in SUBSET App
      /\ mem.bindings \in [BindKey -> Binding]
  BY <1>1, BlobFields
<1>3. PICK C : C = [mem EXCEPT !.live = l, !.mail = f, !.bindings = g]
  OBVIOUS
<1>4. persistLocked(C) /\ run' = run /\ UNCHANGED <<commits, passVars, clock, sends, mishaps>>
  BY <1>3 DEF RetireApplication
<1>5. \A i \in 1..Len(m) : m[i] \in Msg
  BY <1>2, SMT
<1>6. n \in Seq(Msg) /\ Len(n) = Len(m) /\ \A i \in 1..Len(m) : n[i].key = m[i].key /\ ~n[i].open
  <2> DEFINE y(i) == [m[i] EXCEPT !.open = FALSE]
  <2>1. \A i \in 1..Len(m) : y(i) \in Msg /\ y(i).key = m[i].key /\ ~y(i).open
    BY <1>5, ClosedMessage
  <2>2. n = [i \in 1..Len(m) |-> y(i)] /\ Len(m) \in Nat
    BY <1>2, SMT
  <2> HIDE DEF y, n
  <2> QED BY <2>1, <2>2, SMT
<1> HIDE DEF n
<1>7. KeysOf(n) = KeysOf(m) /\ Unique(n)
  BY <1>1, <1>2, <1>6, SameKeys DEF Fit
<1>8. f \in [App -> Seq(Msg)] /\ f[a] = n /\ \A b \in App \ {a} : f[b] = mem.mail[b]
  BY <1>2, <1>6
<1> HIDE DEF f
<1>9. \A k \in BindKey : /\ off(k) \in Binding /\ off(k).exists = mem.bindings[k].exists
                         /\ off(k).after = mem.bindings[k].after
                         /\ off(k).cursor = mem.bindings[k].cursor
                         /\ off(k).enabled => mem.bindings[k].enabled
  <2> TAKE k \in BindKey
  <2> DEFINE b == mem.bindings[k]
  <2>1. b \in Binding
    BY <1>2
  <2>2. LET x == [b EXCEPT !.enabled = FALSE]
        IN  x \in Binding /\ x.exists = b.exists /\ x.after = b.after /\ x.cursor = b.cursor
            /\ ~x.enabled
    <3> HIDE DEF b
    <3> QED BY <2>1 DEF Binding
  <2> QED BY <2>1, <2>2
<1> HIDE DEF off
<1>10. g \in [BindKey -> Binding] /\ \A k \in BindKey : g[k] = off(k)
  BY <1>9
<1>11. l \in SUBSET App
  BY <1>2
<1> HIDE DEF g, l
<1>12. /\ C \in Blob /\ C.timers = mem.timers /\ C.mail = f /\ C.bindings = g
  BY <1>1, <1>3, <1>8, <1>10, <1>11 DEF Blob
<1>13. Fit(C)
  <2>1. \A b \in App : Unique(C.mail[b]) /\ KeysOf(C.mail[b]) = KeysOf(mem.mail[b])
    BY <1>1, <1>7, <1>8, <1>12 DEF Fit
  <2>2. \A k \in BindKey : mem.bindings[k].enabled => mem.bindings[k].exists
    BY <1>1 DEF Fit, Bound, BoundTo
  <2>3. \A k \in BindKey : /\ C.bindings[k].exists = mem.bindings[k].exists
                           /\ C.bindings[k].after = mem.bindings[k].after
                           /\ C.bindings[k].cursor = mem.bindings[k].cursor
                           /\ C.bindings[k].enabled => mem.bindings[k].exists
    BY <1>9, <1>10, <1>12, <2>2
  <2> QED BY <1>1, <1>12, <2>1, <2>3, StaysFit
<1>14. sends' \in 0..MaxSends
  BY <1>4 DEF WakeInv, Shapes
<1>15. WakeInv'
  BY <1>1, <1>4, <1>13, <1>14, PersistStep
<1>16. Closes(mem, C)
  BY <1>6, <1>8, <1>12 DEF Closes
<1> QED BY <1>1, <1>4, <1>12, <1>15, <1>16 DEF persistLocked

\* A new commit is beyond every cursor.
LEMMA CommitStep ==
    ASSUME WakeInv, NEW a \in App, NEW kind \in {"artifact", "turn"}, Commit(a, kind)
    PROVE  WakeInv'
<1>1. /\ UNCHANGED <<mem, disk, run, passVars, clock, sends, mishaps>>
      /\ commits' = [commits EXCEPT ![a] = Append(@, kind)] /\ Len(commits[a]) < MaxCommits
  BY DEF Commit
<1>2. commits \in [App -> Seq({"artifact", "turn"})] /\ \A b \in App : Len(commits[b]) <= MaxCommits
  BY DEF WakeInv, Shapes
<1>3. /\ commits'[a] = Append(commits[a], kind) /\ \A b \in App \ {a} : commits'[b] = commits[b]
      /\ commits' \in [App -> Seq({"artifact", "turn"})]
  BY <1>1, <1>2, SMT
<1>4. \A b \in App : /\ commits[b] \in Seq({"artifact", "turn"})
                     /\ Len(commits[b]) \in Nat /\ Len(commits'[b]) \in Nat
                     /\ Len(commits'[b]) <= MaxCommits /\ Len(commits[b]) <= Len(commits'[b])
                     /\ \A n \in 1..Len(commits[b]) : commits'[b][n] = commits[b][n]
  <2> TAKE b \in App
  <2>1. commits[b] \in Seq({"artifact", "turn"}) /\ Len(commits[b]) <= MaxCommits
    BY <1>2
  <2>2. CASE b # a
    BY <1>3, <2>1, <2>2, SMT
  <2>3. CASE b = a
    <3>1. Len(Append(commits[b], kind)) = Len(commits[b]) + 1 /\ Len(commits[b]) \in Nat
          /\ \A n \in 1..Len(commits[b]) : Append(commits[b], kind)[n] = commits[b][n]
      BY <2>1, SMT
    <3> QED BY <1>1, <1>3, <2>1, <2>3, <3>1, WakeSourcesAssumption, SMT
  <2> QED BY <2>2, <2>3
<1>5. ASSUME NEW k \in BindKey, NEW b \in Binding, NEW K, NEW c,
             BoundTo(b, K, commits[k[1]], k, c)
      PROVE  BoundTo(b, K, commits'[k[1]], k, c)
  <2>1. k[1] \in App
    BY AppFacts
  <2>2. b.after \in Nat /\ c \in Nat
    BY <1>5, WakeSourcesAssumption, SMT DEF Binding, BoundTo
  <2>3. b.exists => b.after <= c /\ (c <= b.after \/ c <= Len(commits'[k[1]]))
    BY <1>4, <1>5, <2>1, <2>2, SMT DEF BoundTo
  <2>4. \A n \in 1..MaxCommits : b.exists /\ b.after < n /\ n <= c
                                  => commits'[k[1]][n] = commits[k[1]][n]
    <3> TAKE n \in 1..MaxCommits
    <3>1. b.exists /\ b.after < n /\ n <= c => n \in 1..Len(commits[k[1]])
      BY <1>4, <1>5, <2>1, <2>2, WakeSourcesAssumption, SMT DEF BoundTo
    <3> QED BY <1>4, <2>1, <3>1
  <2> QED BY <1>5, <2>3, <2>4 DEF BoundTo
<1>6. Shapes'
  BY <1>1, <1>3, <1>4 DEF WakeInv, Shapes, passVars
<1>7. TimersInv' /\ StagedInv'
  BY <1>1 DEF WakeInv, TimersInv, StagedInv, Moved, passVars
<1>8. BindingsInv'
  <2>1. \A k \in BindKey : CursorOf(k)' = CursorOf(k) /\ Scanning(k)' = Scanning(k)
    BY <1>1 DEF CursorOf, Scanning, Key, passVars
  <2>2. \A k \in BindKey : mem.bindings[k] \in Binding /\ disk.bindings[k] \in Binding
    BY BlobFields DEF WakeInv, Shapes
  <2>3. \A k \in BindKey : Bound(mem, k, CursorOf(k))' /\ Bound(disk, k, disk.bindings[k].cursor)'
    BY <1>1, <1>5, <2>1, <2>2 DEF WakeInv, BindingsInv, Bound
  <2> QED BY <1>1, <2>1, <2>3 DEF WakeInv, BindingsInv, passVars
<1> QED BY <1>6, <1>7, <1>8 DEF WakeInv

LEMMA TimePassesStep ==
    ASSUME WakeInv, TimePasses
    PROVE  WakeInv'
<1>1. /\ UNCHANGED <<commits, mem, disk, run, passVars, sends, mishaps>> /\ run = "tick"
      /\ clock' = clock + 1 /\ clock < MaxTime
  BY DEF TimePasses
<1>2. clock \in Nat /\ clock' \in 0..MaxTime
  BY <1>1, WakeSourcesAssumption, SMT DEF WakeInv, Shapes
<1>3. ASSUME NEW B \in Blob, TimersOK(B, clock)
      PROVE  TimersOK(B, clock')
  <2>1. \A a \in App : \A x \in KeysOf(B.mail[a]) : x \in MsgKey
    <3> TAKE a \in App
    <3>1. B.mail[a] \in Seq(Msg)
      BY <1>3, BlobFields
    <3>2. \A i \in 1..Len(B.mail[a]) : B.mail[a][i] \in Msg
      BY <3>1, SMT
    <3> QED BY <3>2 DEF KeysOf, Msg
  <2>2. \A x \in MsgKey : x[1] = "timer" => x[3] \in Nat
    BY DEF MsgKey
  <2>3. \A d \in Nat : d <= clock => d <= clock'
    BY <1>1, <1>2, SMT
  <2> QED BY <1>3, <2>1, <2>2, <2>3 DEF TimersOK
<1>4. Shapes'
  BY <1>1, <1>2 DEF WakeInv, Shapes, passVars
<1>5. TimersInv'
  BY <1>1, <1>3 DEF WakeInv, TimersInv, Shapes
<1>6. BindingsInv'
  BY <1>1 DEF WakeInv, BindingsInv, CursorOf, Scanning, Key, Bound, passVars
<1>7. StagedInv'
  BY <1>1 DEF WakeInv, StagedInv, passVars
<1> QED BY <1>4, <1>5, <1>6, <1>7 DEF WakeInv

----------------------------------------------------------------------------
(* Starting, stopping and the steps of a pass.                             *)

\* Load and Stopped: what is in memory is what was written last.
LEMMA ReloadStep ==
    ASSUME WakeInv, mem' = disk, disk' = disk, run' \in {"tick", "down"},
           UNCHANGED <<commits, clock, sends>>, mishaps' \in 0..MaxMishaps,
           todo' \in SUBSET TimerKey, at' \in 1..(Last + 1), scan' \in 0..MaxCommits,
           batch' \in 0..ScanBatch, changed' \in BOOLEAN
    PROVE  WakeInv'
<1>1. Shapes'
  BY DEF WakeInv, Shapes
<1>2. TimersInv'
  BY DEF WakeInv, TimersInv
<1>3. BindingsInv'
  <2>1. \A k \in BindKey : ~Scanning(k)' /\ CursorOf(k)' = disk.bindings[k].cursor
    BY DEF Scanning, CursorOf
  <2>2. \A k \in BindKey : Bound(disk, k, disk.bindings[k].cursor)'
    BY DEF WakeInv, BindingsInv, Bound
  <2> QED BY <2>1, <2>2 DEF BindingsInv, Bound
<1>4. StagedInv'
  BY DEF StagedInv
<1> QED BY <1>1, <1>2, <1>3, <1>4 DEF WakeInv

LEMMA LoadStep ==
    ASSUME WakeInv, Load
    PROVE  WakeInv'
  BY ReloadStep DEF Load, passVars, WakeInv, Shapes

LEMMA StoppedStep ==
    ASSUME WakeInv, Stopped
    PROVE  WakeInv' /\ disk' = disk
<1>1. /\ mem' = disk /\ disk' = disk /\ run' = "down" /\ UNCHANGED <<commits, clock, sends>>
      /\ todo' = {} /\ at' = 1 /\ scan' = 0 /\ batch' = 0 /\ changed' = FALSE
  BY DEF Stopped, restoreLocked
<1>2. mishaps' \in 0..MaxMishaps
  BY WakeSourcesAssumption, SMT DEF Stopped, Mishap, WakeInv, Shapes
<1>3. at' \in 1..(Last + 1) /\ scan' \in 0..MaxCommits /\ batch' \in 0..ScanBatch
  BY <1>1, PositionFacts, WakeSourcesAssumption, SMT
<1>4. todo' \in SUBSET TimerKey /\ changed' \in BOOLEAN /\ run' \in {"tick", "down"}
  BY <1>1
<1> QED BY <1>1, <1>2, <1>3, <1>4, ReloadStep

LEMMA TickStep ==
    ASSUME WakeInv, Tick
    PROVE  WakeInv'
<1>1. /\ run = "tick" /\ run' = "timers" /\ todo' = {t \in TimerKey : mem.timers[t] # NoTimer}
      /\ changed' = FALSE /\ UNCHANGED <<commits, mem, disk, at, scan, batch, clock, sends, mishaps>>
  BY DEF Tick
<1>2. Shapes'
  BY <1>1 DEF WakeInv, Shapes
<1>3. TimersInv'
  BY <1>1 DEF WakeInv, TimersInv
<1>4. BindingsInv'
  BY <1>1 DEF WakeInv, BindingsInv, CursorOf, Scanning, Bound
<1>5. StagedInv'
  BY <1>1 DEF WakeInv, StagedInv
<1> QED BY <1>2, <1>3, <1>4, <1>5 DEF WakeInv

\* One timer of the pass, whatever becomes of it: its blob C has the key of
\* the message added, or not.
LEMMA TimerMoves ==
    ASSUME WakeInv, run = "timers", run' = run, NEW t \in TimerKey, t \in todo,
           todo' = todo \ {t}, NEW C \in Blob, mem' = C, changed' = TRUE,
           UNCHANGED <<commits, disk, at, scan, batch, clock, sends, mishaps>>,
           C.live = mem.live, C.bindings = mem.bindings,
           \A u \in TimerKey \ {t} : C.timers[u] = mem.timers[u],
           \A b \in App : Unique(C.mail[b]),
           NEW N, \A x \in N : x = TimerMessage(t, mem.timers[t].due) /\ mem.timers[t].due <= clock,
           KeysOf(C.mail[t[1]]) = KeysOf(mem.mail[t[1]]) \cup N,
           \A b \in App \ {t[1]} : KeysOf(C.mail[b]) = KeysOf(mem.mail[b]),
           C.timers[t] # NoTimer => C.timers[t].due > clock,
           t[1] \in mem.live => /\ TimerMessage(t, mem.timers[t].due) \in KeysOf(C.mail[t[1]])
                                /\ C.timers[t] # NoTimer =>
                                     C.timers[t].due >= clock + mem.timers[t].interval
    PROVE  WakeInv'
<1>1. /\ t[1] \in App /\ mem \in Blob /\ mem.timers \in [TimerKey -> Timer] /\ clock \in Nat
      /\ C.timers \in [TimerKey -> Timer]
  BY AppFacts, BlobFields, WakeSourcesAssumption, SMT DEF WakeInv, Shapes
<1>2. \A u \in TimerKey : mem.timers[u].due \in Nat /\ C.timers[u].due \in Nat
  BY <1>1 DEF Timer
<1>3. Shapes'
  BY DEF WakeInv, Shapes
<1>4. \A b \in App : \A x \in KeysOf(C.mail[b]) :
         x \in KeysOf(mem.mail[b]) \/ (b = t[1] /\ x \in N)
  OBVIOUS
<1>5. \A b \in App : KeysOf(mem.mail[b]) \subseteq KeysOf(C.mail[b])
  OBVIOUS
<1>6. \A x \in N : x[1] = "timer" /\ x[2] = t[2] /\ x[3] <= clock
  BY <1>2, MessageFacts, SMT
<1>7. TimersOK(C, clock)
  <2>1. \A b \in App : \A x \in KeysOf(C.mail[b]) : x[1] = "timer" => x[3] <= clock
    BY <1>4, <1>6 DEF WakeInv, TimersInv, TimersOK
  <2>2. ASSUME NEW u \in TimerKey, C.timers[u] # NoTimer
        PROVE  TimerMessage(u, C.timers[u].due) \notin KeysOf(C.mail[u[1]])
    <3> DEFINE x == TimerMessage(u, C.timers[u].due)
    <3>1. x[1] = "timer" /\ x[2] = u[2] /\ x[3] = C.timers[u].due
      BY <1>2, MessageFacts, SMT
    <3>2. u[1] \in App
      BY AppFacts
    <3> HIDE DEF x
    <3>3. CASE u = t
      <4>1. ~(x[3] <= clock)
        BY <1>1, <1>2, <2>2, <3>1, <3>3, SMT
      <4>2. x \notin KeysOf(C.mail[u[1]])
        BY <2>1, <3>1, <3>2, <4>1
      <4> QED BY <4>2 DEF x
    <3>4. CASE u # t
      <4>1. x \notin KeysOf(mem.mail[u[1]])
        BY <2>2, <3>4 DEF WakeInv, TimersInv, TimersOK, x
      <4>2. u[1] = t[1] => x \notin N
        BY <1>6, <3>1, <3>4, AppFacts
      <4>3. x \notin KeysOf(C.mail[u[1]])
        BY <1>4, <3>2, <4>1, <4>2
      <4> QED BY <4>3 DEF x
    <3> QED BY <3>3, <3>4
  <2> QED BY <2>1, <2>2 DEF TimersOK
<1>8. TimersInv'
  BY <1>7 DEF WakeInv, TimersInv
<1>9. BindingsInv'
  <2>1. \A k \in BindKey : /\ ~Scanning(k)' /\ CursorOf(k)' = mem.bindings[k].cursor
                           /\ CursorOf(k) = mem.bindings[k].cursor
    BY DEF Scanning, CursorOf
  <2>2. ASSUME NEW k \in BindKey
        PROVE  BoundTo(mem.bindings[k], KeysOf(C.mail[k[1]]), commits[k[1]], k, mem.bindings[k].cursor)
    <3>1. \A n \in 1..MaxCommits : CommitMessage(k, n)[1] = "lsfs"
      <4>1. \A n \in 1..MaxCommits : n \in Nat
        BY WakeSourcesAssumption, SMT
      <4> QED BY <4>1, MessageFacts, SMT
    <3>2. k[1] \in App
      BY AppFacts
    <3>3. \A n \in 1..MaxCommits : CommitMessage(k, n) \in KeysOf(C.mail[k[1]])
                                     <=> CommitMessage(k, n) \in KeysOf(mem.mail[k[1]])
      BY <1>4, <1>5, <1>6, <3>1, <3>2
    <3>4. Bound(mem, k, mem.bindings[k].cursor)
      BY <2>1, Zenon DEF WakeInv, BindingsInv
    <3>5. BoundTo(mem.bindings[k], KeysOf(mem.mail[k[1]]), commits[k[1]], k, mem.bindings[k].cursor)
      BY <3>4, Zenon DEF Bound
    <3> QED BY ONLY <3>3, <3>5, Zenon DEF BoundTo
  <2>3. \A k \in BindKey : Bound(disk, k, disk.bindings[k].cursor)'
    BY DEF WakeInv, BindingsInv, Bound
  <2> QED BY <2>1, <2>2, <2>3 DEF BindingsInv, Bound
<1>10. StagedInv'
  <2>1. mem.live = disk.live /\ mem.timers[t] = disk.timers[t]
    BY DEF WakeInv, StagedInv, Moved
  <2>2. Moved(t)'
    BY <2>1 DEF Moved
  <2>3. ASSUME NEW u \in TimerKey \ {t}
        PROVE  mem'.timers[u] = disk'.timers[u] \/ Moved(u)'
    <3>1. mem.timers[u] = disk.timers[u] \/ Moved(u)
      BY DEF WakeInv, StagedInv
    <3>2. Moved(u) => Moved(u)'
      BY <1>5, AppFacts DEF Moved
    <3> QED BY <3>1, <3>2
  <2> QED BY <2>1, <2>2, <2>3 DEF StagedInv
<1> QED BY <1>3, <1>8, <1>9, <1>10 DEF WakeInv

LEMMA TimerStepInv ==
    ASSUME WakeInv, NEW t \in TimerKey, TimerStep(t)
    PROVE  WakeInv'
<1> DEFINE timer == mem.timers[t]
           key == TimerMessage(t, timer.due)
<1>1. /\ run = "timers" /\ t \in todo /\ todo' = todo \ {t} /\ run' = run
      /\ UNCHANGED <<commits, disk, at, scan, batch, clock, sends, mishaps>>
  BY DEF TimerStep
<1>2. /\ t[1] \in App /\ mem \in Blob /\ mem.timers \in [TimerKey -> Timer] /\ clock \in Nat
      /\ \A b \in App : Unique(mem.mail[b])
  BY AppFacts, BlobFields, WakeSourcesAssumption, SMT DEF WakeInv, Shapes, TimersInv
<1>3. timer \in Timer /\ timer.due \in Nat /\ timer.interval \in Nat
  BY <1>2 DEF Timer
<1>4. CASE t[1] \notin mem.live /\ mem' = [mem EXCEPT !.timers[t] = NoTimer] /\ changed' = TRUE
  <2> DEFINE f == [mem.timers EXCEPT ![t] = NoTimer]
  <2>1. PICK C : C = [mem EXCEPT !.timers = f]
    OBVIOUS
  <2>2. mem' = C
    BY <1>4, <2>1
  <2>3. f \in [TimerKey -> Timer] /\ f[t] = NoTimer /\ \A u \in TimerKey \ {t} : f[u] = mem.timers[u]
    BY <1>2 DEF NoTimer, Timer
  <2> HIDE DEF f
  <2>4. /\ C \in Blob /\ C.timers = f /\ C.mail = mem.mail /\ C.bindings = mem.bindings
        /\ C.live = mem.live
    BY <1>2, <2>1, <2>3 DEF Blob
  <2> DEFINE N == {}
  <2>5. /\ \A x \in N : x = TimerMessage(t, mem.timers[t].due) /\ mem.timers[t].due <= clock
        /\ KeysOf(C.mail[t[1]]) = KeysOf(mem.mail[t[1]]) \cup N
        /\ \A b \in App \ {t[1]} : KeysOf(C.mail[b]) = KeysOf(mem.mail[b])
        /\ \A b \in App : Unique(C.mail[b])
    BY <1>2, <2>4
  <2> HIDE DEF N
  <2>6. /\ \A u \in TimerKey \ {t} : C.timers[u] = mem.timers[u]
        /\ C.timers[t] = NoTimer /\ changed' = TRUE /\ t[1] \notin mem.live
    BY <1>4, <2>3, <2>4
  <2> QED BY ONLY WakeInv, t \in TimerKey, <1>1, <2>2, <2>4, <2>5, <2>6, TimerMoves, ZenonT(30)
<1>5. CASE UNCHANGED <<mem, changed>>
  <2>1. Shapes' /\ TimersInv'
    BY <1>1, <1>5 DEF WakeInv, Shapes, TimersInv
  <2>2. BindingsInv'
    BY <1>1, <1>5 DEF WakeInv, BindingsInv, CursorOf, Scanning, Bound
  <2>3. StagedInv'
    BY <1>1, <1>5 DEF WakeInv, StagedInv, Moved
  <2> QED BY <2>1, <2>2, <2>3 DEF WakeInv
<1>6. CASE /\ timer.due <= clock /\ changed' = TRUE
           /\ mem' = [enqueueLocked(t[1], key) EXCEPT !.timers[t] = Rearmed(timer)]
  <2>1. PICK D : D = enqueueLocked(t[1], key)
    OBVIOUS
  <2>2. key \in MsgKey
    BY <1>3, MessageFacts
  <2>3. /\ D \in Blob /\ D.live = mem.live /\ D.bindings = mem.bindings /\ D.timers = mem.timers
        /\ \A b \in App : Unique(D.mail[b])
        /\ KeysOf(D.mail[t[1]]) = KeysOf(mem.mail[t[1]]) \cup {key}
        /\ \A b \in App \ {t[1]} : D.mail[b] = mem.mail[b]
    <3> DEFINE a == t[1]
    <3>1. a \in App /\ D = enqueueLocked(a, key)
      BY <1>2, <2>1
    <3> HIDE DEF key, a
    <3>2. /\ D \in Blob /\ D.live = mem.live /\ D.bindings = mem.bindings /\ D.timers = mem.timers
          /\ \A b \in App : Unique(D.mail[b])
          /\ KeysOf(D.mail[a]) = KeysOf(mem.mail[a]) \cup {key}
          /\ \A b \in App \ {a} : D.mail[b] = mem.mail[b]
      BY <1>2, <2>2, <3>1, EnqueueFacts, SMT
    <3> QED BY <3>2 DEF a
  <2> DEFINE x == Rearmed(timer)
             f == [D.timers EXCEPT ![t] = x]
  <2>4. x \in Timer /\ (x # NoTimer => x.due > clock /\ x.due >= clock + timer.interval)
    <3>1. CASE timer.interval = 0
      BY <3>1 DEF Rearmed, NoTimer, Timer
    <3>2. CASE timer.interval # 0
      <4> DEFINE d == clock + timer.interval
      <4>1. x = [timer EXCEPT !.due = d] /\ d \in Nat /\ d > clock
        BY <1>2, <1>3, <3>2, SMT DEF Rearmed
      <4> HIDE DEF d, x, timer
      <4>2. x \in Timer /\ x.due = d
        BY <1>3, <4>1 DEF Timer
      <4> QED BY <4>1, <4>2, <1>2, <1>3, SMT DEF d
    <3> QED BY <3>1, <3>2
  <2>5. PICK C : C = [D EXCEPT !.timers = f]
    OBVIOUS
  <2>6. mem' = C
    BY <1>6, <2>1, <2>5
  <2> HIDE DEF x
  <2>7. f \in [TimerKey -> Timer] /\ f[t] = x /\ \A u \in TimerKey \ {t} : f[u] = mem.timers[u]
    BY <1>2, <2>3, <2>4
  <2> HIDE DEF f
  <2>8. /\ C \in Blob /\ C.timers = f /\ C.mail = D.mail /\ C.bindings = D.bindings
        /\ C.live = D.live
    BY <2>3, <2>5, <2>7 DEF Blob
  <2> DEFINE N == {key}
  <2>9. /\ \A y \in N : y = TimerMessage(t, mem.timers[t].due) /\ mem.timers[t].due <= clock
        /\ KeysOf(C.mail[t[1]]) = KeysOf(mem.mail[t[1]]) \cup N
        /\ TimerMessage(t, mem.timers[t].due) \in KeysOf(C.mail[t[1]])
        /\ \A b \in App \ {t[1]} : KeysOf(C.mail[b]) = KeysOf(mem.mail[b])
        /\ \A b \in App : Unique(C.mail[b])
    BY <1>6, <2>3, <2>8
  <2> HIDE DEF N
  <2>10. /\ C.timers[t] # NoTimer => C.timers[t].due > clock
         /\ C.timers[t] # NoTimer => C.timers[t].due >= clock + mem.timers[t].interval
         /\ \A u \in TimerKey \ {t} : C.timers[u] = mem.timers[u]
    BY <2>4, <2>7, <2>8
  <2>11. C.live = mem.live /\ C.bindings = mem.bindings
    BY <2>3, <2>8
  <2>12. C \in Blob /\ changed' = TRUE
    BY <1>6, <2>8
  <2> QED BY ONLY WakeInv, t \in TimerKey, <1>1, <2>6, <2>9, <2>10, <2>11, <2>12, TimerMoves, ZenonT(30)
<1> QED BY <1>4, <1>5, <1>6 DEF TimerStep, TimerFull

\* The cursor of the binding that deliverLSFS goes to.
LEMMA StartFacts ==
    ASSUME WakeInv, NEW p \in 1..(Last + 1), StartBinding(p)
    PROVE  /\ at' \in 1..(Last + 1) /\ at' = p
           /\ scan' \in 0..MaxCommits /\ batch' \in 0..ScanBatch
           /\ p <= Last => BindingAt(p) \in BindKey /\ scan' = mem.bindings[BindingAt(p)].cursor
<1>1. ScanBatch \in Nat /\ MaxCommits \in Nat /\ Last \in Nat
  BY WakeSourcesAssumption, PositionFacts
<1>2. CASE p > Last
  BY <1>1, <1>2, SMT DEF StartBinding
<1>3. CASE p <= Last
  <2>1. BindingAt(p) \in BindKey
    BY <1>1, <1>3, PositionFacts, SMT
  <2>2. mem.bindings[BindingAt(p)].cursor \in 0..MaxCommits
    BY <2>1, BlobFields DEF WakeInv, Shapes, Binding
  <2> QED BY <1>1, <1>3, <2>1, <2>2, SMT DEF StartBinding
<1> QED BY <1>1, <1>2, <1>3, SMT

LEMMA TimersEndStep ==
    ASSUME WakeInv, TimersEnd
    PROVE  /\ WakeInv'
           /\ \A t \in TimerKey : disk.timers[t] # disk'.timers[t] =>
                Moved(t) /\ disk' = mem /\ mem.live = disk.live
<1>1. /\ run = "timers" /\ todo = {} /\ run' = "lsfs" /\ changed' = FALSE /\ mem' = mem
      /\ (changed /\ disk' = mem) \/ (~changed /\ disk' = disk)
      /\ UNCHANGED <<commits, todo, clock, sends, mishaps>> /\ StartBinding(1)
  BY DEF TimersEnd, persistLocked, WakeInv, Shapes
<1>2. /\ at' \in 1..(Last + 1) /\ at' = 1 /\ scan' \in 0..MaxCommits /\ batch' \in 0..ScanBatch
      /\ 1 <= Last => BindingAt(1) \in BindKey /\ scan' = mem.bindings[BindingAt(1)].cursor
  BY <1>1, PositionFacts, StartFacts, SMT
<1>3. Shapes'
  BY <1>1, <1>2 DEF WakeInv, Shapes
<1>4. TimersInv'
  BY <1>1 DEF WakeInv, TimersInv
<1>5. BindingsInv'
  <2>1. \A k \in BindKey : CursorOf(k) = mem.bindings[k].cursor
    BY <1>1 DEF Scanning, CursorOf
  <2>2. \A k \in BindKey : CursorOf(k)' = mem.bindings[k].cursor
    BY <1>1, <1>2 DEF Scanning, CursorOf, Key
  <2>3. \A k \in BindKey : Scanning(k)' => scan' = mem'.bindings[k].cursor
    BY <1>1, <1>2 DEF Scanning, Key
  <2> QED BY <1>1, <2>1, <2>2, <2>3 DEF WakeInv, BindingsInv, Bound
<1>6. StagedInv'
  BY <1>1 DEF WakeInv, StagedInv
<1>7. \A t \in TimerKey : disk.timers[t] # disk'.timers[t] =>
                Moved(t) /\ disk' = mem /\ mem.live = disk.live
  BY <1>1 DEF WakeInv, StagedInv
<1> QED BY <1>3, <1>4, <1>5, <1>6, <1>7 DEF WakeInv

----------------------------------------------------------------------------
(* deliverLSFS.                                                            *)

LEMMA ScanFacts ==
    ASSUME WakeInv, run = "lsfs", at <= Last
    PROVE  /\ Key \in BindKey /\ Key[1] \in App /\ Position(Key) = at
           /\ mem.bindings[Key] \in Binding /\ scan \in Nat
           /\ Bound(mem, Key, scan)
           /\ \A k \in BindKey \ {Key} : Bound(mem, k, mem.bindings[k].cursor)
<1>1. at \in 1..Last
  BY PositionFacts, SMT DEF WakeInv, Shapes
<1>2. Key \in BindKey /\ Position(Key) = at
  BY <1>1, PositionFacts DEF Key
<1>3. CursorOf(Key) = scan /\ \A k \in BindKey \ {Key} : CursorOf(k) = mem.bindings[k].cursor
  BY DEF CursorOf, Scanning
<1>4. Key[1] \in App /\ mem.bindings[Key] \in Binding
  BY <1>2, AppFacts, BlobFields, SMT DEF WakeInv, Shapes
<1>5. scan \in Nat
  BY WakeSourcesAssumption, SMT DEF WakeInv, Shapes
<1> QED BY <1>2, <1>3, <1>4, <1>5 DEF WakeInv, BindingsInv

\* The scan moves past its next commit: with its message if it is an artifact.
LEMMA ScanMoves ==
    ASSUME WakeInv, run = "lsfs", run' = run, HasCommit, NEW C \in Blob, mem' = C,
           C.live = mem.live, C.bindings = mem.bindings, C.timers = mem.timers,
           \A b \in App : Unique(C.mail[b]),
           NEW N, \A x \in N : x = CommitMessage(Key, scan + 1),
           N # {} <=> NextKind = "artifact",
           KeysOf(C.mail[Key[1]]) = KeysOf(mem.mail[Key[1]]) \cup N,
           \A b \in App \ {Key[1]} : C.mail[b] = mem.mail[b],
           scan' = scan + 1, batch' = batch - 1, changed' = TRUE,
           UNCHANGED <<commits, disk, todo, at, clock, sends, mishaps>>
    PROVE  WakeInv'
<1>0. PICK l : l = Key
  OBVIOUS
<1>1. /\ at <= Last /\ mem.bindings[l].enabled /\ batch > 0 /\ scan < Len(commits[l[1]])
  BY <1>0 DEF HasCommit
<1>2. /\ l \in BindKey /\ l[1] \in App /\ mem.bindings[l] \in Binding /\ scan \in Nat
      /\ Bound(mem, l, scan) /\ \A k \in BindKey \ {l} : Bound(mem, k, mem.bindings[k].cursor)
  BY <1>0, <1>1, ScanFacts
<1>3. /\ \A b \in App : \A x \in KeysOf(C.mail[b]) : x \in KeysOf(mem.mail[b]) \/ (b = l[1] /\ x \in N)
      /\ \A b \in App : KeysOf(mem.mail[b]) \subseteq KeysOf(C.mail[b])
      /\ N \subseteq KeysOf(C.mail[l[1]])
  BY <1>0
<1>4. scan + 1 \in Nat /\ scan + 1 <= Len(commits[l[1]]) /\ scan + 1 \in 1..MaxCommits
  <2>1. Len(commits[l[1]]) \in Nat /\ Len(commits[l[1]]) <= MaxCommits
    BY <1>2, SMT DEF WakeInv, Shapes
  <2> QED BY <1>1, <1>2, <2>1, WakeSourcesAssumption, SMT
<1>5. \A x \in N : x[1] = "lsfs" /\ x[2] = l[2] /\ x[3] = scan + 1
  <2>1. PICK y : y = CommitMessage(l, scan + 1)
    OBVIOUS
  <2>2. y[1] = "lsfs" /\ y[2] = l[2] /\ y[3] = scan + 1
    BY ONLY <1>2, <1>4, <2>1, MessageFacts
  <2>3. \A x \in N : x = y
    BY <1>0, <2>1, Zenon
  <2> QED BY ONLY <2>2, <2>3, Zenon
<1>6. Shapes'
  <2>1. batch' \in 0..ScanBatch /\ scan' \in 0..MaxCommits
    <3>1. batch \in 0..ScanBatch /\ batch' = batch - 1 /\ scan' = scan + 1
      BY DEF WakeInv, Shapes
    <3>2. ScanBatch \in Nat /\ MaxCommits \in Nat
      BY WakeSourcesAssumption
    <3> QED BY ONLY <1>1, <1>4, <3>1, <3>2, SMT
  <2> QED BY <2>1 DEF WakeInv, Shapes
<1>7. TimersOK(C, clock)
  <2>1. \A t \in TimerKey : mem.timers[t].due \in Nat /\ t[1] \in App
    BY AppFacts, BlobFields DEF WakeInv, Shapes, Timer
  <2>2. \A t \in TimerKey : TimerMessage(t, mem.timers[t].due)[1] = "timer"
    BY <2>1, MessageFacts
  <2>3. \A t \in TimerKey : TimerMessage(t, mem.timers[t].due) \notin N
    BY <1>5, <2>2
  <2> QED BY <1>3, <1>5, <2>1, <2>3 DEF WakeInv, TimersInv, TimersOK
<1>8. TimersInv'
  BY <1>7 DEF WakeInv, TimersInv
<1>9. BindingsInv'
  <2>1. \A k \in BindKey : Scanning(k)' = (k = l)
    BY <1>0, <1>1 DEF Scanning, Key
  <2>2. CursorOf(l)' = scan + 1 /\ \A k \in BindKey \ {l} : CursorOf(k)' = mem.bindings[k].cursor
    BY <1>2, <2>1 DEF CursorOf
  <2>3. ASSUME NEW k \in BindKey \ {l}
        PROVE  BoundTo(mem.bindings[k], KeysOf(C.mail[k[1]]), commits[k[1]], k, mem.bindings[k].cursor)
    <3>1. \A n \in 1..MaxCommits : CommitMessage(k, n)[2] = k[2]
      <4>1. \A n \in 1..MaxCommits : n \in Nat
        BY WakeSourcesAssumption, SMT
      <4> QED BY <4>1, MessageFacts, SMT
    <3>2. k[1] \in App /\ (k[1] = l[1] => k[2] # l[2])
      BY <1>2, AppFacts
    <3>3. \A n \in 1..MaxCommits : CommitMessage(k, n) \in KeysOf(C.mail[k[1]])
                                     <=> CommitMessage(k, n) \in KeysOf(mem.mail[k[1]])
      BY <1>3, <1>5, <3>1, <3>2, SMT
    <3> QED BY <1>2, <3>3 DEF Bound, BoundTo
  <2>4. BoundTo(mem.bindings[l], KeysOf(C.mail[l[1]]), commits[l[1]], l, scan + 1)
    <3> DEFINE b == mem.bindings[l]
    <3>1. b.enabled /\ b.exists /\ b.after \in Nat /\ b.after <= scan
      <4>1. BoundTo(b, KeysOf(mem.mail[l[1]]), commits[l[1]], l, scan)
        BY <1>2, Zenon DEF Bound
      <4>2. b.enabled /\ b.exists /\ b.after <= scan
        BY ONLY <1>1, <4>1, Zenon DEF BoundTo
      <4>3. b.after \in 0..MaxCommits
        BY ONLY <1>2 DEF Binding
      <4>4. \A c \in 0..MaxCommits : c \in Nat
        BY ONLY WakeSourcesAssumption
      <4> QED BY ONLY <4>2, <4>3, <4>4, Zenon
    <3>2. (N # {}) <=> commits[l[1]][scan + 1] = "artifact"
      BY <1>0 DEF NextKind
    <3>3. ASSUME NEW n \in 1..MaxCommits
          PROVE  CommitMessage(l, n) \in KeysOf(C.mail[l[1]])
                   <=> b.exists /\ b.after < n /\ n <= scan + 1 /\ commits[l[1]][n] = "artifact"
      <4>1. n \in Nat
        BY WakeSourcesAssumption, SMT
      <4>2. CommitMessage(l, n) \in KeysOf(mem.mail[l[1]])
              <=> b.exists /\ b.after < n /\ n <= scan /\ commits[l[1]][n] = "artifact"
        BY <1>2 DEF Bound, BoundTo
      <4>3. CASE n = scan + 1
        <5>1. CommitMessage(l, n) \notin KeysOf(mem.mail[l[1]])
          BY <1>2, <4>2, <4>3, SMT
        <5>2. N # {} <=> CommitMessage(l, n) \in N
          BY <1>0, <4>3
        <5>3. b.after < n /\ n <= scan + 1
          <6>1. PICK d : d = b.after
            OBVIOUS
          <6>2. d \in Nat /\ d <= scan /\ scan \in Nat
            BY <1>2, <3>1, <6>1, Zenon
          <6>3. d < n /\ n <= scan + 1
            BY ONLY <4>3, <6>2, SMT
          <6> QED BY ONLY <6>1, <6>3, Zenon
        <5> QED BY <1>2, <1>3, <3>1, <3>2, <4>3, <5>1, <5>2, <5>3
      <4>4. CASE n # scan + 1
        <5>1. CommitMessage(l, n) \notin N
          <6>1. CommitMessage(l, n)[3] = n
            BY ONLY <1>2, <4>1, MessageFacts, ZenonT(30)
          <6> QED BY ONLY <1>5, <4>4, <6>1, Zenon
        <5>2. n <= scan + 1 <=> n <= scan
          BY <1>2, <4>1, <4>4, SMT
        <5> QED BY <1>2, <1>3, <4>2, <5>1, <5>2
      <4> QED BY <4>3, <4>4
    <3>4. scan + 1 \in 0..MaxCommits /\ b.after <= scan + 1
      BY <1>2, <1>4, <3>1, SMT
    <3> QED BY <1>4, <3>1, <3>3, <3>4 DEF BoundTo
  <2>5. \A k \in BindKey : Bound(disk, k, disk.bindings[k].cursor)'
    BY DEF WakeInv, BindingsInv, Bound
  <2>6. \A k \in BindKey : Bound(mem, k, CursorOf(k))'
    BY <2>2, <2>3, <2>4 DEF Bound
  <2>7. \A k \in BindKey : Scanning(k)' => mem'.bindings[k].enabled
    BY <1>1, <2>1
  <2> QED BY <2>5, <2>6, <2>7 DEF BindingsInv
<1>10. StagedInv'
  BY DEF WakeInv, StagedInv
<1> QED BY <1>6, <1>8, <1>9, <1>10 DEF WakeInv

LEMMA ScanTurnStep ==
    ASSUME WakeInv, ScanTurn
    PROVE  WakeInv'
<1>1. /\ run = "lsfs" /\ run' = run /\ HasCommit /\ NextKind = "turn" /\ mem' = mem
      /\ scan' = scan + 1 /\ batch' = batch - 1 /\ changed' = TRUE
      /\ UNCHANGED <<commits, disk, todo, at, clock, sends, mishaps>>
  BY DEF ScanTurn
<1> DEFINE N == {}
<1>2. /\ \A x \in N : x = CommitMessage(Key, scan + 1)
      /\ N # {} <=> NextKind = "artifact"
      /\ KeysOf(mem.mail[Key[1]]) = KeysOf(mem.mail[Key[1]]) \cup N
  BY <1>1
<1>3. PICK C : C = mem
  OBVIOUS
<1>4. C \in Blob /\ mem' = C /\ \A b \in App : Unique(C.mail[b])
  BY <1>1, <1>3 DEF WakeInv, Shapes, TimersInv
<1>5. /\ C.live = mem.live /\ C.bindings = mem.bindings /\ C.timers = mem.timers
      /\ KeysOf(C.mail[Key[1]]) = KeysOf(mem.mail[Key[1]]) \cup N
      /\ \A b \in App \ {Key[1]} : C.mail[b] = mem.mail[b]
  BY <1>2, <1>3
<1> HIDE DEF N
<1> QED BY ONLY WakeInv, <1>1, <1>2, <1>4, <1>5, ScanMoves, ZenonT(30)

LEMMA ScanDeliverStep ==
    ASSUME WakeInv, ScanDeliver
    PROVE  WakeInv'
<1> DEFINE key == CommitMessage(Key, scan + 1)
           a == Key[1]
<1>1. /\ run = "lsfs" /\ run' = run /\ HasCommit /\ NextKind = "artifact"
      /\ mem' = enqueueLocked(a, key)
      /\ scan' = scan + 1 /\ batch' = batch - 1 /\ changed' = TRUE
      /\ UNCHANGED <<commits, disk, todo, at, clock, sends, mishaps>>
  BY DEF ScanDeliver
<1>2. a \in App /\ key \in MsgKey
  <2>1. Key \in BindKey /\ Key[1] \in App /\ scan \in Nat
    BY <1>1, ScanFacts DEF HasCommit
  <2>2. scan + 1 \in Nat
    BY <2>1, SMT
  <2> QED BY <2>1, <2>2, MessageFacts
<1>3. PICK C : C = enqueueLocked(a, key)
  OBVIOUS
<1>4. mem \in Blob /\ \A b \in App : Unique(mem.mail[b])
  BY DEF WakeInv, Shapes, TimersInv
<1> HIDE DEF a, key
<1>5. /\ C \in Blob /\ C.live = mem.live /\ C.bindings = mem.bindings /\ C.timers = mem.timers
      /\ \A b \in App : Unique(C.mail[b])
      /\ KeysOf(C.mail[a]) = KeysOf(mem.mail[a]) \cup {key}
      /\ \A b \in App \ {a} : C.mail[b] = mem.mail[b]
  BY <1>2, <1>3, <1>4, EnqueueFacts, SMT
<1> DEFINE N == {key}
<1>6. /\ \A x \in N : x = CommitMessage(Key, scan + 1)
      /\ N # {} <=> NextKind = "artifact"
      /\ KeysOf(C.mail[Key[1]]) = KeysOf(mem.mail[Key[1]]) \cup N
      /\ \A b \in App \ {Key[1]} : C.mail[b] = mem.mail[b]
  BY <1>1, <1>5 DEF a, key
<1>7. mem' = C
  BY <1>1, <1>3
<1> HIDE DEF N
<1> QED BY ONLY WakeInv, <1>1, <1>5, <1>6, <1>7, ScanMoves, ZenonT(30)

\* The binding is left and its local cursor kept.
LEMMA ScanEndStep ==
    ASSUME WakeInv, ScanEnd
    PROVE  WakeInv'
<1>0. PICK l : l = Key
  OBVIOUS
<1>1. /\ run = "lsfs" /\ run' = run /\ at <= Last /\ at' = at + 1
      /\ mem' = IF mem.bindings[l].enabled THEN [mem EXCEPT !.bindings[l].cursor = scan] ELSE mem
      /\ StartBinding(at + 1)
      /\ UNCHANGED <<commits, disk, todo, changed, clock, sends, mishaps>>
  BY <1>0 DEF ScanEnd, Scanned, AfterBinding, StartBinding
<1>2. /\ l \in BindKey /\ l[1] \in App /\ Position(l) = at
      /\ mem.bindings[l] \in Binding /\ scan \in Nat
      /\ Bound(mem, l, scan) /\ \A k \in BindKey \ {l} : Bound(mem, k, mem.bindings[k].cursor)
  BY <1>0, <1>1, ScanFacts
<1>3. at + 1 \in 1..(Last + 1)
  BY <1>1, PositionFacts, SMT DEF WakeInv, Shapes
<1>4. /\ at' \in 1..(Last + 1) /\ scan' \in 0..MaxCommits /\ batch' \in 0..ScanBatch
      /\ at + 1 <= Last => /\ BindingAt(at + 1) \in BindKey
                           /\ scan' = mem.bindings[BindingAt(at + 1)].cursor
  BY <1>1, <1>3, StartFacts
<1>5. mem \in Blob /\ scan \in 0..MaxCommits
  BY DEF WakeInv, Shapes
<1> DEFINE x == IF mem.bindings[l].enabled THEN [mem.bindings[l] EXCEPT !.cursor = scan]
                                           ELSE mem.bindings[l]
           f == [mem.bindings EXCEPT ![l] = x]
<1>6. /\ x \in Binding /\ x.cursor = scan /\ x.after = mem.bindings[l].after
      /\ x.enabled = mem.bindings[l].enabled /\ x.exists = mem.bindings[l].exists
  <2>1. CASE mem.bindings[l].enabled
    <3> DEFINE b == mem.bindings[l]
    <3>1. x = [b EXCEPT !.cursor = scan] /\ b \in Binding
      BY <1>2, <2>1
    <3> HIDE DEF x, b
    <3>2. /\ x \in Binding /\ x.cursor = scan /\ x.after = b.after
          /\ x.enabled = b.enabled /\ x.exists = b.exists
      BY <1>5, <3>1 DEF Binding
    <3> QED BY <3>2 DEF b
  <2>2. CASE ~mem.bindings[l].enabled
    <3>1. scan = mem.bindings[l].cursor
      BY <1>0, <1>1, <1>2, <2>2 DEF WakeInv, BindingsInv, Scanning
    <3> QED BY <1>2, <2>2, <3>1
  <2> QED BY <2>1, <2>2
<1>7. PICK C : C = [mem EXCEPT !.bindings = f]
  OBVIOUS
<1>8. mem' = C
  <2>1. CASE mem.bindings[l].enabled
    BY <1>1, <1>7, <2>1
  <2>2. CASE ~mem.bindings[l].enabled
    <3>1. mem.bindings \in [BindKey -> Binding]
      BY <1>5, BlobFields
    <3>2. f = mem.bindings
      BY <1>2, <2>2, <3>1
    <3>3. mem = [mem EXCEPT !.bindings = mem.bindings]
      BY <1>5 DEF Blob
    <3> QED BY <1>1, <1>7, <2>2, <3>2, <3>3
  <2> QED BY <2>1, <2>2
<1> HIDE DEF x
<1>9. /\ f \in [BindKey -> Binding] /\ f[l] = x
      /\ \A k \in BindKey \ {l} : f[k] = mem.bindings[k]
  BY <1>2, <1>5, <1>6, BlobFields
<1> HIDE DEF f
<1>10. /\ C \in Blob /\ C.bindings = f /\ C.mail = mem.mail /\ C.timers = mem.timers
       /\ C.live = mem.live
  BY <1>5, <1>7, <1>9 DEF Blob
<1>11. Shapes'
  BY <1>1, <1>4, <1>8, <1>10 DEF WakeInv, Shapes
<1>12. TimersInv'
  BY <1>1, <1>8, <1>10 DEF WakeInv, TimersInv, TimersOK
<1>13. BindingsInv'
  <2>1. \A k \in BindKey : Scanning(k)' => /\ at + 1 <= Last /\ k = BindingAt(at + 1)
                                           /\ k # l /\ scan' = mem.bindings[k].cursor
    <3>1. at + 1 <= Last => Position(BindingAt(at + 1)) = at + 1
      BY <1>3, PositionFacts, SMT
    <3>2. at + 1 <= Last => BindingAt(at + 1) # l
      BY <1>2, <1>3, <3>1, SMT
    <3>3. Key' = BindingAt(at + 1)
      BY <1>1 DEF Key
    <3> QED BY <1>1, <1>4, <3>2, <3>3 DEF Scanning
  <2>2. \A k \in BindKey : CursorOf(k)' = C.bindings[k].cursor
    BY <1>8, <1>9, <1>10, <2>1 DEF CursorOf
  <2>3. \A k \in BindKey : BoundTo(C.bindings[k], KeysOf(C.mail[k[1]]), commits[k[1]], k, C.bindings[k].cursor)
    <3>1. BoundTo(x, KeysOf(mem.mail[l[1]]), commits[l[1]], l, scan)
      BY <1>2, <1>6 DEF Bound, BoundTo
    <3> QED BY <1>2, <1>6, <1>9, <1>10, <3>1 DEF Bound
  <2>4. \A k \in BindKey : Bound(mem, k, CursorOf(k))'
    BY <1>1, <1>8, <2>2, <2>3 DEF Bound
  <2>5. \A k \in BindKey : Bound(disk, k, disk.bindings[k].cursor)'
    BY <1>1 DEF WakeInv, BindingsInv, Bound
  <2>6. \A k \in BindKey : Scanning(k)' => scan' = mem'.bindings[k].cursor
    BY <1>8, <1>9, <1>10, <2>1
  <2> QED BY <2>4, <2>5, <2>6 DEF BindingsInv
<1>14. StagedInv'
  BY <1>1, <1>8, <1>10 DEF WakeInv, StagedInv
<1> QED BY <1>11, <1>12, <1>13, <1>14 DEF WakeInv

LEMMA LSFSEndStep ==
    ASSUME WakeInv, LSFSEnd
    PROVE  WakeInv' /\ disk'.timers = disk.timers
<1>1. /\ run = "lsfs" /\ at > Last /\ run' = "tick" /\ at' = 1 /\ changed' = FALSE /\ mem' = mem
      /\ disk' \in {mem, disk}
      /\ UNCHANGED <<commits, todo, scan, batch, clock, sends, mishaps>>
  BY DEF LSFSEnd, persistLocked
<1>2. mem.timers = disk.timers /\ mem.live = disk.live
  BY <1>1 DEF WakeInv, StagedInv
<1>3. Shapes'
  <2>1. at' \in 1..(Last + 1)
    BY <1>1, PositionFacts, SMT
  <2> QED BY <1>1, <2>1 DEF WakeInv, Shapes
<1>4. TimersInv'
  BY <1>1 DEF WakeInv, TimersInv
<1>5. BindingsInv'
  <2>1. ~(at <= Last)
    BY <1>1, PositionFacts, SMT DEF WakeInv, Shapes
  <2>2. \A k \in BindKey : ~Scanning(k) /\ ~Scanning(k)'
    BY <1>1, <2>1 DEF Scanning
  <2>3. \A k \in BindKey : Bound(mem, k, mem.bindings[k].cursor) /\ Bound(disk, k, disk.bindings[k].cursor)
    BY <2>2 DEF WakeInv, BindingsInv, CursorOf
  <2>4. \A k \in BindKey : CursorOf(k)' = mem.bindings[k].cursor
    BY <1>1, <2>2 DEF CursorOf
  <2> QED BY <1>1, <2>2, <2>3, <2>4 DEF BindingsInv, Bound
<1>6. StagedInv'
  BY <1>1, <1>2 DEF StagedInv
<1> QED BY <1>1, <1>2, <1>3, <1>4, <1>5, <1>6 DEF WakeInv

----------------------------------------------------------------------------
(* The invariant.                                                          *)

LEMMA InitInv == Init => WakeInv
<1> SUFFICES ASSUME Init PROVE WakeInv
  OBVIOUS
<1>1. PICK B : B = disk
  OBVIOUS
<1>2. /\ B = [live |-> App, mail |-> [a \in App |-> <<>>],
              bindings |-> [k \in BindKey |-> NoBinding], timers |-> [t \in TimerKey |-> NoTimer]]
      /\ mem = B /\ disk = B
  BY <1>1 DEF Init
<1>3. /\ NoBinding \in Binding /\ NoTimer \in Timer
      /\ ~NoBinding.exists /\ ~NoBinding.enabled /\ NoBinding.cursor = 0
  BY WakeSourcesAssumption, SMT DEF NoBinding, NoTimer, Binding, Timer
<1>4. <<>> \in Seq(Msg) /\ Len(<<>>) = 0 /\ Unique(<<>>) /\ KeysOf(<<>>) = {}
  BY SMT DEF Unique, KeysOf
<1>5. /\ B.live = App /\ B.mail = [a \in App |-> <<>>]
      /\ B.bindings = [k \in BindKey |-> NoBinding] /\ B.timers = [t \in TimerKey |-> NoTimer]
  BY <1>2
<1>6. B \in Blob
  BY <1>2, <1>3, <1>4 DEF Blob
<1>7. Shapes
  <2>1. commits \in [App -> Seq({"artifact", "turn"})] /\ \A a \in App : Len(commits[a]) <= MaxCommits
    BY <1>4, WakeSourcesAssumption, SMT DEF Init
  <2>2. at \in 1..(Last + 1)
    BY PositionFacts, SMT DEF Init
  <2>3. \A n \in {ScanBatch, MaxCommits, MaxTime, MaxSends, MaxMishaps} : 0 \in 0..n
    BY WakeSourcesAssumption, SMT
  <2> QED BY <1>2, <1>6, <2>1, <2>2, <2>3 DEF Init, Shapes
<1>8. TimersInv
  <2>1. \A a \in App : B.mail[a] = <<>>
    BY <1>5
  <2>2. \A t \in TimerKey : B.timers[t] = NoTimer
    BY <1>5
  <2> QED BY <1>2, <1>4, <2>1, <2>2 DEF TimersInv, TimersOK
<1>9. BindingsInv
  <2>1. \A k \in BindKey : ~Scanning(k) /\ CursorOf(k) = mem.bindings[k].cursor
    BY DEF Init, Scanning, CursorOf
  <2>2. ASSUME NEW k \in BindKey
        PROVE  Bound(B, k, B.bindings[k].cursor)
    <3>1. B.bindings[k] = NoBinding /\ B.mail[k[1]] = <<>>
      BY <1>5, AppFacts
    <3>2. 0 \in 0..MaxCommits
      BY WakeSourcesAssumption, SMT
    <3> QED BY <1>3, <1>4, <3>1, <3>2 DEF Bound, BoundTo
  <2> QED BY <1>2, <2>1, <2>2 DEF BindingsInv
<1>10. StagedInv
  BY <1>2 DEF Init, StagedInv
<1> QED BY <1>7, <1>8, <1>9, <1>10 DEF WakeInv

LEMMA StutterInv ==
    ASSUME WakeInv, UNCHANGED vars
    PROVE  WakeInv'
<1>1. UNCHANGED <<commits, mem, disk, run, todo, at, scan, batch, changed, clock, sends, mishaps>>
  BY DEF vars, passVars
<1>2. Shapes' /\ TimersInv'
  BY <1>1 DEF WakeInv, Shapes, TimersInv
<1>3. BindingsInv'
  BY <1>1 DEF WakeInv, BindingsInv, CursorOf, Scanning, Key, Bound
<1>4. StagedInv'
  BY <1>1 DEF WakeInv, StagedInv, Moved
<1> QED BY <1>2, <1>3, <1>4 DEF WakeInv

\* What a step does to the timers on disk.
Armed(t) == disk.timers[t] = NoTimer /\ \A u \in TimerKey \ {t} : disk'.timers[u] = disk.timers[u]
Written  == \A t \in TimerKey : disk.timers[t] # disk'.timers[t] =>
              Moved(t) /\ disk' = mem /\ mem.live = disk.live

LEMMA NextInv ==
    ASSUME WakeInv, [Next]_vars
    PROVE  WakeInv' /\ (disk'.timers = disk.timers \/ (\E t \in TimerKey : Armed(t)) \/ Written)
<1>1. CASE \E t \in TimerKey, d \in Delays, i \in Intervals : AddTimer(t, d, i)
  BY <1>1, AddTimerStep DEF Armed
<1>2. CASE \E k \in BindKey, c \in 0..MaxCommits : AddLSFSBinding(k, c)
  BY <1>2, AddBindingStep
<1>3. CASE \E k \in BindKey, on \in BOOLEAN : SetLSFSBindingEnabled(k, on)
  BY <1>3, SetEnabledStep
<1>4. CASE \E a \in App, kind \in {"artifact", "turn"} : Commit(a, kind)
  <2>1. disk' = disk
    BY <1>4 DEF Commit
  <2>2. WakeInv'
    BY <1>4, CommitStep
  <2> QED BY <2>1, <2>2
<1>5. CASE \E a \in App : Send(a)
  BY <1>5, SendStep
<1>6. CASE \E a \in App : Consume(a)
  BY <1>6, ConsumeStep
<1>7. CASE \E a \in App : RetireApplication(a)
  BY <1>7, RetireStep
<1>8. CASE TimePasses
  BY <1>8, TimePassesStep DEF TimePasses
<1>9. CASE Load
  BY <1>9, LoadStep DEF Load
<1>10. CASE Tick
  BY <1>10, TickStep DEF Tick
<1>11. CASE \E t \in TimerKey : TimerStep(t)
  <2>1. disk' = disk
    BY <1>11 DEF TimerStep
  <2>2. WakeInv'
    BY <1>11, TimerStepInv
  <2> QED BY <2>1, <2>2
<1>12. CASE TimersEnd
  BY <1>12, TimersEndStep DEF Written
<1>13. CASE ScanTurn
  BY <1>13, ScanTurnStep DEF ScanTurn
<1>14. CASE ScanDeliver
  BY <1>14, ScanDeliverStep DEF ScanDeliver
<1>15. CASE ScanEnd
  BY <1>15, ScanEndStep DEF ScanEnd
<1>16. CASE LSFSEnd
  BY <1>16, LSFSEndStep
<1>17. CASE PassFails \/ Crash
  BY <1>17, StoppedStep DEF PassFails, Crash
<1>18. CASE UNCHANGED vars
  BY <1>18, StutterInv DEF vars
<1> QED BY <1>1, <1>2, <1>3, <1>4, <1>5, <1>6, <1>7, <1>8, <1>9, <1>10, <1>11, <1>12, <1>13,
           <1>14, <1>15, <1>16, <1>17, <1>18 DEF Next, Passes

\* The inductive invariant of the deliveries.
THEOREM WakeInvariant == Spec => []WakeInv
<1>1. WakeInv /\ [Next]_vars => WakeInv'
  BY NextInv
<1> QED BY InitInv, <1>1, PTL DEF Spec

----------------------------------------------------------------------------
(* The properties.  The facts about cardinalities are needed from here on. *)

INSTANCE FiniteSetTheorems

\* The positions at which a mailbox with unique keys has a given key.
LEMMA Places ==
    ASSUME NEW m \in Seq(Msg), Unique(m), NEW x
    PROVE  Cardinality({i \in 1..Len(m) : m[i].key = x}) = IF x \in KeysOf(m) THEN 1 ELSE 0
<1> DEFINE P == {i \in 1..Len(m) : m[i].key = x}
<1>1. CASE x \in KeysOf(m)
  <2>1. PICK i \in 1..Len(m) : m[i].key = x
    BY <1>1 DEF KeysOf
  <2>2. P = {i}
    BY <2>1 DEF Unique
  <2>3. Cardinality({i}) = 1
    BY FS_Singleton
  <2> QED BY <1>1, <2>2, <2>3
<1>2. CASE x \notin KeysOf(m)
  <2>1. P = {}
    BY <1>2 DEF KeysOf
  <2> QED BY <1>2, <2>1, FS_EmptySet
<1> QED BY <1>1, <1>2

LEMMA TypesFollow == WakeInv => TypeOK
<1> SUFFICES ASSUME WakeInv PROVE TypeOK
  OBVIOUS
<1>1. \A B \in {mem, disk} :
        /\ B.live \in SUBSET App /\ DOMAIN B.mail = App
        /\ B.bindings \in [BindKey -> Binding] /\ B.timers \in [TimerKey -> Timer]
  BY DEF WakeInv, Shapes, Blob
<1> QED BY <1>1 DEF WakeInv, Shapes, TypeOK, Binding, Timer

LEMMA CursorFollows == WakeInv => CursorMatchesMailbox
<1> SUFFICES ASSUME WakeInv, NEW k \in BindKey, disk.bindings[k].exists, NEW c \in 1..MaxCommits
             PROVE  Cardinality({i \in 1..Len(disk.mail[k[1]]) :
                                   disk.mail[k[1]][i].key = CommitMessage(k, c)})
                      = IF disk.bindings[k].after < c /\ c <= disk.bindings[k].cursor
                           /\ commits[k[1]][c] = "artifact"
                        THEN 1 ELSE 0
  BY TypesFollow DEF CursorMatchesMailbox
<1> DEFINE m == disk.mail[k[1]]
           x == CommitMessage(k, c)
<1>1. m \in Seq(Msg) /\ Unique(m)
  BY AppFacts, BlobFields DEF WakeInv, Shapes, TimersInv
<1>2. x \in KeysOf(m) <=> disk.bindings[k].after < c /\ c <= disk.bindings[k].cursor
                            /\ commits[k[1]][c] = "artifact"
  BY DEF WakeInv, BindingsInv, Bound, BoundTo
<1> HIDE DEF m, x
<1>3. Cardinality({i \in 1..Len(m) : m[i].key = x}) = IF x \in KeysOf(m) THEN 1 ELSE 0
  BY <1>1, Places
<1> QED BY <1>2, <1>3 DEF m, x

\* deliverLSFS persists the cursor of a binding together with the messages of
\* the commits it has passed, whatever fails in between.
THEOREM CursorMatchesMailboxCorrect == Spec => []CursorMatchesMailbox
  BY WakeInvariant, CursorFollows, PTL

LEMMA FreshFollows == WakeInv => TimerKeyFresh
  BY AppFacts DEF WakeInv, TimersInv, TimersOK, TimerKeyFresh, KeysOf

\* enqueueLocked never takes the message of an armed timer for an older one.
THEOREM TimerKeyFreshCorrect == Spec => []TimerKeyFresh
  BY WakeInvariant, FreshFollows, PTL

Accounted(t) ==
    disk.timers[t] # NoTimer /\ disk'.timers[t] # disk.timers[t] /\ t[1] \in disk.live =>
      /\ \E i \in 1..Len(disk'.mail[t[1]]) :
           disk'.mail[t[1]][i].key = TimerMessage(t, disk.timers[t].due)
      /\ disk'.timers[t] # NoTimer =>
           disk'.timers[t].due >= clock + disk.timers[t].interval

LEMMA StepAccounted ==
    ASSUME WakeInv, [Next]_vars, NEW t \in TimerKey
    PROVE  Accounted(t)
<1>1. CASE disk'.timers = disk.timers
  BY <1>1 DEF Accounted
<1>2. CASE \E u \in TimerKey : Armed(u)
  BY <1>2 DEF Accounted, Armed
<1>3. CASE Written
  BY <1>3 DEF Accounted, Written, Moved, KeysOf
<1> QED BY <1>1, <1>2, <1>3, NextInv

\* deliverTimers takes a timer off, or re-arms it, only in the write that has
\* its message, and re-arms it from now on.
THEOREM TimerAccountedCorrect == Spec => TimerAccounted
<1>1. WakeInv /\ [Next]_vars => [\A t \in TimerKey : Accounted(t)]_vars
  BY StepAccounted
<1>2. Spec => [][\A t \in TimerKey : Accounted(t)]_vars
  BY <1>1, WakeInvariant, PTL DEF Spec
<1> QED BY <1>2 DEF TimerAccounted, Accounted

----------------------------------------------------------------------------
(* The capacity of the mailboxes.                                          *)

INSTANCE SumsProofs

Capped(B) == (\A a \in App : OpenCount(B, a) <= AppCap) /\ OpenTotal(B) <= TotalCap

LEMMA OpenFacts ==
    ASSUME NEW B \in Blob, NEW a \in App
    PROVE  /\ IsFiniteSet({i \in 1..Len(B.mail[a]) : B.mail[a][i].open})
           /\ OpenCount(B, a) \in Nat
<1>1. Len(B.mail[a]) \in Nat
  BY BlobFields, SMT
<1>2. IsFiniteSet(1..Len(B.mail[a]))
  BY <1>1, FS_Interval, SMT
<1>3. IsFiniteSet({i \in 1..Len(B.mail[a]) : B.mail[a][i].open})
  BY <1>2, FS_Subset
<1> QED BY <1>3, FS_CardinalityType DEF OpenCount

LEMMA OpenNumbers ==
    ASSUME NEW B \in Blob
    PROVE  /\ NApps \in Nat
           /\ \A a \in 1..NApps : [b \in App |-> OpenCount(B, b)][a] = OpenCount(B, a)
           /\ Numbers([b \in App |-> OpenCount(B, b)], NApps)
<1>1. \A a \in App : OpenCount(B, a) \in Nat
  BY OpenFacts
<1> QED BY <1>1, WakeSourcesAssumption, SMT DEF App, Numbers

LEMMA ClosesCaps ==
    ASSUME NEW B \in Blob, NEW C \in Blob, Capped(B), Closes(B, C)
    PROVE  Capped(C)
<1>1. ASSUME NEW a \in App PROVE OpenCount(C, a) <= OpenCount(B, a)
  <2> DEFINE P == {i \in 1..Len(B.mail[a]) : B.mail[a][i].open}
             Q == {i \in 1..Len(C.mail[a]) : C.mail[a][i].open}
  <2>1. Q \in SUBSET P
    BY DEF Closes
  <2>2. IsFiniteSet(P)
    BY OpenFacts
  <2>3. Cardinality(Q) <= Cardinality(P)
    BY <2>1, <2>2, FS_Subset
  <2> QED BY <2>3 DEF OpenCount
<1>2. \A a \in App : OpenCount(C, a) \in Nat /\ OpenCount(B, a) \in Nat
  BY OpenFacts
<1>3. \A a \in App : OpenCount(C, a) <= AppCap
  BY <1>1, <1>2, WakeSourcesAssumption, SMTT(30) DEF Capped
<1> DEFINE f == [b \in App |-> OpenCount(C, b)]
           g == [b \in App |-> OpenCount(B, b)]
<1>4. /\ NApps \in Nat /\ Numbers(f, NApps) /\ Numbers(g, NApps)
      /\ \A a \in 1..NApps : f[a] <= g[a]
  BY <1>1, OpenNumbers DEF App
<1> HIDE DEF f, g
<1>5. SumUpTo(f, NApps) <= SumUpTo(g, NApps) /\ SumUpTo(f, NApps) \in Int /\ SumUpTo(g, NApps) \in Int
  BY <1>4, SumMonotone, SumInt
<1>6. OpenTotal(C) <= OpenTotal(B) /\ OpenTotal(C) \in Int /\ OpenTotal(B) \in Int
  BY <1>5 DEF OpenTotal, f, g
<1>7. OpenTotal(C) <= TotalCap
  BY <1>6, WakeSourcesAssumption, SMT DEF Capped
<1> QED BY <1>3, <1>7 DEF Capped

\* enqueueLocked with room for the message, or with a message that is known.
LEMMA EnqueueCaps ==
    ASSUME mem \in Blob, Capped(mem), NEW a \in App, NEW x \in MsgKey, ~Full(a, x),
           NEW C \in Blob, C.mail = enqueueLocked(a, x).mail
    PROVE  Capped(C)
<1>1. CASE x \in Keys(a)
  <2>1. C.mail = mem.mail
    BY <1>1 DEF enqueueLocked
  <2> QED BY <2>1 DEF Capped, OpenCount, OpenTotal
<1>2. CASE x \notin Keys(a)
  <2> DEFINE y == [key |-> x, open |-> TRUE]
             m == mem.mail[a]
             n == Append(m, y)
             P == {i \in 1..Len(m) : m[i].open}
             Q == {i \in 1..Len(n) : n[i].open}
  <2>1. OpenCount(mem, a) < AppCap /\ OpenTotal(mem) < TotalCap
    BY <1>2 DEF Full, Accepts
  <2>2. y \in Msg /\ y.open /\ m \in Seq(Msg) /\ mem.mail \in [App -> Seq(Msg)]
    BY BlobFields DEF Msg
  <2>3. C.mail[a] = n /\ \A b \in App \ {a} : C.mail[b] = mem.mail[b]
    <3>1. C.mail = [mem EXCEPT !.mail[a] = n].mail
      BY <1>2 DEF enqueueLocked
    <3>2. [mem EXCEPT !.mail[a] = n].mail = [mem.mail EXCEPT ![a] = n]
      BY DEF Blob
    <3> QED BY <2>2, <3>1, <3>2
  <2>4. Q = P \cup {Len(m) + 1} /\ Len(m) + 1 \notin P
    <3> HIDE DEF m, y
    <3>1. /\ Len(m) \in Nat /\ Len(n) = Len(m) + 1 /\ n[Len(m) + 1] = y
          /\ \A i \in 1..Len(m) : n[i] = m[i]
          /\ \A i \in 1..Len(n) : i \in 1..Len(m) \/ i = Len(m) + 1
          /\ 1..Len(m) \subseteq 1..Len(n) /\ Len(m) + 1 \in 1..Len(n)
          /\ Len(m) + 1 \notin 1..Len(m)
      BY <2>2, SMT
    <3> HIDE DEF n
    <3> QED BY <2>2, <3>1
  <2>5. IsFiniteSet(P) /\ Cardinality(P) \in Nat
    BY OpenFacts, FS_CardinalityType
  <2>6. Cardinality(Q) = Cardinality(P) + 1
    <3> HIDE DEF P, Q
    <3> QED BY <2>4, <2>5, FS_AddElement
  <2>7. OpenCount(C, a) = OpenCount(mem, a) + 1
    BY <2>3, <2>6 DEF OpenCount
  <2>8. \A b \in App \ {a} : OpenCount(C, b) = OpenCount(mem, b)
    BY <2>3 DEF OpenCount
  <2>9. OpenCount(mem, a) \in Nat /\ AppCap \in Nat
    BY OpenFacts, WakeSourcesAssumption
  <2>10. \A b \in App : OpenCount(C, b) <= AppCap
    BY <2>1, <2>7, <2>8, <2>9, SMTT(30) DEF Capped
  <2> DEFINE f == [b \in App |-> OpenCount(mem, b)]
             g == [b \in App |-> OpenCount(C, b)]
  <2>11. /\ NApps \in Nat /\ Numbers(f, NApps) /\ Numbers(g, NApps) /\ a \in 1..NApps
         /\ \A b \in 1..NApps : b # a => f[b] = g[b]
         /\ g[a] = f[a] + 1 /\ f[a] \in Nat
    BY <2>7, <2>8, <2>9, OpenNumbers DEF App
  <2> HIDE DEF f, g
  <2>12. SumUpTo(g, NApps) = SumUpTo(f, NApps) + g[a] - f[a] /\ SumUpTo(f, NApps) \in Int
    BY <2>11, SumChange, SumInt
  <2>13. SumUpTo(g, NApps) = SumUpTo(f, NApps) + 1
    BY <2>11, <2>12, SMT
  <2>14. OpenTotal(C) = OpenTotal(mem) + 1 /\ OpenTotal(mem) \in Int
    BY <2>12, <2>13 DEF OpenTotal, f, g
  <2>15. OpenTotal(C) <= TotalCap
    <3>1. PICK p : p = OpenTotal(mem)
      OBVIOUS
    <3>2. PICK q : q = OpenTotal(C)
      OBVIOUS
    <3>3. p \in Int /\ q = p + 1 /\ p < TotalCap /\ TotalCap \in Nat
      BY <2>1, <2>14, <3>1, <3>2, WakeSourcesAssumption, Zenon
    <3>4. q <= TotalCap
      BY ONLY <3>3, SMT
    <3> QED BY <3>2, <3>4, Zenon
  <2> QED BY <2>10, <2>15 DEF Capped
<1> QED BY <1>1, <1>2

LEMMA SameCaps ==
    ASSUME NEW B, NEW C, Capped(B), C.mail = B.mail
    PROVE  Capped(C)
  BY DEF Capped, OpenCount, OpenTotal

CapsInv == Capped(mem) /\ Capped(disk)

LEMMA InitCaps == Init => CapsInv
<1> SUFFICES ASSUME Init PROVE CapsInv
  OBVIOUS
<1>1. \A a \in App : OpenCount(disk, a) = 0
  <2> TAKE a \in App
  <2>1. disk.mail[a] = <<>>
    BY DEF Init
  <2>2. {i \in 1..Len(disk.mail[a]) : disk.mail[a][i].open} = {}
    BY <2>1, SMT
  <2> QED BY <2>2, FS_EmptySet DEF OpenCount
<1> DEFINE f == [a \in App |-> OpenCount(disk, a)]
<1>2. NApps \in Nat /\ \A a \in 1..NApps : f[a] = 0
  BY <1>1, WakeSourcesAssumption DEF App
<1> HIDE DEF f
<1>3. SumUpTo(f, NApps) = 0
  BY <1>2, SumZero
<1>4. OpenTotal(disk) = 0
  BY <1>3 DEF OpenTotal, f
<1>5. Capped(disk)
  BY <1>1, <1>4, WakeSourcesAssumption, SMTT(30) DEF Capped
<1>6. mem = disk
  BY DEF Init
<1> QED BY <1>5, <1>6 DEF CapsInv

\* Steps that leave the mailboxes alone, or only copy a blob.
LEMMA QuietCaps ==
    ASSUME CapsInv, mem'.mail = mem.mail \/ mem' = disk,
           disk' \in {disk, mem, mem'}
    PROVE  CapsInv'
<1>1. PICK C : C = mem'
  OBVIOUS
<1>2. PICK D : D = disk'
  OBVIOUS
<1>3. Capped(C)
  BY <1>1, SameCaps DEF CapsInv
<1>4. Capped(D)
  BY <1>1, <1>2, <1>3 DEF CapsInv
<1> QED BY <1>1, <1>2, <1>3, <1>4 DEF CapsInv, Capped, OpenCount, OpenTotal

LEMMA WriteCaps ==
    ASSUME CapsInv, NEW C, Capped(C), mem' = C, disk' \in {disk, C}
    PROVE  CapsInv'
  BY DEF CapsInv, Capped, OpenCount, OpenTotal

LEMMA NextCaps ==
    ASSUME WakeInv, WakeInv', CapsInv, [Next]_vars
    PROVE  CapsInv'
<1>0. mem \in Blob /\ mem' \in Blob /\ \A b \in App : Unique(mem.mail[b])
  BY DEF WakeInv, Shapes, TimersInv
<1>1. CASE \E t \in TimerKey, d \in Delays, i \in Intervals : AddTimer(t, d, i)
  <2>1. mem'.mail = mem.mail /\ disk' = mem'
    BY <1>0, <1>1 DEF AddTimer, persistLocked, Blob
  <2> QED BY <2>1, QuietCaps
<1>2. CASE \E k \in BindKey, c \in 0..MaxCommits : AddLSFSBinding(k, c)
  <2>1. mem'.mail = mem.mail /\ disk' = mem'
    BY <1>0, <1>2 DEF AddLSFSBinding, persistLocked, Blob
  <2> QED BY <2>1, QuietCaps
<1>3. CASE \E k \in BindKey, on \in BOOLEAN : SetLSFSBindingEnabled(k, on)
  <2>1. mem'.mail = mem.mail /\ disk' = mem'
    BY <1>0, <1>3 DEF SetLSFSBindingEnabled, persistLocked, Blob
  <2> QED BY <2>1, QuietCaps
<1>4. CASE \E a \in App : Send(a)
  <2>1. PICK a \in App : Send(a)
    BY <1>4
  <2> DEFINE x == ClientMessage(sends)
  <2>2. mem' = enqueueLocked(a, x) /\ disk' = mem' /\ ~Full(a, x)
    BY <2>1 DEF Send, persistLocked, Full
  <2>3. x \in MsgKey
    <3>1. sends \in 0..MaxSends
      BY Zenon DEF WakeInv, Shapes
    <3>2. sends \in Nat
      BY ONLY <3>1, WakeSourcesAssumption, SMTT(30)
    <3> QED BY ONLY <3>2, MessageFacts, Zenon
  <2>4. PICK C : C = mem'
    OBVIOUS
  <2> HIDE DEF x
  <2>5. C \in Blob /\ C.mail = enqueueLocked(a, x).mail
    BY <1>0, <2>2, <2>4
  <2>6. Capped(C)
    BY <1>0, <2>2, <2>3, <2>5, EnqueueCaps DEF CapsInv
  <2> QED BY <2>2, <2>4, <2>6, WriteCaps
<1>5. CASE \E a \in App : Consume(a) \/ RetireApplication(a)
  <2>1. Closes(mem, mem') /\ disk' = mem'
    BY <1>5, ConsumeStep, RetireStep
  <2>2. PICK C : C = mem'
    OBVIOUS
  <2>3. Capped(C)
    BY <1>0, <2>1, <2>2, ClosesCaps DEF CapsInv
  <2> QED BY <2>1, <2>2, <2>3, WriteCaps
<1>6. CASE \E t \in TimerKey : TimerStep(t)
  <2>1. PICK t \in TimerKey : TimerStep(t)
    BY <1>6
  <2> DEFINE timer == mem.timers[t]
             x == TimerMessage(t, timer.due)
  <2>2. disk' = disk
    BY <2>1 DEF TimerStep
  <2>3. CASE UNCHANGED mem \/ mem' = [mem EXCEPT !.timers[t] = NoTimer]
    <3>1. mem'.mail = mem.mail
      BY <1>0, <2>3 DEF Blob
    <3> QED BY <2>2, <3>1, QuietCaps
  <2>4. CASE /\ mem' = [enqueueLocked(t[1], x) EXCEPT !.timers[t] = Rearmed(timer)]
             /\ ~Full(t[1], x)
    <3>1. t[1] \in App /\ x \in MsgKey
      <4>1. timer.due \in Nat
        BY <1>0, BlobFields DEF Timer
      <4> QED BY <4>1, AppFacts, MessageFacts
    <3>2. PICK E : E = enqueueLocked(t[1], x)
      OBVIOUS
    <3>3. PICK a : a = t[1]
      OBVIOUS
    <3>4. PICK C : C = mem'
      OBVIOUS
    <3>5. E = enqueueLocked(a, x) /\ a \in App
      BY <3>1, <3>2, <3>3
    <3> HIDE DEF x
    <3>6. E \in Blob
      BY <1>0, <3>1, <3>5, EnqueueFacts
    <3>7. C = [E EXCEPT !.timers[t] = Rearmed(timer)]
      BY <2>4, <3>2, <3>4 DEF x
    <3> HIDE DEF timer
    <3>8. C.mail = E.mail
      BY <3>6, <3>7 DEF Blob
    <3>9. C \in Blob /\ ~Full(a, x) /\ C.mail = enqueueLocked(a, x).mail
      BY <1>0, <2>4, <3>3, <3>4, <3>5, <3>8
    <3>10. Capped(C)
      BY <1>0, <3>1, <3>5, <3>9, EnqueueCaps DEF CapsInv
    <3> QED BY <2>2, <3>4, <3>10, WriteCaps
  <2> QED BY <2>1, <2>3, <2>4 DEF TimerStep, TimerFull
<1>7. CASE ScanDeliver
  <2> DEFINE a == Key[1]
             x == CommitMessage(Key, scan + 1)
  <2>1. mem' = enqueueLocked(a, x) /\ disk' = disk /\ ~Full(a, x)
    BY <1>7 DEF ScanDeliver
  <2>2. a \in App /\ x \in MsgKey
    <3>1. Key \in BindKey /\ Key[1] \in App /\ scan \in Nat
      BY <1>7, ScanFacts DEF ScanDeliver, HasCommit
    <3>2. scan + 1 \in Nat
      BY <3>1, SMT
    <3> QED BY <3>1, <3>2, MessageFacts
  <2>3. PICK C : C = mem'
    OBVIOUS
  <2> HIDE DEF a, x
  <2>4. C \in Blob /\ C.mail = enqueueLocked(a, x).mail
    BY <1>0, <2>1, <2>3
  <2>5. Capped(C)
    BY <1>0, <2>1, <2>2, <2>4, EnqueueCaps DEF CapsInv
  <2> QED BY <2>1, <2>3, <2>5, WriteCaps
<1>8. CASE ScanEnd
  <2>1. mem'.mail = mem.mail /\ disk' = disk
    BY <1>0, <1>8 DEF ScanEnd, Blob
  <2> QED BY <2>1, QuietCaps
<1>9. CASE TimersEnd \/ LSFSEnd
  <2>1. mem' = mem /\ disk' \in {disk, mem}
    BY <1>9 DEF TimersEnd, LSFSEnd, persistLocked
  <2> QED BY <2>1, QuietCaps
<1>10. CASE Load \/ PassFails \/ Crash
  <2>1. mem' = disk /\ disk' = disk
    BY <1>10 DEF Load, PassFails, Crash, Stopped, restoreLocked
  <2> QED BY <2>1, QuietCaps
<1>11. CASE (\E a \in App, kind \in {"artifact", "turn"} : Commit(a, kind)) \/ TimePasses \/ Tick
              \/ ScanTurn \/ UNCHANGED vars
  <2>1. mem' = mem /\ disk' = disk
    BY <1>11 DEF Commit, TimePasses, Tick, ScanTurn, vars
  <2> QED BY <2>1, QuietCaps
<1> QED BY <1>1, <1>2, <1>3, <1>4, <1>5, <1>6, <1>7, <1>8, <1>9, <1>10, <1>11 DEF Next, Passes

\* Every way to enqueue a message looks at both limits, and a pass that is
\* written as a whole does not get around them.
THEOREM MailboxBoundedCorrect == Spec => []MailboxBounded
<1>1. Init => WakeInv /\ CapsInv
  BY InitInv, InitCaps
<1>2. WakeInv /\ CapsInv /\ [Next]_vars => (WakeInv /\ CapsInv)'
  BY NextInv, NextCaps
<1>3. CapsInv => MailboxBounded
  BY DEF CapsInv, Capped, MailboxBounded
<1> QED BY <1>1, <1>2, <1>3, PTL DEF Spec

=============================================================================
