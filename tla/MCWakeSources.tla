--------------------------- MODULE MCWakeSources ---------------------------
(* WakeSources for TLC: timers and bindings meet in the mailboxes only, so *)
(* each source is explored with control clients as the other user of them. *)
(* Of the timers, those of the first application are periodic and those of *)
(* the others fire once; of the contexts, the first has most commits.  The *)
(* constraints cut off nothing that a pass or a consumer does, which are   *)
(* the fair steps.                                                         *)
EXTENDS WakeSources

OneSource ==
    \/ \A k \in BindKey : ~mem.bindings[k].exists /\ commits[k[1]] = << >>
    \/ /\ clock = 0 /\ \A t \in TimerKey : mem.timers[t] = NoTimer
       /\ \A a \in App \ {1} : Len(commits[a]) <= 1

TimerKinds ==
    \A t \in TimerKey : mem.timers[t] # NoTimer =>
        (mem.timers[t].interval = 0) = (t[1] > 1)
=============================================================================
