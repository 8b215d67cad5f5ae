---------------------------- MODULE MCKernelWake ----------------------------
(* KernelWake for TLC, and a property that needs a sum. *)
EXTENDS KernelWake, FiniteSetsExt

\* Every expiry of a kernel timer is accounted for by the coalesced counts:
\* of events in the queue, of messages, and of the expiries still merged.
ExpiriesCounted ==
    \A a \in disk.live :
      LET timers == {e \in SeqRange(queue[a]) : e.data = 0}
                      \cup {m.event : m \in {x \in SeqRange(disk.mail[a]) :
                                               x.boot = boot /\ x.event.data = 0}}
      IN fires[a] = merged[a] + MapThenSumSet(LAMBDA e : e.n, timers)

\* More than one expiry only as long as nothing has failed or been stopped.
\* Expiries, failures, stops and reboots are not fair steps.
FewExpiries ==
    (\E a \in App : fires[a] > 1) => boot = 1 /\ mishaps = 0 /\ stops = 0

=============================================================================
