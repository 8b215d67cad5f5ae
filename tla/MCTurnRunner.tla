---------------------------- MODULE MCTurnRunner ----------------------------
(* Small instances of TurnRunner for TLC. *)
EXTENDS TurnRunner, TLC

\* Workers, texts and applications are interchangeable.
Symmetry == Permutations(Slot) \cup Permutations(Text) \cup Permutations(App)

\* A second mishap only as long as there is one message.  Mishaps and new
\* messages are not fair steps.
FewMishaps == mishaps > 1 => Cardinality({m \in Msg : status[m] # "none"}) <= 1
=============================================================================
