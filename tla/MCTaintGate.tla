---------------------------- MODULE MCTaintGate ----------------------------
(* TaintGate for TLC: the confirmation queue and the transfers share only  *)
(* the taint of an application, so each is explored with the other at rest. *)
EXTENDS TaintGate

OneHalf == asked = << >> \/ (staged = << >> /\ calls = {})
Timeless == staged # << >> \/ calls # {} => now = 0
=============================================================================
