------------------------ MODULE MCEngineConnection ------------------------
(* EngineConnection for TLC: one session with repeated request ids, or two *)
(* sessions that share the history budget and use no request ids.  Prompt  *)
(* goroutines are interchangeable, which is used for safety only.          *)
EXTENDS EngineConnection, TLC

WorkerSymmetry == Permutations(Workers)

OneOrTwo == issued < 2 \/ \A i \in DOMAIN runs : runs[i][2] = NoRequest
=============================================================================
