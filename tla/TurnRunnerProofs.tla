-------------------------- MODULE TurnRunnerProofs --------------------------
(***************************************************************************)
(* The theorems about the turn engine: its inductive invariant IInv, one   *)
(* lemma for each of its parts and one step per action in each lemma, the  *)
(* safety properties, the refinement of TurnLedger, the budget, the        *)
(* charges and the taint.                                                  *)
(***************************************************************************)
EXTENDS TurnRunner, TLAPS

\* Most steps rearrange first-order facts; the few that compute cite SMT.
USE ZenonT(30)

----------------------------------------------------------------------------
(***************************************************************************)
(* The turn engine's state is well typed: the part TypeOK of the inductive *)
(* invariant, one step per action, and the typing facts used later on.     *)
(***************************************************************************)

\* The empty supervisor is well typed.
LEMMA TypeInit == Init => TypeOK
<1>1. 0 \in 0..MaxTokens /\ 0 \in 0..MaxMishaps
  BY SMT, TokenAssumption
<1>2. NotAppended \in AppendRow
  BY DEF NotAppended, AppendRow
<1>3. "idle" \in PCs /\ <<>> \in Seq(Entry)
  BY SMT DEF PCs
<1>4. ASSUME NEW S PROVE [x \in S |-> FALSE] \in [S -> BOOLEAN]
  OBVIOUS
<1> SUFFICES ASSUME Init PROVE TypeOK
  OBVIOUS
<1>5. tainted \in [App -> BOOLEAN] /\ carries \in [Msg -> BOOLEAN]
        /\ failed \in [Slot -> BOOLEAN]
        /\ stopping \in BOOLEAN /\ failure \in BOOLEAN
  BY <1>4, Zenon DEF Init
<1> QED
  BY <1>1, <1>2, <1>3, <1>5 DEF Init, TypeOK

\* saturatingAdd stays within the counter's width, also at its upper end.
LEMMA SaturatingAddType ==
  ASSUME NEW x \in 0..MaxTokens, NEW y \in 0..MaxTokens
  PROVE  saturatingAdd(x, y) \in 0..MaxTokens
  BY SMT, TokenAssumption DEF saturatingAdd

\* The fields of an answer, known or not, are a text, a cost and a status.
LEMMA TurnFields ==
  ASSUME NEW t \in Turn \cup {NoTurn}
  PROVE  t.text \in Text \cup {NoText} /\ t.usage \in (Usage \cup {0})
         /\ t.usage \in 0..MaxTokens /\ t.status \in {"none", "completed", "failed"}
<1>0. (Usage \cup {0}) \subseteq 0..MaxTokens
  BY SMT, TokenAssumption
<1>1. CASE t \in [status : {"completed"}, text : Text, usage : Usage]
  BY <1>0, <1>1
<1>2. CASE t \in [status : {"failed"}, text : {NoText}, usage : Usage \cup {0}]
  BY <1>0, <1>2
<1>3. CASE t = NoTurn
  BY <1>0, <1>3 DEF NoTurn
<1> QED BY <1>1, <1>2, <1>3 DEF Turn

\* Counting one more mishap stays within the bound.
LEMMA MishapType ==
  ASSUME TypeOK, Mishap
  PROVE  mishaps' \in 0..MaxMishaps
  BY SMT, TokenAssumption DEF TypeOK, Mishap

\* A busy worker holds a message that was enqueued for some application.
LEMMA HeldFacts ==
  ASSUME TypeOK, HoldersOK, NEW w \in Slot, pc[w] # "idle"
  PROVE  held[w] \in Msg /\ status[held[w]] # "none" /\ owner[held[w]] \in App
<1>1. held[w] \in Msg /\ status[held[w]] # "none"
  BY DEF TypeOK, HoldersOK
<1>2. owner[held[w]] # NoApp
  BY <1>1 DEF HoldersOK
<1> QED BY <1>1, <1>2 DEF TypeOK

\* No control call, tick, worker step or restart breaks the types.
LEMMA TypeStep == TypeOK /\ HoldersOK /\ ProgressOK /\ [Next]_vars => TypeOK'
<1> SUFFICES ASSUME TypeOK, HoldersOK, ProgressOK, [Next]_vars PROVE TypeOK'
  OBVIOUS
<1>1. CASE UNCHANGED vars
  BY <1>1 DEF TypeOK, vars, appVars, mailVars, turnVars, ctxVars, loopVars, workVars, histVars
<1>2. CASE Control
  <2>1. ASSUME NEW a \in App, NEW p \in Wakes, CreateApplication(a, p) PROVE TypeOK'
    BY <2>1, InputAssumption DEF CreateApplication, TypeOK, mailVars, turnVars, ctxVars, loopVars, workVars, histVars
  <2>2. ASSUME NEW a \in App, NEW l \in Limit \cup {0}, SetTokenLimit(a, l) PROVE TypeOK'
    <3>1. l \in 0..MaxTokens
      BY SMT, TokenAssumption
    <3> QED BY <2>2, <3>1 DEF SetTokenLimit, TypeOK, mailVars, turnVars, ctxVars, loopVars, workVars, histVars
  <2>3. ASSUME NEW a \in App, NEW m \in Msg, NEW t \in Taints, Enqueue(a, m, t) PROVE TypeOK'
    BY <2>3, InputAssumption DEF Enqueue, TypeOK, appVars, turnVars, ctxVars, loopVars, workVars, histVars
  <2>4. ASSUME NEW a \in App, NEW st \in {"serving", "frozen"}, SetApplicationState(a, st) PROVE TypeOK'
    BY <2>4 DEF SetApplicationState, TypeOK, mailVars, turnVars, ctxVars, loopVars, workVars, histVars
  <2>5. ASSUME NEW a \in App, RetireApplication(a) PROVE TypeOK'
    BY <2>5 DEF RetireApplication, TypeOK, turnVars, ctxVars, loopVars, workVars, histVars
  <2>6. ASSUME NEW a \in App, RetireFails(a) PROVE TypeOK'
    BY <2>6, MishapType DEF RetireFails, TypeOK, appVars, mailVars, turnVars, ctxVars, loopVars, workVars, histVars
  <2>7. ASSUME NEW a \in App, ClaimMailbox(a) PROVE TypeOK'
    BY <2>7 DEF ClaimMailbox, Pending, TypeOK, turnVars, ctxVars, loopVars, workVars
  <2>8. ASSUME NEW m \in Msg, AckMailbox(m) PROVE TypeOK'
    BY <2>8 DEF AckMailbox, TypeOK, appVars, turnVars, ctxVars, loopVars, workVars
  <2> QED BY <1>2, <2>1, <2>2, <2>3, <2>4, <2>5, <2>6, <2>7, <2>8 DEF Control
<1>3. CASE Loop
  <2>1. ASSUME NEW a \in App, NEW m \in Msg, ClaimTurn(a, m) PROVE TypeOK'
    BY <2>1 DEF ClaimTurn, TypeOK, turnVars, ctxVars, workVars, histVars
  <2>2. ASSUME NEW a \in App, ThrottleElapses(a) PROVE TypeOK'
    BY <2>2 DEF ThrottleElapses, TypeOK, appVars, mailVars, turnVars, ctxVars, loopVars, workVars, histVars
  <2>3. CASE RunFails
    BY <2>3, MishapType DEF RunFails, TypeOK, appVars, mailVars, turnVars, ctxVars, workVars, histVars
  <2>4. CASE RunReturns
    BY <2>4 DEF RunReturns, TypeOK, appVars, mailVars, turnVars, ctxVars, workVars, histVars
  <2>5. ASSUME NEW w \in Slot, Dispatch(w) PROVE TypeOK'
    BY <2>5 DEF Dispatch, TypeOK, PCs, NoMsg, appVars, mailVars, turnVars, ctxVars, histVars
  <2>6. CASE AbandonSlot
    <3>0. mishaps \in 0..MaxMishaps
      BY DEF TypeOK
    <3>1. mishaps' \in 0..MaxMishaps
      <4>1. Mishap \/ mishaps' = mishaps
        BY <2>6 DEF AbandonSlot
      <4> QED BY <3>0, <4>1, MishapType
    <3>2. status' \in [Msg -> {"none", "pending", "claimed", "acked", "expired"}]
      <4>1. status \in [Msg -> {"none", "pending", "claimed", "acked", "expired"}]
        BY DEF TypeOK
      <4>2. status' = status \/
            status' = [status EXCEPT ![runMsg] = IF @ = "claimed" THEN "pending" ELSE @]
        BY <2>6 DEF AbandonSlot
      <4> QED BY <4>1, <4>2
    <3> QED BY <2>6, <3>1, <3>2 DEF AbandonSlot, TypeOK, appVars, turnVars, ctxVars, workVars, histVars
  <2>7. CASE RunIdle
    BY <1>1, <2>7 DEF RunIdle
  <2> QED BY <1>3, <2>1, <2>2, <2>3, <2>4, <2>5, <2>6, <2>7 DEF Loop
<1>4. ASSUME NEW w \in Slot, Worker(w) PROVE TypeOK'
  <2> DEFINE m == held[w]
  <2>0. AfterAnswer \in PCs
    BY DEF AfterAnswer, PCs
  <2>1. CASE ResumePrepared(w)
    BY <2>0, <2>1 DEF ResumePrepared, TypeOK, appVars, mailVars, turnVars, ctxVars, loopVars, histVars
  <2>2. CASE RouteDenied(w)
    <3>1. [status |-> "failed", text |-> NoText, usage |-> 0] \in Turn
      BY DEF Turn
    <3> QED BY <2>0, <2>2, <3>1 DEF RouteDenied, TypeOK, appVars, mailVars, turnVars, ctxVars, loopVars, histVars
  <2>3. CASE CallProvider(w)
    BY <2>3 DEF CallProvider, TypeOK, PCs, appVars, mailVars, turnVars, ctxVars, loopVars, histVars
  <2>4. ASSUME NEW t \in Turn, ProviderAnswers(w, t) PROVE TypeOK'
    BY <2>0, <2>4 DEF ProviderAnswers, TypeOK, appVars, mailVars, turnVars, ctxVars, loopVars, histVars
  <2>5. ASSUME NEW t \in Turn, ProviderAnswersTainted(w, t) PROVE TypeOK'
    <3>1. mishaps' \in 0..MaxMishaps
      BY <2>5, MishapType DEF ProviderAnswersTainted, TypeOK
    <3>2. tainted' \in [App -> BOOLEAN]
      BY <2>5, Zenon DEF ProviderAnswersTainted, TypeOK
    <3> QED BY <2>0, <2>5, <3>1, <3>2 DEF ProviderAnswersTainted, TypeOK, mailVars, turnVars, ctxVars, loopVars
  <2>6. CASE ProviderBusy(w)
    BY <2>6, MishapType DEF ProviderBusy, TypeOK, PCs, appVars, mailVars, turnVars, ctxVars, loopVars, histVars
  <2>7. CASE FinishPrepare(w)
    <3>1. prepared' \in [Msg -> Turn \cup {NoTurn}]
      BY <2>7, Zenon DEF FinishPrepare, TypeOK
    <3>2. pc' \in [Slot -> PCs]
      BY <2>7 DEF FinishPrepare, TypeOK, PCs
    <3> QED BY <2>7, <3>1, <3>2 DEF FinishPrepare, TypeOK, appVars, mailVars, ctxVars, loopVars, histVars
  <2>8. CASE FinishAppend(w)
    <3>0. m \in Msg
      BY <2>8 DEF FinishAppend, HoldersOK, TypeOK
    <3>1. m \in Msg /\ prepared[m].text \in Text \cup {NoText}
      BY <3>0, TurnFields DEF TypeOK
    <3>2. [done |-> TRUE, text |-> prepared[m].text] \in AppendRow
      BY <3>1 DEF AppendRow
    <3>3. [msg |-> m, text |-> prepared[m].text] \in Entry
      BY <3>1 DEF Entry
    <3>4. journal' \in Seq(Entry)
      BY SMT, <2>8, <3>3 DEF FinishAppend, TypeOK
    <3> QED BY <2>8, <3>2, <3>4, Zenon DEF FinishAppend, TypeOK, PCs, appVars, mailVars, turnVars, loopVars, histVars
  <2>9. CASE FinishCheckpoint(w)
    <3>1. Len(journal) \in Nat
      BY SMT DEF TypeOK
    <3> QED BY <2>9, <3>1, Zenon DEF FinishCheckpoint, TypeOK, PCs, appVars, mailVars, turnVars, loopVars, histVars
  <2>10. CASE FinishCommit(w)
    <3> DEFINE a == owner[m]
               t == prepared[m]
               u == saturatingAdd(used[a], t.usage)
               st == FinalStatus(a, u, t)
    <3>1. m \in Msg /\ a \in App
      BY <2>10, HeldFacts DEF FinishCommit
    <3>2. t \in Turn \cup {NoTurn} /\ t # NoTurn
      BY <2>10, <3>1 DEF FinishCommit, ProgressOK, TypeOK, Locked
    <3>3. /\ u \in 0..MaxTokens /\ t.usage \in Usage \cup {0}
          /\ t.text \in Text \cup {NoText} /\ t.status \in {"completed", "failed"}
      <4>1. used[a] \in 0..MaxTokens /\ t.usage \in 0..MaxTokens
        BY <3>1, <3>2, TurnFields DEF TypeOK
      <4>2. t.status \in {"completed", "failed"}
        BY <3>2 DEF Turn
      <4> QED BY <3>2, <4>1, <4>2, TurnFields, SaturatingAddType, Zenon
    <3>4. FinalState(a, u) \in {"none", "serving", "frozen", "tombstoned"}
      BY <3>1 DEF FinalState, TypeOK
    <3>5. st \in {"completed", "failed", "budget_exhausted", "retired"}
      BY <3>3 DEF FinalStatus
    <3>6. checkpoints[m] \in Nat
      BY <3>1 DEF TypeOK
    <3> DEFINE r == [status |-> st, text |-> IF st = "retired" THEN NoText ELSE t.text,
                     usage |-> t.usage, checkpoint |-> checkpoints[m]]
    <3>7. r \in Result
      BY <3>3, <3>5, <3>6 DEF Result
    <3> HIDE DEF st, u, r
    <3>8. /\ used' = [used EXCEPT ![a] = u]
          /\ appState' = [appState EXCEPT ![a] = FinalState(a, u)]
          /\ results' = [results EXCEPT ![m] = r]
      BY <2>10 DEF FinishCommit, r, st, u
    <3>9. used' \in [App -> 0..MaxTokens] /\ results' \in [Msg -> Result \cup {NoResult}]
          /\ appState' \in [App -> {"none", "serving", "frozen", "tombstoned"}]
      BY <3>3, <3>4, <3>7, <3>8, Zenon DEF TypeOK
    <3> QED BY <2>10, <3>9 DEF FinishCommit, TypeOK, PCs, ctxVars, loopVars, histVars
  <2>11. CASE FinishFails(w)
    BY <2>11, MishapType DEF FinishFails, TypeOK, PCs, appVars, mailVars, turnVars, ctxVars, loopVars, histVars
  <2>12. CASE RequeueClaim(w)
    BY <2>12, Zenon DEF RequeueClaim, TypeOK, PCs, appVars, turnVars, ctxVars, loopVars, histVars
  <2>13. CASE RequeueFails(w)
    BY <2>13, MishapType DEF RequeueFails, TypeOK, PCs, appVars, mailVars, turnVars, ctxVars, loopVars, histVars
  <2>14. CASE ClearInflight(w)
    BY <2>14 DEF ClearInflight, TypeOK, PCs, NoMsg, appVars, mailVars, turnVars, ctxVars, histVars
  <2> QED BY <1>4, <2>1, <2>2, <2>3, <2>4, <2>5, <2>6, <2>7, <2>8, <2>9, <2>10, <2>11, <2>12, <2>13, <2>14 DEF Worker
<1>5. CASE Process
  <2>1. ASSUME Vanish, mishaps' \in 0..MaxMishaps PROVE TypeOK'
    BY <2>1, Zenon DEF Vanish, TypeOK, PCs, NoMsg, appVars, mailVars, turnVars, ctxVars
  <2>2. CASE Crash
    BY <2>1, <2>2, MishapType DEF Crash
  <2>3. CASE StopSignal
    BY <2>3, MishapType DEF StopSignal, TypeOK, appVars, mailVars, turnVars, ctxVars, workVars, histVars
  <2>4. CASE Exit
    BY <2>1, <2>4 DEF Exit, TypeOK
  <2>5. CASE Load
    BY <2>5 DEF Load, TypeOK, appVars, turnVars, ctxVars, workVars, histVars
  <2> QED BY <1>5, <2>2, <2>3, <2>4, <2>5 DEF Process
<1> QED BY <1>1, <1>2, <1>3, <1>4, <1>5 DEF Next

----------------------------------------------------------------------------
(***************************************************************************)
(* It is always clear who holds which message, and no message is in two    *)
(* hands: the parts HoldersOK and OneHolder of the inductive invariant.    *)
(***************************************************************************)

\* The part of the state the holders of messages are about.
turnState == <<status, owner, run, runMsg, pc, held>>

\* Initially nobody holds anything and the context store is empty.
LEMMA HoldersInit == Init => HoldersOK /\ OneHolder /\ ProgressOK /\ JournalOK
<1> SUFFICES ASSUME Init PROVE HoldersOK /\ OneHolder /\ ProgressOK /\ JournalOK
  OBVIOUS
<1>1. HoldersOK
  BY DEF Init, HoldersOK, Active, Locked
<1>2. OneHolder
  BY DEF Init, OneHolder, Executing, WaitingForSlot, Active
<1>3. ProgressOK
  BY DEF Init, ProgressOK, Active, Locked
<1>4. JournalOK
  BY SMT DEF Init, JournalOK, FrozenOK, EntriesOK, CheckpointsOK, NotAppended
<1> QED BY <1>1, <1>2, <1>3, <1>4

\* Every step keeps track of who holds which message, and lets at most one
\* worker into the locked part of finishTurn.
LEMMA HoldersStep ==
  ASSUME TypeOK, HoldersOK, OneHolder, ProgressOK, Next
  PROVE  HoldersOK'
<1>1. CASE UNCHANGED turnState
  BY <1>1 DEF turnState, HoldersOK
<1>2. CASE Control
  <2>1. ASSUME NEW a \in App, NEW p \in Wakes, CreateApplication(a, p) PROVE HoldersOK'
    BY <1>1, <2>1 DEF CreateApplication, turnState, mailVars, loopVars, workVars
  <2>2. ASSUME NEW a \in App, NEW l \in Limit \cup {0}, SetTokenLimit(a, l) PROVE HoldersOK'
    BY <1>1, <2>2 DEF SetTokenLimit, turnState, mailVars, loopVars, workVars
  <2>3. ASSUME NEW a \in App, NEW m \in Msg, NEW t \in Taints, Enqueue(a, m, t) PROVE HoldersOK'
    BY SMT, <2>3, AppAssumption DEF Enqueue, HoldersOK, TypeOK, Active, Locked, loopVars, workVars
  <2>4. ASSUME NEW a \in App, NEW st \in {"serving", "frozen"}, SetApplicationState(a, st) PROVE HoldersOK'
    BY <1>1, <2>4 DEF SetApplicationState, turnState, mailVars, loopVars, workVars
  <2>5. ASSUME NEW a \in App, RetireApplication(a) PROVE HoldersOK'
    BY <2>5 DEF RetireApplication, HoldersOK, TypeOK, Open, Active, Locked, loopVars, workVars
  <2>6. ASSUME NEW a \in App, RetireFails(a) PROVE HoldersOK'
    BY <1>1, <2>6 DEF RetireFails, turnState, mailVars, loopVars, workVars
  <2>7. ASSUME NEW a \in App, ClaimMailbox(a) PROVE HoldersOK'
    BY <2>7 DEF ClaimMailbox, Pending, HoldersOK, TypeOK, Active, Locked, loopVars, workVars
  <2>8. ASSUME NEW m \in Msg, AckMailbox(m) PROVE HoldersOK'
    BY <2>8 DEF AckMailbox, HoldersOK, TypeOK, Active, Locked, loopVars, workVars
  <2> QED BY <1>2, <2>1, <2>2, <2>3, <2>4, <2>5, <2>6, <2>7, <2>8 DEF Control
<1>3. CASE Loop
  <2>1. ASSUME NEW a \in App, NEW m \in Msg, ClaimTurn(a, m) PROVE HoldersOK'
    BY <2>1, MsgAssumption DEF ClaimTurn, Pending, HoldersOK, TypeOK, NoMsg, Active, Locked, workVars
  <2>2. ASSUME NEW a \in App, ThrottleElapses(a) PROVE HoldersOK'
    BY <1>1, <2>2 DEF ThrottleElapses, turnState, mailVars, loopVars, workVars
  <2>3. CASE RunFails
    BY <2>3 DEF RunFails, HoldersOK, mailVars, workVars
  <2>4. CASE RunReturns
    BY <2>4 DEF RunReturns, HoldersOK, mailVars, workVars
  <2>5. ASSUME NEW w \in Slot, Dispatch(w) PROVE HoldersOK'
    BY SMT, <2>5 DEF Dispatch, HoldersOK, TypeOK, Active, Locked, mailVars
  <2>6. CASE AbandonSlot
    BY SMT, <2>6 DEF AbandonSlot, HoldersOK, OneHolder, Executing, WaitingForSlot, TypeOK, Active, Locked, workVars
  <2>7. CASE RunIdle
    BY <1>1, <2>7 DEF RunIdle, vars, turnState, mailVars, loopVars, workVars
  <2> QED BY <1>3, <2>1, <2>2, <2>3, <2>4, <2>5, <2>6, <2>7 DEF Loop
<1>4. ASSUME NEW w \in Slot, Worker(w) PROVE HoldersOK'
  <2>0. AfterAnswer \in {"finish", "requeue"}
    BY DEF AfterAnswer
  <2>t. pc \in [Slot -> PCs] /\ held \in [Slot -> Msg \cup {NoMsg}]
    BY DEF TypeOK
  \* A busy worker moves on with the message it holds.
  <2>f. ASSUME UNCHANGED <<owner, run, runMsg, held>>,
               \A v \in Slot : v # w => pc'[v] = pc[v],
               pc[w] # "idle", pc'[w] # "idle",
               pc'[w] \in Active => pc[w] \in Active /\ status'[held[w]] # "pending",
               pc'[w] \in Locked => pc[w] \in Locked \/ Unlocked,
               \A m \in Msg : status'[m] = status[m] \/ m = held[w],
               status'[held[w]] # "none",
               run = "slot" => status'[runMsg] # "pending",
               \A v \in Slot : v # w /\ pc[v] \in Active => status'[held[v]] # "pending"
        PROVE  HoldersOK'
    <3>1. \A v, u \in Slot : pc'[v] \in Locked /\ pc'[u] \in Locked => v = u
      BY <2>f DEF HoldersOK, Unlocked, Locked
    <3>2. held[w] \in Msg /\ status[held[w]] # "none" /\ owner[held[w]] # NoApp
      BY <2>f DEF HoldersOK, TypeOK
    <3>3. \A m \in Msg : status'[m] # "none" <=> owner[m] # NoApp
      BY <2>f, <3>2 DEF HoldersOK
    <3>4. run = "slot" => runMsg \in Msg
      BY DEF HoldersOK, TypeOK
    <3>5. \A v \in Slot : pc'[v] # "idle" => held[v] \in Msg /\ status'[held[v]] # "none"
      <4>1. \A v \in Slot : pc'[v] # "idle" => pc[v] # "idle"
        BY <2>f
      <4> QED BY <2>f, <3>2, <4>1 DEF HoldersOK, TypeOK
    <3> QED BY <2>f, <3>1, <3>3, <3>4, <3>5 DEF HoldersOK
  \* The same when no message changes its status.
  <2>g. ASSUME UNCHANGED <<status, owner, run, runMsg, held>>,
               \A v \in Slot : v # w => pc'[v] = pc[v],
               pc[w] # "idle", pc'[w] # "idle",
               pc'[w] \in Active => pc[w] \in Active,
               pc'[w] \in Locked => pc[w] \in Locked \/ Unlocked
        PROVE  HoldersOK'
    BY <2>f, <2>g, HeldFacts DEF HoldersOK
  <2>1. CASE ResumePrepared(w)
    BY <2>0, <2>t, <2>g, <2>1 DEF ResumePrepared, Active, Locked, mailVars, loopVars
  <2>2. CASE RouteDenied(w)
    BY <2>0, <2>t, <2>g, <2>2 DEF RouteDenied, Active, Locked, mailVars, loopVars
  <2>3. CASE CallProvider(w)
    BY <2>t, <2>g, <2>3 DEF CallProvider, Active, Locked, mailVars, loopVars
  <2>4. ASSUME NEW t \in Turn, ProviderAnswers(w, t) PROVE HoldersOK'
    BY <2>0, <2>t, <2>g, <2>4 DEF ProviderAnswers, Active, Locked, mailVars, loopVars
  <2>5. ASSUME NEW t \in Turn, ProviderAnswersTainted(w, t) PROVE HoldersOK'
    BY <2>0, <2>t, <2>g, <2>5 DEF ProviderAnswersTainted, Active, Locked, mailVars, loopVars
  <2>6. CASE ProviderBusy(w)
    BY <2>t, <2>g, <2>6 DEF ProviderBusy, Active, Locked, mailVars, loopVars
  <2>7. CASE FinishPrepare(w)
    BY <2>t, <2>g, <2>7 DEF FinishPrepare, Active, Locked, mailVars, loopVars
  <2>8. CASE FinishAppend(w)
    BY <2>t, <2>g, <2>8 DEF FinishAppend, Active, Locked, mailVars, loopVars
  <2>9. CASE FinishCheckpoint(w)
    BY <2>t, <2>g, <2>9 DEF FinishCheckpoint, Active, Locked, mailVars, loopVars
  <2>10. CASE FinishCommit(w)
    <3>1. /\ pc[w] = "commit" /\ pc' = [pc EXCEPT ![w] = "clear"]
          /\ status' = [status EXCEPT ![held[w]] = "acked"]
          /\ UNCHANGED <<owner, run, runMsg, held>>
      BY <2>10 DEF FinishCommit, loopVars
    <3>2. held[w] \in Msg
      BY <3>1, HeldFacts
    <3>3. \A m \in Msg : status'[m] = IF m = held[w] THEN "acked" ELSE status[m]
      BY <3>1 DEF TypeOK
    <3>4. run = "slot" => runMsg \in Msg /\ status[runMsg] # "pending"
      BY DEF HoldersOK, TypeOK
    <3>5. \A v \in Slot : pc[v] \in Active => held[v] \in Msg /\ status[held[v]] # "pending"
      BY HeldFacts DEF HoldersOK, Active
    <3> QED BY SMT, <2>t, <2>f, <3>1, <3>2, <3>3, <3>4, <3>5 DEF Active, Locked
  <2>11. CASE FinishFails(w)
    BY <2>t, <2>g, <2>11 DEF FinishFails, Active, Locked, mailVars, loopVars
  <2>12. CASE RequeueClaim(w)
    BY SMT, <2>12 DEF RequeueClaim, HoldersOK, OneHolder, Executing, WaitingForSlot, TypeOK, Active, Locked, loopVars
  <2>13. CASE RequeueFails(w)
    BY <2>t, <2>g, <2>13 DEF RequeueFails, Active, Locked, mailVars, loopVars
  <2>14. CASE ClearInflight(w)
    BY SMT, <2>14 DEF ClearInflight, HoldersOK, TypeOK, Active, Locked, mailVars
  <2> QED BY <1>4, <2>1, <2>2, <2>3, <2>4, <2>5, <2>6, <2>7, <2>8, <2>9, <2>10, <2>11, <2>12, <2>13, <2>14 DEF Worker
<1>5. CASE Process
  <2>1. ASSUME Vanish PROVE HoldersOK'
    BY <2>1 DEF Vanish, HoldersOK, Active, Locked, mailVars
  <2>2. CASE Crash
    BY <2>1, <2>2 DEF Crash
  <2>3. CASE StopSignal
    BY <1>1, <2>3 DEF StopSignal, turnState, mailVars, workVars
  <2>4. CASE Exit
    BY <2>1, <2>4 DEF Exit
  <2>5. CASE Load
    BY <2>5 DEF Load, HoldersOK, TypeOK, Open, Active, Locked, workVars
  <2> QED BY <1>5, <2>2, <2>3, <2>4, <2>5 DEF Process
<1> QED BY <1>2, <1>3, <1>4, <1>5 DEF Next

\* claimTurn, the hand-over to a worker and requeueClaim never give one
\* message to two hands.
LEMMA OneHolderStep ==
  ASSUME TypeOK, HoldersOK, OneHolder, Next
  PROVE  OneHolder'
<1> USE DEF OneHolder, Executing, WaitingForSlot
<1>1. CASE UNCHANGED <<run, runMsg, pc, held>>
  BY <1>1
<1>2. CASE Control
  BY <1>1, <1>2 DEF Control, CreateApplication, SetTokenLimit, Enqueue, SetApplicationState,
     RetireApplication, RetireFails, ClaimMailbox, AckMailbox, loopVars, workVars
<1>3. CASE Loop
  <2>1. ASSUME NEW a \in App, NEW m \in Msg, ClaimTurn(a, m) PROVE OneHolder'
    <3>1. status[m] = "pending" /\ UNCHANGED <<pc, held>> /\ runMsg' = m
      BY <2>1 DEF ClaimTurn, Pending, workVars
    <3>2. \A v \in Slot : pc[v] \in Active => held[v] # m
      BY <3>1 DEF HoldersOK
    <3> QED BY <3>1, <3>2
  <2>2. ASSUME NEW w \in Slot, Dispatch(w) PROVE OneHolder'
    BY SMT, <2>2 DEF Dispatch, HoldersOK, TypeOK, Active, NoMsg
  <2>3. CASE AbandonSlot \/ RunFails \/ RunReturns
    BY <2>3 DEF AbandonSlot, RunFails, RunReturns, workVars
  <2>4. CASE RunIdle \/ \E a \in App : ThrottleElapses(a)
    BY <1>1, <2>4 DEF RunIdle, ThrottleElapses, vars, loopVars, workVars
  <2> QED BY <1>3, <2>1, <2>2, <2>3, <2>4 DEF Loop
<1>4. ASSUME NEW w \in Slot, Worker(w) PROVE OneHolder'
  <2>1. /\ run' = run /\ runMsg' = runMsg
        /\ \A v \in Slot : pc'[v] \in Active => pc[v] \in Active /\ held'[v] = held[v]
    <3>0. pc \in [Slot -> PCs] /\ held \in [Slot -> Msg \cup {NoMsg}]
      BY DEF TypeOK
    <3> HIDE DEF OneHolder
    <3> USE <3>0 DEF Active, loopVars
    <3>1. CASE ResumePrepared(w) \/ RouteDenied(w) \/ CallProvider(w)
      BY <3>1 DEF ResumePrepared, RouteDenied, CallProvider
    <3>2. CASE \E t \in Turn : ProviderAnswers(w, t) \/ ProviderAnswersTainted(w, t)
      BY <3>2 DEF ProviderAnswers, ProviderAnswersTainted
    <3>3. CASE ProviderBusy(w)
      BY <3>3 DEF ProviderBusy
    <3>4. CASE FinishPrepare(w)
      BY <3>4 DEF FinishPrepare
    <3>5. CASE FinishAppend(w)
      BY <3>5 DEF FinishAppend
    <3>6. CASE FinishCheckpoint(w)
      BY <3>6 DEF FinishCheckpoint
    <3>7. CASE FinishCommit(w)
      BY <3>7 DEF FinishCommit
    <3>8. CASE FinishFails(w)
      BY <3>8 DEF FinishFails
    <3>9. CASE RequeueClaim(w) \/ RequeueFails(w)
      BY <3>9 DEF RequeueClaim, RequeueFails
    <3>10. CASE ClearInflight(w)
      BY <3>10 DEF ClearInflight
    <3> QED BY <1>4, <3>1, <3>2, <3>3, <3>4, <3>5, <3>6, <3>7, <3>8, <3>9, <3>10 DEF Worker
  <2> QED BY SMT, <2>1
<1>5. CASE Process
  BY SMT, <1>5 DEF Process, Crash, Exit, Vanish, StopSignal, Load, Active, workVars
<1> QED BY <1>2, <1>3, <1>4, <1>5 DEF Next

----------------------------------------------------------------------------
(***************************************************************************)
(* finishTurn's writes happen in order: the part ProgressOK of the         *)
(* inductive invariant, one step per action.                               *)
(***************************************************************************)

\* Every step keeps the order of finishTurn's writes: answer, Prepared,
\* append, checkpoint, commit.
LEMMA ProgressStep ==
  ASSUME TypeOK, HoldersOK, OneHolder, ProgressOK, JournalOK, Next
  PROVE  ProgressOK'
<1>1. ASSUME UNCHANGED <<turnVars, ctxVars, workVars>>,
             run' = "slot" => run = "slot" /\ runMsg' = runMsg,
             \A m \in Msg : status[m] = "acked" => status'[m] = "acked"
      PROVE  ProgressOK'
  BY <1>1 DEF ProgressOK, turnVars, ctxVars, workVars
<1>2. CASE Control
  <2> USE DEF loopVars
  <2>1. CASE \E a \in App : \/ \E p \in Wakes : CreateApplication(a, p)
                            \/ \E l \in Limit \cup {0} : SetTokenLimit(a, l)
    BY <1>1, <2>1 DEF CreateApplication, SetTokenLimit, mailVars
  <2>2. CASE \E a \in App, m \in Msg, t \in Taints : Enqueue(a, m, t)
    BY <1>1, <2>2 DEF Enqueue, mailVars, TypeOK
  <2>3. CASE \E a \in App, st \in {"serving", "frozen"} : SetApplicationState(a, st)
    BY <1>1, <2>3 DEF SetApplicationState, mailVars
  <2>4. CASE \E a \in App : RetireApplication(a) \/ RetireFails(a)
    BY <1>1, <2>4 DEF RetireApplication, RetireFails, mailVars, Open
  <2>5. CASE \E a \in App : ClaimMailbox(a)
    BY <1>1, <2>5 DEF ClaimMailbox, Pending
  <2>6. CASE \E m \in Msg : AckMailbox(m)
    BY <1>1, <2>6 DEF AckMailbox, TypeOK
  <2> QED BY <1>2, <2>1, <2>2, <2>3, <2>4, <2>5, <2>6 DEF Control
<1>3. CASE Loop
  <2>1. ASSUME NEW a \in App, NEW m \in Msg, ClaimTurn(a, m) PROVE ProgressOK'
    <3>1. /\ status[m] = "pending" /\ status' = [status EXCEPT ![m] = "claimed"]
          /\ runMsg' = m /\ UNCHANGED <<turnVars, ctxVars, workVars>>
      BY <2>1 DEF ClaimTurn, Pending
    <3>2. results[m] = NoResult
      BY <3>1 DEF ProgressOK
    <3>3. \A n \in Msg : status[n] = "acked" => status'[n] = "acked"
      BY <3>1 DEF TypeOK
    <3> QED BY <3>1, <3>2, <3>3 DEF ProgressOK, turnVars, ctxVars, workVars
  <2>2. ASSUME NEW w \in Slot, Dispatch(w) PROVE ProgressOK'
    <3>1. /\ pc' = [pc EXCEPT ![w] = "start"] /\ held' = [held EXCEPT ![w] = runMsg]
          /\ run = "slot" /\ run' = "tick"
          /\ UNCHANGED <<answer, prepared, results, appended, status>>
      BY <2>2 DEF Dispatch, turnVars, ctxVars, mailVars
    <3>2. \A v \in Slot : \/ v = w /\ pc'[v] = "start" /\ held'[v] = runMsg
                          \/ v # w /\ pc'[v] = pc[v] /\ held'[v] = held[v]
      BY <3>1 DEF TypeOK
    <3> QED BY SMT, <3>1, <3>2 DEF ProgressOK, Active, Locked
  <2>3. CASE AbandonSlot
    BY <1>1, <2>3 DEF AbandonSlot, TypeOK
  <2>4. CASE RunFails \/ RunReturns
    BY <1>1, <2>4 DEF RunFails, RunReturns, mailVars
  <2>5. CASE RunIdle \/ \E a \in App : ThrottleElapses(a)
    BY <1>1, <2>5 DEF RunIdle, ThrottleElapses, vars, loopVars, mailVars
  <2> QED BY <1>3, <2>1, <2>2, <2>3, <2>4, <2>5 DEF Loop
<1>4. ASSUME NEW w \in Slot, Worker(w) PROVE ProgressOK'
  <2>0. AfterAnswer \in {"finish", "requeue"}
    BY DEF AfterAnswer
  <2>t. /\ pc \in [Slot -> PCs] /\ held \in [Slot -> Msg \cup {NoMsg}]
        /\ answer \in [Slot -> Turn \cup {NoTurn}]
    BY DEF TypeOK
  <2>n. ASSUME NEW t \in Turn PROVE t # NoTurn
    BY SMT DEF Turn, NoTurn
  <2>a. ASSUME NEW v \in Slot, v # w, pc[v] \in Active, pc[w] \in Active PROVE held[v] # held[w]
    <3>1. held[v] \in Msg
      BY <2>a, HeldFacts DEF Active
    <3> QED BY <2>a, <3>1 DEF OneHolder, Executing
  <2>b. ASSUME run = "slot", pc[w] \in Active PROVE runMsg # held[w]
    BY <2>b, HeldFacts DEF OneHolder, Executing, WaitingForSlot, Active
  \* A worker moves on without touching what finishTurn writes.
  <2>f. ASSUME UNCHANGED <<prepared, results, appended, run, runMsg>>,
               \A m \in Msg : status[m] = "acked" => status'[m] = "acked",
               \A v \in Slot : v # w => pc'[v] = pc[v] /\ held'[v] = held[v] /\ answer'[v] = answer[v],
               pc'[w] \in Active => pc[w] \in Active /\ held'[w] = held[w],
               pc'[w] = "finish" => answer'[w] # NoTurn \/ prepared[held[w]] # NoTurn,
               pc'[w] = "call" => prepared[held[w]] = NoTurn,
               pc'[w] \in Locked => prepared[held[w]] # NoTurn,
               pc'[w] \in {"checkpoint", "commit"} => appended[held[w]].done
        PROVE  ProgressOK'
    <3> USE DEF ProgressOK, Active, Locked
    <3>1. (\A v \in Slot : pc[v] = "finish" => answer[v] # NoTurn \/ prepared[held[v]] # NoTurn)'
      BY SMT, <2>f
    <3>2. (\A v \in Slot : pc[v] = "call" => prepared[held[v]] = NoTurn)'
      BY SMT, <2>f
    <3>3. (\A v \in Slot : pc[v] \in Locked => prepared[held[v]] # NoTurn)'
      BY SMT, <2>f
    <3>4. (\A v \in Slot : pc[v] \in {"checkpoint", "commit"} => appended[held[v]].done)'
      BY <2>f
    <3>5. (\A v \in Slot : pc[v] \in Active => results[held[v]] = NoResult)'
      BY SMT, <2>f
    <3>6. (run = "slot" => results[runMsg] = NoResult)'
      BY <2>f
    <3>7. (\A m \in Msg : results[m] # NoResult => /\ prepared[m] = NoTurn
                                                   /\ status[m] = "acked"
                                                   /\ appended[m].done)'
      BY <2>f
    <3> QED BY <3>1, <3>2, <3>3, <3>4, <3>5, <3>6, <3>7
  <2>1. CASE ResumePrepared(w)
    BY <2>0, <2>t, <2>f, <2>1 DEF ResumePrepared, Active, Locked, mailVars, turnVars, ctxVars, loopVars
  <2>2. CASE RouteDenied(w)
    <3>1. [status |-> "failed", text |-> NoText, usage |-> 0] # NoTurn
      BY DEF NoTurn
    <3> QED
      BY <2>0, <2>t, <2>f, <2>2, <3>1 DEF RouteDenied, Active, Locked, mailVars, turnVars, ctxVars, loopVars
  <2>3. CASE CallProvider(w)
    BY <2>t, <2>f, <2>3 DEF CallProvider, Active, Locked, mailVars, turnVars, ctxVars, loopVars
  <2>4. ASSUME NEW t \in Turn, ProviderAnswers(w, t) PROVE ProgressOK'
    BY <2>0, <2>t, <2>f, <2>n, <2>4 DEF ProviderAnswers, Active, Locked, mailVars, turnVars, ctxVars, loopVars
  <2>5. ASSUME NEW t \in Turn, ProviderAnswersTainted(w, t) PROVE ProgressOK'
    BY <2>0, <2>t, <2>f, <2>n, <2>5
       DEF ProviderAnswersTainted, Active, Locked, mailVars, turnVars, ctxVars, loopVars
  <2>6. CASE ProviderBusy(w)
    BY <2>t, <2>f, <2>6 DEF ProviderBusy, Active, Locked, mailVars, turnVars, ctxVars, loopVars
  <2>7. CASE FinishPrepare(w)
    <3>1. /\ pc[w] = "finish" /\ held[w] \in Msg /\ results[held[w]] = NoResult
          /\ UNCHANGED <<held, answer, results, appended, run, runMsg, status>>
      BY <2>7, HeldFacts DEF FinishPrepare, ProgressOK, Active, mailVars, ctxVars, loopVars
    <3>2. pc' = [pc EXCEPT ![w] = "append"]
      BY <2>7, <3>1 DEF FinishPrepare
    <3>3. /\ prepared'[held[w]] # NoTurn
          /\ \A m \in Msg : m # held[w] => prepared'[m] = prepared[m]
          /\ \A m \in Msg : prepared[m] # NoTurn => prepared'[m] # NoTurn
      <4>1. answer[w] # NoTurn \/ prepared[held[w]] # NoTurn
        BY <3>1 DEF ProgressOK
      <4>2. prepared \in [Msg -> Turn \cup {NoTurn}]
        BY DEF TypeOK
      <4>3. prepared' = IF prepared[held[w]] # NoTurn THEN prepared
                        ELSE [prepared EXCEPT ![held[w]] = answer[w]]
        BY <2>7, <3>1 DEF FinishPrepare
      <4> QED BY <3>1, <4>1, <4>2, <4>3
    <3>4. \A v \in Slot : \/ v = w /\ pc'[v] = "append"
                          \/ v # w /\ pc'[v] = pc[v]
      BY <2>t, <3>2
    <3>5. \A v \in Slot : v # w /\ pc[v] \in Active => held[v] \in Msg /\ held[v] # held[w]
      BY <2>a, <3>1, HeldFacts DEF Active
    <3> QED BY SMT, <3>1, <3>3, <3>4, <3>5 DEF ProgressOK, Active, Locked
  <2>8. CASE FinishAppend(w)
    <3>1. /\ pc[w] = "append" /\ held[w] \in Msg /\ pc' = [pc EXCEPT ![w] = "checkpoint"]
          /\ UNCHANGED <<held, answer, prepared, results, run, runMsg, status>>
      BY <2>8, HeldFacts DEF FinishAppend, mailVars, turnVars, loopVars
    <3>2. \A m \in Msg : m = held[w] \/ appended[m].done => appended'[m].done
      <4>1. appended' = [appended EXCEPT ![held[w]] = [done |-> TRUE, text |-> prepared[held[w]].text]]
        BY <2>8 DEF FinishAppend
      <4>2. appended \in [Msg -> AppendRow]
        BY DEF TypeOK
      <4> QED BY <3>1, <4>1, <4>2
    <3>3. \A v \in Slot : \/ v = w /\ pc'[v] = "checkpoint"
                          \/ v # w /\ pc'[v] = pc[v]
      BY <2>t, <3>1
    <3>4. \A v \in Slot : pc[v] \in {"checkpoint", "commit"} => held[v] \in Msg
      BY HeldFacts
    <3> QED BY SMT, <3>1, <3>2, <3>3, <3>4 DEF ProgressOK, Active, Locked
  <2>9. CASE FinishCheckpoint(w)
    <3>1. appended[held[w]].done /\ prepared[held[w]] # NoTurn
      BY <2>9 DEF FinishCheckpoint, ProgressOK, Locked
    <3> QED BY <2>t, <2>f, <2>9, <3>1 DEF FinishCheckpoint, Active, mailVars, turnVars, loopVars
  <2>10. CASE FinishCommit(w)
    <3>1. held[w] \in Msg /\ pc[w] = "commit" /\ pc' = [pc EXCEPT ![w] = "clear"]
          /\ UNCHANGED <<held, answer, appended, run, runMsg>>
          /\ prepared' = [prepared EXCEPT ![held[w]] = NoTurn]
          /\ status' = [status EXCEPT ![held[w]] = "acked"]
      BY <2>10, HeldFacts DEF FinishCommit, ctxVars, loopVars
    <3>2. \A m \in Msg : m # held[w] => results'[m] = results[m]
      BY <2>10 DEF FinishCommit, TypeOK
    <3>3. \A v \in Slot : pc'[v] \in Active => /\ held'[v] # held[w] /\ pc'[v] = pc[v] /\ v # w
                                                /\ held[v] \in Msg
      <4>1. \A v \in Slot : pc'[v] \in Active => v # w /\ pc'[v] = pc[v]
        BY <2>t, <3>1 DEF Active
      <4> QED BY <2>a, <3>1, <4>1, HeldFacts DEF Active
    <3>4. run = "slot" => runMsg # held[w] /\ runMsg \in Msg
      BY <2>b, <3>1 DEF HoldersOK, TypeOK, Active
    <3>5. /\ \A m \in Msg : m # held[w] => prepared'[m] = prepared[m] /\ status'[m] = status[m]
          /\ prepared'[held[w]] = NoTurn /\ status'[held[w]] = "acked"
      BY <3>1 DEF TypeOK
    <3>6. appended[held[w]].done
      BY <3>1 DEF ProgressOK
    <3>7. (\A m \in Msg : results[m] # NoResult => /\ prepared[m] = NoTurn
                                                   /\ status[m] = "acked"
                                                   /\ appended[m].done)'
      BY SMT, <3>1, <3>2, <3>5, <3>6 DEF ProgressOK
    <3>8. \A v \in Slot : pc'[v] \in Active =>
             /\ prepared'[held'[v]] = prepared[held[v]] /\ results'[held'[v]] = results[held[v]]
             /\ pc'[v] = pc[v] /\ held'[v] = held[v]
      BY <3>1, <3>2, <3>3, <3>5
    <3> QED BY SMT, <3>1, <3>2, <3>4, <3>7, <3>8 DEF ProgressOK, Active, Locked
  <2>11. CASE FinishFails(w)
    BY <2>t, <2>f, <2>11 DEF FinishFails, Active, Locked, mailVars, turnVars, ctxVars, loopVars
  <2>12. CASE RequeueClaim(w)
    <3>1. \A m \in Msg : status[m] = "acked" => status'[m] = "acked"
      BY <2>12 DEF RequeueClaim, TypeOK
    <3> QED BY <2>t, <2>f, <2>12, <3>1 DEF RequeueClaim, Active, Locked, turnVars, ctxVars, loopVars
  <2>13. CASE RequeueFails(w)
    BY <2>t, <2>f, <2>13 DEF RequeueFails, Active, Locked, mailVars, turnVars, ctxVars, loopVars
  <2>14. CASE ClearInflight(w)
    BY <2>t, <2>f, <2>14 DEF ClearInflight, Active, Locked, mailVars, turnVars, ctxVars
  <2> QED BY <1>4, <2>1, <2>2, <2>3, <2>4, <2>5, <2>6, <2>7, <2>8, <2>9, <2>10, <2>11, <2>12, <2>13, <2>14 DEF Worker
<1>5. CASE Process
  <2>1. CASE Crash \/ Exit
    <3>1. /\ pc' = [v \in Slot |-> "idle"] /\ run' = "down"
          /\ UNCHANGED <<prepared, results, appended, status>>
      BY <2>1 DEF Crash, Exit, Vanish, mailVars, turnVars, ctxVars
    <3> QED BY <3>1 DEF ProgressOK, Active, Locked
  <2>2. CASE StopSignal
    BY <1>1, <2>2 DEF StopSignal, mailVars
  <2>3. CASE Load
    BY <1>1, <2>3 DEF Load, Open
  <2> QED BY <1>5, <2>1, <2>2, <2>3 DEF Process
<1> QED BY <1>2, <1>3, <1>4, <1>5 DEF Next

----------------------------------------------------------------------------
(***************************************************************************)
(* The two stores agree (JournalOK, one step per action), and the          *)
(* inductive invariant as a whole.                                         *)
(***************************************************************************)
(* JournalOK *)

\* Every step keeps the supervisor blob and the context store in agreement,
\* the failed writes and the crashes between the two stores included.
LEMMA JournalStep ==
  ASSUME TypeOK, HoldersOK, OneHolder, ProgressOK, JournalOK, Next
  PROVE  JournalOK'
<1>1. ASSUME UNCHANGED <<turnVars, ctxVars>>,
             \A w \in Slot : pc'[w] = "commit" => pc[w] = "commit" /\ held'[w] = held[w],
             \A m \in Msg : status[m] # "none" => status'[m] # "none"
      PROVE  JournalOK'
  BY <1>1 DEF JournalOK, FrozenOK, EntriesOK, CheckpointsOK, turnVars, ctxVars
<1>2. CASE Control
  <2> USE DEF workVars
  <2>1. CASE \E a \in App : \/ \E p \in Wakes : CreateApplication(a, p)
                            \/ \E l \in Limit \cup {0} : SetTokenLimit(a, l)
                            \/ \E m \in Msg, t \in Taints : Enqueue(a, m, t)
    BY <1>1, <2>1 DEF CreateApplication, SetTokenLimit, Enqueue, mailVars, TypeOK
  <2>2. CASE \E a \in App, st \in {"serving", "frozen"} : SetApplicationState(a, st)
    BY <1>1, <2>2 DEF SetApplicationState, mailVars
  <2>3. CASE \E a \in App : RetireApplication(a) \/ RetireFails(a)
    BY <1>1, <2>3 DEF RetireApplication, RetireFails, mailVars, Open
  <2>4. CASE \E a \in App : ClaimMailbox(a)
    BY <1>1, <2>4 DEF ClaimMailbox, Pending
  <2>5. CASE \E m \in Msg : AckMailbox(m)
    BY <1>1, <2>5 DEF AckMailbox, TypeOK
  <2> QED BY <1>2, <2>1, <2>2, <2>3, <2>4, <2>5 DEF Control
<1>3. CASE Loop
  <2>1. ASSUME NEW a \in App, NEW m \in Msg, ClaimTurn(a, m) PROVE JournalOK'
    BY <1>1, <2>1 DEF ClaimTurn, TypeOK, workVars
  <2>2. ASSUME NEW w \in Slot, Dispatch(w) PROVE JournalOK'
    BY <1>1, <2>2 DEF Dispatch, TypeOK, mailVars
  <2>3. CASE AbandonSlot
    BY <1>1, <2>3 DEF AbandonSlot, TypeOK, workVars
  <2>4. CASE RunFails \/ RunReturns
    BY <1>1, <2>4 DEF RunFails, RunReturns, mailVars, workVars
  <2>5. CASE RunIdle \/ \E a \in App : ThrottleElapses(a)
    BY <1>1, <2>5 DEF RunIdle, ThrottleElapses, vars, mailVars, workVars
  <2> QED BY <1>3, <2>1, <2>2, <2>3, <2>4, <2>5 DEF Loop
<1>4. ASSUME NEW w \in Slot, Worker(w) PROVE JournalOK'
  <2>0. AfterAnswer \in {"finish", "requeue"}
    BY DEF AfterAnswer
  <2>1. CASE ResumePrepared(w) \/ RouteDenied(w) \/ CallProvider(w)
    BY <1>1, <2>0, <2>1 DEF ResumePrepared, RouteDenied, CallProvider, mailVars, TypeOK
  <2>2. ASSUME NEW t \in Turn, ProviderAnswers(w, t) \/ ProviderAnswersTainted(w, t) PROVE JournalOK'
    BY <1>1, <2>0, <2>2 DEF ProviderAnswers, ProviderAnswersTainted, mailVars, TypeOK
  <2>3. CASE ProviderBusy(w)
    BY <1>1, <2>3 DEF ProviderBusy, mailVars, TypeOK
  <2>4. CASE FinishPrepare(w)
    <3>1. held[w] \in Msg /\ status[held[w]] # "none"
      BY <2>4, HeldFacts DEF FinishPrepare
    <3>2. \A m \in Msg : prepared[m] # NoTurn => prepared'[m] = prepared[m]
      BY <2>4 DEF FinishPrepare, TypeOK
    <3>3. \A m \in Msg : prepared'[m] # NoTurn => prepared[m] # NoTurn \/ m = held[w]
      BY <2>4 DEF FinishPrepare, TypeOK
    <3>4. \A v \in Slot : pc'[v] = "commit" => pc[v] = "commit"
      BY <2>4 DEF FinishPrepare, TypeOK
    <3>5. UNCHANGED <<status, results, journal, appended, checkpoints, held>>
      BY <2>4 DEF FinishPrepare, ctxVars, mailVars
    <3>6. FrozenOK'
      BY <3>1, <3>2, <3>3, <3>5 DEF JournalOK, FrozenOK
    <3>7. EntriesOK' /\ CheckpointsOK'
      BY <3>4, <3>5 DEF JournalOK, EntriesOK, CheckpointsOK
    <3> QED BY <3>6, <3>7 DEF JournalOK
  <2>5. CASE FinishAppend(w)
    <3> DEFINE m == held[w]
               e == [msg |-> m, text |-> prepared[m].text]
    <3>1. m \in Msg /\ prepared[m] # NoTurn /\ results[m] = NoResult
      BY <2>5, HeldFacts DEF FinishAppend, ProgressOK, Active, Locked
    <3>2. prepared[m].text \in Text \cup {NoText}
      BY <3>1, TurnFields DEF TypeOK
    <3>3. e \in Entry /\ e.msg = m /\ e.text = prepared[m].text
      BY <3>1, <3>2 DEF Entry
    <3>4. /\ appended'[m].done /\ appended'[m].text = prepared[m].text
          /\ \A x \in Msg : x # m => appended'[x] = appended[x]
      BY <2>5, <3>1 DEF FinishAppend, TypeOK
    <3>5. UNCHANGED <<status, prepared, results, checkpoints, held>>
          /\ \A v \in Slot : pc'[v] = "commit" => pc[v] = "commit"
      BY <2>5 DEF FinishAppend, turnVars, mailVars, TypeOK
    <3>6. FrozenOK'
      BY <3>1, <3>4, <3>5 DEF JournalOK, FrozenOK
    <3>7. journal \in Seq(Entry)
      BY DEF TypeOK
    <3>8. ASSUME NEW i \in DOMAIN journal PROVE journal[i].msg \in Msg
      <4>1. journal[i] \in Entry
        BY SMT, <3>7
      <4> QED BY <4>1 DEF Entry
    <3> HIDE DEF e, m
    <3>9. CASE appended[m].done
      <4>1. journal' = journal /\ appended[m].text = prepared[m].text
        BY <2>5, <3>9 DEF FinishAppend, m
      <4>2. \A x \in Msg : (appended'[x].done <=> appended[x].done) /\ appended'[x].text = appended[x].text
        BY <3>1, <3>4, <3>9, <4>1
      <4>3. EntriesOK'
        BY <3>8, <4>1, <4>2 DEF JournalOK, EntriesOK
      <4>4. CheckpointsOK'
        BY <3>5, <4>1 DEF JournalOK, CheckpointsOK
      <4> QED BY <3>6, <4>3, <4>4 DEF JournalOK
    <3>10. CASE ~appended[m].done
      <4>1. journal' = Append(journal, e)
        BY <2>5, <3>10 DEF FinishAppend, m, e
      <4>2. /\ Len(journal) \in Nat /\ DOMAIN journal = 1..Len(journal)
            /\ Len(journal') = Len(journal) + 1
            /\ DOMAIN journal' = 1..(Len(journal) + 1)
            /\ journal'[Len(journal) + 1] = e
            /\ \A i \in 1..Len(journal) : journal'[i] = journal[i]
        BY SMT, <3>3, <3>7, <4>1
      <4>3. \A i \in 1..Len(journal) : journal[i].msg # m
        BY <3>10, <4>2 DEF JournalOK, EntriesOK
      <4>4. EntriesOK'
        BY SMT, <3>1, <3>3, <3>4, <3>8, <4>2, <4>3 DEF JournalOK, EntriesOK
      <4>5. checkpoints \in [Msg -> Nat]
        BY DEF TypeOK
      <4>6. CheckpointsOK'
        BY SMT, <3>5, <4>2, <4>5 DEF JournalOK, CheckpointsOK
      <4> QED BY <3>6, <4>4, <4>6 DEF JournalOK
    <3> QED BY <3>9, <3>10
  <2>6. CASE FinishCheckpoint(w)
    <3> DEFINE m == held[w]
    <3>1. m \in Msg /\ results[m] = NoResult /\ appended[m].done
      BY <2>6, HeldFacts DEF FinishCheckpoint, ProgressOK, Active
    <3>2. journal \in Seq(Entry) /\ checkpoints \in [Msg -> Nat]
      BY DEF TypeOK
    <3>3. PICK i \in DOMAIN journal : journal[i].msg = m
      BY <3>1 DEF JournalOK, EntriesOK
    <3>4. Len(journal) \in Nat /\ i \in 1..Len(journal)
      BY SMT, <3>2, <3>3
    <3>5. /\ checkpoints'[m] = IF checkpoints[m] = 0 THEN Len(journal) ELSE checkpoints[m]
          /\ \A x \in Msg : x # m => checkpoints'[x] = checkpoints[x]
      BY <2>6, <3>1, <3>2 DEF FinishCheckpoint
    <3>6. UNCHANGED <<status, prepared, results, journal, appended, held>>
          /\ \A v \in Slot : pc'[v] = "commit" => pc[v] = "commit" \/ v = w
      BY <2>6 DEF FinishCheckpoint, turnVars, mailVars, TypeOK
    <3>7. \A x \in Msg : /\ checkpoints'[x] <= Len(journal)
                          /\ checkpoints'[x] # 0 => \E j \in 1..checkpoints'[x] : journal[j].msg = x
      <4>1. \A x \in Msg : /\ checkpoints[x] <= Len(journal)
                           /\ checkpoints[x] # 0 => \E j \in 1..checkpoints[x] : journal[j].msg = x
        BY DEF JournalOK, CheckpointsOK
      <4>2. Len(journal) <= Len(journal)
        BY SMT, <3>4
      <4>3. CASE checkpoints[m] = 0
        <5>1. checkpoints'[m] = Len(journal)
          BY <3>5, <4>3
        <5> QED BY <3>3, <3>4, <3>5, <4>1, <4>2, <5>1
      <4>4. CASE checkpoints[m] # 0
        <5>1. \A x \in Msg : checkpoints'[x] = checkpoints[x]
          BY <3>5, <4>4
        <5> QED BY <4>1, <5>1
      <4> QED BY <4>3, <4>4
    <3>8. \A v \in Slot : pc'[v] = "commit" => held[v] \in Msg /\ checkpoints'[held[v]] # 0
      <4>1. ASSUME NEW v \in Slot, pc'[v] = "commit" PROVE held[v] \in Msg /\ (pc[v] = "commit" \/ v = w)
        BY <3>1, <3>6, <4>1, HeldFacts
      <4> QED BY SMT, <3>4, <3>5, <4>1 DEF JournalOK, CheckpointsOK
    <3>9. CheckpointsOK'
      BY SMT, <3>1, <3>5, <3>6, <3>7, <3>8 DEF JournalOK, CheckpointsOK
    <3>10. FrozenOK' /\ EntriesOK'
      BY <3>6 DEF JournalOK, FrozenOK, EntriesOK
    <3> QED BY <3>9, <3>10 DEF JournalOK
  <2>7. CASE FinishCommit(w)
    <3> DEFINE m == held[w]
    <3>1. /\ m \in Msg /\ results[m] = NoResult /\ appended[m].done /\ prepared[m] # NoTurn
      BY <2>7, HeldFacts DEF FinishCommit, ProgressOK, Active, Locked
    <3>2. checkpoints[m] # 0 /\ prepared[m].text = appended[m].text
      BY <2>7, <3>1 DEF FinishCommit, JournalOK, CheckpointsOK, FrozenOK
    <3>3. /\ results'[m].checkpoint = checkpoints[m]
          /\ results'[m].status # "retired" => results'[m].text = prepared[m].text
          /\ \A x \in Msg : x # m => results'[x] = results[x]
      BY <2>7, <3>1 DEF FinishCommit, TypeOK
    <3>4. results'[m] # NoResult
      <4>1. NoResult.checkpoint = 0
        BY DEF NoResult
      <4> QED BY <3>2, <3>3, <4>1
    <3>5. /\ prepared'[m] = NoTurn /\ \A x \in Msg : x # m => prepared'[x] = prepared[x]
          /\ \A x \in Msg : status[x] # "none" => status'[x] # "none"
          /\ \A v \in Slot : pc'[v] = "commit" => pc[v] = "commit"
          /\ UNCHANGED <<journal, appended, checkpoints, held>>
      BY <2>7, <3>1 DEF FinishCommit, ctxVars, TypeOK
    <3>6. FrozenOK'
      <4>1. FrozenOK
        BY DEF JournalOK
      <4>2. (\A x \in Msg : prepared[x] # NoTurn => status[x] # "none")'
        BY <3>5, <4>1 DEF FrozenOK
      <4>3. (\A x \in Msg : appended[x].done => \/ results[x] # NoResult
                                                \/ /\ prepared[x] # NoTurn
                                                   /\ prepared[x].text = appended[x].text)'
        BY SMT, <3>3, <3>4, <3>5, <4>1 DEF FrozenOK
      <4>4. (\A x \in Msg : results[x] # NoResult /\ results[x].status # "retired"
                                => results[x].text = appended[x].text)'
        BY <3>2, <3>3, <3>5, <4>1 DEF FrozenOK
      <4> QED BY <4>2, <4>3, <4>4 DEF FrozenOK
    <3>7. EntriesOK'
      BY <3>5 DEF JournalOK, EntriesOK
    <3>8. CheckpointsOK'
      BY <3>1, <3>2, <3>3, <3>5 DEF JournalOK, CheckpointsOK
    <3> QED BY <3>6, <3>7, <3>8 DEF JournalOK
  <2>8. CASE FinishFails(w)
    BY <1>1, <2>8 DEF FinishFails, mailVars, TypeOK
  <2>9. CASE RequeueClaim(w)
    BY <1>1, <2>9 DEF RequeueClaim, TypeOK
  <2>10. CASE RequeueFails(w) \/ ClearInflight(w)
    BY <1>1, <2>10 DEF RequeueFails, ClearInflight, mailVars, TypeOK
  <2> QED BY <1>4, <2>1, <2>2, <2>3, <2>4, <2>5, <2>6, <2>7, <2>8, <2>9, <2>10 DEF Worker
<1>5. CASE Process
  <2>1. CASE Crash \/ Exit
    BY <1>1, <2>1 DEF Crash, Exit, Vanish, mailVars
  <2>2. CASE StopSignal
    BY <1>1, <2>2 DEF StopSignal, mailVars, workVars
  <2>3. CASE Load
    BY <1>1, <2>3 DEF Load, Open, workVars
  <2> QED BY <1>5, <2>1, <2>2, <2>3 DEF Process
<1> QED BY <1>2, <1>3, <1>4, <1>5 DEF Next

-----------------------------------------------------------------------------
(* The theorems *)

\* The inductive invariant holds initially.
LEMMA InvInit == Init => IInv
  BY TypeInit, HoldersInit DEF IInv

\* Every step of the turn engine keeps the inductive invariant.
LEMMA InvStep == IInv /\ [Next]_vars => IInv'
<1> SUFFICES ASSUME IInv, [Next]_vars PROVE IInv'
  OBVIOUS
<1>1. CASE Next
  BY <1>1, TypeStep, HoldersStep, OneHolderStep, ProgressStep, JournalStep DEF IInv
<1>2. CASE UNCHANGED vars
  <2>1. UNCHANGED <<status, owner, run, runMsg, pc, held, answer, prepared, results, appended,
                    journal, checkpoints>>
    BY <1>2 DEF vars, mailVars, turnVars, ctxVars, loopVars, workVars
  <2>2. TypeOK'
    BY TypeStep DEF IInv
  <2>3. HoldersOK'
    BY <2>1 DEF IInv, HoldersOK
  <2>4. OneHolder'
    BY <2>1 DEF IInv, OneHolder, Executing, WaitingForSlot
  <2>5. ProgressOK'
    BY <2>1 DEF IInv, ProgressOK
  <2>6. JournalOK'
    BY <2>1 DEF IInv, JournalOK, FrozenOK, EntriesOK, CheckpointsOK
  <2> QED BY <2>2, <2>3, <2>4, <2>5, <2>6 DEF IInv
<1> QED BY <1>1, <1>2

\* The inductive invariant holds in every reachable state of the turn engine.
THEOREM Invariant == Spec => []IInv
  BY InvInit, InvStep, PTL DEF Spec

----------------------------------------------------------------------------
(***************************************************************************)
(* The safety theorems that follow from the inductive invariant, and the   *)
(* refinement of TurnLedger.                                               *)
(***************************************************************************)

\* The state of the turn engine is always well typed; in particular the
\* token counters never leave their width.
THEOREM TypeCorrect == Spec => []TypeOK
<1>1. IInv => TypeOK
  BY DEF IInv
<1> QED BY <1>1, Invariant, PTL

\* For any number of applications, messages and workers: claimTurn,
\* requeueClaim and load never put one message into two hands.
THEOREM OneHolderCorrect == Spec => []OneHolder
<1>1. IInv => OneHolder
  BY DEF IInv
<1> QED BY <1>1, Invariant, PTL

\* executeTurn never asks the provider about a message whose answer is
\* already frozen in Prepared, journaled or committed.
THEOREM NeverRerunCorrect == Spec => []NeverRerun
<1>1. IInv => NeverRerun
  BY HeldFacts DEF IInv, NeverRerun, ProgressOK, JournalOK, FrozenOK, Active
<1> QED BY <1>1, Invariant, PTL

\* A turn's result is in the context at most once however often finishTurn
\* is retried, and a committed turn's result is there, within its checkpoint.
THEOREM JournalOnceCorrect == Spec => []JournalOnce
<1>1. ASSUME IInv PROVE JournalOnce
  <2>1. ASSUME NEW m \in Msg, results[m] # NoResult
        PROVE \E i \in 1..results[m].checkpoint :
                /\ i \in DOMAIN journal
                /\ journal[i].msg = m
                /\ results[m].status # "retired" => journal[i].text = results[m].text
    <3>1. PICK i \in 1..checkpoints[m] : journal[i].msg = m
      BY <1>1, <2>1 DEF IInv, JournalOK, CheckpointsOK
    <3>2. i \in DOMAIN journal
      BY SMT, <1>1, <3>1 DEF IInv, TypeOK, JournalOK, CheckpointsOK
    <3> QED BY SMT, <1>1, <2>1, <3>1, <3>2 DEF IInv, JournalOK, FrozenOK, EntriesOK, CheckpointsOK
  <2> QED BY <1>1, <2>1 DEF IInv, JournalOK, EntriesOK, JournalOnce
<1> QED BY <1>1, Invariant, PTL

\* No handler hands out an acknowledged message again or changes a result
\* that finishTurn committed.
THEOREM SettledIsFinalCorrect == Spec => SettledIsFinal
<1> DEFINE Final == \A m \in Msg : /\ status[m] = "acked" => status'[m] = "acked"
                                   /\ status[m] = "expired" => status'[m] \in {"expired", "acked"}
                                   /\ results[m] # NoResult => results'[m] = results[m]
<1>1. IInv /\ [Next]_vars => [Final]_vars
  <2> SUFFICES ASSUME IInv, Next PROVE Final
    OBVIOUS
  <2> USE DEF IInv, TypeOK
  <2>1. CASE Control
    <3>1. CASE \E a \in App : \/ \E p \in Wakes : CreateApplication(a, p)
                              \/ \E l \in Limit \cup {0} : SetTokenLimit(a, l)
                              \/ \E m \in Msg, t \in Taints : Enqueue(a, m, t)
      BY <3>1 DEF CreateApplication, SetTokenLimit, Enqueue, mailVars, turnVars
    <3>2. CASE \E a \in App, st \in {"serving", "frozen"} : SetApplicationState(a, st)
      BY <3>2 DEF SetApplicationState, mailVars, turnVars
    <3>3. CASE \E a \in App : RetireApplication(a) \/ RetireFails(a) \/ ClaimMailbox(a)
      BY SMT, <3>3 DEF RetireApplication, RetireFails, ClaimMailbox, Pending, Open, mailVars, turnVars
    <3>4. CASE \E m \in Msg : AckMailbox(m)
      BY <3>4 DEF AckMailbox, turnVars
    <3> QED BY <2>1, <3>1, <3>2, <3>3, <3>4 DEF Control
  <2>2. CASE Loop
    <3>1. CASE \E a \in App, m \in Msg : ClaimTurn(a, m)
      BY <3>1 DEF ClaimTurn, Pending, turnVars
    <3>2. CASE \E w \in Slot : Dispatch(w)
      BY <3>2 DEF Dispatch, mailVars, turnVars
    <3>3. CASE AbandonSlot
      BY <3>3 DEF AbandonSlot, turnVars
    <3>4. CASE RunFails \/ RunReturns \/ RunIdle \/ \E a \in App : ThrottleElapses(a)
      BY <3>4 DEF RunFails, RunReturns, RunIdle, ThrottleElapses, vars, mailVars, turnVars
    <3> QED BY <2>2, <3>1, <3>2, <3>3, <3>4 DEF Loop
  <2>3. ASSUME NEW w \in Slot, Worker(w) PROVE Final
    <3>1. CASE ResumePrepared(w) \/ RouteDenied(w) \/ CallProvider(w) \/ ProviderBusy(w)
      BY <3>1 DEF ResumePrepared, RouteDenied, CallProvider, ProviderBusy, mailVars, turnVars
    <3>2. CASE \E t \in Turn : ProviderAnswers(w, t) \/ ProviderAnswersTainted(w, t)
      BY <3>2 DEF ProviderAnswers, ProviderAnswersTainted, mailVars, turnVars
    <3>3. CASE FinishPrepare(w) \/ FinishAppend(w) \/ FinishCheckpoint(w) \/ FinishFails(w)
      BY <3>3 DEF FinishPrepare, FinishAppend, FinishCheckpoint, FinishFails, mailVars, turnVars
    <3>4. CASE FinishCommit(w)
      BY <3>4 DEF FinishCommit, ProgressOK, Active
    <3>5. CASE RequeueClaim(w) \/ RequeueFails(w) \/ ClearInflight(w)
      BY <3>5 DEF RequeueClaim, RequeueFails, ClearInflight, mailVars, turnVars
    <3> QED BY <2>3, <3>1, <3>2, <3>3, <3>4, <3>5 DEF Worker
  <2>4. CASE Process
    <3>1. CASE Crash \/ Exit \/ StopSignal
      BY <3>1 DEF Crash, Exit, Vanish, StopSignal, mailVars, turnVars
    <3>2. CASE Load
      BY <3>2 DEF Load, Open, turnVars
    <3> QED BY <2>4, <3>1, <3>2 DEF Process
  <2> QED BY <2>1, <2>2, <2>3, <2>4 DEF Next
<1> QED BY <1>1, Invariant, PTL DEF Spec, SettledIsFinal

-----------------------------------------------------------------------------
(* TurnRunner implements TurnLedger *)

\* The empty supervisor is the empty ledger.
LEMMA LedgerInit == Init => Ledger!LInit
<1> SUFFICES ASSUME Init PROVE Ledger!LInit
  OBVIOUS
<1>1. ASSUME NEW m \in Msg PROVE OutcomeOf(m) = Ledger!Undecided
  BY Zenon DEF Init, OutcomeOf, Ledger!Undecided, NotAppended, NoResult
<1>2. {m \in Msg : results[m] # NoResult} = {}
  BY DEF Init
<1> QED BY <1>1, <1>2 DEF Init, Ledger!LInit

\* A step that leaves owners, answers, results, the context and the accounts
\* alone is no step of the ledger.
LEMMA LedgerStutter ==
  ASSUME UNCHANGED <<owner, prepared, results, journal, appended, used>>
  PROVE  UNCHANGED Ledger!ledgerVars
  BY DEF Ledger!ledgerVars, OutcomeOf

\* Every step of the turn engine is one step of the ledger or none.
LEMMA LedgerStep ==
  ASSUME IInv, [Next]_vars
  PROVE  [Ledger!LNext]_(Ledger!ledgerVars)
<1> DEFINE L == [Ledger!LNext]_(Ledger!ledgerVars)
<1>0. ASSUME UNCHANGED <<owner, prepared, results, journal, appended, used>> PROVE L
  BY <1>0, LedgerStutter
<1>1. CASE UNCHANGED vars
  BY <1>0, <1>1 DEF vars, mailVars, turnVars, ctxVars, appVars
<1>2. ASSUME NEW a \in App, NEW m \in Msg, NEW t \in Taints, Enqueue(a, m, t) PROVE L
  <2>1. owner[m] = NoApp /\ owner' = [owner EXCEPT ![m] = a]
    BY <1>2 DEF Enqueue, IInv, HoldersOK
  <2>2. UNCHANGED <<prepared, results, journal, appended, used>>
    BY <1>2 DEF Enqueue, turnVars, ctxVars, appVars
  <2>3. Ledger!Submit(m, a)
    BY <2>1, <2>2 DEF Ledger!Submit, OutcomeOf
  <2> QED BY <2>3 DEF Ledger!LNext
<1>3. ASSUME NEW w \in Slot, FinishPrepare(w) PROVE L
  <2> DEFINE m == held[w]
  <2>1. /\ m \in Msg /\ owner[m] \in App /\ results[m] = NoResult
        /\ answer[w] # NoTurn \/ prepared[m] # NoTurn
    BY <1>3, HeldFacts DEF FinishPrepare, IInv, ProgressOK, Active
  <2>2. UNCHANGED <<owner, results, journal, appended, used>>
    BY <1>3 DEF FinishPrepare, mailVars, ctxVars, appVars
  <2>3. CASE prepared[m] # NoTurn
    BY <1>0, <1>3, <2>2, <2>3 DEF FinishPrepare
  <2>4. CASE prepared[m] = NoTurn
    <3>1. /\ prepared' = [prepared EXCEPT ![m] = answer[w]]
          /\ prepared \in [Msg -> Turn \cup {NoTurn}] /\ answer[w] \in Turn \cup {NoTurn}
      BY <1>3, <2>1, <2>4 DEF FinishPrepare, IInv, TypeOK
    <3> DEFINE o == [decided |-> TRUE, text |-> answer[w].text, cost |-> answer[w].usage]
    <3>2. o \in Ledger!Outcome
      BY <3>1, TurnFields DEF Ledger!Outcome
    <3>3. ~OutcomeOf(m).decided /\ owner[m] # NoApp
      BY <2>1, <2>4, AppAssumption, Zenon DEF OutcomeOf
    <3>4. ASSUME NEW x \in Msg, x = m PROVE OutcomeOf(x)' = o
      BY <2>1, <2>4, <3>1, <3>4, Zenon DEF OutcomeOf
    <3>5. ASSUME NEW x \in Msg, x # m PROVE OutcomeOf(x)' = OutcomeOf(x)
      BY <2>2, <3>1, <3>5 DEF OutcomeOf
    <3> HIDE DEF o
    <3>6. [x \in Msg |-> OutcomeOf(x)]' = [[x \in Msg |-> OutcomeOf(x)] EXCEPT ![m] = o]
      BY <2>1, <3>4, <3>5, Zenon
    <3>7. Ledger!Decide(m)
      BY <2>1, <2>2, <3>2, <3>3, <3>6 DEF Ledger!Decide
    <3> QED BY <2>1, <3>7 DEF Ledger!LNext
  <2> QED BY <2>3, <2>4
<1>4. ASSUME NEW w \in Slot, FinishAppend(w) PROVE L
  <2> DEFINE m == held[w]
  <2>1. m \in Msg /\ prepared[m] # NoTurn /\ results[m] = NoResult
    BY <1>4, HeldFacts DEF FinishAppend, IInv, ProgressOK, Active, Locked
  <2>2. UNCHANGED <<owner, prepared, results, used>>
    BY <1>4 DEF FinishAppend, mailVars, turnVars, appVars
  <2>3. \A x \in Msg : x # m => appended'[x] = appended[x]
    BY <1>4 DEF FinishAppend, IInv, TypeOK
  <2>4. ASSUME NEW x \in Msg PROVE OutcomeOf(x)' = OutcomeOf(x)
    BY SMT, <2>1, <2>2, <2>3 DEF OutcomeOf
  <2>5. [x \in Msg |-> OutcomeOf(x)]' = [x \in Msg |-> OutcomeOf(x)]
    BY <2>4
  <2>6. CASE appended[m].done
    <3>1. journal' = journal
      BY <1>4, <2>6 DEF FinishAppend
    <3> QED BY <2>2, <2>5, <3>1 DEF Ledger!ledgerVars
  <2>7. CASE ~appended[m].done
    <3>1. journal' = Append(journal, [msg |-> m, text |-> prepared[m].text])
      BY <1>4, <2>7 DEF FinishAppend
    <3>2. OutcomeOf(m).decided /\ OutcomeOf(m).text = prepared[m].text
      BY <2>1, Zenon DEF OutcomeOf
    <3>3. \A i \in DOMAIN journal : journal[i].msg # m
      BY <2>7 DEF IInv, JournalOK, EntriesOK
    <3>4. Ledger!Record(m)
      BY <2>1, <2>2, <2>5, <3>1, <3>2, <3>3 DEF Ledger!Record
    <3> QED BY <2>1, <3>4 DEF Ledger!LNext
  <2> QED BY <2>6, <2>7
<1>5. ASSUME NEW w \in Slot, FinishCommit(w) PROVE L
  <2>0. PICK m \in Msg : m = held[w]
    BY <1>5, HeldFacts DEF FinishCommit, IInv
  <2> DEFINE settledNow == {x \in Msg : results[x] # NoResult}
  <2>1. /\ m \in Msg /\ owner[m] \in App /\ prepared[m] # NoTurn /\ results[m] = NoResult
        /\ appended[m].done /\ prepared[m].text = appended[m].text /\ checkpoints[m] # 0
    BY <1>5, <2>0, HeldFacts DEF FinishCommit, IInv, ProgressOK, JournalOK, FrozenOK, CheckpointsOK, Active, Locked
  <2>2. UNCHANGED <<owner, journal, appended>>
    BY <1>5 DEF FinishCommit, ctxVars
  <2>3. /\ prepared'[m] = NoTurn /\ results'[m].usage = prepared[m].usage
        /\ results'[m].checkpoint = checkpoints[m]
        /\ \A x \in Msg : x # m => prepared'[x] = prepared[x] /\ results'[x] = results[x]
        /\ used' = [used EXCEPT ![owner[m]] = saturatingAdd(used[owner[m]], prepared[m].usage)]
    BY <1>5, <2>0, <2>1 DEF FinishCommit, IInv, TypeOK
  <2>4. results'[m] # NoResult
    <3>1. NoResult.checkpoint = 0
      BY DEF NoResult
    <3> QED BY <2>1, <2>3, <3>1
  <2>5. ASSUME NEW x \in Msg PROVE OutcomeOf(x)' = OutcomeOf(x)
    <3>1. CASE x = m
      BY <2>1, <2>2, <2>3, <2>4, <3>1 DEF OutcomeOf
    <3>2. CASE x # m
      BY <2>2, <2>3, <3>2 DEF OutcomeOf
    <3> QED BY <3>1, <3>2
  <2>6. [x \in Msg |-> OutcomeOf(x)]' = [x \in Msg |-> OutcomeOf(x)]
    BY <2>5
  <2>7. {x \in Msg : results'[x] # NoResult} = settledNow \cup {m}
    BY <2>1, <2>3, <2>4
  <2>8. OutcomeOf(m).text = prepared[m].text /\ OutcomeOf(m).cost = prepared[m].usage
    BY <2>1 DEF OutcomeOf
  <2>9. PICK i \in DOMAIN journal : journal[i].msg = m
    BY <2>1 DEF IInv, JournalOK, EntriesOK
  <2>10. journal[i] = [msg |-> m, text |-> prepared[m].text]
    <3>1. journal[i] \in Entry
      BY SMT, <2>9 DEF IInv, TypeOK
    <3>2. journal[i].text = prepared[m].text
      BY <2>1, <2>9 DEF IInv, JournalOK, EntriesOK
    <3> QED BY <2>9, <3>1, <3>2 DEF Entry
  <2>11. Ledger!Settle(m)
    <3> DEFINE outcomeNow == [x \in Msg |-> OutcomeOf(x)]
    <3>1. outcomeNow[m].text = prepared[m].text /\ outcomeNow[m].cost = prepared[m].usage
      BY <2>1, <2>8
    <3> HIDE DEF outcomeNow
    <3>2. used' = [used EXCEPT ![owner[m]] =
                     IF @ + outcomeNow[m].cost > MaxTokens THEN MaxTokens ELSE @ + outcomeNow[m].cost]
      BY <2>3, <3>1 DEF saturatingAdd
    <3>3. \E j \in DOMAIN journal : journal[j] = [msg |-> m, text |-> outcomeNow[m].text]
      BY <2>9, <2>10, <3>1
    <3>4. m \notin settledNow
      BY <2>1
    <3> QED BY <2>2, <2>6, <2>7, <3>2, <3>3, <3>4 DEF Ledger!Settle, outcomeNow
  <2> QED BY <2>1, <2>11 DEF Ledger!LNext
<1>6. CASE Control
  <2>1. CASE \E a \in App : \/ \E p \in Wakes : CreateApplication(a, p)
                            \/ \E l \in Limit \cup {0} : SetTokenLimit(a, l)
    BY <1>0, <2>1 DEF CreateApplication, SetTokenLimit, mailVars, turnVars, ctxVars
  <2>2. CASE \E a \in App, st \in {"serving", "frozen"} : SetApplicationState(a, st)
    BY <1>0, <2>2 DEF SetApplicationState, mailVars, turnVars, ctxVars
  <2>3. CASE \E a \in App : RetireApplication(a) \/ RetireFails(a) \/ ClaimMailbox(a)
    BY <1>0, <2>3 DEF RetireApplication, RetireFails, ClaimMailbox, appVars, mailVars, turnVars, ctxVars
  <2>4. CASE \E m \in Msg : AckMailbox(m)
    BY <1>0, <2>4 DEF AckMailbox, appVars, turnVars, ctxVars
  <2> QED BY <1>2, <1>6, <2>1, <2>2, <2>3, <2>4 DEF Control
<1>7. CASE Loop
  BY <1>0, <1>7 DEF Loop, ClaimTurn, Dispatch, AbandonSlot, RunFails, RunReturns, RunIdle,
     ThrottleElapses, vars, appVars, mailVars, turnVars, ctxVars
<1>8. ASSUME NEW w \in Slot, Worker(w) PROVE L
  <2>1. CASE ResumePrepared(w) \/ RouteDenied(w) \/ CallProvider(w) \/ ProviderBusy(w)
    BY <1>0, <2>1 DEF ResumePrepared, RouteDenied, CallProvider, ProviderBusy, appVars, mailVars,
       turnVars, ctxVars
  <2>2. CASE \E t \in Turn : ProviderAnswers(w, t) \/ ProviderAnswersTainted(w, t)
    BY <1>0, <2>2 DEF ProviderAnswers, ProviderAnswersTainted, appVars, mailVars, turnVars, ctxVars
  <2>3. CASE FinishCheckpoint(w) \/ FinishFails(w) \/ RequeueClaim(w) \/ RequeueFails(w)
               \/ ClearInflight(w)
    BY <1>0, <2>3 DEF FinishCheckpoint, FinishFails, RequeueClaim, RequeueFails, ClearInflight,
       appVars, mailVars, turnVars, ctxVars
  <2> QED BY <1>3, <1>4, <1>5, <1>8, <2>1, <2>2, <2>3 DEF Worker
<1>9. CASE Process
  BY <1>0, <1>9 DEF Process, Crash, Exit, Vanish, StopSignal, Load, appVars, mailVars, turnVars, ctxVars
<1> QED BY <1>1, <1>6, <1>7, <1>8, <1>9 DEF Next

\* The turn engine implements TurnLedger: through retries, failed writes and
\* crashes finishTurn decides, journals and charges each message's turn once.
THEOREM Refinement == Spec => ImplementsLedger
  BY LedgerInit, LedgerStep, Invariant, PTL DEF Spec, ImplementsLedger, Ledger!LSpec

----------------------------------------------------------------------------
(***************************************************************************)
(* An application that may be scheduled has budget left: the invariant     *)
(* ServingWithinBudget, strengthened to the applications not created yet.  *)
(***************************************************************************)

\* An application that is not created yet has budget left, too: creating it
\* makes it serving and leaves its counters as they are.
BudgetOK ==
    \A a \in App : appState[a] \in {"none", "serving"} => ~Exhausted(used[a], limit[a])

\* Every step keeps the budget of the applications that may be scheduled.
LEMMA BudgetStep == IInv /\ BudgetOK /\ [Next]_vars => BudgetOK'
<1> SUFFICES ASSUME IInv, BudgetOK, [Next]_vars PROVE BudgetOK'
  OBVIOUS
<1> USE DEF IInv, TypeOK, BudgetOK
<1>0. ASSUME UNCHANGED <<appState, used, limit>> PROVE BudgetOK'
  BY <1>0
<1>1. CASE UNCHANGED vars
  BY <1>0, <1>1 DEF vars, appVars
<1>2. CASE Control
  <2>1. ASSUME NEW a \in App, NEW p \in Wakes, CreateApplication(a, p) PROVE BudgetOK'
    BY <2>1 DEF CreateApplication
  <2>2. ASSUME NEW a \in App, NEW l \in Limit \cup {0}, SetTokenLimit(a, l) PROVE BudgetOK'
    BY <2>2 DEF SetTokenLimit
  <2>3. ASSUME NEW a \in App, NEW st \in {"serving", "frozen"}, SetApplicationState(a, st)
        PROVE BudgetOK'
    BY <2>3 DEF SetApplicationState
  <2>4. ASSUME NEW a \in App, RetireApplication(a) PROVE BudgetOK'
    BY <2>4 DEF RetireApplication
  <2>5. ASSUME NEW a \in App, RetireFails(a) \/ ClaimMailbox(a) PROVE BudgetOK'
    BY <1>0, <2>5 DEF RetireFails, ClaimMailbox, appVars
  <2>6. ASSUME NEW m \in Msg,
               AckMailbox(m) \/ \E a \in App, t \in Taints : Enqueue(a, m, t)
        PROVE BudgetOK'
    BY <1>0, <2>6 DEF Enqueue, AckMailbox, appVars
  <2> QED BY <1>2, <2>1, <2>2, <2>3, <2>4, <2>5, <2>6 DEF Control
<1>3. CASE Loop
  BY <1>0, <1>3 DEF Loop, ClaimTurn, ThrottleElapses, RunIdle, RunFails, RunReturns,
     Dispatch, AbandonSlot, vars, appVars
<1>4. ASSUME NEW w \in Slot, Worker(w) PROVE BudgetOK'
  <2>1. CASE FinishCommit(w)
    <3>1. owner[held[w]] \in App
      BY <2>1, HeldFacts DEF FinishCommit
    <3> QED BY <2>1, <3>1 DEF FinishCommit, FinalState
  <2>2. CASE ResumePrepared(w) \/ RouteDenied(w) \/ CallProvider(w) \/ ProviderBusy(w)
               \/ \E t \in Turn : ProviderAnswers(w, t) \/ ProviderAnswersTainted(w, t)
    BY <1>0, <2>2 DEF ResumePrepared, RouteDenied, CallProvider, ProviderBusy,
       ProviderAnswers, ProviderAnswersTainted, appVars
  <2>3. CASE FinishPrepare(w) \/ FinishAppend(w) \/ FinishCheckpoint(w) \/ FinishFails(w)
    BY <1>0, <2>3 DEF FinishPrepare, FinishAppend, FinishCheckpoint, FinishFails, appVars
  <2>4. CASE RequeueClaim(w) \/ RequeueFails(w) \/ ClearInflight(w)
    BY <1>0, <2>4 DEF RequeueClaim, RequeueFails, ClearInflight, appVars
  <2> QED BY <1>4, <2>1, <2>2, <2>3, <2>4 DEF Worker
<1>5. CASE Process
  BY <1>0, <1>5 DEF Process, Crash, Exit, Vanish, StopSignal, Load, appVars
<1> QED BY <1>1, <1>2, <1>3, <1>4, <1>5 DEF Next

\* An application that claimTurn may choose has budget left, for any number of
\* turns committed and limits narrowed while others were in flight.
THEOREM BudgetCorrect == Spec => []ServingWithinBudget
<1>1. Init => BudgetOK
  BY SMT DEF Init, BudgetOK, Exhausted
<1>2. BudgetOK => ServingWithinBudget
  BY DEF BudgetOK, ServingWithinBudget
<1> QED BY <1>1, <1>2, Invariant, BudgetStep, PTL DEF Spec

----------------------------------------------------------------------------
(***************************************************************************)
(* Declared taint is durable before it is acted on: the invariant          *)
(* TaintCarried, strengthened to every message that is in somebody's       *)
(* hands, those of an application retired meanwhile included.              *)
(***************************************************************************)

\* A message somebody has seen: it was claimed or settled, has a frozen
\* answer, or is in the hands of Run or of a worker, retired meanwhile or not.
Handed(m) ==
    \/ status[m] \in {"claimed", "acked"}
    \/ prepared[m] # NoTurn
    \/ \E w \in Slot : Executing(w, m)
    \/ WaitingForSlot(m)

TaintOK == \A m \in Msg : carries[m] /\ Handed(m) => tainted[owner[m]]

\* A message somebody has seen belongs to an application.
LEMMA HandedOwner == ASSUME IInv, NEW m \in Msg, Handed(m)
                     PROVE  status[m] # "none" /\ owner[m] \in App
<1> USE DEF IInv
<1>1. status[m] # "none"
  BY DEF Handed, Executing, WaitingForSlot, HoldersOK, JournalOK, FrozenOK, Active
<1>2. owner[m] # NoApp
  BY <1>1 DEF HoldersOK
<1> QED BY <1>1, <1>2 DEF TypeOK

\* A step that hands out nothing new and takes no label back keeps TaintOK.
LEMMA TaintFrame ==
  ASSUME IInv, TaintOK,
         \A m \in Msg : Handed(m)' => Handed(m) /\ owner'[m] = owner[m] /\ carries'[m] = carries[m],
         \A a \in App : tainted[a] => tainted'[a]
  PROVE  TaintOK'
<1> SUFFICES ASSUME NEW m \in Msg, carries'[m], Handed(m)' PROVE tainted'[owner'[m]]
  BY DEF TaintOK
<1>1. Handed(m) /\ owner'[m] = owner[m] /\ carries'[m] = carries[m]
  OBVIOUS
<1>2. owner[m] \in App
  BY <1>1, HandedOwner
<1>3. tainted[owner[m]]
  BY <1>1, Zenon DEF TaintOK
<1> QED BY <1>1, <1>2, <1>3, Zenon

\* Every step keeps the taint of the messages that were handed out.
LEMMA TaintStep == IInv /\ TaintOK /\ [Next]_vars => TaintOK'
<1> SUFFICES ASSUME IInv, TaintOK, [Next]_vars PROVE TaintOK'
  OBVIOUS
<1>a. TypeOK /\ HoldersOK
  BY DEF IInv
<1>0. ASSUME UNCHANGED <<owner, carries, tainted>>, \A m \in Msg : Handed(m)' => Handed(m)
      PROVE  TaintOK'
  BY <1>0, TaintFrame
<1>b. ASSUME UNCHANGED <<mailVars, tainted, prepared, run, runMsg, pc, held>> PROVE TaintOK'
  BY <1>b, <1>0 DEF Handed, Executing, WaitingForSlot, mailVars
<1>c. ASSUME UNCHANGED <<owner, carries, tainted, prepared, run, runMsg, pc, held>>,
             \A m \in Msg : status'[m] \in {"claimed", "acked"} => status[m] \in {"claimed", "acked"}
      PROVE  TaintOK'
  BY <1>c, <1>0 DEF Handed, Executing, WaitingForSlot
<1>1. CASE UNCHANGED vars
  BY <1>b, <1>1 DEF vars, appVars, turnVars, loopVars, workVars
<1>2. CASE Control
  <2>1. CASE \E a \in App : \/ \E p \in Wakes : CreateApplication(a, p)
                            \/ \E l \in Limit \cup {0} : SetTokenLimit(a, l)
                            \/ RetireFails(a)
                            \/ \E st \in {"serving", "frozen"} : SetApplicationState(a, st)
    BY <1>b, <2>1 DEF CreateApplication, SetTokenLimit, SetApplicationState, RetireFails,
       appVars, turnVars, loopVars, workVars
  <2>2. ASSUME NEW a \in App, RetireApplication(a) PROVE TaintOK'
    BY <1>c, <2>2 DEF RetireApplication, turnVars, loopVars, workVars
  <2>3. ASSUME NEW m \in Msg, AckMailbox(m) PROVE TaintOK'
    BY <1>a, <1>c, <2>3 DEF AckMailbox, TypeOK, appVars, turnVars, loopVars, workVars
  <2>4. ASSUME NEW a \in App, NEW m \in Msg, NEW t \in Taints, Enqueue(a, m, t) PROVE TaintOK'
    <3>1. UNCHANGED <<tainted, prepared, run, runMsg, pc, held>>
      BY <2>4 DEF Enqueue, appVars, turnVars, loopVars, workVars
    <3>2. /\ status[m] = "none" /\ status'[m] = "pending"
          /\ \A n \in Msg : n # m => /\ status'[n] = status[n] /\ owner'[n] = owner[n]
                                     /\ carries'[n] = carries[n]
      BY <1>a, <2>4 DEF Enqueue, TypeOK
    <3>3. ASSUME NEW n \in Msg, Handed(n)' PROVE Handed(n)
      BY <3>1, <3>2, <3>3 DEF Handed, Executing, WaitingForSlot
    <3>4. ASSUME NEW n \in Msg, Handed(n)' PROVE n # m
      BY <3>2, <3>3, <3>4, HandedOwner
    <3> QED BY <3>1, <3>2, <3>3, <3>4, TaintFrame
  <2>5. ASSUME NEW a \in App, ClaimMailbox(a) PROVE TaintOK'
    <3>1. UNCHANGED <<owner, carries, prepared, run, runMsg, pc, held>>
      BY <2>5 DEF ClaimMailbox, turnVars, loopVars, workVars
    <3>2. \A m \in Msg : m \notin Pending(a) => status'[m] = status[m]
      BY <2>5 DEF ClaimMailbox
    <3>3. \A b \in App : tainted[b] => tainted'[b]
      BY <1>a, <2>5, Zenon DEF ClaimMailbox, TypeOK
    <3>4. ASSUME NEW m \in Pending(a), carries[m] PROVE tainted'[a]
      BY <1>a, <2>5, <3>4, Zenon DEF ClaimMailbox, TypeOK
    <3>5. ASSUME NEW m \in Msg, carries'[m], Handed(m)' PROVE tainted'[owner'[m]]
      <4>1. CASE m \in Pending(a)
        BY <3>1, <3>4, <3>5, <4>1, Zenon DEF Pending
      <4>2. CASE m \notin Pending(a)
        <5>1. Handed(m)
          BY <3>1, <3>2, <3>5, <4>2 DEF Handed, Executing, WaitingForSlot
        <5>2. owner[m] \in App /\ owner'[m] = owner[m]
          BY <3>1, <5>1, HandedOwner
        <5>3. tainted[owner[m]]
          BY <3>1, <3>5, <5>1, Zenon DEF TaintOK
        <5> QED BY <3>3, <5>2, <5>3, Zenon
      <4> QED BY <4>1, <4>2
    <3> QED BY <3>5, Zenon DEF TaintOK
  <2> QED BY <1>2, <2>1, <2>2, <2>3, <2>4, <2>5 DEF Control
<1>3. CASE Loop
  <2>1. ASSUME NEW a \in App, NEW m \in Msg, ClaimTurn(a, m) PROVE TaintOK'
    <3>1. UNCHANGED <<owner, carries, prepared, pc, held>> /\ run' = "slot" /\ runMsg' = m
      BY <2>1 DEF ClaimTurn, turnVars, workVars
    <3>2. owner[m] = a /\ \A n \in Msg : n # m => status'[n] = status[n]
      BY <1>a, <2>1 DEF ClaimTurn, Pending, TypeOK
    <3>3. \A b \in App : tainted[b] => tainted'[b]
      BY <1>a, <2>1, Zenon DEF ClaimTurn, TypeOK
    <3>4. carries[m] => tainted'[a]
      BY <1>a, <2>1, Zenon DEF ClaimTurn, TypeOK
    <3>5. ASSUME NEW n \in Msg, carries'[n], Handed(n)' PROVE tainted'[owner'[n]]
      <4>1. CASE n = m
        BY <3>1, <3>2, <3>4, <3>5, <4>1, Zenon
      <4>2. CASE n # m
        <5>1. Handed(n)
          BY <3>1, <3>2, <3>5, <4>2 DEF Handed, Executing, WaitingForSlot
        <5>2. owner[n] \in App /\ owner'[n] = owner[n]
          BY <3>1, <5>1, HandedOwner
        <5>3. tainted[owner[n]]
          BY <3>1, <3>5, <5>1, Zenon DEF TaintOK
        <5> QED BY <3>3, <5>2, <5>3, Zenon
      <4> QED BY <4>1, <4>2
    <3> QED BY <3>5, Zenon DEF TaintOK
  <2>2. ASSUME NEW w \in Slot, Dispatch(w) PROVE TaintOK'
    BY <1>a, <1>0, <2>2 DEF Dispatch, Handed, Executing, WaitingForSlot, TypeOK, Active,
       appVars, mailVars, turnVars
  <2>3. CASE AbandonSlot
    BY <1>a, <1>0, <2>3 DEF AbandonSlot, Handed, Executing, WaitingForSlot, TypeOK,
       appVars, turnVars, workVars
  <2>4. CASE RunFails \/ RunReturns
    BY <1>0, <2>4 DEF RunFails, RunReturns, Handed, Executing, WaitingForSlot,
       appVars, mailVars, turnVars, workVars
  <2>5. CASE RunIdle \/ \E a \in App : ThrottleElapses(a)
    BY <1>b, <2>5 DEF RunIdle, ThrottleElapses, vars, appVars, turnVars, loopVars, workVars
  <2> QED BY <1>3, <2>1, <2>2, <2>3, <2>4, <2>5 DEF Loop
<1>4. ASSUME NEW w \in Slot, Worker(w) PROVE TaintOK'
  <2>0. AfterAnswer \in {"finish", "requeue"}
    BY DEF AfterAnswer
  <2>a. ASSUME UNCHANGED <<owner, carries, tainted, prepared, run, runMsg, held>>,
               \A v \in Slot : pc'[v] \in Active => pc[v] \in Active,
               \A m \in Msg : status'[m] \in {"claimed", "acked"} => Handed(m)
        PROVE  TaintOK'
    BY <2>a, <1>0 DEF Handed, Executing, WaitingForSlot
  <2>b. \A m \in Msg : status[m] \in {"claimed", "acked"} => Handed(m)
    BY DEF Handed
  <2>1. CASE ResumePrepared(w) \/ RouteDenied(w) \/ CallProvider(w) \/ ProviderBusy(w)
    BY <1>a, <2>0, <2>a, <2>b, <2>1 DEF ResumePrepared, RouteDenied, CallProvider, ProviderBusy,
       TypeOK, Active, appVars, mailVars, turnVars, loopVars
  <2>2. ASSUME NEW t \in Turn, ProviderAnswers(w, t) PROVE TaintOK'
    BY <1>a, <2>0, <2>a, <2>b, <2>2 DEF ProviderAnswers, TypeOK, Active, appVars, mailVars,
       turnVars, loopVars
  <2>3. ASSUME NEW t \in Turn, ProviderAnswersTainted(w, t) PROVE TaintOK'
    <3>1. UNCHANGED <<status, owner, carries, prepared, run, runMsg, held>>
          /\ \A v \in Slot : pc'[v] \in Active => pc[v] \in Active
      BY <1>a, <2>0, <2>3 DEF ProviderAnswersTainted, TypeOK, Active, mailVars, turnVars, loopVars
    <3>2. \A a \in App : tainted[a] => tainted'[a]
      <4>1. tainted' = [tainted EXCEPT ![owner[held[w]]] = TRUE] \/ tainted' = tainted
        BY <2>3, Zenon DEF ProviderAnswersTainted
      <4> QED BY <1>a, <4>1, Zenon DEF TypeOK
    <3>3. \A m \in Msg : Handed(m)' => Handed(m)
      BY <3>1 DEF Handed, Executing, WaitingForSlot
    <3> QED BY <3>1, <3>2, <3>3, TaintFrame
  <2>4. CASE FinishPrepare(w)
    <3>1. Executing(w, held[w]) /\ held[w] \in Msg
      BY <1>a, <2>4, HeldFacts DEF FinishPrepare, Executing, Active
    <3>2. UNCHANGED <<status, owner, carries, tainted, run, runMsg, held>>
          /\ \A v \in Slot : pc'[v] \in Active => pc[v] \in Active
      BY <1>a, <2>4 DEF FinishPrepare, TypeOK, Active, appVars, mailVars, loopVars
    <3>3. \A m \in Msg : prepared'[m] # NoTurn => prepared[m] # NoTurn \/ m = held[w]
      BY <1>a, <2>4 DEF FinishPrepare, TypeOK
    <3>4. \A m \in Msg : Handed(m)' => Handed(m)
      BY <3>1, <3>2, <3>3 DEF Handed, Executing, WaitingForSlot
    <3> QED BY <1>0, <3>2, <3>4
  <2>5. CASE FinishAppend(w) \/ FinishCheckpoint(w) \/ FinishFails(w)
    BY <1>a, <2>a, <2>b, <2>5 DEF FinishAppend, FinishCheckpoint, FinishFails, TypeOK, Active,
       appVars, mailVars, turnVars, loopVars
  <2>6. CASE FinishCommit(w)
    <3>1. Executing(w, held[w]) /\ held[w] \in Msg
      BY <1>a, <2>6, HeldFacts DEF FinishCommit, Executing, Active
    <3>2. UNCHANGED <<owner, carries, tainted, run, runMsg, held>>
          /\ \A v \in Slot : pc'[v] \in Active => pc[v] \in Active
      BY <1>a, <2>6 DEF FinishCommit, TypeOK, Active, loopVars
    <3>3. \A m \in Msg : m # held[w] => status'[m] = status[m] /\ prepared'[m] = prepared[m]
      BY <1>a, <2>6 DEF FinishCommit, TypeOK
    <3>4. \A m \in Msg : Handed(m)' => Handed(m)
      BY <3>1, <3>2, <3>3 DEF Handed, Executing, WaitingForSlot
    <3> QED BY <1>0, <3>2, <3>4
  <2>7. CASE RequeueClaim(w) \/ RequeueFails(w)
    BY <1>a, <2>a, <2>b, <2>7 DEF RequeueClaim, RequeueFails, TypeOK, Active,
       appVars, mailVars, turnVars, loopVars
  <2>8. CASE ClearInflight(w)
    <3>1. UNCHANGED <<status, owner, carries, tainted, prepared, run, runMsg>>
      BY <2>8 DEF ClearInflight, appVars, mailVars, turnVars
    <3>2. \A v \in Slot : pc'[v] \in Active => pc[v] \in Active /\ held'[v] = held[v]
      BY <1>a, <2>8 DEF ClearInflight, TypeOK, Active
    <3> QED BY <1>0, <3>1, <3>2 DEF Handed, Executing, WaitingForSlot
  <2> QED BY <1>4, <2>1, <2>2, <2>3, <2>4, <2>5, <2>6, <2>7, <2>8 DEF Worker
<1>5. CASE Process
  <2>1. CASE Crash \/ Exit
    BY <1>0, <2>1 DEF Crash, Exit, Vanish, Handed, Executing, WaitingForSlot, Active,
       appVars, mailVars, turnVars
  <2>2. CASE StopSignal
    BY <1>b, <2>2 DEF StopSignal, appVars, turnVars, workVars
  <2>3. CASE Load
    <3>1. \A m \in Msg : status'[m] \in {"claimed", "acked"} => status[m] \in {"claimed", "acked"}
      BY <1>a, <2>3 DEF Load, TypeOK, Open
    <3>2. UNCHANGED <<owner, carries, tainted, prepared, runMsg, pc, held>> /\ run' # "slot"
      BY <2>3 DEF Load, appVars, turnVars, workVars
    <3> QED BY <1>0, <3>1, <3>2 DEF Handed, Executing, WaitingForSlot
  <2> QED BY <1>5, <2>1, <2>2, <2>3 DEF Process
<1> QED BY <1>1, <1>2, <1>3, <1>4, <1>5 DEF Next

\* The taint a message declares is in its application's durable label from the
\* moment claimTurn or a client's claim hands it out, through requeues, failed
\* writes, retirements and restarts.
THEOREM TaintCorrect == Spec => []TaintCarried
<1>1. Init => TaintOK
  <2> SUFFICES ASSUME Init, NEW m \in Msg, carries[m] PROVE FALSE
    BY Zenon DEF TaintOK
  <2> QED BY Zenon DEF Init
<1>2. TaintOK => TaintCarried
  BY Zenon DEF TaintOK, TaintCarried, Handed
<1> QED BY <1>1, <1>2, Invariant, TaintStep, PTL DEF Spec

----------------------------------------------------------------------------
(***************************************************************************)
(* The account of an application is the sum of what was committed.         *)
(***************************************************************************)

INSTANCE SumsProofs
INSTANCE FiniteSetTheorems

\* A nonempty finite set of natural numbers has a greatest element.
LEMMA Greatest ==
    ASSUME NEW T \in SUBSET Nat, T # {}, IsFiniteSet(T)
    PROVE  \E m \in T : \A n \in T : n <= m
<1>1. PICK k \in Nat : ExistsSurjection(1..k, T)
  BY FS_NatSurjection
<1>2. PICK f \in [1..k -> T] : \A n \in T : \E i \in 1..k : f[i] = n
  BY <1>1 DEF ExistsSurjection, Surjection
<1> DEFINE S == {j \in Nat : \E b \in Nat : \A i \in 1..k : i <= j => f[i] <= b}
<1>3. 0 \in S
  <2>1. \A i \in 1..k : ~(i <= 0)
    BY SMT
  <2>2. 0 \in Nat
    OBVIOUS
  <2> QED BY <2>1, <2>2, Zenon
<1>4. ASSUME NEW j \in Nat, j \in S PROVE j + 1 \in S
  <2>0. j + 1 \in Nat
    BY SMT
  <2>1. PICK b \in Nat : \A i \in 1..k : i <= j => f[i] <= b
    BY <1>4
  <2>2. CASE j + 1 \in 1..k
    <3>1. f[j + 1] \in Nat
      BY <2>2
    <3>2. PICK c \in Nat : b <= c /\ f[j + 1] <= c
      BY <3>1, SMT
    <3>3. \A i \in 1..k : i <= j + 1 => f[i] <= c
      <4> SUFFICES ASSUME NEW i \in 1..k, i <= j + 1 PROVE f[i] <= c
        OBVIOUS
      <4>1. i <= j \/ i = j + 1
        BY SMT
      <4>2. f[i] \in Nat
        BY Zenon
      <4>3. CASE i <= j
        <5>1. f[i] <= b
          BY <2>1, <4>3, Zenon
        <5> QED BY ONLY <3>2, <4>2, <5>1, b \in Nat, c \in Nat, SMTT(30)
      <4>4. CASE i = j + 1
        BY <3>2, <4>4, Zenon
      <4> QED BY <4>1, <4>3, <4>4
    <3> QED BY <2>0, <3>3, Zenon
  <2>3. CASE j + 1 \notin 1..k
    <3>1. \A i \in 1..k : i <= j + 1 => i <= j
      BY <2>3, SMT
    <3> QED BY <2>0, <2>1, <3>1, Zenon
  <2> QED BY <2>2, <2>3
<1>5. Nat \subseteq S
  <2> HIDE DEF S
  <2> QED BY <1>3, <1>4, Induction
<1>6. PICK b \in Nat : \A i \in 1..k : f[i] <= b
  <2>1. k \in S
    BY <1>5
  <2> QED BY <2>1, SMT
<1>7. \A n \in T : n <= b
  BY <1>2, <1>6
\* The greatest member is the one closest to the bound.
<1> DEFINE D == {b - n : n \in T}
<1>8. D \in SUBSET Nat /\ D # {}
  <2>1. \A n \in T : b - n \in Nat
    BY <1>7, SMT
  <2> QED BY <2>1, Zenon
<1>9. PICK d \in D : \A e \in D : d <= e
  BY <1>8, Least
<1>10. PICK m \in T : d = b - m
  BY <1>9
<1>11. ASSUME NEW n \in T PROVE n <= m
  <2>1. b - n \in D /\ n \in Nat /\ m \in Nat
    BY <1>10
  <2>2. b - m <= b - n
    BY <1>9, <1>10, <2>1
  <2> QED BY <2>1, <2>2, SMT
<1> QED BY <1>11

\* With finitely many messages, LastMsg bounds them.
LEMMA LastMsgBounds ==
    ASSUME IsFiniteSet(Msg)
    PROVE  LastMsg \in Nat /\ \A m \in Msg : m \in 1..LastMsg
<1>1. Msg \cup {0} \in SUBSET Nat /\ Msg \cup {0} # {}
  BY SMT, MsgAssumption
<1>2. IsFiniteSet(Msg \cup {0})
  BY FS_AddElement
<1>3. \E n \in Msg \cup {0} : \A m \in Msg \cup {0} : m <= n
  BY <1>1, <1>2, Greatest
<1>4. \E n \in Msg \cup {0} : \A m \in Msg : m <= n
  BY <1>3
<1>5. LastMsg \in Msg \cup {0} /\ \A m \in Msg : m <= LastMsg
  BY <1>4 DEF LastMsg
<1> QED BY SMTT(30), <1>1, <1>5, MsgAssumption

\* What is charged for one message of application a.
Charge(a, m) == IF m \in Msg /\ owner[m] = a /\ results[m] # NoResult THEN results[m].usage ELSE 0

LEMMA ChargeFacts ==
    ASSUME TypeOK
    PROVE  \A a \in App, m \in Nat : Charge(a, m) \in Nat
<1>1. (Usage \cup {0}) \subseteq Nat
  BY SMT, TokenAssumption
<1>2. \A r \in Result \cup {NoResult} : r.usage \in Nat
  BY SMT, <1>1 DEF Result, NoResult
<1>3. 0 \in Nat
  BY SMT
<1> QED BY <1>2, <1>3 DEF TypeOK, Charge

\* The charges of a by message, and their sum.
LEMMA ChargesSum ==
    ASSUME TypeOK, IsFiniteSet(Msg), NEW a \in App
    PROVE  /\ DOMAIN Charges(a) = 1..LastMsg
           /\ \A m \in 1..LastMsg : Charges(a)[m] = Charge(a, m) /\ Charges(a)[m] \in Nat
           /\ Numbers(Charges(a), LastMsg)
           /\ SumUpTo(Charges(a), LastMsg) \in Nat
<1>1. DOMAIN Charges(a) = 1..LastMsg /\ \A m \in 1..LastMsg : Charges(a)[m] = Charge(a, m)
  BY DEF Charges, Charge
<1>2. LastMsg \in Nat /\ \A m \in 1..LastMsg : m \in Nat
  BY SMT, LastMsgBounds
<1>3. \A m \in 1..LastMsg : Charges(a)[m] \in Nat
  BY <1>1, <1>2, ChargeFacts
<1>4. \A x \in Nat : x \in Int
  BY SMT
<1>5. Numbers(Charges(a), LastMsg)
  BY <1>3, <1>4 DEF Numbers
<1>6. SumUpTo(Charges(a), LastMsg) \in Nat
  BY <1>2, <1>3, SumBounds
<1> QED BY <1>1, <1>3, <1>5, <1>6

\* A step that commits nothing: a new message has no result yet.
Uncharged ==
    /\ UNCHANGED <<used, results>>
    /\ \A m \in Msg : owner'[m] = owner[m] \/ results[m] = NoResult

LEMMA UnchargedStep ==
    ASSUME TypeOK, IsFiniteSet(Msg), ChargedOnce, Uncharged
    PROVE  ChargedOnce'
<1> SUFFICES ASSUME NEW a \in App
             PROVE  (LET sum == SumUpTo(Charges(a), LastMsg)
                     IN  used[a] = IF sum > MaxTokens THEN MaxTokens ELSE sum)'
  BY DEF ChargedOnce
<1>1. \A m \in Msg : results'[m] = results[m] /\ (owner'[m] = owner[m] \/ results[m] = NoResult)
  BY DEF Uncharged
<1>2. \A m \in 1..LastMsg : Charges(a)'[m] = Charges(a)[m]
  BY <1>1 DEF Charges
<1>3. LastMsg \in Nat /\ Numbers(Charges(a), LastMsg)
  BY LastMsgBounds, ChargesSum
<1>4. SumUpTo(Charges(a), LastMsg) = SumUpTo(Charges(a)', LastMsg)
  BY <1>2, <1>3, SumSame
<1>5. used'[a] = used[a]
  BY DEF Uncharged
<1> QED BY <1>4, <1>5 DEF ChargedOnce

\* The commit of finishTurn charges the one message it gives a result.
LEMMA CommitCharges ==
    ASSUME IInv, IsFiniteSet(Msg), ChargedOnce, NEW w \in Slot, FinishCommit(w), TypeOK'
    PROVE  ChargedOnce'
<1> SUFFICES ASSUME NEW b \in App
             PROVE  (LET sum == SumUpTo(Charges(b), LastMsg)
                     IN  used[b] = IF sum > MaxTokens THEN MaxTokens ELSE sum)'
  BY DEF ChargedOnce
<1>1. PICK m, a, u : m = held[w] /\ a = owner[m] /\ u = prepared[m].usage
  OBVIOUS
<1>2. /\ TypeOK /\ HoldersOK /\ ProgressOK /\ pc[w] = "commit"
      /\ used' = [used EXCEPT ![a] = saturatingAdd(used[a], u)] /\ owner' = owner
  BY <1>1 DEF IInv, FinishCommit
<1>3. m \in Msg /\ a \in App
  BY <1>1, <1>2, HeldFacts
<1>4. results[m] = NoResult
  BY <1>1, <1>2 DEF ProgressOK, Active
<1>5. results'[m].usage = u /\ results'[m] # NoResult /\ \A x \in Msg : x # m => results'[x] = results[x]
  <2>1. PICK st : st = FinalStatus(a, saturatingAdd(used[a], u), prepared[m])
    OBVIOUS
  <2>2. PICK r : r = [status |-> st, text |-> IF st = "retired" THEN NoText ELSE prepared[m].text,
                      usage |-> u, checkpoint |-> checkpoints[m]]
    OBVIOUS
  <2>3. results' = [results EXCEPT ![m] = r] /\ results \in [Msg -> Result \cup {NoResult}]
    BY <1>1, <1>2, <2>1, <2>2 DEF FinishCommit, TypeOK
  <2>4. r.usage = u /\ r.status = st
    BY <2>2
  <2>5. st # "none"
    <3>1. prepared[m] \in Turn
      BY <1>1, <1>2, <1>3 DEF TypeOK, ProgressOK, Locked
    <3>2. prepared[m].status # "none"
      BY <3>1 DEF Turn
    <3> QED BY <2>1, <3>2 DEF FinalStatus
  <2>6. r # NoResult
    <3>1. NoResult.status = "none"
      BY DEF NoResult
    <3> QED BY <2>4, <2>5, <3>1
  <2> QED BY <1>3, <2>3, <2>4, <2>6
<1>6. u \in Nat /\ used[a] \in Nat /\ MaxTokens \in Nat
  <2>1. \A x \in 0..MaxTokens : x \in Nat
    BY SMT, TokenAssumption
  <2> QED BY <1>1, <1>2, <1>3, <2>1, TurnFields, TokenAssumption DEF TypeOK
<1>7. LastMsg \in Nat /\ m \in 1..LastMsg
  BY <1>3, LastMsgBounds
<1>8. /\ \A x \in 1..LastMsg : Charges(b)[x] = Charge(b, x)
      /\ Numbers(Charges(b), LastMsg) /\ SumUpTo(Charges(b), LastMsg) \in Nat
  BY <1>2, ChargesSum
<1>9. /\ \A x \in 1..LastMsg : Charges(b)'[x] = Charge(b, x)'
      /\ Numbers(Charges(b)', LastMsg)
  <2>1. \A x \in 1..LastMsg : Charges(b)'[x] = Charge(b, x)'
    BY DEF Charges, Charge
  <2>2. \A x \in Msg : results'[x].usage \in Int
    <3>1. (Usage \cup {0}) \subseteq Int
      BY SMTT(30), TokenAssumption
    <3>2. \A r \in Result \cup {NoResult} : r.usage \in Int
      BY SMT, <3>1 DEF Result, NoResult
    <3> QED BY <3>2 DEF TypeOK
  <2>3. 0 \in Int
    BY SMT
  <2> QED BY <2>1, <2>2, <2>3 DEF Charge, Numbers
<1>10. \A x \in 1..LastMsg : x # m => Charges(b)'[x] = Charges(b)[x]
  BY <1>2, <1>5, <1>8, <1>9 DEF Charge
<1>11. PICK f, g, S, T : /\ f = Charges(b) /\ g = Charges(b)'
                        /\ S = SumUpTo(f, LastMsg) /\ T = SumUpTo(g, LastMsg)
  OBVIOUS
<1>12. T = S + g[m] - f[m]
  <2>1. Numbers(f, LastMsg) /\ Numbers(g, LastMsg) /\ \A x \in 1..LastMsg : x # m => f[x] = g[x]
    BY <1>8, <1>9, <1>10, <1>11
  <2> QED BY <1>7, <1>11, <2>1, SumChange
<1>13. f[m] = 0 /\ g[m] = IF b = a THEN u ELSE 0
  BY <1>1, <1>2, <1>3, <1>4, <1>5, <1>7, <1>8, <1>9, <1>11 DEF Charge
<1>14. S \in Nat /\ used[b] = IF S > MaxTokens THEN MaxTokens ELSE S
  BY <1>8, <1>11 DEF ChargedOnce
<1>15. used'[b] = IF b = a THEN saturatingAdd(used[a], u) ELSE used[b]
  BY <1>2, <1>3 DEF TypeOK
<1>16. used'[b] = IF T > MaxTokens THEN MaxTokens ELSE T
  <2>1. CASE b = a
    <3>1. T = S + u
      BY ONLY <1>6, <1>12, <1>13, <1>14, <2>1, SMTT(30)
    <3>2. used'[b] = saturatingAdd(used[a], u)
      BY <1>15, <2>1
    <3>3. used[a] = IF S > MaxTokens THEN MaxTokens ELSE S
      BY <1>14, <2>1
    <3> QED BY ONLY <1>6, <1>14, <3>1, <3>2, <3>3, SMTT(30) DEF saturatingAdd
  <2>2. CASE b # a
    <3>1. T = S
      BY ONLY <1>12, <1>13, <1>14, <2>2, SMTT(30)
    <3> QED BY <1>14, <1>15, <2>2, <3>1
  <2> QED BY <2>1, <2>2
<1> QED BY <1>11, <1>16

\* Every step charges what it commits.
LEMMA ChargedStep ==
    ASSUME IsFiniteSet(Msg), IInv, ChargedOnce, [Next]_vars
    PROVE  ChargedOnce'
<1> USE DEF IInv, TypeOK
<1>0. ASSUME UNCHANGED <<used, results, owner>> PROVE ChargedOnce'
  BY <1>0, UnchargedStep DEF Uncharged
<1>1. CASE UNCHANGED vars
  BY <1>0, <1>1 DEF vars, appVars, mailVars, turnVars
<1>2. CASE Control
  <2>1. ASSUME NEW a \in App, NEW m \in Msg, NEW t \in Taints, Enqueue(a, m, t) PROVE ChargedOnce'
    <3>1. results[m] = NoResult
      BY <2>1 DEF Enqueue, ProgressOK
    <3>2. Uncharged
      BY <2>1, <3>1 DEF Enqueue, Uncharged, appVars, turnVars
    <3> QED BY <3>2, UnchargedStep
  <2>2. ASSUME NEW a \in App,
               \/ \E p \in Wakes : CreateApplication(a, p)
               \/ \E l \in Limit \cup {0} : SetTokenLimit(a, l)
               \/ \E st \in {"serving", "frozen"} : SetApplicationState(a, st)
        PROVE ChargedOnce'
    BY <1>0, <2>2 DEF CreateApplication, SetTokenLimit, SetApplicationState, mailVars, turnVars
  <2>3. ASSUME NEW a \in App, RetireApplication(a) \/ RetireFails(a) \/ ClaimMailbox(a)
        PROVE ChargedOnce'
    BY <1>0, <2>3 DEF RetireApplication, RetireFails, ClaimMailbox, appVars, mailVars, turnVars
  <2>4. ASSUME NEW m \in Msg, AckMailbox(m) PROVE ChargedOnce'
    BY <1>0, <2>4 DEF AckMailbox, appVars, mailVars, turnVars
  <2> QED BY <1>2, <2>1, <2>2, <2>3, <2>4 DEF Control
<1>3. CASE Loop
  BY <1>0, <1>3 DEF Loop, ClaimTurn, ThrottleElapses, RunIdle, RunFails, RunReturns,
     Dispatch, AbandonSlot, vars, appVars, mailVars, turnVars
<1>4. ASSUME NEW w \in Slot, Worker(w) PROVE ChargedOnce'
  <2>1. CASE FinishCommit(w)
    <3>1. TypeOK'
      BY TypeStep
    <3> QED BY <2>1, <3>1, CommitCharges
  <2>2. CASE ResumePrepared(w) \/ RouteDenied(w) \/ CallProvider(w) \/ ProviderBusy(w)
               \/ \E t \in Turn : ProviderAnswers(w, t) \/ ProviderAnswersTainted(w, t)
    BY <1>0, <2>2 DEF ResumePrepared, RouteDenied, CallProvider, ProviderBusy,
       ProviderAnswers, ProviderAnswersTainted, appVars, mailVars, turnVars
  <2>3. CASE FinishPrepare(w) \/ FinishAppend(w) \/ FinishCheckpoint(w) \/ FinishFails(w)
    BY <1>0, <2>3 DEF FinishPrepare, FinishAppend, FinishCheckpoint, FinishFails, appVars, mailVars, turnVars
  <2>4. CASE RequeueClaim(w) \/ RequeueFails(w) \/ ClearInflight(w)
    BY <1>0, <2>4 DEF RequeueClaim, RequeueFails, ClearInflight, appVars, mailVars, turnVars
  <2> QED BY <1>4, <2>1, <2>2, <2>3, <2>4 DEF Worker
<1>5. CASE Process
  BY <1>0, <1>5 DEF Process, Crash, Exit, Vanish, StopSignal, Load, appVars, mailVars, turnVars
<1> QED BY <1>1, <1>2, <1>3, <1>4, <1>5 DEF Next

\* The tokens an application has used are the saturating sum of the usages its
\* results record: finishTurn charges a turn with its result, once, through
\* failed commits, requeues and restarts.  The messages are finitely many, so
\* that there is a sum.
THEOREM ChargedOnceCorrect ==
    ASSUME IsFiniteSet(Msg)
    PROVE  Spec => []ChargedOnce
<1>1. Init => ChargedOnce
  <2> SUFFICES ASSUME Init, NEW a \in App
               PROVE  LET sum == SumUpTo(Charges(a), LastMsg)
                      IN  used[a] = IF sum > MaxTokens THEN MaxTokens ELSE sum
    BY DEF ChargedOnce
  <2>1. LastMsg \in Nat /\ \A m \in 1..LastMsg : Charges(a)[m] = 0
    BY LastMsgBounds DEF Init, Charges
  <2>2. SumUpTo(Charges(a), LastMsg) = 0
    BY <2>1, SumZero
  <2>3. used[a] = 0
    BY DEF Init
  <2>4. 0 = IF 0 > MaxTokens THEN MaxTokens ELSE 0
    BY SMT, TokenAssumption
  <2> QED BY <2>2, <2>3, <2>4
<1>2. IInv /\ ChargedOnce /\ [Next]_vars => ChargedOnce'
  BY ChargedStep
<1> QED BY <1>1, <1>2, Invariant, PTL DEF Spec
=============================================================================
