-------------------------- MODULE TaintGateProofs --------------------------
(***************************************************************************)
(* The export gate's three promises, for every number of applications,     *)
(* requests, transfers and concurrent calls, and for every size of the     *)
(* confirmation queue.                                                     *)
(***************************************************************************)
EXTENDS TaintGate, TLAPS

----------------------------------------------------------------------------
\* What memory and disk may say of a request: nothing but its status differs
\* from what was asked, the status agrees with the human's first decision, and
\* a request that released a text is consumed.
Agrees(c) ==
    /\ DOMAIN c \subseteq DOMAIN asked
    /\ \A r \in DOMAIN c :
        /\ c[r] \in Request
        /\ c[r].app = asked[r].app /\ c[r].text = asked[r].text
        /\ c[r].expires = asked[r].expires
        /\ c[r].status = "pending" => verdict[r] = "none"
        /\ c[r].status = "approved" => verdict[r] = "approved"
        /\ \A i \in DOMAIN released : released[i].id = r => c[r].status = "consumed"

ReleasedOnVerdict ==
    \A i \in DOMAIN released :
        LET x == released[i] IN
        /\ x.id \in DOMAIN asked
        /\ verdict[x.id] = "approved"
        /\ asked[x.id].app = x.app /\ asked[x.id].text = x.text
        /\ x.at <= asked[x.id].expires

QueueInv ==
    /\ now \in Nat
    /\ asked \in Seq(Request) /\ Len(asked) <= MaxRequests
    /\ verdict \in Seq({"none", "approved", "denied"}) /\ Len(verdict) = Len(asked)
    /\ released \in Seq(Release)
    /\ Agrees(conf) /\ Agrees(saved)
    /\ OneShot
    /\ ReleasedOnVerdict

GateInv ==
    /\ app \in [Apps -> {"serving", "tombstoned"}]
    /\ taint \in [Apps -> SUBSET Bits]
    /\ now \in 0 .. MaxTime
    /\ transfers \in Seq(Transfer) /\ Len(transfers) <= TransferCap
    /\ calls \subseteq Transfer /\ \A x \in calls : x.dir = "export"
    /\ staged \in Seq(Transfer)
    /\ \A a \in Apps : Imported(a) => External \in taint[a]
    /\ External \notin ExportMask =>
         /\ \A x \in calls : x.clean
         /\ \A i \in DOMAIN staged : staged[i].dir = "export" => staged[i].clean

TaintGateInv == QueueInv /\ GateInv

----------------------------------------------------------------------------
(* A sweep (sweepConfirmationsLocked) drops requests and expires pending   *)
(* ones; what it leaves still agrees with the history.                     *)
LEMMA SweepAgrees ==
    ASSUME NEW c, Agrees(c)
    PROVE  Agrees(Sweep(c))
<1> DEFINE e == Expire(c)
<1>1. DOMAIN e = DOMAIN c /\ \A r \in DOMAIN c :
        /\ e[r] \in Request
        /\ e[r].app = c[r].app /\ e[r].text = c[r].text /\ e[r].expires = c[r].expires
        /\ (e[r].status = c[r].status \/ (c[r].status = "pending" /\ e[r].status = "expired"))
  BY DEF Expire, Agrees, Request, Statuses
<1>2. /\ DOMAIN Sweep(c) \subseteq DOMAIN e
      /\ \A r \in DOMAIN Sweep(c) : Sweep(c)[r] = e[r]
  BY DEF Sweep
<1> HIDE DEF e
<1> QED
  BY <1>1, <1>2 DEF Agrees

(* One request changes its status, in memory and then on disk.  The new    *)
(* status is neither pending nor approved against the verdict, and a       *)
(* request that has already released its text is left alone.               *)
LEMMA MarkAgrees ==
    ASSUME NEW r \in DOMAIN conf, NEW s \in Statuses,
           Agrees(conf), s # "pending", conf[r].status \in {"pending", "approved"},
           s = "approved" => verdict[r] = "approved"
    PROVE  Agrees(With(conf, r, s))
<1> DEFINE w == With(conf, r, s)
<1>1. DOMAIN w = DOMAIN conf /\ \A q \in DOMAIN conf : q # r => w[q] = conf[q]
  BY DEF With
<1>2. /\ w[r] \in Request /\ w[r].status = s
      /\ w[r].app = conf[r].app /\ w[r].text = conf[r].text
      /\ w[r].expires = conf[r].expires
  BY DEF With, Agrees, Request
<1> HIDE DEF w
<1>3. Agrees(w)
  BY <1>1, <1>2 DEF Agrees
<1> QED
  BY <1>3 DEF w

(* What a handler may do to the confirmation queue: leave it (or sweep it, *)
(* save it or fall back on what was saved), expire one request, or one of  *)
(* the three steps that give a request a history.                          *)
Rest ==
    /\ conf' \in {conf, saved, Sweep(conf)} /\ saved' \in {conf, saved}
    /\ UNCHANGED <<asked, verdict, released>>

ExpireOne(r) ==
    /\ conf[r].status \in {"pending", "approved"}
    /\ conf' = With(conf, r, "expired") /\ saved' = conf'
    /\ UNCHANGED <<asked, verdict, released>>

LEMMA QueueSteps ==
    ASSUME [Next]_vars
    PROVE  \/ Rest
           \/ \E r \in DOMAIN conf : ExpireOne(r)
           \/ \E a \in Apps, t \in Texts : EscalateExport(a, t)
           \/ \E a \in Apps, t \in Texts, r \in DOMAIN conf : ExportViaRequest(a, t, r)
           \/ \E r \in DOMAIN conf, approve \in BOOLEAN : SettleConfirmation(r, approve)
<1>1. CASE UNCHANGED vars
  BY <1>1 DEF vars, Rest
<1>2. ASSUME NEW a \in Apps,
             \/ ExportDecided(a) \/ EscalateRefused(a) \/ RetireApplication(a)
             \/ \E bits \in SUBSET Bits : ClaimMailbox(a, bits)
             \/ \E k \in Keys : ExportArtifactGate(a, k) \/ CommitImport(a, k)
      PROVE  Rest
  BY <1>2 DEF Rest, Persist, ExportDecided, EscalateRefused, RetireApplication,
              ClaimMailbox, ExportArtifactGate, CommitImport
<1>3. ASSUME \/ \E x \in calls : ExportArtifactStage(x) \/ ExportArtifactFails(x)
             \/ PersistFails \/ Restart \/ Tick
      PROVE  Rest
  BY <1>3 DEF Rest, Persist, ExportArtifactStage, ExportArtifactFails, PersistFails,
              Restart, Tick, confirmVars
<1>4. ASSUME NEW r \in DOMAIN conf,
             SettleTooLate(r) \/ \E a \in Apps : RequestTooLate(a, r)
      PROVE  ExpireOne(r)
  BY <1>4 DEF ExpireOne, SettleTooLate, RequestTooLate
<1> QED
  BY <1>1, <1>2, <1>3, <1>4 DEF Next

LEMMA QueueStep ==
    ASSUME QueueInv, [Next]_vars, now' \in Nat
    PROVE  QueueInv'
<1>1. CASE Rest
  <2>1. Agrees(Sweep(conf)) BY SweepAgrees DEF QueueInv
  <2>2. Agrees(conf)' /\ Agrees(saved)' BY <1>1, <2>1 DEF Rest, QueueInv, Agrees
  <2> QED BY <1>1, <2>2 DEF Rest, QueueInv, OneShot, ReleasedOnVerdict
<1>2. ASSUME NEW r \in DOMAIN conf, ExpireOne(r) PROVE QueueInv'
  <2>1. Agrees(With(conf, r, "expired"))
    BY <1>2, MarkAgrees DEF QueueInv, ExpireOne, Statuses
  <2>2. Agrees(conf)' /\ Agrees(saved)' BY <1>2, <2>1 DEF ExpireOne, Agrees
  <2> QED BY <1>2, <2>2 DEF ExpireOne, QueueInv, OneShot, ReleasedOnVerdict
<1>3. ASSUME NEW a \in Apps, NEW t \in Texts, EscalateExport(a, t) PROVE QueueInv'
  <2> DEFINE n == Len(asked) + 1
             q == [app |-> a, text |-> t, expires |-> now + TTL, status |-> "pending"]
  <2>1. /\ q \in Request /\ asked' = Append(asked, q) /\ verdict' = Append(verdict, "none")
        /\ n \in Requests /\ released' = released /\ saved' = conf'
        /\ conf' = [p \in DOMAIN Sweep(conf) \union {n} |->
                       IF p = n THEN q ELSE Sweep(conf)[p]]
    BY <1>3, TaintGateAssumption DEF EscalateExport, QueueInv, Request, Statuses
  <2>2. /\ asked' \in Seq(Request) /\ Len(asked') = n /\ Len(asked') <= MaxRequests
        /\ verdict' \in Seq({"none", "approved", "denied"}) /\ Len(verdict') = n
        /\ asked'[n] = q /\ verdict'[n] = "none" /\ DOMAIN asked' = 1 .. n
        /\ DOMAIN asked = 1 .. n - 1 /\ n \in Nat
        /\ \A p \in 1 .. n - 1 : asked'[p] = asked[p] /\ verdict'[p] = verdict[p]
    BY <2>1, TaintGateAssumption DEF QueueInv, Requests
  <2>3. Agrees(Sweep(conf)) BY SweepAgrees DEF QueueInv
  <2>4. \A i \in DOMAIN released : released[i].id \in 1 .. n - 1
    BY <2>2 DEF QueueInv, ReleasedOnVerdict
  <2>5. Agrees(conf)' /\ Agrees(saved)'
    <3> HIDE DEF n
    <3>1. q.app = a /\ q.text = t /\ q.expires = now + TTL /\ q.status = "pending"
      OBVIOUS
    <3> HIDE DEF q
    <3> QED BY <2>1, <2>2, <2>3, <2>4, <3>1 DEF Agrees
  <2>6. OneShot' /\ ReleasedOnVerdict'
    <3> HIDE DEF q, n
    <3> QED BY <2>1, <2>2, <2>4 DEF QueueInv, OneShot, ReleasedOnVerdict
  <2> QED BY <2>1, <2>2, <2>5, <2>6 DEF QueueInv
<1>4. ASSUME NEW a \in Apps, NEW t \in Texts, NEW r \in DOMAIN conf,
             ExportViaRequest(a, t, r)
      PROVE  QueueInv'
  <2> DEFINE x == [id |-> r, app |-> a, text |-> t, at |-> now]
  <2>1. /\ conf' = With(conf, r, "consumed") /\ saved' = conf'
        /\ released' = Append(released, x)
        /\ asked' = asked /\ verdict' = verdict
        /\ conf[r].status = "approved" /\ conf[r].app = a /\ conf[r].text = t
        /\ ~(now > conf[r].expires)
    BY <1>4 DEF ExportViaRequest, Expired
  <2>2. /\ r \in DOMAIN asked /\ verdict[r] = "approved" /\ conf[r].expires \in Nat
        /\ asked[r].app = a /\ asked[r].text = t /\ now <= asked[r].expires
        /\ \A i \in DOMAIN released : released[i].id # r
    BY <2>1 DEF QueueInv, Agrees, Request
  <2>3. x \in Release BY <2>2, TaintGateAssumption DEF Release, QueueInv, Requests
  <2>4. /\ released' \in Seq(Release) /\ DOMAIN released' = 1 .. Len(released) + 1
        /\ DOMAIN released = 1 .. Len(released) /\ Len(released) \in Nat
        /\ released'[Len(released) + 1] = x
        /\ \A i \in 1 .. Len(released) : released'[i] = released[i]
    BY <2>1, <2>3 DEF QueueInv
  <2>5. Agrees(With(conf, r, "consumed"))
    BY <2>1, MarkAgrees DEF QueueInv, Statuses
  <2>10. conf'[r].status = "consumed" /\ DOMAIN conf' = DOMAIN conf
    BY <2>1 DEF With, QueueInv, Agrees, Request
  <2>6. x.id = r /\ x.app = a /\ x.text = t /\ x.at = now OBVIOUS
  <2> HIDE DEF x
  <2>7. Agrees(conf)' /\ Agrees(saved)' BY <2>1, <2>4, <2>5, <2>6, <2>10 DEF Agrees
  <2>8. OneShot'
    <3>1. \A i \in 1 .. Len(released) + 1 : i \in 1 .. Len(released) \/ i = Len(released) + 1
      BY <2>4
    <3>2. \A i, j \in 1 .. Len(released) : released[i].id = released[j].id => i = j
      BY <2>4 DEF QueueInv, OneShot
    <3> SUFFICES ASSUME NEW i \in 1 .. Len(released) + 1, NEW j \in 1 .. Len(released) + 1,
                        released'[i].id = released'[j].id
                 PROVE  i = j
      BY <2>4 DEF OneShot
    <3> QED BY SMTT(30), <2>2, <2>4, <2>6, <3>1, <3>2
  <2>9. ReleasedOnVerdict' BY <2>1, <2>2, <2>4, <2>6 DEF QueueInv, ReleasedOnVerdict
  <2> QED BY <2>1, <2>4, <2>7, <2>8, <2>9 DEF QueueInv
<1>5. ASSUME NEW r \in DOMAIN conf, NEW approve \in BOOLEAN, SettleConfirmation(r, approve)
      PROVE  QueueInv'
  <2> DEFINE d == IF approve THEN "approved" ELSE "denied"
  <2>1. /\ conf' = With(conf, r, d) /\ saved' = conf' /\ conf[r].status = "pending"
        /\ verdict' = [verdict EXCEPT ![r] = IF @ = "none" THEN d ELSE @]
        /\ asked' = asked /\ released' = released /\ d \in {"approved", "denied"}
    BY <1>5 DEF SettleConfirmation
  <2> HIDE DEF d
  <2>2. r \in DOMAIN asked /\ verdict[r] = "none" /\ conf[r] \in Request
        /\ \A i \in DOMAIN released : released[i].id # r
    BY <2>1 DEF QueueInv, Agrees
  <2>3. /\ verdict' \in Seq({"none", "approved", "denied"}) /\ Len(verdict') = Len(asked)
        /\ verdict'[r] = d /\ \A q \in DOMAIN asked : q # r => verdict'[q] = verdict[q]
    BY <2>1, <2>2 DEF QueueInv
  <2>4. /\ DOMAIN conf' = DOMAIN conf /\ \A q \in DOMAIN conf : q # r => conf'[q] = conf[q]
        /\ conf'[r] \in Request /\ conf'[r].status = d /\ conf'[r].app = conf[r].app
        /\ conf'[r].text = conf[r].text /\ conf'[r].expires = conf[r].expires
    BY <2>1, <2>2 DEF With, Request, Statuses
  <2>5. Agrees(conf)' /\ Agrees(saved)' BY <2>1, <2>2, <2>3, <2>4 DEF QueueInv, Agrees
  <2>6. ReleasedOnVerdict' BY <2>1, <2>2, <2>3 DEF QueueInv, ReleasedOnVerdict
  <2> QED BY <2>1, <2>3, <2>5, <2>6 DEF QueueInv, OneShot
<1> QED
  BY <1>1, <1>2, <1>3, <1>4, <1>5, QueueSteps

----------------------------------------------------------------------------
LEMMA DropOldestType ==
    ASSUME NEW s \in Seq(Transfer)
    PROVE  DropOldest(s) \in Seq(Transfer) /\ Len(DropOldest(s)) <= TransferCap
<1>1. CASE Len(s) <= TransferCap
  BY <1>1 DEF DropOldest
<1>2. CASE ~(Len(s) <= TransferCap)
  <2> DEFINE m == Len(s) - TransferCap + 1
  <2>1. m \in 1 .. Len(s) /\ Len(s) \in Nat /\ Len(s) - m + 1 = TransferCap
    BY <1>2, TaintGateAssumption
  <2>2. DropOldest(s) = SubSeq(s, m, Len(s))
    BY <1>2 DEF DropOldest
  <2> HIDE DEF m
  <2> QED
    BY <2>1, <2>2, TaintGateAssumption
<1> QED
  BY <1>1, <1>2

(* Staging a transfer appends it to the history, and only that transfer    *)
(* can make an application one for which something was imported.           *)
LEMMA StageStep ==
    ASSUME GateInv, NEW x \in Transfer, Stage(x)
    PROVE  /\ transfers' \in Seq(Transfer) /\ Len(transfers') <= TransferCap
           /\ staged' \in Seq(Transfer)
           /\ \A i \in DOMAIN staged' :
                \/ staged'[i] = x
                \/ \E j \in DOMAIN staged : staged'[i] = staged[j]
<1>1. transfers' \in Seq(Transfer) /\ Len(transfers') <= TransferCap
  <2>1. Append(transfers, x) \in Seq(Transfer) BY DEF GateInv
  <2> QED BY ZenonT(30), <2>1, DropOldestType DEF Stage
<1>2. staged' = Append(staged, x) /\ staged \in Seq(Transfer)
  BY SMTT(30) DEF GateInv, Stage
<1> QED
  BY <1>1, <1>2

LEMMA GateStep ==
    ASSUME GateInv, [Next]_vars
    PROVE  GateInv'
<1> USE DEF GateInv, Imported
<1>1. CASE UNCHANGED vars
  BY <1>1 DEF vars
<1>2. ASSUME NEW a \in Apps, ExportDecided(a) \/ EscalateRefused(a)
      PROVE  GateInv'
  BY <1>2 DEF ExportDecided, EscalateRefused, transferVars
<1>3. ASSUME NEW a \in Apps, RetireApplication(a)
      PROVE  GateInv'
  BY SMTT(30), <1>3 DEF RetireApplication, transferVars
<1>4. ASSUME NEW a \in Apps, NEW t \in Texts, EscalateExport(a, t)
      PROVE  GateInv'
  BY SMTT(30), <1>4 DEF EscalateExport, transferVars
<1>5. ASSUME NEW a \in Apps, NEW r,
             RequestTooLate(a, r) \/ \E t \in Texts : ExportViaRequest(a, t, r)
      PROVE  GateInv'
  BY <1>5 DEF RequestTooLate, ExportViaRequest, transferVars
<1>6. ASSUME NEW r, SettleTooLate(r) \/ \E d \in BOOLEAN : SettleConfirmation(r, d)
      PROVE  GateInv'
  BY <1>6 DEF SettleTooLate, SettleConfirmation, transferVars
<1>7. ASSUME NEW a \in Apps, NEW bits \in SUBSET Bits, ClaimMailbox(a, bits)
      PROVE  GateInv'
  BY <1>7 DEF ClaimMailbox, transferVars
<1>8. ASSUME NEW a \in Apps, NEW k \in Keys, ExportArtifactGate(a, k)
      PROVE  GateInv'
  <2>1. External \notin ExportMask => ~Imported(a)
    BY <1>8, TaintGateAssumption DEF ExportArtifactGate, Blocked
  <2> DEFINE x == [app |-> a, dir |-> "export", key |-> k, clean |-> ~Imported(a)]
  <2>2. (~Imported(a)) \in BOOLEAN
    OBVIOUS
  <2> HIDE DEF Imported
  <2>3. x \in Transfer /\ x.dir = "export" /\ (External \notin ExportMask => x.clean)
    BY <2>1, <2>2 DEF Transfer
  <2>4. calls' = calls \union {x} /\ UNCHANGED <<app, taint, now, transfers, staged>>
    BY <1>8 DEF ExportArtifactGate
  <2> HIDE DEF x
  <2> QED
    BY <2>3, <2>4 DEF Imported
<1>9. ASSUME NEW x \in calls, ExportArtifactStage(x)
      PROVE  GateInv'
  <2>1. calls' = calls \ {x} /\ UNCHANGED <<app, taint, now>>
    BY <1>9 DEF ExportArtifactStage
  <2>2. CASE UNCHANGED <<transfers, staged>>
    BY <2>1, <2>2
  <2>3. CASE Stage(x)
    <3>1. x \in Transfer /\ x.dir = "export" /\ (External \notin ExportMask => x.clean)
      OBVIOUS
    <3>2. /\ transfers' \in Seq(Transfer) /\ Len(transfers') <= TransferCap
          /\ staged' \in Seq(Transfer)
          /\ \A i \in DOMAIN staged' :
               \/ staged'[i] = x
               \/ \E j \in DOMAIN staged : staged'[i] = staged[j]
      BY <2>3, <3>1, StageStep
    <3>3. \A a \in Apps : Imported(a)' => External \in taint'[a]
      BY <2>1, <3>1, <3>2
    <3> QED BY SMTT(30), <2>1, <3>1, <3>2, <3>3
  <2> QED
    BY <1>9, <2>2, <2>3 DEF ExportArtifactStage
<1>10. ASSUME NEW x \in calls, ExportArtifactFails(x)
      PROVE  GateInv'
  BY <1>10 DEF ExportArtifactFails
<1>11. ASSUME NEW a \in Apps, NEW k \in Keys, CommitImport(a, k)
      PROVE  GateInv'
  <2> DEFINE x == [app |-> a, dir |-> "import", key |-> k, clean |-> FALSE]
  <2>1. x \in Transfer /\ x.app = a /\ x.dir = "import" BY DEF Transfer
  <2>2. Stage(x) /\ taint' = [taint EXCEPT ![a] = @ \union {External}]
    BY SMTT(30), <1>11 DEF CommitImport
  <2> HIDE DEF x
  <2> QED
    BY <1>11, <2>1, <2>2, StageStep, TaintGateAssumption DEF CommitImport
<1>12. CASE PersistFails \/ Restart
  BY <1>12 DEF PersistFails, Restart, transferVars
<1>13. CASE Tick
  BY <1>13, TaintGateAssumption DEF Tick, transferVars
<1> QED
  BY <1>1, <1>2, <1>3, <1>4, <1>5, <1>6, <1>7, <1>8, <1>9, <1>10, <1>11, <1>12, <1>13
     DEF Next

----------------------------------------------------------------------------
(* The whole invariant of the gate: the confirmations in memory and on     *)
(* disk agree with what was asked, decided and released, and the taint of  *)
(* an application records every import staged for it.                      *)
THEOREM TaintGateInvariant == Spec => []TaintGateInv
<1>1. Init => TaintGateInv
  BY TaintGateAssumption DEF Init, TaintGateInv, QueueInv, GateInv, Agrees, OneShot,
       ReleasedOnVerdict, Imported
<1>2. TaintGateInv /\ [Next]_vars => TaintGateInv'
  <2> SUFFICES ASSUME TaintGateInv, [Next]_vars PROVE TaintGateInv' OBVIOUS
  <2>1. GateInv' BY GateStep DEF TaintGateInv
  <2>2. now' \in Nat BY <2>1, TaintGateAssumption DEF GateInv
  <2> QED BY <2>1, <2>2, QueueStep DEF TaintGateInv
<1> QED
  BY <1>1, <1>2, PTL DEF Spec

(* exportViaRequestLocked: an approved request releases at most one text,  *)
(* for every queue size and every interleaving with sweeps, failed writes  *)
(* and restarts.                                                           *)
THEOREM OneShotCorrect == Spec => []OneShot
<1>1. TaintGateInv => OneShot
  BY DEF TaintGateInv, QueueInv
<1> QED
  BY <1>1, TaintGateInvariant, PTL

(* settleConfirmation and exportViaRequestLocked together: what is         *)
(* released is what was asked for, approved and still within its time.     *)
THEOREM ReleasedAsApprovedCorrect == Spec => []ReleasedAsApproved
<1>1. TaintGateInv => ReleasedAsApproved
  <2> SUFFICES ASSUME TaintGateInv PROVE ReleasedAsApproved OBVIOUS
  <2>1. TypeOK
    BY TaintGateAssumption DEF TaintGateInv, QueueInv, GateInv, Agrees, TypeOK
  <2> QED
    BY <2>1 DEF TaintGateInv, QueueInv, ReleasedOnVerdict, ReleasedAsApproved
<1> QED
  BY <1>1, TaintGateInvariant, PTL

(* ExportArtifact's gate and stage, two critical sections with imports in  *)
(* between: every staged export passed the gate before the first import.   *)
THEOREM ExportPrecedesImportCorrect == Spec => []ExportPrecedesImport
<1>1. TaintGateInv => ExportPrecedesImport
  BY DEF TaintGateInv, GateInv, ExportPrecedesImport
<1> QED
  BY <1>1, TaintGateInvariant, PTL
=============================================================================
