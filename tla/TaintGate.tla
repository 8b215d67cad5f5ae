----------------------------- MODULE TaintGate -----------------------------
(***************************************************************************)
(* The export gate of the supervisor (taint.go) and the artifact transfers *)
(* in front of it (hostfs.go): accumulated taint, the human confirmation   *)
(* queue with its time limit and its sweep, one-shot release, and imports  *)
(* and exports deduplicated by key.                                        *)
(*                                                                         *)
(* A handler that ends in persistLocked is one action.  The refusal of an  *)
(* escalation on a full queue is the one handler here that changes memory  *)
(* (its sweep) and writes nothing, so the confirmations in memory (conf)   *)
(* and on disk (saved) are kept apart.                                     *)
(***************************************************************************)
EXTENDS Integers, FiniteSets, Sequences

CONSTANTS Apps,          \* application ids
          Texts,         \* export payloads
          Keys,          \* idempotency keys of transfers
          Bits,          \* taint bits
          ExportMask,    \* policy.ExportMask
          External,      \* the bit TaintExternal
          Cap,           \* maxPendingConfirmations
          TTL,           \* confirmationTTL, in ticks
          TransferCap,   \* maxTransfers
          MaxRequests,   \* bound: escalations
          MaxTime,       \* bound: clock ticks
          MaxStaged,     \* bound: transfers ever staged
          MaxCalls       \* bound: concurrent ExportArtifact calls

ASSUME TaintGateAssumption ==
    /\ ExportMask \subseteq Bits
    /\ External \in Bits
    /\ Cap \in Nat \ {0} /\ TTL \in Nat /\ TransferCap \in Nat \ {0}
    /\ MaxRequests \in Nat /\ MaxTime \in Nat
    /\ MaxStaged \in Nat /\ MaxCalls \in Nat

VARIABLES
    app,         \* "tombstoned", or "serving" for every other state
    taint,       \* application -> TaintBits
    conf,        \* state.Confirmations in memory
    saved,       \* state.Confirmations on disk
    now,         \* time.Now()
    transfers,   \* state.Transfers
    calls,       \* ExportArtifact calls between the gate and the stage
    asked,       \* history: every request ever made, in order of creation
    verdict,     \* history: the first decision a human took on a request
    released,    \* history: texts released on a request, in order
    staged       \* history: every transfer ever staged

vars == <<app, taint, conf, saved, now, transfers, calls,
          asked, verdict, released, staged>>

confirmVars  == <<conf, saved, asked, verdict, released>>
transferVars == <<transfers, calls, staged>>

Statuses == {"pending", "approved", "denied", "consumed", "expired"}
Requests == 1 .. MaxRequests
Request  == [app : Apps, text : Texts, expires : Nat, status : Statuses]
Release  == [id : Requests, app : Apps, text : Texts, at : Nat]
Transfer == [app : Apps, dir : {"import", "export"}, key : Keys, clean : BOOLEAN]

Init ==
    /\ app = [a \in Apps |-> "serving"]
    /\ taint = [a \in Apps |-> {}]
    /\ conf = << >> /\ saved = << >>
    /\ now = 0
    /\ transfers = << >> /\ calls = {}
    /\ asked = << >> /\ verdict = << >> /\ released = << >> /\ staged = << >>

----------------------------------------------------------------------------
Live(a)    == app[a] = "serving"
Blocked(a) == taint[a] \ ExportMask
Expired(r) == now > conf[r].expires

\* persistLocked: the blob that is written holds the confirmations too.
Persist == saved' = conf

With(c, r, status) == [c EXCEPT ![r].status = status]

Pending(c) == {r \in DOMAIN c : c[r].status = "pending"}

Expire(c) ==
    [r \in DOMAIN c |->
        IF c[r].status = "pending" /\ now > c[r].expires
        THEN [c[r] EXCEPT !.status = "expired"] ELSE c[r]]

\* The oldest entries that are no longer pending, as many as c has too many.
Oldest(c) ==
    LET terminals == DOMAIN c \ Pending(c)
    IN  {r \in terminals :
            Cardinality({q \in terminals : q < r}) < Cardinality(DOMAIN c) - Cap}

\* sweepConfirmationsLocked.  Requests are numbered by CreatedAt.
Sweep(c) ==
    LET e == Expire(c) IN [r \in DOMAIN e \ Oldest(e) |-> e[r]]

----------------------------------------------------------------------------
\* exportApplication without a request and without escalation: clean, denied,
\* or confirmed by the caller.  Only the audit record changes.
ExportDecided(a) ==
    /\ Live(a)
    /\ Persist
    /\ UNCHANGED <<app, taint, conf, now, asked, verdict, released, transferVars>>

\* escalateExportLocked.
EscalateExport(a, t) ==
    LET c == Sweep(conf)
        r == Len(asked) + 1
        request == [app |-> a, text |-> t, expires |-> now + TTL, status |-> "pending"]
    IN  /\ Live(a) /\ Blocked(a) # {}
        /\ r \in Requests
        /\ Cardinality(Pending(c)) < Cap
        /\ conf' = [q \in DOMAIN c \union {r} |-> IF q = r THEN request ELSE c[q]]
        /\ saved' = conf'
        /\ asked' = Append(asked, request)
        /\ verdict' = Append(verdict, "none")
        /\ UNCHANGED <<app, taint, now, released, transferVars>>

EscalateRefused(a) ==
    /\ Live(a) /\ Blocked(a) # {}
    /\ Cardinality(Pending(Sweep(conf))) >= Cap
    /\ conf' = Sweep(conf)
    /\ UNCHANGED <<app, taint, saved, now, asked, verdict, released, transferVars>>

MutantExportViaRequest(a, t, r) ==
    /\ Live(a)
    /\ r \in DOMAIN conf /\ conf[r].app = a
    /\ conf[r].status = "approved" /\ ~Expired(r) /\ conf[r].text = t
    /\ Len(released) < MaxRequests
    /\ released' = Append(released, [id |-> r, app |-> a, text |-> t, at |-> now])
    /\ UNCHANGED <<app, taint, conf, saved, now, asked, verdict, transferVars>>

\* exportViaRequestLocked: the request is consumed before the text is returned.
ExportViaRequest(a, t, r) ==
    /\ Live(a)
    /\ r \in DOMAIN conf /\ conf[r].app = a
    /\ conf[r].status = "approved" /\ ~Expired(r) /\ conf[r].text = t
    /\ conf' = With(conf, r, "consumed")
    /\ saved' = conf'
    /\ released' = Append(released, [id |-> r, app |-> a, text |-> t, at |-> now])
    /\ UNCHANGED <<app, taint, now, asked, verdict, transferVars>>

RequestTooLate(a, r) ==
    /\ Live(a)
    /\ r \in DOMAIN conf /\ conf[r].app = a
    /\ conf[r].status = "approved" /\ Expired(r)
    /\ conf' = With(conf, r, "expired")
    /\ saved' = conf'
    /\ UNCHANGED <<app, taint, now, asked, verdict, released, transferVars>>

MutantSettleConfirmation(r, approve) ==
    LET decision == IF approve THEN "approved" ELSE "denied" IN
    /\ r \in DOMAIN conf /\ conf[r].status \notin {"consumed", "expired"}
    /\ ~Expired(r)
    /\ conf' = With(conf, r, decision)
    /\ saved' = conf'
    /\ verdict' = [verdict EXCEPT ![r] = IF @ = "none" THEN decision ELSE @]
    /\ UNCHANGED <<app, taint, now, asked, released, transferVars>>

SettleConfirmation(r, approve) ==
    LET decision == IF approve THEN "approved" ELSE "denied" IN
    /\ r \in DOMAIN conf /\ conf[r].status = "pending"
    /\ ~Expired(r)
    /\ conf' = With(conf, r, decision)
    /\ saved' = conf'
    /\ verdict' = [verdict EXCEPT ![r] = IF @ = "none" THEN decision ELSE @]
    /\ UNCHANGED <<app, taint, now, asked, released, transferVars>>

SettleTooLate(r) ==
    /\ r \in DOMAIN conf /\ conf[r].status = "pending"
    /\ Expired(r)
    /\ conf' = With(conf, r, "expired")
    /\ saved' = conf'
    /\ UNCHANGED <<app, taint, now, asked, verdict, released, transferVars>>

----------------------------------------------------------------------------
\* ClaimMailbox and claimTurn fold the taint a message declares.
ClaimMailbox(a, bits) ==
    /\ Live(a)
    /\ taint' = [taint EXCEPT ![a] = @ \union bits]
    /\ Persist
    /\ UNCHANGED <<app, conf, now, asked, verdict, released, transferVars>>

RetireApplication(a) ==
    /\ Live(a)
    /\ app' = [app EXCEPT ![a] = "tombstoned"]
    /\ Persist
    /\ UNCHANGED <<taint, conf, now, asked, verdict, released, transferVars>>

----------------------------------------------------------------------------
StagedBefore(a, k) ==
    \E i \in DOMAIN transfers : transfers[i].app = a /\ transfers[i].key = k

Imported(a) == \E i \in DOMAIN staged : staged[i].app = a /\ staged[i].dir = "import"

\* dropOldestTransfersLocked.
DropOldest(s) ==
    IF Len(s) <= TransferCap THEN s
    ELSE SubSeq(s, Len(s) - TransferCap + 1, Len(s))

Stage(x) ==
    /\ Len(staged) < MaxStaged
    /\ transfers' = DropOldest(Append(transfers, x))
    /\ staged' = Append(staged, x)

\* ExportArtifact, first half: exportApplication under its own lock.  clean
\* records whether nothing had been imported for the application by then.
ExportArtifactGate(a, k) ==
    /\ Live(a) /\ Blocked(a) = {}
    /\ Cardinality(calls) < MaxCalls
    /\ calls' = calls \union
         {[app |-> a, dir |-> "export", key |-> k, clean |-> ~Imported(a)]}
    /\ Persist
    /\ UNCHANGED <<app, taint, conf, now, asked, verdict, released, transfers, staged>>

\* ExportArtifact, second half, under a second lock.
ExportArtifactStage(x) ==
    /\ calls' = calls \ {x}
    /\ \/ /\ StagedBefore(x.app, x.key)
          /\ UNCHANGED <<saved, transfers, staged>>
       \/ /\ ~StagedBefore(x.app, x.key)
          /\ Stage(x)
          /\ Persist
    /\ UNCHANGED <<app, taint, conf, now, asked, verdict, released>>

ExportArtifactFails(x) ==
    /\ calls' = calls \ {x}
    /\ conf' = saved
    /\ UNCHANGED <<app, taint, saved, now, asked, verdict, released, transfers, staged>>

MutantCommitImport(a, k) ==
    /\ ~StagedBefore(a, k)
    /\ Stage([app |-> a, dir |-> "import", key |-> k, clean |-> FALSE])
    /\ Persist
    /\ UNCHANGED <<app, taint, conf, now, asked, verdict, released, calls>>

\* CommitImport; a repeated key changes nothing.
CommitImport(a, k) ==
    /\ ~StagedBefore(a, k)
    /\ Stage([app |-> a, dir |-> "import", key |-> k, clean |-> FALSE])
    /\ taint' = [taint EXCEPT ![a] = @ \union {External}]
    /\ Persist
    /\ UNCHANGED <<app, conf, now, asked, verdict, released, calls>>

----------------------------------------------------------------------------
\* A failed persistLocked in any handler: everything is as last written.
PersistFails ==
    /\ conf' = saved
    /\ UNCHANGED <<app, taint, saved, now, asked, verdict, released, transferVars>>

\* The supervisor stops and loads what it wrote last.
Restart ==
    /\ conf' = saved
    /\ calls' = {}
    /\ UNCHANGED <<app, taint, saved, now, asked, verdict, released, transfers, staged>>

Tick ==
    /\ now < MaxTime
    /\ now' = now + 1
    /\ UNCHANGED <<app, taint, confirmVars, transferVars>>

Next ==
    \/ \E a \in Apps :
        \/ ExportDecided(a) \/ EscalateRefused(a) \/ RetireApplication(a)
        \/ \E t \in Texts : EscalateExport(a, t)
        \/ \E r \in DOMAIN conf :
            RequestTooLate(a, r) \/ \E t \in Texts : ExportViaRequest(a, t, r)
        \/ \E bits \in SUBSET Bits : ClaimMailbox(a, bits)
        \/ \E k \in Keys : ExportArtifactGate(a, k) \/ CommitImport(a, k)
    \/ \E r \in DOMAIN conf :
        SettleTooLate(r) \/ \E approve \in BOOLEAN : SettleConfirmation(r, approve)
    \/ \E x \in calls : ExportArtifactStage(x) \/ ExportArtifactFails(x)
    \/ PersistFails \/ Restart \/ Tick

Spec == Init /\ [][Next]_vars

----------------------------------------------------------------------------
(* Every variable keeps its shape: confirmations are among the requests    *)
(* ever made, on disk and in memory, and the transfer history stays within *)
(* maxTransfers.                                                           *)
TypeOK ==
    /\ app \in [Apps -> {"serving", "tombstoned"}]
    /\ taint \in [Apps -> SUBSET Bits]
    /\ \A c \in {conf, saved} :
        DOMAIN c \subseteq DOMAIN asked /\ \A r \in DOMAIN c : c[r] \in Request
    /\ now \in 0 .. MaxTime
    /\ transfers \in Seq(Transfer) /\ Len(transfers) <= TransferCap
    /\ calls \subseteq Transfer
    /\ asked \in Seq(Request) /\ Len(asked) <= MaxRequests
    /\ verdict \in [DOMAIN asked -> {"none", "approved", "denied"}]
    /\ released \in Seq(Release)
    /\ staged \in Seq(Transfer)

(* An approved request releases at most one export, whatever fails, is     *)
(* retried or restarts in between (exportViaRequestLocked writes           *)
(* "consumed" before it returns the text).                                 *)
OneShot ==
    \A i, j \in DOMAIN released : released[i].id = released[j].id => i = j

(* What leaves on a request is the text that was escalated, of the         *)
(* application that escalated it, within the request's time to live, and   *)
(* the first decision taken on the request was an approval: no restart,    *)
(* rollback or second settlement turns a denied or an expired request into *)
(* a release.                                                              *)
ReleasedAsApproved ==
    /\ TypeOK
    /\ \A i \in DOMAIN released :
        LET x == released[i] IN
        /\ verdict[x.id] = "approved"
        /\ asked[x.id].app = x.app /\ asked[x.id].text = x.text
        /\ x.at <= asked[x.id].expires

(* Unless the policy lets external data out, every export staged for an    *)
(* application passed the gate before the first import of the application: *)
(* the taint of an import is durable with it, survives restarts and is     *)
(* seen by every later gate, although gate and stage are two critical      *)
(* sections.                                                               *)
ExportPrecedesImport ==
    External \notin ExportMask =>
        \A i \in DOMAIN staged : staged[i].dir = "export" => staged[i].clean
=============================================================================
