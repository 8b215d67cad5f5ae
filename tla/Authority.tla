------------------------------ MODULE Authority ------------------------------
(***************************************************************************)
(* Who may do what, and the record of it: capability tokens with their     *)
(* attenuation and revocation, hostfs mounts, the hash chain of audit      *)
(* records and the checkpoints a witness has co-signed.  The state is one  *)
(* blob that every handler changes in memory, extends by an audit record   *)
(* and then writes; a write that fails brings the last blob back.  The     *)
(* hash that the next record will name is kept beside the blob.  A hash is *)
(* modelled by what is hashed, and a signature that verifies by membership *)
(* in the set of what was signed.                                          *)
(***************************************************************************)
EXTENDS Integers, Sequences, FiniteSets

CONSTANTS
    Apps,
    Keys,          \* of token issuers
    Subjects,
    Caveats,
    Grants,        \* what tokens may grant: an object and an action
    Requests,      \* what may be asked for: an object and an action
    Rules,         \* the policy: effect, principal, object and action
    Mountable,     \* guest paths and modes of mounts
    MaxRevoked,    \* maxRevokedTokens
    MaxWitnessed,  \* maxWitnessCheckpoints
    MaxTokens,     \* bound: tokens issued
    MaxRecords,    \* bound: audit records
    MaxTime,       \* bound: the clock; tokens and mounts may expire at 0
    MaxMishaps     \* bound: crashes and failed writes

ASSUME AuthorityAssumption ==
    /\ MaxRevoked \in Nat \ {0} /\ MaxWitnessed \in Nat \ {0}
    /\ MaxTokens \in Nat /\ MaxRecords \in Nat /\ MaxTime \in Nat /\ MaxMishaps \in Nat
    /\ IsFiniteSet(Apps)

\* The paths of grants and requests are sequences of names: they have a length.
ASSUME PathAssumption ==
    \A g \in Grants \union Requests : Len(g.action.path) \in Nat

VARIABLES
    mem,           \* the blob in memory
    disk,          \* the blob as last written
    previousHash,  \* the hash the next audit record will name
    stamp,         \* the time of the next audit record
    tokens,        \* tokens issued
    lineage,       \* history: ancestor and descendant, of tokens issued
    revoked,       \* history: tokens whose revocation was answered
    mounted,       \* history: mounts that were answered, and not unmounted
    signed,        \* heads a witness has signed
    told,          \* history: hashes of the records behind answers
    clock,
    mishaps

vars == <<mem, disk, previousHash, stamp, tokens, lineage, revoked, mounted, signed, told,
          clock, mishaps>>

tokenVars == <<tokens, lineage>>

-----------------------------------------------------------------------------
(* The audit chain *)

NoHash == <<>>

auditHash(r) == <<r.seq, r.stamp, r.prev>>

HeadHash(audit) == IF audit = <<>> THEN NoHash ELSE audit[Len(audit)].hash

\* auditLocked, for a blob whose chain continues from the hash prev.  What the
\* record says is left out: its time tells it from every other.
Audited(state, prev, time) ==
    LET r == [seq |-> state.seq + 1, stamp |-> time, prev |-> prev]
    IN  [state EXCEPT !.seq = r.seq,
                      !.audit = Append(@, [seq |-> r.seq, stamp |-> time, prev |-> prev,
                                           hash |-> auditHash(r)])]

VerifyAudit(audit) ==
    \A i \in 1..Len(audit) :
        /\ audit[i].seq > (IF i = 1 THEN 0 ELSE audit[i - 1].seq)
        /\ audit[i].prev = (IF i = 1 THEN NoHash ELSE audit[i - 1].hash)
        /\ audit[i].hash = auditHash(audit[i])

VerifyWitness(state) ==
    /\ VerifyAudit(state.audit)
    /\ \A i \in 1..Len(state.witnessed) :
         LET cp == state.witnessed[i]
         IN  /\ cp \in signed
             /\ cp.count \in 1..Len(state.audit)
             /\ state.audit[cp.count].hash = cp.head

Mishap == mishaps < MaxMishaps /\ mishaps' = mishaps + 1

\* Mutant: previousHash stays where memory had got to.
MutantRestoreLocked(reached) == mem' = disk /\ previousHash' = reached /\ UNCHANGED disk

\* Memory had got to the hash reached; the chain goes on from what is on disk.
restoreLocked(reached) == mem' = disk /\ previousHash' = HeadHash(disk.audit) /\ UNCHANGED disk

\* auditLocked and persistLocked at the end of a handler that answers.
Commit(state) ==
    LET new == Audited(state, previousHash, stamp)
    IN  /\ Len(mem.audit) < MaxRecords
        /\ stamp' = stamp + 1
        /\ mem' = new /\ disk' = new
        /\ previousHash' = HeadHash(new.audit)
        /\ told' = told \union {HeadHash(new.audit)}
        /\ UNCHANGED mishaps
CommitFails(state) ==
    /\ Len(mem.audit) < MaxRecords
    /\ Mishap
    /\ stamp' = stamp + 1
    /\ restoreLocked(HeadHash(Audited(state, previousHash, stamp).audit))
    /\ UNCHANGED told

-----------------------------------------------------------------------------
(* Tokens *)

\* strings.HasPrefix on whole path elements, and the same test on caveats.
HasPrefix(s, prefix) ==
    Len(prefix) <= Len(s) /\ \A i \in 1..Len(prefix) : s[i] = prefix[i]

\* The action of a parent contains that of a child: "*" any, a directory with
\* "/**" every path and every such directory in it.
ActionContains(parent, child) ==
    \/ parent = child
    \/ parent.kind = "any"
    \/ /\ parent.kind = "tree" /\ child.kind \in {"path", "tree"}
       /\ HasPrefix(child.path, parent.path)
grantContains(parent, child) ==
    parent.object = child.object /\ ActionContains(parent.action, child.action)

\* The policy: deny overrides.
Evaluate(principal, request) ==
    LET matching == {r \in Rules : /\ r.principal \in {"*", principal}
                                   /\ r.object \in {"*", request.object}
                                   /\ ActionContains(r.action, request.action)}
    IN  /\ \E r \in matching : r.effect = "allow"
        /\ \A r \in matching : r.effect # "deny"

Verify(t) == t.expires >= clock
Allows(t, request) == \E g \in t.grants : grantContains(g, request)

MintCapabilityToken(k, s, expires, grants) ==
    LET t == [key |-> k, subject |-> s, expires |-> expires, grants |-> grants, caveats |-> <<>>]
    IN  /\ Cardinality(tokens) < MaxTokens
        /\ tokens' = tokens \union {t}
        /\ lineage' = lineage \union {<<t, t>>}
        /\ UNCHANGED <<mem, disk, previousHash, stamp, revoked, mounted, signed, told, clock, mishaps>>

\* The wanted grants that the token contains.
Narrowed(t, wanted) == {g \in wanted : \E p \in t.grants : grantContains(p, g)}

Attenuate(t, caveat, wanted) ==
    LET child == [t EXCEPT !.grants = Narrowed(t, wanted), !.caveats = Append(@, caveat)]
    IN  /\ Cardinality(tokens) < MaxTokens
        /\ Verify(t)
        /\ Narrowed(t, wanted) # {}
        /\ tokens' = tokens \union {child}
        /\ lineage' = lineage \union {<<child, child>>}
                        \union {<<p[1], child>> : p \in {p \in lineage : p[2] = t}}
        /\ UNCHANGED <<mem, disk, previousHash, stamp, revoked, mounted, signed, told, clock, mishaps>>

\* Mutant: only the token itself.
MutantRevokedBy(r, t) == t = r

\* The token itself, or one whose caveats extend the entry's.
revokedBy(r, t) ==
    /\ r.subject = t.subject /\ r.key = t.key
    /\ \/ t = r
       \/ Len(r.caveats) < Len(t.caveats) /\ HasPrefix(t.caveats, r.caveats)

tokenRevokedLocked(t) == \E i \in 1..Len(mem.revoked) : revokedBy(mem.revoked[i], t)

\* A token that is in the registry, or that does not verify, changes nothing.
RevokeCapabilityToken(t) ==
    LET full == Len(mem.revoked) >= MaxRevoked
        state == IF full THEN mem ELSE [mem EXCEPT !.revoked = Append(@, t)]
    IN  /\ Verify(t)
        /\ \A i \in 1..Len(mem.revoked) : mem.revoked[i] # t
        /\ \/ /\ Commit(state)
              /\ revoked' = IF full THEN revoked ELSE revoked \union {t}
           \/ CommitFails(state) /\ UNCHANGED revoked
        /\ UNCHANGED <<tokenVars, mounted, signed, clock>>

-----------------------------------------------------------------------------
(* Decisions *)

NoToken == [subject |-> "none"]

\* What checkToken decides: allowed to a principal by the policy, the token, the registry and the
\* application's state.
Allowed(principal, app, request, t) ==
    /\ Evaluate(principal, request)
    /\ t # NoToken => /\ Verify(t) /\ t.subject = principal /\ Allows(t, request)
                      /\ ~tokenRevokedLocked(t)
    /\ app \in mem.live

\* The decision is recorded before it is answered, whatever it is.
checkToken ==
    /\ Commit(mem) \/ CommitFails(mem)
    /\ UNCHANGED <<tokenVars, revoked, mounted, signed, clock>>

-----------------------------------------------------------------------------
(* Mounts *)

\* The id is drawn from the sequence of the audit records.
MountHostfs(app, where, expires) ==
    LET m     == [id |-> mem.seq + 1, app |-> app, path |-> where.path, mode |-> where.mode,
                  enabled |-> TRUE, expires |-> expires]
        state == [mem EXCEPT !.seq = @ + 1, !.mounts = @ \union {m}]
    IN  /\ \/ Commit(state) /\ mounted' = mounted \union {m}
           \/ CommitFails(state) /\ UNCHANGED mounted
        /\ UNCHANGED <<tokenVars, revoked, signed, clock>>

\* Mutant: a copy of the record is disabled and not put back.
MutantUnmounted(m) == m

Unmounted(m) == [m EXCEPT !.enabled = FALSE]

UnmountHostfs(m) ==
    LET state == [mem EXCEPT !.mounts = (@ \ {m}) \union {Unmounted(m)}]
    IN  /\ \/ Commit(state) /\ mounted' = {n \in mounted : n.id # m.id}
           \/ CommitFails(state) /\ UNCHANGED mounted
        /\ UNCHANGED <<tokenVars, revoked, signed, clock>>

Operations == {"read", "write", "append", "intake", "emit"}
Permits(mode) ==
    CASE mode = "ro" -> {"read"}
      [] mode = "rw" -> {"read", "write"}
      [] mode = "append-only" -> {"append"}
      [] mode = "dropbox-in" -> {"intake"}
      [] mode = "dropbox-out" -> {"emit"}

Covers(m, app, path, operation) ==
    /\ m.app = app /\ m.expires >= clock
    /\ HasPrefix(path, m.path)
    /\ operation \in Permits(m.mode)

CheckHostfs(app, path, operation) ==
    \E m \in mem.mounts : m.enabled /\ Covers(m, app, path, operation)

-----------------------------------------------------------------------------
(* Witness *)

\* WitnessHead answers with the head in memory, and the witness signs it.
WitnessHead ==
    /\ mem.audit # <<>>
    /\ signed' = signed \union {[head |-> HeadHash(mem.audit), count |-> Len(mem.audit)]}
    /\ UNCHANGED <<mem, disk, previousHash, stamp, tokenVars, revoked, mounted, told, clock, mishaps>>

Matches(cp) == cp.count <= Len(mem.audit) /\ mem.audit[cp.count].hash = cp.head

Advances(cp) ==
    mem.witnessed # <<>> => cp.count > mem.witnessed[Len(mem.witnessed)].count

\* The newest checkpoints are kept.
Newest(s) == SubSeq(s, 1 + (IF Len(s) > MaxWitnessed THEN Len(s) - MaxWitnessed ELSE 0), Len(s))

RecordCosignature(cp) ==
    LET state == [mem EXCEPT !.witnessed = Newest(Append(@, cp))]
    IN  /\ Matches(cp) /\ Advances(cp)
        /\ Commit(state) \/ CommitFails(state)
        /\ UNCHANGED <<tokenVars, revoked, mounted, signed, clock>>

-----------------------------------------------------------------------------
(* The rest of the supervisor, as far as the chain sees it *)

RetireApplication(app) ==
    LET state == [mem EXCEPT !.live = @ \ {app}]
    IN  /\ app \in mem.live
        /\ Commit(state) \/ CommitFails(state)
        /\ UNCHANGED <<tokenVars, revoked, mounted, signed, clock>>

\* escalateExportLocked on a full queue: a record that is not written.
EscalateRefused ==
    /\ Len(mem.audit) < MaxRecords
    /\ stamp' = stamp + 1
    /\ mem' = Audited(mem, previousHash, stamp)
    /\ previousHash' = HeadHash(mem'.audit)
    /\ UNCHANGED <<disk, tokenVars, revoked, mounted, signed, told, clock, mishaps>>

\* application.recover for every live application.
Recovered ==
    LET upto[i \in 0..Cardinality(disk.live)] ==
          IF i = 0 THEN disk
          ELSE Audited(upto[i - 1], HeadHash(upto[i - 1].audit), stamp + i)
    IN  upto[Cardinality(disk.live)]

\* A restart; load refuses a chain that does not verify.
Load ==
    /\ Mishap
    /\ VerifyAudit(disk.audit)
    /\ Len(disk.audit) + Cardinality(disk.live) <= MaxRecords
    /\ mem' = Recovered /\ disk' = Recovered
    /\ stamp' = stamp + Cardinality(disk.live) + 1
    /\ previousHash' = HeadHash(Recovered.audit)
    /\ UNCHANGED <<tokenVars, revoked, mounted, signed, told, clock>>

TimePasses ==
    /\ clock < MaxTime
    /\ clock' = clock + 1
    /\ UNCHANGED <<mem, disk, previousHash, stamp, tokenVars, revoked, mounted, signed, told, mishaps>>

-----------------------------------------------------------------------------

Init ==
    /\ disk = [audit |-> <<>>, seq |-> 0, live |-> Apps, revoked |-> <<>>, mounts |-> {},
               witnessed |-> <<>>]
    /\ mem = disk
    /\ previousHash = NoHash /\ stamp = 0
    /\ tokens = {} /\ lineage = {} /\ revoked = {} /\ mounted = {} /\ signed = {} /\ told = {}
    /\ clock = 0 /\ mishaps = 0

Expiries == 0..MaxTime

Next ==
    \/ \E k \in Keys, s \in Subjects, e \in Expiries, g \in SUBSET Grants \ {{}} :
         MintCapabilityToken(k, s, e, g)
    \/ \E t \in tokens, c \in Caveats, g \in SUBSET Grants \ {{}} : Attenuate(t, c, g)
    \/ \E t \in tokens : RevokeCapabilityToken(t)
    \/ checkToken
    \/ \E app \in Apps, where \in Mountable, e \in Expiries : MountHostfs(app, where, e)
    \/ \E m \in mem.mounts : UnmountHostfs(m)
    \/ WitnessHead
    \/ \E cp \in signed : RecordCosignature(cp)
    \/ \E app \in Apps : RetireApplication(app)
    \/ EscalateRefused
    \/ Load
    \/ TimePasses

Spec == Init /\ [][Next]_vars

-----------------------------------------------------------------------------

TypeOK ==
    /\ \A state \in {mem, disk} :
         /\ Len(state.audit) <= MaxRecords /\ state.seq >= Len(state.audit)
         /\ state.live \subseteq Apps
         /\ state.revoked \in Seq(tokens) /\ Len(state.revoked) <= MaxRevoked
         /\ state.witnessed \in Seq(signed) /\ Len(state.witnessed) <= MaxWitnessed
    /\ lineage \subseteq tokens \X tokens /\ revoked \subseteq tokens
    /\ clock \in 0..MaxTime /\ mishaps \in 0..MaxMishaps

\* VerifyAudit and VerifyWitness succeed on the blob in memory and on the one a
\* restart would load, through failed writes, restarts and records that were
\* never written, and no record that stands behind an answer is ever lost.
HistoryHolds ==
    /\ TypeOK
    /\ VerifyWitness(mem) /\ VerifyWitness(disk)
    /\ previousHash = HeadHash(mem.audit)
    /\ told \subseteq {disk.audit[i].hash : i \in 1..Len(disk.audit)}

\* At any moment checkToken allows only what the policy and every token of the
\* chain allow, the root included, and nothing once the revocation of any of
\* them has been answered, across restarts and at a full registry.
AllowedByChain ==
    \A principal \in Subjects, app \in Apps, request \in Requests, t \in tokens :
        Allowed(principal, app, request, t) =>
            \A p \in lineage : p[2] = t =>
                /\ p[1] \notin revoked
                /\ p[1].subject = principal /\ Allows(p[1], request)

\* CheckHostfs allows exactly what some mount allows that was answered to its
\* caller and has not been unmounted since.
MountsHold ==
    \A app \in Apps, request \in Requests, operation \in Operations :
        CheckHostfs(app, request.action.path, operation)
            <=> \E m \in mounted : Covers(m, app, request.action.path, operation)
=============================================================================
