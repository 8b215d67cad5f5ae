--------------------------- MODULE AuthorityProofs ---------------------------
(***************************************************************************)
(* The theorems about the authority of the supervisor: the audit chain and *)
(* its checkpoints, tokens, and mounts.                                    *)
(***************************************************************************)
EXTENDS Authority, SumsProofs, TLAPS

\* Most steps rearrange first-order facts; the few that compute cite SMT.
USE ZenonT(30)

----------------------------------------------------------------------------
(* The blob and its chain.                                                 *)

\* A sequence, whatever its elements.
IsSeq(s) == s \in Seq({s[i] : i \in 1..Len(s)})

\* The blob has its fields and no others.
IsBlob(state) ==
    state = [audit |-> state.audit, seq |-> state.seq, live |-> state.live,
             revoked |-> state.revoked, mounts |-> state.mounts, witnessed |-> state.witnessed]

\* A blob whose chain verifies, and whose sequence has passed every record.
Sound(state) ==
    /\ IsBlob(state)
    /\ IsSeq(state.audit) /\ VerifyAudit(state.audit)
    /\ state.seq \in Nat /\ Len(state.audit) <= state.seq
    /\ \A i \in 1..Len(state.audit) :
         state.audit[i].seq \in Nat /\ state.audit[i].seq <= state.seq

\* The chain new has the records of old, in their places.
Continues(new, old) ==
    /\ Len(old) <= Len(new)
    /\ \A i \in 1..Len(old) : new[i] = old[i]

\* What the blob holds beside its chain.
SameRest(new, old) ==
    /\ new.live = old.live /\ new.revoked = old.revoked
    /\ new.mounts = old.mounts /\ new.witnessed = old.witnessed

\* A sequence is one of its own elements.
LEMMA SeqIsSeq == ASSUME NEW S, NEW s \in Seq(S) PROVE IsSeq(s) /\ Len(s) \in Nat
  BY SMT DEF IsSeq

LEMMA IsSeqLen == ASSUME NEW s, IsSeq(s) PROVE Len(s) \in Nat
  BY SMT DEF IsSeq

\* One more element.
LEMMA AppendAny ==
    ASSUME NEW s, IsSeq(s), NEW e
    PROVE  /\ IsSeq(Append(s, e)) /\ Len(s) \in Nat /\ Len(Append(s, e)) = Len(s) + 1
           /\ \A i \in 1..Len(s) : Append(s, e)[i] = s[i]
           /\ Append(s, e)[Len(s) + 1] = e
           /\ Append(s, e) # <<>>
<1> DEFINE S == {s[i] : i \in 1..Len(s)} \cup {e}
<1>1. s \in Seq(S) /\ e \in S
  BY SMT DEF IsSeq
<1> HIDE DEF S
<1>2. Append(s, e) \in Seq(S) /\ Len(Append(s, e)) = Len(s) + 1 /\ Len(s) \in Nat
  BY <1>1, SMT
<1>3. \A i \in 1..Len(s) : Append(s, e)[i] = s[i]
  BY <1>1, SMT
<1>4. Append(s, e)[Len(s) + 1] = e
  BY <1>1, SMT
<1>5. Append(s, e) # <<>>
  <2>1. Len(<<>>) = 0
    BY SMT
  <2>2. Len(s) + 1 # 0
    BY <1>2, SMT
  <2> QED BY <1>2, <2>1, <2>2
<1> QED BY <1>2, <1>3, <1>4, <1>5, SeqIsSeq

\* Recording changes the sequence and the chain of the blob.
LEMMA AuditedIs ==
    ASSUME NEW s, IsBlob(s), NEW prev, NEW time,
           NEW r, r = [seq |-> s.seq + 1, stamp |-> time, prev |-> prev,
                       hash |-> <<s.seq + 1, time, prev>>]
    PROVE  Audited(s, prev, time) =
             [audit |-> Append(s.audit, r), seq |-> s.seq + 1, live |-> s.live,
              revoked |-> s.revoked, mounts |-> s.mounts, witnessed |-> s.witnessed]
<1>1. PICK a, q, l, v, m, w :
        s = [audit |-> a, seq |-> q, live |-> l, revoked |-> v, mounts |-> m, witnessed |-> w]
  BY DEF IsBlob
<1>2. /\ s.audit = a /\ s.seq = q /\ s.live = l /\ s.revoked = v /\ s.mounts = m
      /\ s.witnessed = w
  BY <1>1, SMT
<1>3. PICK b : b = Append(a, r)
  OBVIOUS
<1>4. [seq |-> s.seq + 1, stamp |-> time, prev |-> prev,
                       hash |-> auditHash([seq |-> s.seq + 1, stamp |-> time, prev |-> prev])] = r
  BY SMT DEF auditHash
<1>5. Audited(s, prev, time) = [s EXCEPT !.seq = s.seq + 1, !.audit = Append(@, r)]
  BY <1>4 DEF Audited
<1>6. PICK n : n = s.seq + 1
  OBVIOUS
<1>7. [s EXCEPT !.seq = n, !.audit = Append(@, r)] = [[s EXCEPT !.seq = n] EXCEPT !.audit = Append(@, r)]
  OBVIOUS
<1>8. [s EXCEPT !.seq = n] =
         [audit |-> a, seq |-> n, live |-> l, revoked |-> v, mounts |-> m, witnessed |-> w]
  BY <1>1, SMT
<1>9. PICK t : t = [audit |-> a, seq |-> n, live |-> l, revoked |-> v, mounts |-> m, witnessed |-> w]
  OBVIOUS
<1>10. t.audit = a
  BY <1>9, SMT
<1>11. [t EXCEPT !.audit = Append(@, r)] = [t EXCEPT !.audit = b]
  BY <1>3, <1>10
<1>12. [t EXCEPT !.audit = b] =
         [audit |-> b, seq |-> n, live |-> l, revoked |-> v, mounts |-> m, witnessed |-> w]
  BY <1>9, SMT
<1> QED BY <1>2, <1>3, <1>5, <1>6, <1>7, <1>8, <1>9, <1>11, <1>12

\* auditLocked on a blob whose chain verifies, from the hash of its head: the
\* chain verifies and goes on, and the rest of the blob is as it was.
LEMMA AuditedSound ==
    ASSUME NEW s, Sound(s), NEW time, NEW n, n = Audited(s, HeadHash(s.audit), time)
    PROVE  /\ Sound(n) /\ SameRest(n, s)
           /\ n.seq = s.seq + 1 /\ Len(n.audit) = Len(s.audit) + 1
           /\ Continues(n.audit, s.audit)
           /\ HeadHash(n.audit) = n.audit[Len(n.audit)].hash
<1>1. PICK prev : prev = HeadHash(s.audit)
  OBVIOUS
<1>2. PICK r : r = [seq |-> s.seq + 1, stamp |-> time, prev |-> prev,
                    hash |-> <<s.seq + 1, time, prev>>]
  OBVIOUS
<1>3. n = [audit |-> Append(s.audit, r), seq |-> s.seq + 1, live |-> s.live,
           revoked |-> s.revoked, mounts |-> s.mounts, witnessed |-> s.witnessed]
  BY <1>1, <1>2, AuditedIs DEF Sound
<1>4. PICK b : b = Append(s.audit, r)
  OBVIOUS
<1>5. PICK a : a = s.audit
  OBVIOUS
<1>6. PICK k : k = Len(a)
  OBVIOUS
<1>7. PICK q : q = s.seq
  OBVIOUS
<1>8. /\ n.audit = b /\ n.seq = q + 1 /\ SameRest(n, s) /\ IsBlob(n)
  <2>1. PICK l : l = s.live
    OBVIOUS
  <2>2. PICK v : v = s.revoked
    OBVIOUS
  <2>3. PICK m : m = s.mounts
    OBVIOUS
  <2>4. PICK w : w = s.witnessed
    OBVIOUS
  <2>5. PICK q1 : q1 = q + 1
    OBVIOUS
  <2>6. n = [audit |-> b, seq |-> q1, live |-> l, revoked |-> v, mounts |-> m, witnessed |-> w]
    BY <1>3, <1>4, <1>7, <2>1, <2>2, <2>3, <2>4, <2>5
  <2>7. /\ n.audit = b /\ n.seq = q1 /\ n.live = l /\ n.revoked = v /\ n.mounts = m
        /\ n.witnessed = w
    BY <2>6, SMT
  <2> QED BY <2>1, <2>2, <2>3, <2>4, <2>5, <2>6, <2>7 DEF SameRest, IsBlob
<1>9. /\ k \in Nat /\ IsSeq(b) /\ Len(b) = k + 1 /\ b[k + 1] = r /\ b # <<>>
      /\ \A i \in 1..k : b[i] = a[i]
  <2>1. IsSeq(a) /\ b = Append(a, r)
    BY <1>4, <1>5 DEF Sound
  <2> QED BY <2>1, <1>6, AppendAny
<1>10. /\ q \in Nat /\ k <= q
       /\ \A i \in 1..k : a[i].seq \in Nat /\ a[i].seq <= q
  BY <1>5, <1>6, <1>7 DEF Sound
<1>11. /\ r.seq = q + 1 /\ r.stamp = time /\ r.prev = prev /\ r.hash = <<q + 1, time, prev>>
  BY <1>2, <1>7, SMT
<1>12. ASSUME NEW i \in 1..(k + 1)
       PROVE  b[i].seq \in Nat /\ b[i].seq <= q + 1
  <2>1. i \in 1..k \/ i = k + 1
    BY <1>9, SMT
  <2>2. q + 1 \in Nat /\ q + 1 <= q + 1 /\ (\A x \in Nat : x <= q => x <= q + 1)
    BY <1>10, SMT
  <2>3. CASE i \in 1..k
    BY <1>9, <1>10, <2>2, <2>3
  <2>4. CASE i = k + 1
    BY <1>9, <1>11, <2>2, <2>4
  <2> QED BY <2>1, <2>3, <2>4
<1>13. \A i \in 1..k : /\ a[i].seq > (IF i = 1 THEN 0 ELSE a[i - 1].seq)
                       /\ a[i].prev = (IF i = 1 THEN NoHash ELSE a[i - 1].hash)
                       /\ a[i].hash = auditHash(a[i])
  BY <1>5, <1>6 DEF Sound, VerifyAudit
<1>14. ASSUME NEW i \in 1..(k + 1)
       PROVE  /\ b[i].seq > (IF i = 1 THEN 0 ELSE b[i - 1].seq)
              /\ b[i].prev = (IF i = 1 THEN NoHash ELSE b[i - 1].hash)
              /\ b[i].hash = auditHash(b[i])
  <2>1. i \in 1..k \/ i = k + 1
    BY <1>9, SMT
  <2>2. i = 1 \/ i - 1 \in 1..k
    BY <1>9, SMT
  <2>3. CASE i \in 1..k
    <3>1. i = 1 \/ b[i - 1] = a[i - 1]
      BY <1>9, <2>2
    <3>2. b[i] = a[i]
      BY <1>9, <2>3
    <3> QED BY <1>13, <2>3, <3>1, <3>2
  <2>4. CASE i = k + 1
    <3>1. b[i] = r
      BY <1>9, <2>4
    <3>2. b[i].hash = auditHash(b[i])
      BY <3>1, <1>11 DEF auditHash
    <3>3. CASE i = 1
      <4>1. a = <<>>
        <5>1. k = 0
          BY <1>9, <2>4, <3>3, SMT
        <5> QED BY <5>1, <1>5, <1>6, SMT DEF Sound, IsSeq
      <4>2. prev = NoHash
        BY <4>1, <1>1, <1>5 DEF HeadHash
      <4>3. q + 1 > 0
        BY <1>10, SMT
      <4> QED BY <3>1, <3>2, <3>3, <4>2, <4>3, <1>11
    <3>4. CASE i # 1
      <4>1. k \in 1..k /\ i - 1 = k /\ k # 0
        BY <1>9, <2>4, <3>4, SMT
      <4>2. a # <<>>
        <5>1. Len(<<>>) = 0
          BY SMT
        <5> QED BY <5>1, <4>1, <1>6
      <4>3. prev = a[k].hash
        BY <4>2, <1>1, <1>5, <1>6 DEF HeadHash
      <4>4. b[i - 1] = a[k]
        BY <4>1, <1>9
      <4>5. a[k].seq \in Nat /\ a[k].seq <= q
        BY <4>1, <1>10
      <4>6. q + 1 > a[k].seq
        BY <4>5, <1>10, SMT
      <4> QED BY <3>1, <3>2, <3>4, <4>3, <4>4, <4>6, <1>11
    <3> QED BY <3>3, <3>4
  <2> QED BY <2>1, <2>3, <2>4
<1>15. Sound(n)
  <2>1. q + 1 \in Nat /\ k + 1 <= q + 1
    BY <1>9, <1>10, SMT
  <2> QED BY <2>1, <1>8, <1>9, <1>12, <1>14 DEF Sound, VerifyAudit
<1>16. Continues(n.audit, s.audit)
  <2>1. k <= k + 1
    BY <1>9, SMT
  <2> QED BY <2>1, <1>5, <1>6, <1>8, <1>9 DEF Continues
<1>17. HeadHash(n.audit) = n.audit[Len(n.audit)].hash
  BY <1>8, <1>9 DEF HeadHash
<1> QED BY <1>5, <1>6, <1>7, <1>8, <1>9, <1>15, <1>16, <1>17

\* What load writes, as far as the first n live applications.
Upto(n, f) ==
    f = [i \in 0..n |-> IF i = 0 THEN disk
                        ELSE Audited(f[i - 1], HeadHash(f[i - 1].audit), stamp + i)]

\* It exists.
LEMMA UptoExists == ASSUME NEW n \in Nat PROVE \E f : Upto(n, f)
<1> DEFINE S == {m \in Nat : \E f : Upto(m, f)}
<1>1. 0 \in S
  <2>1. PICK f : f = [i \in 0..0 |-> disk]
    OBVIOUS
  <2>2. 0 \in Nat /\ \A i \in 0..0 : i = 0
    BY SMT
  <2>3. f = [i \in 0..0 |-> IF i = 0 THEN disk
                        ELSE Audited(f[i - 1], HeadHash(f[i - 1].audit), stamp + i)]
    BY <2>1, <2>2
  <2> QED BY <2>2, <2>3 DEF Upto
<1>2. ASSUME NEW m \in Nat, m \in S PROVE m + 1 \in S
  <2>1. PICK f : Upto(m, f)
    BY <1>2
  <2>2. PICK last : last = Audited(f[m], HeadHash(f[m].audit), stamp + (m + 1))
    OBVIOUS
  <2>3. PICK g : g = [i \in 0..(m + 1) |-> IF i = m + 1 THEN last ELSE f[i]]
    OBVIOUS
  <2>4. ASSUME NEW i \in 0..(m + 1)
        PROVE  g[i] = IF i = 0 THEN disk
                      ELSE Audited(g[i - 1], HeadHash(g[i - 1].audit), stamp + i)
    <3>1. CASE i = m + 1
      <4>1. i # 0 /\ i - 1 = m /\ m \in 0..(m + 1) /\ m # m + 1
        BY <3>1, SMT
      <4>2. g[i] = last /\ g[i - 1] = f[m]
        BY <4>1, <3>1, <2>3
      <4> QED BY <4>1, <4>2, <3>1, <2>2
    <3>2. CASE i # m + 1
      <4>1. i \in 0..m /\ (i = 0 \/ (i - 1 \in 0..(m + 1) /\ i - 1 # m + 1))
        BY <3>2, SMT
      <4>2. g[i] = f[i] /\ (i = 0 \/ g[i - 1] = f[i - 1])
        BY <4>1, <3>2, <2>3
      <4>3. f[i] = IF i = 0 THEN disk
                   ELSE Audited(f[i - 1], HeadHash(f[i - 1].audit), stamp + i)
        BY <4>1, <2>1 DEF Upto
      <4> QED BY <4>2, <4>3
    <3> QED BY <3>1, <3>2
  <2>5. Upto(m + 1, g)
    BY <2>3, <2>4 DEF Upto
  <2>6. m + 1 \in Nat
    BY SMT
  <2> QED BY <2>5, <2>6
<1> HIDE DEF S
<1>3. n \in S
  BY <1>1, <1>2, Induction
<1> QED BY <1>3 DEF S

\* recover, for all live applications: the chain on disk goes on by a record
\* for each of them and verifies, and the rest of the blob is as it was.
LEMMA RecoveredSound ==
    ASSUME Sound(disk), NEW n \in Nat, n = Cardinality(disk.live)
    PROVE  /\ Sound(Recovered) /\ SameRest(Recovered, disk)
           /\ Recovered.seq = disk.seq + n /\ Len(Recovered.audit) = Len(disk.audit) + n
           /\ Continues(Recovered.audit, disk.audit)
<1>1. \E f : f = [i \in 0..n |-> IF i = 0 THEN disk
                        ELSE Audited(f[i - 1], HeadHash(f[i - 1].audit), stamp + i)]
  BY UptoExists DEF Upto
<1>2. PICK u : u = CHOOSE f : f = [i \in 0..n |-> IF i = 0 THEN disk
                        ELSE Audited(f[i - 1], HeadHash(f[i - 1].audit), stamp + i)]
  OBVIOUS
<1>3. Upto(n, u)
  BY <1>1, <1>2 DEF Upto
<1>4. Recovered = u[n]
  BY <1>2 DEF Recovered
<1> DEFINE Good(x, m) == /\ Sound(x) /\ SameRest(x, disk)
                         /\ x.seq = disk.seq + m /\ Len(x.audit) = Len(disk.audit) + m
                         /\ Continues(x.audit, disk.audit)
<1> DEFINE S == {m \in Nat : m <= n => Good(u[m], m)}
<1>5. disk.seq \in Nat /\ Len(disk.audit) \in Nat
  BY IsSeqLen DEF Sound
<1>6. 0 \in S
  <2>1. u[0] = disk
    <3>1. 0 \in 0..n
      BY SMT
    <3> QED BY <3>1, <1>3 DEF Upto
  <2>2. 0 \in Nat /\ disk.seq + 0 = disk.seq /\ Len(disk.audit) + 0 = Len(disk.audit)
          /\ Len(disk.audit) <= Len(disk.audit)
    BY <1>5, SMT
  <2> QED BY <2>1, <2>2 DEF SameRest, Continues
<1>7. ASSUME NEW m \in Nat, m \in S PROVE m + 1 \in S
  <2> SUFFICES ASSUME m + 1 <= n PROVE Good(u[m + 1], m + 1)
    <3>1. m + 1 \in Nat
      BY SMT
    <3> QED BY <3>1
  <2>1. m <= n /\ m + 1 \in 0..n /\ m + 1 # 0 /\ (m + 1) - 1 = m
    BY SMT
  <2>2. Good(u[m], m)
    BY <1>7, <2>1
  <2>3. PICK x : x = u[m]
    OBVIOUS
  <2>4. PICK y : y = u[m + 1]
    OBVIOUS
  <2>5. y = Audited(x, HeadHash(x.audit), stamp + (m + 1))
    BY <1>3, <2>1, <2>3, <2>4 DEF Upto
  <2>6. Good(x, m)
    BY <2>2, <2>3
  <2>7. /\ Sound(y) /\ SameRest(y, x)
        /\ y.seq = x.seq + 1 /\ Len(y.audit) = Len(x.audit) + 1
        /\ Continues(y.audit, x.audit)
    BY <2>5, <2>6, AuditedSound
  <2>8. y.seq = disk.seq + (m + 1) /\ Len(y.audit) = Len(disk.audit) + (m + 1)
    <3>1. \A d \in Nat : (d + m) + 1 = d + (m + 1)
      BY SMT
    <3> QED BY <2>6, <2>7, <1>5, <3>1
  <2>9. SameRest(y, disk)
    BY <2>6, <2>7 DEF SameRest
  <2>10. Continues(y.audit, disk.audit)
    <3>1. \A d \in Nat : d <= d + (m + 1) /\ \A i \in 1..d : i \in 1..(d + m)
      BY SMT
    <3>2. Len(disk.audit) <= Len(y.audit) /\ \A i \in 1..Len(disk.audit) : i \in 1..Len(x.audit)
      BY <2>6, <2>8, <1>5, <3>1
    <3> QED BY <2>6, <2>7, <3>2 DEF Continues
  <2> QED BY <2>4, <2>7, <2>8, <2>9, <2>10
<1> HIDE DEF S
<1>8. n \in S
  BY <1>6, <1>7, Induction
<1>9. n <= n
  BY SMT
<1> QED BY <1>4, <1>8, <1>9 DEF S

----------------------------------------------------------------------------
(* Prefixes and grants.                                                    *)

\* A prefix of a prefix is one.
LEMMA PrefixTransitive ==
    ASSUME NEW a, NEW b, NEW c, Len(a) \in Nat, Len(b) \in Nat, Len(c) \in Nat,
           HasPrefix(b, a), HasPrefix(c, b)
    PROVE  HasPrefix(c, a)
<1>1. /\ Len(a) <= Len(b) /\ \A i \in 1..Len(a) : b[i] = a[i]
      /\ Len(b) <= Len(c) /\ \A i \in 1..Len(b) : c[i] = b[i]
  BY DEF HasPrefix
<1>2. Len(a) <= Len(c) /\ \A i \in 1..Len(a) : i \in 1..Len(b)
  BY <1>1, SMT
<1> QED BY <1>1, <1>2 DEF HasPrefix

\* The caveats t go on where the caveats s end.
Extends(t, s) == Len(s) < Len(t) /\ HasPrefix(t, s)

\* An attenuated token's caveats extend those of its ancestors, by one at
\* least.
LEMMA ExtendsAppend ==
    ASSUME NEW S, NEW a \in Seq(S), NEW b \in Seq(S), NEW e \in S,
           a = b \/ Extends(b, a)
    PROVE  Extends(Append(b, e), a)
<1>1. PICK c : c = Append(b, e)
  OBVIOUS
<1>2. /\ Len(c) = Len(b) + 1 /\ Len(a) \in Nat /\ Len(b) \in Nat
      /\ \A i \in 1..Len(b) : c[i] = b[i]
  BY <1>1, SMT
<1>3. Len(c) \in Nat /\ Len(b) <= Len(c) /\ Len(a) <= Len(b) /\ Len(a) < Len(c)
  BY <1>2, SMT DEF Extends
<1>4. HasPrefix(c, b)
  BY <1>2, <1>3 DEF HasPrefix
<1>5. HasPrefix(c, a)
  <2>1. CASE a = b
    BY <1>4, <2>1
  <2>2. CASE Extends(b, a)
    BY <1>2, <1>3, <1>4, <2>2, PrefixTransitive DEF Extends
  <2> QED BY <2>1, <2>2
<1> QED BY <1>1, <1>3, <1>5 DEF Extends

\* Containment of grants is transitive: a directory in a directory.
LEMMA GrantsTransitive ==
    ASSUME NEW g \in Grants, NEW h \in Grants, NEW r \in Grants \union Requests,
           grantContains(g, h), grantContains(h, r)
    PROVE  grantContains(g, r)
<1>1. PICK a : a = g.action
  OBVIOUS
<1>2. PICK b : b = h.action
  OBVIOUS
<1>3. PICK c : c = r.action
  OBVIOUS
<1>4. ActionContains(a, b) /\ ActionContains(b, c) /\ g.object = r.object
  BY <1>1, <1>2, <1>3 DEF grantContains
<1>5. Len(a.path) \in Nat /\ Len(b.path) \in Nat /\ Len(c.path) \in Nat
  BY <1>1, <1>2, <1>3, PathAssumption
<1>6. ActionContains(a, c)
  <2>1. CASE a = b
    BY <1>4, <2>1
  <2>2. CASE b = c
    BY <1>4, <2>2
  <2>3. CASE a.kind = "any"
    BY <2>3 DEF ActionContains
  <2>4. CASE a # b /\ b # c /\ a.kind # "any"
    <3>1. /\ a.kind = "tree" /\ b.kind \in {"path", "tree"}
          /\ HasPrefix(b.path, a.path)
      BY <1>4, <2>4 DEF ActionContains
    <3>2. b.kind # "any"
      BY <3>1
    <3>3. c.kind \in {"path", "tree"} /\ HasPrefix(c.path, b.path)
      BY <1>4, <2>4, <3>2 DEF ActionContains
    <3>4. HasPrefix(c.path, a.path)
      BY <1>5, <3>1, <3>3, PrefixTransitive
    <3> QED BY <3>1, <3>3, <3>4 DEF ActionContains
  <2> QED BY <2>1, <2>2, <2>3, <2>4
<1> QED BY <1>1, <1>3, <1>4, <1>6 DEF grantContains

----------------------------------------------------------------------------
(* The inductive invariant.                                                *)

Hashes(audit) == {audit[i].hash : i \in 1..Len(audit)}

\* Memory is the blob on disk, gone on by records that were not written; both
\* verify, and the next record will name the head in memory.
ChainInv ==
    /\ Sound(mem) /\ Sound(disk) /\ SameRest(mem, disk)
    /\ Continues(mem.audit, disk.audit) /\ disk.seq <= mem.seq
    /\ previousHash = HeadHash(mem.audit)
    /\ Len(mem.audit) <= MaxRecords
    /\ mem.live \in SUBSET Apps
    /\ told \subseteq Hashes(disk.audit)
    /\ clock \in 0..MaxTime /\ mishaps \in 0..MaxMishaps

Recorded(cp, audit) == cp.count \in 1..Len(audit) /\ audit[cp.count].hash = cp.head

\* A witness signs counts from one on, and the checkpoints kept are of records
\* that were written.
WitnessInv ==
    /\ \A cp \in signed : cp.count \in Nat \ {0}
    /\ mem.witnessed \in Seq(signed) /\ Len(mem.witnessed) <= MaxWitnessed
    /\ \A i \in 1..Len(mem.witnessed) : Recorded(mem.witnessed[i], disk.audit)

Token == [key : Keys, subject : Subjects, expires : Expiries, grants : SUBSET Grants,
          caveats : Seq(Caveats)]

\* Issuer and subject stay, the caveats of the ancestor begin those of the
\* descendant, and what the descendant grants the ancestor grants.
Descends(p, t) ==
    /\ p.subject = t.subject /\ p.key = t.key
    /\ p = t \/ Extends(t.caveats, p.caveats)
    /\ \A g \in t.grants : \E h \in p.grants : grantContains(h, g)

\* Every token descends from its ancestors, and a revocation that was answered
\* is in the registry.
TokenInv ==
    /\ tokens \subseteq Token
    /\ lineage \subseteq tokens \X tokens
    /\ \A p \in lineage : Descends(p[1], p[2])
    /\ mem.revoked \in Seq(tokens) /\ Len(mem.revoked) <= MaxRevoked
    /\ \A t \in revoked : \E i \in 1..Len(mem.revoked) : mem.revoked[i] = t

Mount == [id : Nat, app : Apps, path : {w.path : w \in Mountable},
          mode : {w.mode : w \in Mountable}, enabled : BOOLEAN, expires : Expiries]

\* The mounts enabled are those that were answered; their ids are their own,
\* and the sequence on disk has passed them.
MountInv ==
    /\ mem.mounts \subseteq Mount
    /\ mounted = {m \in mem.mounts : m.enabled}
    /\ \A m \in mem.mounts : m.id <= disk.seq
    /\ \A m, n \in mem.mounts : m.id = n.id => m = n

AuthorityInv == ChainInv /\ WitnessInv /\ TokenInv /\ MountInv

\* What every step does to the blob on disk: its chain goes on.
Grows == Continues(disk'.audit, disk.audit) /\ disk.seq <= disk'.seq

\* The numbers of a sound blob.
LEMMA SoundFacts ==
    ASSUME NEW s, Sound(s)
    PROVE  s.seq \in Nat /\ Len(s.audit) \in Nat /\ IsSeq(s.audit)
  BY IsSeqLen DEF Sound

\* Going on is transitive and reflexive.
LEMMA ContinuesTransitive ==
    ASSUME NEW a, NEW b, NEW c, Len(a) \in Nat, Len(b) \in Nat, Len(c) \in Nat
    PROVE  /\ Continues(a, a)
           /\ Continues(b, a) /\ Continues(c, b) => Continues(c, a)
<1>1. Len(a) <= Len(a)
  BY SMT
<1>2. ASSUME Continues(b, a), Continues(c, b) PROVE Continues(c, a)
  <2>1. Len(a) <= Len(b) /\ Len(b) <= Len(c)
    BY <1>2 DEF Continues
  <2>2. Len(a) <= Len(c) /\ \A i \in 1..Len(a) : i \in 1..Len(b)
    BY <2>1, SMT
  <2> QED BY <1>2, <2>2 DEF Continues
<1> QED BY <1>1, <1>2 DEF Continues

\* A chain that goes on has the hashes it had, where they were.
LEMMA ContinuesHashes ==
    ASSUME NEW a, NEW b, Len(a) \in Nat, Len(b) \in Nat, Continues(b, a)
    PROVE  Hashes(a) \subseteq Hashes(b) /\ \A cp : Recorded(cp, a) => Recorded(cp, b)
<1>1. Len(a) <= Len(b)
  BY DEF Continues
<1>2. \A i \in 1..Len(a) : i \in 1..Len(b)
  BY <1>1, SMT
<1>3. \A i \in 1..Len(a) : i \in 1..Len(b) /\ b[i] = a[i]
  BY <1>2 DEF Continues
<1> QED BY <1>3 DEF Hashes, Recorded

----------------------------------------------------------------------------
(* The steps of the chain.                                                 *)

\* The blob n has these fields.
Fields(n, a, q, l, v, m, w) ==
    /\ IsBlob(n) /\ n.audit = a /\ n.seq = q /\ n.live = l /\ n.revoked = v
    /\ n.mounts = m /\ n.witnessed = w

LEMMA FieldsOf ==
    ASSUME NEW a, NEW q, NEW l, NEW v, NEW m, NEW w, NEW n,
           n = [audit |-> a, seq |-> q, live |-> l, revoked |-> v, mounts |-> m,
                witnessed |-> w]
    PROVE  Fields(n, a, q, l, v, m, w)
<1>1. /\ n.audit = a /\ n.seq = q /\ n.live = l /\ n.revoked = v /\ n.mounts = m
      /\ n.witnessed = w
  BY SMT
<1> QED BY <1>1 DEF IsBlob, Fields

\* A blob that a handler has changed beside its chain is sound.
LEMMA ChangedSound ==
    ASSUME NEW s, Sound(s), NEW n, IsBlob(n), n.audit = s.audit, n.seq \in Nat,
           s.seq <= n.seq
    PROVE  Sound(n)
<1>1. PICK a : a = s.audit
  OBVIOUS
<1>2. PICK q \in Nat : q = n.seq
  OBVIOUS
<1>4. /\ IsSeq(a) /\ VerifyAudit(a) /\ Len(a) \in Nat /\ s.seq \in Nat /\ Len(a) <= s.seq
      /\ \A i \in 1..Len(a) : a[i].seq \in Nat /\ a[i].seq <= s.seq
  BY <1>1, IsSeqLen DEF Sound
<1>5. \A x \in Nat : x <= s.seq => x <= q
  BY <1>2, <1>4, SMT
<1>6. Len(a) <= q /\ \A i \in 1..Len(a) : a[i].seq \in Nat /\ a[i].seq <= q
  BY <1>4, <1>5
<1> QED BY <1>1, <1>2, <1>4, <1>6 DEF Sound

\* The changes that handlers make to a blob.
LEMMA BlobExcept ==
    ASSUME NEW s, IsBlob(s), NEW x, NEW q
    PROVE  /\ Fields([s EXCEPT !.live = x], s.audit, s.seq, x, s.revoked, s.mounts,
                     s.witnessed)
           /\ Fields([s EXCEPT !.revoked = x], s.audit, s.seq, s.live, x, s.mounts,
                     s.witnessed)
           /\ Fields([s EXCEPT !.mounts = x], s.audit, s.seq, s.live, s.revoked, x,
                     s.witnessed)
           /\ Fields([s EXCEPT !.witnessed = x], s.audit, s.seq, s.live, s.revoked, s.mounts,
                     x)
           /\ Fields([s EXCEPT !.seq = q, !.mounts = x], s.audit, q, s.live, s.revoked, x,
                     s.witnessed)
<1>1. PICK a, p, l, v, m, w :
        s = [audit |-> a, seq |-> p, live |-> l, revoked |-> v, mounts |-> m, witnessed |-> w]
  BY DEF IsBlob
<1>2. /\ s.audit = a /\ s.seq = p /\ s.live = l /\ s.revoked = v /\ s.mounts = m
      /\ s.witnessed = w
  BY <1>1, SMT
<1>3. [s EXCEPT !.live = x] =
        [audit |-> a, seq |-> p, live |-> x, revoked |-> v, mounts |-> m, witnessed |-> w]
  BY <1>1, SMT
<1>4. [s EXCEPT !.revoked = x] =
        [audit |-> a, seq |-> p, live |-> l, revoked |-> x, mounts |-> m, witnessed |-> w]
  BY <1>1, SMT
<1>5. [s EXCEPT !.mounts = x] =
        [audit |-> a, seq |-> p, live |-> l, revoked |-> v, mounts |-> x, witnessed |-> w]
  BY <1>1, SMT
<1>6. [s EXCEPT !.witnessed = x] =
        [audit |-> a, seq |-> p, live |-> l, revoked |-> v, mounts |-> m, witnessed |-> x]
  BY <1>1, SMT
<1>7. PICK t :
        t = [audit |-> a, seq |-> q, live |-> l, revoked |-> v, mounts |-> m, witnessed |-> w]
  OBVIOUS
<1>8. [s EXCEPT !.seq = q] = t
  BY <1>1, <1>7, SMT
<1>9. [t EXCEPT !.mounts = x] =
        [audit |-> a, seq |-> q, live |-> l, revoked |-> v, mounts |-> x, witnessed |-> w]
  BY <1>7, SMT
<1>10. [s EXCEPT !.seq = q, !.mounts = x] = [[s EXCEPT !.seq = q] EXCEPT !.mounts = x]
  OBVIOUS
<1>11. [s EXCEPT !.seq = q, !.mounts = x] =
        [audit |-> a, seq |-> q, live |-> l, revoked |-> v, mounts |-> x, witnessed |-> w]
  BY <1>8, <1>9, <1>10
<1>12. Fields([s EXCEPT !.live = x], a, p, x, v, m, w)
  BY <1>3, FieldsOf
<1>13. Fields([s EXCEPT !.revoked = x], a, p, l, x, m, w)
  BY <1>4, FieldsOf
<1>14. Fields([s EXCEPT !.mounts = x], a, p, l, v, x, w)
  BY <1>5, FieldsOf
<1>15. Fields([s EXCEPT !.witnessed = x], a, p, l, v, m, x)
  BY <1>6, FieldsOf
<1>16. Fields([s EXCEPT !.seq = q, !.mounts = x], a, q, l, v, x, w)
  BY <1>11, FieldsOf
<1> QED BY <1>2, <1>12, <1>13, <1>14, <1>15, <1>16

\* A handler's answer: memory and disk go on by its record.
LEMMA CommitStep ==
    ASSUME ChainInv, NEW state, Sound(state), state.audit = mem.audit, mem.seq <= state.seq,
           state.live \in SUBSET Apps, Commit(state), UNCHANGED clock
    PROVE  /\ ChainInv' /\ Grows
           /\ SameRest(mem', state) /\ Continues(disk'.audit, mem.audit)
           /\ disk'.seq = state.seq + 1
<1>1. PICK new : new = Audited(state, HeadHash(state.audit), stamp)
  OBVIOUS
<1>2. previousHash = HeadHash(state.audit)
  BY DEF ChainInv
<1>3. /\ Len(mem.audit) < MaxRecords /\ mem' = new /\ disk' = new
      /\ previousHash' = HeadHash(new.audit)
      /\ told' = told \union {HeadHash(new.audit)} /\ mishaps' = mishaps
  BY <1>1, <1>2 DEF Commit
<1>4. /\ Sound(new) /\ SameRest(new, state)
      /\ new.seq = state.seq + 1 /\ Len(new.audit) = Len(mem.audit) + 1
      /\ Continues(new.audit, mem.audit)
      /\ HeadHash(new.audit) = new.audit[Len(new.audit)].hash
  BY <1>1, AuditedSound
<1>5. /\ Sound(mem) /\ Sound(disk) /\ Continues(mem.audit, disk.audit) /\ disk.seq <= mem.seq
  BY DEF ChainInv
<1>6. /\ mem.seq \in Nat /\ disk.seq \in Nat /\ state.seq \in Nat /\ new.seq \in Nat
      /\ Len(mem.audit) \in Nat /\ Len(disk.audit) \in Nat /\ Len(new.audit) \in Nat
  BY <1>4, <1>5, SoundFacts
<1>7. Continues(new.audit, disk.audit)
  BY <1>4, <1>5, <1>6, ContinuesTransitive
<1>8. disk.seq <= new.seq /\ new.seq <= new.seq /\ Len(new.audit) <= MaxRecords
        /\ Len(new.audit) \in 1..Len(new.audit)
  <2>0. \A h \in Nat : h + 1 \in 1..(h + 1) /\ h <= h
    BY SMT
  <2>1. \A d, e, f \in Nat : d <= e /\ e <= f => d <= f + 1
    BY SMT
  <2>2. \A h, n \in Nat : h < MaxRecords /\ n = h + 1 => n <= MaxRecords
    BY AuthorityAssumption, SMT
  <2>3. disk.seq <= new.seq /\ new.seq <= new.seq /\ Len(new.audit) \in 1..Len(new.audit)
    BY <1>4, <1>5, <1>6, <2>0, <2>1
  <2>4. Len(new.audit) <= MaxRecords
    BY <1>3, <1>4, <1>6, <2>2
  <2> QED BY <2>3, <2>4
<1>9. told' \subseteq Hashes(new.audit)
  <2>1. told \subseteq Hashes(disk.audit)
    BY DEF ChainInv
  <2>2. Hashes(disk.audit) \subseteq Hashes(new.audit)
    BY <1>6, <1>7, ContinuesHashes
  <2>3. HeadHash(new.audit) \in Hashes(new.audit)
    BY <1>4, <1>8 DEF Hashes
  <2> QED BY <1>3, <2>1, <2>2, <2>3
<1>10. Continues(new.audit, new.audit) /\ SameRest(new, new)
  BY <1>6, ContinuesTransitive DEF SameRest
<1>11. new.live \in SUBSET Apps
  BY <1>4 DEF SameRest
<1>12. clock' \in 0..MaxTime /\ mishaps' \in 0..MaxMishaps
  BY <1>3 DEF ChainInv
<1>13. ChainInv'
  BY <1>3, <1>4, <1>8, <1>9, <1>10, <1>11, <1>12 DEF ChainInv
<1> QED BY <1>3, <1>4, <1>7, <1>8, <1>13 DEF Grows

\* One more mishap.
LEMMA MishapType ==
    ASSUME mishaps \in 0..MaxMishaps, Mishap PROVE mishaps' \in 0..MaxMishaps
<1>1. mishaps < MaxMishaps /\ mishaps' = mishaps + 1
  BY DEF Mishap
<1> QED BY <1>1, AuthorityAssumption, SMT

\* A handler whose write failed: memory is again what disk holds, and the
\* chain goes on from there.
LEMMA FailStep ==
    ASSUME ChainInv, NEW state, CommitFails(state), UNCHANGED clock
    PROVE  /\ ChainInv' /\ Grows /\ mem' = disk /\ disk' = disk /\ SameRest(mem', mem)
<1>1. /\ Mishap /\ mem' = disk /\ disk' = disk /\ previousHash' = HeadHash(disk.audit)
      /\ told' = told
  BY DEF CommitFails, restoreLocked
<1>2. /\ Sound(mem) /\ Sound(disk) /\ SameRest(mem, disk) /\ Continues(mem.audit, disk.audit)
      /\ Len(mem.audit) <= MaxRecords /\ mem.live \in SUBSET Apps
      /\ told \subseteq Hashes(disk.audit) /\ mishaps \in 0..MaxMishaps
      /\ clock \in 0..MaxTime
  BY DEF ChainInv
<1>3. Len(mem.audit) \in Nat /\ Len(disk.audit) \in Nat /\ disk.seq \in Nat
  BY <1>2, SoundFacts
<1>4. Continues(disk.audit, disk.audit)
  BY <1>3, ContinuesTransitive
<1>5. disk.seq <= disk.seq
  BY <1>3, SMT
<1>6. Len(disk.audit) <= MaxRecords
  <2>1. Len(disk.audit) <= Len(mem.audit)
    BY <1>2 DEF Continues
  <2> QED BY <1>2, <1>3, <2>1, AuthorityAssumption, SMT
<1>7. disk.live \in SUBSET Apps /\ SameRest(disk, mem) /\ SameRest(disk, disk)
  BY <1>2 DEF SameRest
<1>8. mishaps' \in 0..MaxMishaps
  BY <1>1, <1>2, MishapType
<1>9. ChainInv'
  BY <1>1, <1>2, <1>4, <1>5, <1>6, <1>7, <1>8 DEF ChainInv
<1> QED BY <1>1, <1>4, <1>5, <1>7, <1>9 DEF Grows

\* escalateExportLocked: a record in memory alone.
LEMMA EscalateStep ==
    ASSUME ChainInv, EscalateRefused
    PROVE  ChainInv' /\ Grows /\ SameRest(mem', mem)
<1>1. PICK new : new = Audited(mem, HeadHash(mem.audit), stamp)
  OBVIOUS
<1>2. previousHash = HeadHash(mem.audit)
  BY DEF ChainInv
<1>3. /\ Len(mem.audit) < MaxRecords /\ mem' = new /\ disk' = disk
      /\ previousHash' = HeadHash(new.audit)
      /\ told' = told /\ mishaps' = mishaps /\ clock' = clock
  BY <1>1, <1>2 DEF EscalateRefused
<1>4. /\ Sound(mem) /\ Sound(disk) /\ Continues(mem.audit, disk.audit) /\ disk.seq <= mem.seq
      /\ SameRest(mem, disk) /\ mem.live \in SUBSET Apps
      /\ told \subseteq Hashes(disk.audit) /\ mishaps \in 0..MaxMishaps
      /\ clock \in 0..MaxTime
  BY DEF ChainInv
<1>5. /\ Sound(new) /\ SameRest(new, mem)
      /\ new.seq = mem.seq + 1 /\ Len(new.audit) = Len(mem.audit) + 1
      /\ Continues(new.audit, mem.audit)
  BY <1>1, <1>4, AuditedSound
<1>6. /\ mem.seq \in Nat /\ disk.seq \in Nat
      /\ Len(mem.audit) \in Nat /\ Len(disk.audit) \in Nat /\ Len(new.audit) \in Nat
  BY <1>4, <1>5, SoundFacts
<1>7. Continues(new.audit, disk.audit) /\ Continues(disk.audit, disk.audit)
  BY <1>4, <1>5, <1>6, ContinuesTransitive
<1>8. disk.seq <= new.seq /\ disk.seq <= disk.seq /\ Len(new.audit) <= MaxRecords
  <2>1. \A d, e \in Nat : d <= e => d <= e + 1 /\ d <= d
    BY SMT
  <2>2. \A h \in Nat : h < MaxRecords => h + 1 <= MaxRecords
    BY AuthorityAssumption, SMT
  <2> QED BY <1>3, <1>4, <1>5, <1>6, <2>1, <2>2
<1>9. SameRest(new, disk) /\ new.live \in SUBSET Apps
  BY <1>4, <1>5 DEF SameRest
<1>10. ChainInv'
  BY <1>3, <1>4, <1>5, <1>7, <1>8, <1>9 DEF ChainInv
<1> QED BY <1>3, <1>5, <1>7, <1>8, <1>10 DEF Grows

\* A step that leaves the blob alone.
LEMMA IdleStep ==
    ASSUME ChainInv, UNCHANGED <<mem, disk, previousHash, told, mishaps>>,
           clock' \in 0..MaxTime
    PROVE  ChainInv' /\ Grows /\ SameRest(mem', mem)
<1>1. Sound(disk)
  BY DEF ChainInv
<1>2. disk.seq \in Nat /\ Len(disk.audit) \in Nat
  BY <1>1, SoundFacts
<1>3. Continues(disk.audit, disk.audit)
  BY <1>2, ContinuesTransitive
<1>4. disk.seq <= disk.seq
  BY <1>2, SMT
<1>5. mem' = mem /\ disk' = disk /\ previousHash' = previousHash /\ told' = told
        /\ mishaps' = mishaps
  OBVIOUS
<1> QED BY <1>3, <1>4, <1>5 DEF ChainInv, Grows, SameRest

----------------------------------------------------------------------------
(* The steps of the rest.                                                  *)

\* The checkpoints stay recorded while the chain goes on.
LEMMA WitnessKept ==
    ASSUME ChainInv, ChainInv', Grows, WitnessInv, mem'.witnessed = mem.witnessed,
           signed' = signed
    PROVE  WitnessInv'
<1>1. Len(disk.audit) \in Nat /\ Len(disk'.audit) \in Nat /\ Continues(disk'.audit, disk.audit)
  BY SoundFacts DEF ChainInv, Grows
<1>2. \A cp : Recorded(cp, disk.audit) => Recorded(cp, disk'.audit)
  BY <1>1, ContinuesHashes
<1> QED BY <1>2 DEF WitnessInv

\* Nothing about tokens changes.
LEMMA TokensKept ==
    ASSUME TokenInv, mem'.revoked = mem.revoked, UNCHANGED <<tokens, lineage, revoked>>
    PROVE  TokenInv'
<1>1. tokens' = tokens /\ lineage' = lineage /\ revoked' = revoked
  OBVIOUS
<1> QED BY <1>1 DEF TokenInv

\* Nothing about mounts changes, and the sequence only grows.
LEMMA MountsKept ==
    ASSUME ChainInv, ChainInv', Grows, MountInv, mem'.mounts = mem.mounts, mounted' = mounted
    PROVE  MountInv'
<1>1. disk.seq \in Nat /\ disk'.seq \in Nat /\ disk.seq <= disk'.seq
  BY SoundFacts DEF ChainInv, Grows
<1>2. \A i \in Nat : i <= disk.seq => i <= disk'.seq
  BY <1>1, SMT
<1>3. \A m \in mem.mounts : m.id \in Nat
  BY DEF MountInv, Mount
<1> QED BY <1>2, <1>3 DEF MountInv

\* A step that changes nothing in the blob but its chain.
LEMMA RestKept ==
    ASSUME AuthorityInv, ChainInv', Grows, SameRest(mem', mem),
           UNCHANGED <<tokens, lineage, revoked, mounted, signed>>
    PROVE  AuthorityInv'
<1>1. ChainInv /\ WitnessInv /\ TokenInv /\ MountInv
  BY DEF AuthorityInv
<1>2. /\ mem'.witnessed = mem.witnessed /\ mem'.revoked = mem.revoked
      /\ mem'.mounts = mem.mounts
  BY DEF SameRest
<1>3. UNCHANGED <<tokens, lineage, revoked>> /\ mounted' = mounted /\ signed' = signed
  OBVIOUS
<1> QED BY <1>1, <1>2, <1>3, WitnessKept, TokensKept, MountsKept DEF AuthorityInv

\* A handler whose write failed.
LEMMA FailKept ==
    ASSUME AuthorityInv, NEW state, CommitFails(state),
           UNCHANGED <<tokens, lineage, revoked, mounted, signed, clock>>
    PROVE  AuthorityInv' /\ Grows
<1>1. ChainInv /\ clock' = clock /\ UNCHANGED <<tokens, lineage, revoked, mounted, signed>>
  BY DEF AuthorityInv
<1>2. ChainInv' /\ Grows /\ SameRest(mem', mem)
  BY <1>1, FailStep
<1> QED BY <1>1, <1>2, RestKept

\* The decision of checkToken.
LEMMA CheckStep == ASSUME AuthorityInv, checkToken PROVE AuthorityInv' /\ Grows
<1>1. UNCHANGED <<tokens, lineage, revoked, mounted, signed, clock>>
  BY DEF checkToken, tokenVars
<1>2. CASE CommitFails(mem)
  BY <1>1, <1>2, FailKept
<1>3. CASE Commit(mem)
  <2>1. ChainInv /\ Sound(mem) /\ mem.live \in SUBSET Apps /\ mem.seq \in Nat
    BY SoundFacts DEF AuthorityInv, ChainInv
  <2>2. mem.seq <= mem.seq
    BY <2>1, SMT
  <2>3. ChainInv' /\ Grows /\ SameRest(mem', mem)
    BY <1>1, <1>3, <2>1, <2>2, CommitStep
  <2> QED BY <1>1, <2>3, RestKept
<1> QED BY <1>2, <1>3 DEF checkToken

\* An application is retired.
LEMMA RetireStep ==
    ASSUME AuthorityInv, NEW app, RetireApplication(app) PROVE AuthorityInv' /\ Grows
<1>1. UNCHANGED <<tokens, lineage, revoked, mounted, signed, clock>>
  BY DEF RetireApplication, tokenVars
<1>2. PICK state : state = [mem EXCEPT !.live = mem.live \ {app}]
  OBVIOUS
<1>3. Commit(state) \/ CommitFails(state)
  BY <1>2 DEF RetireApplication
<1>4. CASE CommitFails(state)
  BY <1>1, <1>4, FailKept
<1>5. CASE Commit(state)
  <2>1. ChainInv /\ Sound(mem) /\ IsBlob(mem) /\ mem.live \in SUBSET Apps /\ mem.seq \in Nat
    BY SoundFacts DEF AuthorityInv, ChainInv, Sound
  <2>2. mem.seq <= mem.seq
    BY <2>1, SMT
  <2>3. Fields(state, mem.audit, mem.seq, mem.live \ {app}, mem.revoked, mem.mounts,
               mem.witnessed)
    BY <1>2, <2>1, BlobExcept
  <2>4. /\ Sound(state) /\ state.audit = mem.audit /\ state.seq = mem.seq
        /\ state.live = mem.live \ {app} /\ state.revoked = mem.revoked
        /\ state.mounts = mem.mounts /\ state.witnessed = mem.witnessed
    BY <2>1, <2>2, <2>3, ChangedSound DEF Fields
  <2>5. state.live \in SUBSET Apps
    BY <2>1, <2>4
  <2>6. ChainInv' /\ Grows /\ SameRest(mem', state)
    BY <1>1, <1>5, <2>1, <2>2, <2>4, <2>5, CommitStep
  <2>7. /\ mem'.witnessed = mem.witnessed /\ mem'.revoked = mem.revoked
        /\ mem'.mounts = mem.mounts
    BY <2>4, <2>6 DEF SameRest
  <2>8. WitnessInv /\ TokenInv /\ MountInv
    BY DEF AuthorityInv
  <2>9. UNCHANGED <<tokens, lineage, revoked>> /\ mounted' = mounted /\ signed' = signed
    BY <1>1
  <2> QED BY <2>1, <2>6, <2>7, <2>8, <2>9, WitnessKept, TokensKept, MountsKept
          DEF AuthorityInv
<1> QED BY <1>3, <1>4, <1>5

\* A token enters the registry, unless the registry is full.
LEMMA RevokeStep ==
    ASSUME AuthorityInv, NEW t \in tokens, RevokeCapabilityToken(t)
    PROVE  AuthorityInv' /\ Grows
<1>1. UNCHANGED <<tokens, lineage, mounted, signed, clock>>
  BY DEF RevokeCapabilityToken, tokenVars
<1> DEFINE full == Len(mem.revoked) >= MaxRevoked
<1>3. PICK state : state = IF full THEN mem ELSE [mem EXCEPT !.revoked = Append(mem.revoked, t)]
  OBVIOUS
<1>4. \/ Commit(state) /\ revoked' = IF full THEN revoked ELSE revoked \union {t}
      \/ CommitFails(state) /\ revoked' = revoked
  BY <1>3 DEF RevokeCapabilityToken
<1>5. CASE CommitFails(state) /\ revoked' = revoked
  BY <1>1, <1>5, FailKept
<1>6. CASE Commit(state) /\ revoked' = IF full THEN revoked ELSE revoked \union {t}
  <2>1. ChainInv /\ Sound(mem) /\ IsBlob(mem) /\ mem.live \in SUBSET Apps /\ mem.seq \in Nat
    BY SoundFacts DEF AuthorityInv, ChainInv, Sound
  <2>2. mem.seq <= mem.seq
    BY <2>1, SMT
  <2>3. PICK v : v = IF full THEN mem.revoked ELSE Append(mem.revoked, t)
    OBVIOUS
  <2>4. /\ Sound(state) /\ state.audit = mem.audit /\ state.seq = mem.seq
        /\ state.live = mem.live /\ state.revoked = v
        /\ state.mounts = mem.mounts /\ state.witnessed = mem.witnessed
    <3>1. CASE full
      BY <1>3, <2>1, <2>3, <3>1
    <3>2. CASE ~full
      <4>1. Fields(state, mem.audit, mem.seq, mem.live, v, mem.mounts, mem.witnessed)
        BY <1>3, <2>1, <2>3, <3>2, BlobExcept
      <4> QED BY <2>1, <2>2, <4>1, ChangedSound DEF Fields
    <3> QED BY <3>1, <3>2
  <2>5. state.live \in SUBSET Apps
    BY <2>1, <2>4
  <2>6. ChainInv' /\ Grows /\ SameRest(mem', state)
    BY <1>1, <1>6, <2>1, <2>2, <2>4, <2>5, CommitStep
  <2>7. mem'.witnessed = mem.witnessed /\ mem'.revoked = v /\ mem'.mounts = mem.mounts
    BY <2>4, <2>6 DEF SameRest
  <2>8. WitnessInv /\ TokenInv /\ MountInv
    BY DEF AuthorityInv
  <2>9. mounted' = mounted /\ signed' = signed /\ tokens' = tokens /\ lineage' = lineage
    BY <1>1
  <2>10. /\ v \in Seq(tokens) /\ Len(v) <= MaxRevoked
         /\ \A r \in revoked' : \E i \in 1..Len(v) : v[i] = r
    <3>1. /\ mem.revoked \in Seq(tokens) /\ Len(mem.revoked) <= MaxRevoked
          /\ \A r \in revoked : \E i \in 1..Len(mem.revoked) : mem.revoked[i] = r
      BY <2>8 DEF TokenInv
    <3>2. CASE full
      BY <1>6, <2>3, <3>1, <3>2
    <3>3. CASE ~full
      <4>1. v = Append(mem.revoked, t) /\ revoked' = revoked \union {t}
        BY <1>6, <2>3, <3>3
      <4>2. PICK s \in Seq(tokens) : s = mem.revoked
        BY <3>1
      <4>3. PICK k \in Nat : k = Len(s)
        BY SMT
      <4>4. /\ Append(s, t) \in Seq(tokens) /\ Len(Append(s, t)) = k + 1
            /\ Append(s, t)[k + 1] = t /\ \A i \in 1..k : Append(s, t)[i] = s[i]
        BY <4>3, SMT
      <4>5. ~(k >= MaxRevoked)
        BY <3>3, <4>2, <4>3
      <4>6. k + 1 <= MaxRevoked /\ k + 1 \in 1..(k + 1) /\ \A i \in 1..k : i \in 1..(k + 1)
        BY <4>5, AuthorityAssumption, SMT
      <4>7. ASSUME NEW r \in revoked' PROVE \E i \in 1..Len(v) : v[i] = r
        <5>1. CASE r = t
          BY <4>1, <4>2, <4>4, <4>6, <5>1
        <5>2. CASE r \in revoked
          <6>1. PICK i \in 1..k : s[i] = r
            BY <3>1, <4>2, <4>3, <5>2
          <6> QED BY <6>1, <4>1, <4>2, <4>4, <4>6
        <5> QED BY <4>1, <5>1, <5>2
      <4> QED BY <4>1, <4>2, <4>4, <4>6, <4>7
    <3> QED BY <3>2, <3>3
  <2>11. TokenInv'
    BY <2>7, <2>8, <2>9, <2>10 DEF TokenInv
  <2> QED BY <2>1, <2>6, <2>7, <2>8, <2>9, <2>11, WitnessKept, MountsKept DEF AuthorityInv
<1> QED BY <1>4, <1>5, <1>6

\* A mount with an id of its own.
LEMMA MountStep ==
    ASSUME AuthorityInv, NEW app \in Apps, NEW where \in Mountable, NEW e \in Expiries,
           MountHostfs(app, where, e)
    PROVE  AuthorityInv' /\ Grows
<1>1. UNCHANGED <<tokens, lineage, revoked, signed, clock>>
  BY DEF MountHostfs, tokenVars
<1>2. PICK m : m = [id |-> mem.seq + 1, app |-> app, path |-> where.path, mode |-> where.mode,
                    enabled |-> TRUE, expires |-> e]
  OBVIOUS
<1>3. PICK state : state = [mem EXCEPT !.seq = mem.seq + 1, !.mounts = mem.mounts \union {m}]
  OBVIOUS
<1>4. ChainInv /\ Sound(mem) /\ IsBlob(mem) /\ mem.live \in SUBSET Apps /\ mem.seq \in Nat
  BY SoundFacts DEF AuthorityInv, ChainInv, Sound
<1>5. state = [mem EXCEPT !.seq = @ + 1, !.mounts = @ \union {m}]
  BY <1>3
<1>6. \/ Commit(state) /\ mounted' = mounted \union {m}
      \/ CommitFails(state) /\ mounted' = mounted
  BY <1>2, <1>5 DEF MountHostfs
<1>7. CASE CommitFails(state) /\ mounted' = mounted
  BY <1>1, <1>7, FailKept
<1>8. CASE Commit(state) /\ mounted' = mounted \union {m}
  <2>1. PICK q \in Nat : q = mem.seq + 1
    BY <1>4, SMT
  <2>2. mem.seq <= q /\ ~(q <= mem.seq) /\ q <= q + 1
    BY <1>4, <2>1, SMT
  <2>3. PICK M : M = mem.mounts \union {m}
    OBVIOUS
  <2>4. Fields(state, mem.audit, q, mem.live, mem.revoked, M, mem.witnessed)
    BY <1>3, <1>4, <2>1, <2>3, BlobExcept
  <2>5. /\ Sound(state) /\ state.audit = mem.audit /\ state.seq = q
        /\ state.live = mem.live /\ state.revoked = mem.revoked
        /\ state.mounts = M /\ state.witnessed = mem.witnessed
    BY <1>4, <2>2, <2>4, ChangedSound DEF Fields
  <2>6. ChainInv' /\ Grows /\ SameRest(mem', state) /\ disk'.seq = state.seq + 1
    BY <1>1, <1>4, <1>8, <2>2, <2>5, CommitStep
  <2>7. mem'.witnessed = mem.witnessed /\ mem'.revoked = mem.revoked /\ mem'.mounts = M
    BY <2>5, <2>6 DEF SameRest
  <2>8. WitnessInv /\ TokenInv /\ MountInv
    BY DEF AuthorityInv
  <2>9. UNCHANGED <<tokens, lineage, revoked>> /\ signed' = signed
    BY <1>1
  <2>10. /\ m.id = q /\ m.enabled = TRUE /\ m \in Mount
    <3>1. where.path \in {w.path : w \in Mountable} /\ where.mode \in {w.mode : w \in Mountable}
      OBVIOUS
    <3>2. PICK p, d : p = where.path /\ d = where.mode
      OBVIOUS
    <3>3. m = [id |-> q, app |-> app, path |-> p, mode |-> d, enabled |-> TRUE, expires |-> e]
      BY <1>2, <2>1, <3>2
    <3>4. m.id = q /\ m.enabled = TRUE
      BY <3>3, SMT
    <3>5. p \in {w.path : w \in Mountable} /\ d \in {w.mode : w \in Mountable}
      BY <3>1, <3>2
    <3>6. m \in Mount
      BY <3>3, <3>5 DEF Mount
    <3> QED BY <3>4, <3>6
  <2>11. \A n \in mem.mounts : n.id \in Nat /\ n.id <= disk.seq
    BY <2>8 DEF MountInv, Mount
  <2>12. disk.seq \in Nat /\ disk.seq <= mem.seq /\ disk'.seq = q + 1
    BY <1>4, <2>5, <2>6, SoundFacts DEF ChainInv
  <2>13. \A x \in Nat : x <= disk.seq => x # q /\ x <= q + 1
    BY <2>1, <2>12, <1>4, SMT
  <2>14. \A n \in mem.mounts : n.id # m.id /\ n.id <= disk'.seq
    BY <2>10, <2>11, <2>12, <2>13
  <2>15. MountInv'
    <3>1. M \subseteq Mount
      BY <2>3, <2>8, <2>10 DEF MountInv
    <3>2. mounted' = {n \in M : n.enabled}
      BY <1>8, <2>3, <2>8, <2>10 DEF MountInv
    <3>3. \A n \in M : n.id <= disk'.seq
      BY <2>2, <2>3, <2>10, <2>12, <2>14
    <3>4. \A n, o \in M : n.id = o.id => n = o
      BY <2>3, <2>8, <2>14 DEF MountInv
    <3> QED BY <2>7, <3>1, <3>2, <3>3, <3>4 DEF MountInv
  <2> QED BY <1>4, <2>6, <2>7, <2>8, <2>9, <2>15, WitnessKept, TokensKept DEF AuthorityInv
<1> QED BY <1>6, <1>7, <1>8

\* A mount is disabled, and no other: the id is its own.
LEMMA UnmountStep ==
    ASSUME AuthorityInv, NEW m \in mem.mounts, UnmountHostfs(m)
    PROVE  AuthorityInv' /\ Grows
<1>1. UNCHANGED <<tokens, lineage, revoked, signed, clock>>
  BY DEF UnmountHostfs, tokenVars
<1>2. PICK o : o = Unmounted(m)
  OBVIOUS
<1>3. PICK state : state = [mem EXCEPT !.mounts = (mem.mounts \ {m}) \union {o}]
  OBVIOUS
<1>4. ChainInv /\ Sound(mem) /\ IsBlob(mem) /\ mem.live \in SUBSET Apps /\ mem.seq \in Nat
  BY SoundFacts DEF AuthorityInv, ChainInv, Sound
<1>5. state = [mem EXCEPT !.mounts = (@ \ {m}) \union {o}]
  BY <1>3
<1>6. \/ Commit(state) /\ mounted' = {n \in mounted : n.id # m.id}
      \/ CommitFails(state) /\ mounted' = mounted
  BY <1>2, <1>5 DEF UnmountHostfs
<1>7. CASE CommitFails(state) /\ mounted' = mounted
  BY <1>1, <1>7, FailKept
<1>8. CASE Commit(state) /\ mounted' = {n \in mounted : n.id # m.id}
  <2>1. PICK M : M = (mem.mounts \ {m}) \union {o}
    OBVIOUS
  <2>2. mem.seq <= mem.seq
    BY <1>4, SMT
  <2>3. Fields(state, mem.audit, mem.seq, mem.live, mem.revoked, M, mem.witnessed)
    BY <1>3, <1>4, <2>1, BlobExcept
  <2>4. /\ Sound(state) /\ state.audit = mem.audit /\ state.seq = mem.seq
        /\ state.live = mem.live /\ state.revoked = mem.revoked
        /\ state.mounts = M /\ state.witnessed = mem.witnessed
    BY <1>4, <2>2, <2>3, ChangedSound DEF Fields
  <2>5. ChainInv' /\ Grows /\ SameRest(mem', state)
    BY <1>1, <1>4, <1>8, <2>2, <2>4, CommitStep
  <2>6. mem'.witnessed = mem.witnessed /\ mem'.revoked = mem.revoked /\ mem'.mounts = M
    BY <2>4, <2>5 DEF SameRest
  <2>7. WitnessInv /\ TokenInv /\ MountInv
    BY DEF AuthorityInv
  <2>8. UNCHANGED <<tokens, lineage, revoked>> /\ signed' = signed
    BY <1>1
  <2>9. o.id = m.id /\ o.enabled = FALSE /\ o \in Mount
    <3>1. m \in Mount
      BY <2>7 DEF MountInv
    <3>2. o = [m EXCEPT !.enabled = FALSE]
      BY <1>2 DEF Unmounted
    <3>3. ASSUME NEW A, NEW B, NEW C, NEW D, NEW E, NEW G, NEW g \in G,
                 NEW x \in [id : A, app : B, path : C, mode : D, enabled : G, expires : E],
                 NEW y, y = [x EXCEPT !.enabled = g]
          PROVE  /\ y.id = x.id /\ y.enabled = g
                 /\ y \in [id : A, app : B, path : C, mode : D, enabled : G, expires : E]
      BY ONLY <3>3, SMT
    <3>4. FALSE \in BOOLEAN
      OBVIOUS
    <3>5. o.id = m.id /\ o.enabled = FALSE
      BY <3>1, <3>2, <3>3, <3>4 DEF Mount
    <3>6. o \in Mount
      BY <3>1, <3>2, <3>3, <3>4 DEF Mount
    <3> QED BY <3>5, <3>6
  <2>10. \A n \in mem.mounts : n.id <= disk'.seq
    <3>1. \A n \in mem.mounts : n.id \in Nat /\ n.id <= disk.seq
      BY <2>7 DEF MountInv, Mount
    <3>2. disk.seq \in Nat /\ disk'.seq \in Nat /\ disk.seq <= disk'.seq
      BY <1>4, <2>5, SoundFacts DEF ChainInv, Grows
    <3>3. \A x \in Nat : x <= disk.seq => x <= disk'.seq
      BY <3>2, SMT
    <3> QED BY <3>1, <3>3
  <2>11. \A n \in mem.mounts : n.id = m.id => n = m
    BY <2>7 DEF MountInv
  <2>12. MountInv'
    <3>1. M \subseteq Mount
      BY <2>1, <2>7, <2>9 DEF MountInv
    <3>2. mounted' = {n \in M : n.enabled}
      <4>1. mounted = {n \in mem.mounts : n.enabled}
        BY <2>7 DEF MountInv
      <4>2. ASSUME NEW n PROVE n \in mounted' <=> n \in M /\ n.enabled
        <5>1. n \in mounted' <=> n \in mem.mounts /\ n.enabled /\ n.id # m.id
          BY <1>8, <4>1
        <5>2. n \in mem.mounts => (n.id # m.id <=> n # m)
          BY <2>11
        <5>3. n \in M <=> (n \in mem.mounts /\ n # m) \/ n = o
          BY <2>1
        <5> QED BY <5>1, <5>2, <5>3, <2>9
      <4> QED BY <4>2
    <3>3. \A n \in M : n.id <= disk'.seq
      BY <2>1, <2>9, <2>10
    <3>4. ASSUME NEW n \in M, NEW r \in M, n.id = r.id PROVE n = r
      <4>1. \A x \in M : x.id = m.id => x = o
        BY <2>1, <2>11
      <4>2. CASE n = o \/ r = o
        BY <2>9, <3>4, <4>1, <4>2
      <4>3. CASE n # o /\ r # o
        <5>1. n \in mem.mounts /\ r \in mem.mounts
          BY <2>1, <4>3
        <5> QED BY <2>7, <3>4, <5>1 DEF MountInv
      <4> QED BY <4>2, <4>3
    <3> QED BY <2>6, <3>1, <3>2, <3>3, <3>4 DEF MountInv
  <2> QED BY <1>4, <2>5, <2>6, <2>7, <2>8, <2>12, WitnessKept, TokensKept DEF AuthorityInv
<1> QED BY <1>6, <1>7, <1>8

\* What is kept of a list of checkpoints is on it, and not too long.
LEMMA NewestFacts ==
    ASSUME NEW S, NEW s \in Seq(S)
    PROVE  /\ Newest(s) \in Seq(S) /\ Len(Newest(s)) <= MaxWitnessed
           /\ \A i \in 1..Len(Newest(s)) : \E j \in 1..Len(s) : Newest(s)[i] = s[j]
<1>1. PICK k \in Nat : k = Len(s)
  BY SMT
<1>2. PICK d \in Nat : d = IF k > MaxWitnessed THEN k - MaxWitnessed ELSE 0
  <2>1. (IF k > MaxWitnessed THEN k - MaxWitnessed ELSE 0) \in Nat
    BY AuthorityAssumption, SMT
  <2> QED BY <2>1
<1>3. d <= k /\ k - d <= MaxWitnessed /\ k - d \in Nat
  BY <1>2, AuthorityAssumption, SMT
<1>4. PICK n : n = SubSeq(s, 1 + d, k)
  OBVIOUS
<1>5. Newest(s) = n
  BY <1>1, <1>2, <1>4 DEF Newest
<1>6. n \in Seq(S) /\ Len(n) = k - d
  BY <1>1, <1>3, <1>4, SMT
<1>7. \A i \in 1..(k - d) : n[i] = s[i + d] /\ i + d \in 1..k
  BY <1>1, <1>3, <1>4, SMT
<1>8. \A i \in 1..Len(n) : \E j \in 1..Len(s) : n[i] = s[j]
  BY <1>1, <1>6, <1>7
<1> QED BY <1>3, <1>5, <1>6, <1>8

\* A checkpoint of a record in memory enters the list, and its record is
\* written with it.
LEMMA CosignStep ==
    ASSUME AuthorityInv, NEW cp \in signed, RecordCosignature(cp)
    PROVE  AuthorityInv' /\ Grows
<1>1. UNCHANGED <<tokens, lineage, revoked, mounted, signed, clock>>
  BY DEF RecordCosignature, tokenVars
<1>2. PICK w : w = Newest(Append(mem.witnessed, cp))
  OBVIOUS
<1>3. PICK state : state = [mem EXCEPT !.witnessed = w]
  OBVIOUS
<1>4. ChainInv /\ Sound(mem) /\ IsBlob(mem) /\ mem.live \in SUBSET Apps /\ mem.seq \in Nat
  BY SoundFacts DEF AuthorityInv, ChainInv, Sound
<1>5. state = [mem EXCEPT !.witnessed = Newest(Append(@, cp))]
  BY <1>2, <1>3
<1>6. Matches(cp) /\ (Commit(state) \/ CommitFails(state))
  BY <1>5 DEF RecordCosignature
<1>7. CASE CommitFails(state)
  BY <1>1, <1>7, FailKept
<1>8. CASE Commit(state)
  <2>1. mem.seq <= mem.seq
    BY <1>4, SMT
  <2>2. Fields(state, mem.audit, mem.seq, mem.live, mem.revoked, mem.mounts, w)
    BY <1>3, <1>4, BlobExcept
  <2>3. /\ Sound(state) /\ state.audit = mem.audit /\ state.seq = mem.seq
        /\ state.live = mem.live /\ state.revoked = mem.revoked
        /\ state.mounts = mem.mounts /\ state.witnessed = w
    BY <1>4, <2>1, <2>2, ChangedSound DEF Fields
  <2>4. ChainInv' /\ Grows /\ SameRest(mem', state) /\ Continues(disk'.audit, mem.audit)
    BY <1>1, <1>4, <1>8, <2>1, <2>3, CommitStep
  <2>5. mem'.witnessed = w /\ mem'.revoked = mem.revoked /\ mem'.mounts = mem.mounts
    BY <2>3, <2>4 DEF SameRest
  <2>6. WitnessInv /\ TokenInv /\ MountInv
    BY DEF AuthorityInv
  <2>7. UNCHANGED <<tokens, lineage, revoked>> /\ signed' = signed /\ mounted' = mounted
    BY <1>1
  <2>8. PICK s \in Seq(signed) : s = mem.witnessed
    BY <2>6 DEF WitnessInv
  <2>9. PICK k \in Nat : k = Len(s)
    BY SMT
  <2>10. PICK b : b = Append(s, cp)
    OBVIOUS
  <2>11. /\ b \in Seq(signed) /\ Len(b) = k + 1 /\ b[k + 1] = cp
         /\ \A i \in 1..k : b[i] = s[i]
    BY <2>9, <2>10, SMT
  <2>12. /\ w \in Seq(signed) /\ Len(w) <= MaxWitnessed
         /\ \A i \in 1..Len(w) : \E j \in 1..(k + 1) : w[i] = b[j]
    <3>1. w = Newest(b)
      BY <1>2, <2>8, <2>10
    <3>2. /\ Newest(b) \in Seq(signed) /\ Len(Newest(b)) <= MaxWitnessed
          /\ \A i \in 1..Len(Newest(b)) : \E j \in 1..Len(b) : Newest(b)[i] = b[j]
      BY <2>11, NewestFacts
    <3> QED BY <2>11, <3>1, <3>2
  <2>13. /\ Len(disk.audit) \in Nat /\ Len(mem.audit) \in Nat /\ Len(disk'.audit) \in Nat
         /\ Continues(mem.audit, disk.audit)
    BY <1>4, <2>4, SoundFacts DEF ChainInv
  <2>14. /\ \A x : Recorded(x, disk.audit) => Recorded(x, mem.audit)
         /\ \A x : Recorded(x, mem.audit) => Recorded(x, disk'.audit)
    BY <2>4, <2>13, ContinuesHashes
  <2>15. Recorded(cp, mem.audit)
    <3>1. cp.count \in Nat \ {0} /\ cp.count <= Len(mem.audit)
            /\ mem.audit[cp.count].hash = cp.head
      BY <1>6, <2>6 DEF WitnessInv, Matches
    <3>2. cp.count \in 1..Len(mem.audit)
      BY <2>13, <3>1, SMT
    <3> QED BY <3>1, <3>2 DEF Recorded
  <2>16. ASSUME NEW j \in 1..(k + 1) PROVE Recorded(b[j], mem.audit)
    <3>1. j \in 1..k \/ j = k + 1
      BY SMT
    <3>2. CASE j = k + 1
      BY <2>11, <2>15, <3>2
    <3>3. CASE j \in 1..k
      <4>1. b[j] = mem.witnessed[j] /\ j \in 1..Len(mem.witnessed)
        BY <2>8, <2>9, <2>11, <3>3
      <4>2. Recorded(mem.witnessed[j], disk.audit)
        BY <4>1, <2>6 DEF WitnessInv
      <4> QED BY <2>14, <4>1, <4>2
    <3> QED BY <3>1, <3>2, <3>3
  <2>17. \A i \in 1..Len(w) : Recorded(w[i], disk'.audit)
    <3> SUFFICES ASSUME NEW i \in 1..Len(w) PROVE Recorded(w[i], disk'.audit)
      OBVIOUS
    <3>1. PICK j \in 1..(k + 1) : w[i] = b[j]
      BY <2>12
    <3> QED BY <2>14, <2>16, <3>1
  <2>18. WitnessInv'
    BY <2>5, <2>6, <2>7, <2>12, <2>17 DEF WitnessInv
  <2> QED BY <1>4, <2>4, <2>5, <2>6, <2>7, <2>18, TokensKept, MountsKept DEF AuthorityInv
<1> QED BY <1>6, <1>7, <1>8

\* A witness signs the head in memory.
LEMMA HeadStep == ASSUME AuthorityInv, WitnessHead PROVE AuthorityInv' /\ Grows
<1>1. PICK cp : cp = [head |-> HeadHash(mem.audit), count |-> Len(mem.audit)]
  OBVIOUS
<1>2. /\ mem.audit # <<>> /\ signed' = signed \union {cp}
      /\ UNCHANGED <<mem, disk, previousHash, told, mishaps>> /\ clock' = clock
      /\ tokens' = tokens /\ lineage' = lineage /\ revoked' = revoked /\ mounted' = mounted
  BY <1>1 DEF WitnessHead, tokenVars
<1>3. ChainInv /\ WitnessInv /\ TokenInv /\ MountInv
  BY DEF AuthorityInv
<1>4. clock' \in 0..MaxTime
  BY <1>2, <1>3 DEF ChainInv
<1>5. ChainInv' /\ Grows /\ SameRest(mem', mem)
  BY <1>2, <1>3, <1>4, IdleStep
<1>6. cp.count \in Nat \ {0}
  <2>1. PICK a : a = mem.audit
    OBVIOUS
  <2>2. PICK h : h = HeadHash(a)
    OBVIOUS
  <2>3. IsSeq(a) /\ a # <<>>
    BY <1>2, <1>3, <2>1 DEF ChainInv, Sound
  <2>4. Len(a) \in Nat \ {0}
    BY <2>3, SMT DEF IsSeq
  <2>5. cp = [head |-> h, count |-> Len(a)]
    BY <1>1, <2>1, <2>2
  <2> QED BY <2>4, <2>5
<1>7. WitnessInv'
  <2>1. mem' = mem /\ disk' = disk
    BY <1>2
  <2>2. /\ mem.witnessed \in Seq(signed) /\ Len(mem.witnessed) <= MaxWitnessed
        /\ \A i \in 1..Len(mem.witnessed) : Recorded(mem.witnessed[i], disk.audit)
        /\ \A x \in signed : x.count \in Nat \ {0}
    BY <1>3 DEF WitnessInv
  <2>3. ASSUME NEW X, NEW Y, X \subseteq Y, NEW s \in Seq(X) PROVE s \in Seq(Y)
    BY <2>3, SMT
  <2>4. mem.witnessed \in Seq(signed')
    BY <1>2, <2>2, <2>3
  <2> QED BY <1>2, <1>6, <2>1, <2>2, <2>4 DEF WitnessInv
<1>8. UNCHANGED <<tokens, lineage, revoked>> /\ mem'.revoked = mem.revoked
        /\ mem'.mounts = mem.mounts
  BY <1>2
<1> QED BY <1>2, <1>3, <1>5, <1>7, <1>8, TokensKept, MountsKept DEF AuthorityInv

\* A longer list of tokens is a list of the older ones still.
LEMMA TokensGrow ==
    ASSUME TokenInv, NEW t \in Token, NEW L, L \subseteq (tokens \union {t}) \X {t},
           tokens' = tokens \union {t}, lineage' = lineage \union L,
           \A p \in L : Descends(p[1], p[2]),
           mem' = mem, revoked' = revoked
    PROVE  TokenInv'
<1>1. tokens' \subseteq Token
  BY DEF TokenInv
<1>2. lineage' \subseteq tokens' \X tokens'
  BY DEF TokenInv
<1>3. \A p \in lineage' : Descends(p[1], p[2])
  BY DEF TokenInv
<1>4. ASSUME NEW X, NEW Y, X \subseteq Y, NEW s \in Seq(X) PROVE s \in Seq(Y)
  BY <1>4, SMT
<1>5. mem.revoked \in Seq(tokens')
  BY <1>4 DEF TokenInv
<1> QED BY <1>1, <1>2, <1>3, <1>5 DEF TokenInv

\* The blob and what is about mounts and witnesses, when a token is issued.
LEMMA IssueKept ==
    ASSUME AuthorityInv, TokenInv',
           UNCHANGED <<mem, disk, previousHash, mounted, signed, told, clock, mishaps>>
    PROVE  AuthorityInv' /\ Grows
<1>1. ChainInv /\ WitnessInv /\ TokenInv /\ MountInv
  BY DEF AuthorityInv
<1>2. /\ UNCHANGED <<mem, disk, previousHash, told, mishaps>> /\ clock' = clock
      /\ mounted' = mounted /\ signed' = signed /\ mem' = mem
  OBVIOUS
<1>3. clock' \in 0..MaxTime
  BY <1>1, <1>2 DEF ChainInv
<1>4. ChainInv' /\ Grows
  BY <1>1, <1>2, <1>3, IdleStep
<1> QED BY <1>1, <1>2, <1>4, WitnessKept, MountsKept DEF AuthorityInv

\* A grant contains itself.
LEMMA GrantsReflexive == ASSUME NEW g PROVE grantContains(g, g)
  BY DEF grantContains, ActionContains

\* A token is issued.
LEMMA MintStep ==
    ASSUME AuthorityInv, NEW k \in Keys, NEW s \in Subjects, NEW e \in Expiries,
           NEW g \in SUBSET Grants, MintCapabilityToken(k, s, e, g)
    PROVE  AuthorityInv' /\ Grows
<1>1. PICK t : t = [key |-> k, subject |-> s, expires |-> e, grants |-> g, caveats |-> <<>>]
  OBVIOUS
<1>2. /\ tokens' = tokens \union {t} /\ lineage' = lineage \union {<<t, t>>}
      /\ UNCHANGED <<mem, disk, previousHash, mounted, signed, told, clock, mishaps>>
      /\ mem' = mem /\ revoked' = revoked
  BY <1>1 DEF MintCapabilityToken
<1>3. t \in Token
  <2>1. <<>> \in Seq(Caveats)
    BY SMT
  <2> QED BY <1>1, <2>1 DEF Token
<1>4. Descends(t, t)
  BY GrantsReflexive DEF Descends
<1>5. TokenInv
  BY DEF AuthorityInv
<1>6. PICK L : L = {<<t, t>>}
  OBVIOUS
<1>7. L \subseteq (tokens \union {t}) \X {t} /\ \A p \in L : Descends(p[1], p[2])
  <2>1. <<t, t>> \in (tokens \union {t}) \X {t}
    OBVIOUS
  <2>2. <<t, t>>[1] = t /\ <<t, t>>[2] = t
    OBVIOUS
  <2> QED BY <1>4, <1>6, <2>1, <2>2
<1>8. TokenInv'
  BY <1>2, <1>3, <1>5, <1>6, <1>7, TokensGrow
<1> QED BY <1>2, <1>8, IssueKept

\* A token is attenuated: the child descends from the parent and from whatever
\* the parent descends from.
LEMMA AttenuateStep ==
    ASSUME AuthorityInv, NEW t \in tokens, NEW c \in Caveats, NEW wanted \in SUBSET Grants,
           Attenuate(t, c, wanted)
    PROVE  AuthorityInv' /\ Grows
<1>1. PICK G : G = Narrowed(t, wanted)
  OBVIOUS
<1>2. PICK child : child = [t EXCEPT !.grants = G, !.caveats = Append(@, c)]
  OBVIOUS
<1>3. PICK L : L = {<<child, child>>} \union {<<p[1], child>> : p \in {p \in lineage : p[2] = t}}
  OBVIOUS
<1>4. /\ tokens' = tokens \union {child}
      /\ lineage' = lineage \union {<<child, child>>}
                      \union {<<p[1], child>> : p \in {p \in lineage : p[2] = t}}
      /\ UNCHANGED <<mem, disk, previousHash, mounted, signed, told, clock, mishaps>>
      /\ mem' = mem /\ revoked' = revoked
  BY <1>1, <1>2 DEF Attenuate
<1>5. lineage' = lineage \union L
  BY <1>3, <1>4
<1>6. TokenInv
  BY DEF AuthorityInv
<1>7. t \in Token /\ tokens \subseteq Token
  BY <1>6 DEF TokenInv
<1>8. G \in SUBSET Grants /\ \A g \in G : \E h \in t.grants : grantContains(h, g)
  BY <1>1 DEF Narrowed
<1>9. /\ child \in Token /\ child.subject = t.subject /\ child.key = t.key
      /\ child.grants = G /\ child.caveats = Append(t.caveats, c)
  <2>1. ASSUME NEW K, NEW S, NEW E, NEW Gs, NEW C,
               NEW x \in [key : K, subject : S, expires : E, grants : Gs, caveats : C],
               NEW g \in Gs, NEW v \in C, NEW y, y = [x EXCEPT !.grants = g, !.caveats = v]
        PROVE  /\ y \in [key : K, subject : S, expires : E, grants : Gs, caveats : C]
               /\ y.subject = x.subject /\ y.key = x.key /\ y.grants = g /\ y.caveats = v
    <3>1. PICK z : z = [x EXCEPT !.grants = g]
      OBVIOUS
    <3>2. /\ z \in [key : K, subject : S, expires : E, grants : Gs, caveats : C]
          /\ z.subject = x.subject /\ z.key = x.key /\ z.grants = g
      BY ONLY <2>1, <3>1, SMT
    <3>3. y = [z EXCEPT !.caveats = v]
      BY <2>1, <3>1
    <3>4. /\ y \in [key : K, subject : S, expires : E, grants : Gs, caveats : C]
          /\ y.subject = z.subject /\ y.key = z.key /\ y.grants = z.grants /\ y.caveats = v
      BY ONLY <2>1, <3>2, <3>3, SMT
    <3> QED BY <3>2, <3>4
  <2>2. t.caveats \in Seq(Caveats)
    BY <1>7 DEF Token
  <2>3. PICK v \in Seq(Caveats) : v = Append(t.caveats, c)
    <3>1. \A s \in Seq(Caveats) : Append(s, c) \in Seq(Caveats)
      BY SMT
    <3> QED BY <2>2, <3>1
  <2>4. child = [t EXCEPT !.grants = G, !.caveats = v]
    BY <1>2, <2>3
  <2>5. child \in Token
    BY <1>7, <1>8, <2>1, <2>4 DEF Token
  <2>6. child.subject = t.subject /\ child.key = t.key /\ child.grants = G /\ child.caveats = v
    BY <1>7, <1>8, <2>1, <2>4 DEF Token
  <2> QED BY <2>3, <2>5, <2>6
<1>10. Descends(child, child)
  BY GrantsReflexive DEF Descends
<1>11. ASSUME NEW p \in tokens, Descends(p, t) PROVE Descends(p, child)
  <2>1. p \in Token
    BY <1>7, <1>11
  <2>2. p.subject = child.subject /\ p.key = child.key
    BY <1>9, <1>11 DEF Descends
  <2>3. Extends(child.caveats, p.caveats)
    <3>1. p.caveats \in Seq(Caveats) /\ t.caveats \in Seq(Caveats)
      BY <1>7, <2>1 DEF Token
    <3>2. p.caveats = t.caveats \/ Extends(t.caveats, p.caveats)
      BY <1>11 DEF Descends
    <3>3. c \in Caveats /\ child.caveats = Append(t.caveats, c)
      BY <1>9
    <3>4. Extends(Append(t.caveats, c), p.caveats)
      BY ONLY <3>1, <3>2, <3>3, ExtendsAppend, Zenon
    <3> QED BY ONLY <3>3, <3>4
  <2>4. \A g \in child.grants : \E h \in p.grants : grantContains(h, g)
    <3> SUFFICES ASSUME NEW g \in child.grants PROVE \E h \in p.grants : grantContains(h, g)
      OBVIOUS
    <3>1. PICK h \in t.grants : grantContains(h, g)
      BY <1>8, <1>9
    <3>2. PICK r \in p.grants : grantContains(r, h)
      BY <1>11 DEF Descends
    <3>3. r \in Grants /\ h \in Grants /\ g \in Grants \union Requests
      BY <1>7, <1>8, <1>9, <2>1 DEF Token
    <3> QED BY <3>1, <3>2, <3>3, GrantsTransitive
  <2> QED BY <2>2, <2>3, <2>4 DEF Descends
<1>12. ASSUME NEW p \in L
       PROVE  p \in (tokens \union {child}) \X {child} /\ Descends(p[1], p[2])
  <2>1. CASE p = <<child, child>>
    BY <1>10, <2>1
  <2>2. CASE p \in {<<q[1], child>> : q \in {q \in lineage : q[2] = t}}
    <3>1. PICK q \in lineage : q[2] = t /\ p = <<q[1], child>>
      BY <2>2
    <3>2. q[1] \in tokens /\ Descends(q[1], t)
      BY <1>6, <3>1 DEF TokenInv
    <3> QED BY <1>11, <3>1, <3>2
  <2> QED BY <1>3, <2>1, <2>2
<1>13. TokenInv'
  BY <1>4, <1>5, <1>6, <1>9, <1>12, TokensGrow
<1> QED BY <1>4, <1>13, IssueKept

INSTANCE FiniteSetTheorems

\* A restart: what was not written is gone, and every live application adds its
\* record to what was.
LEMMA LoadStep ==
    ASSUME ChainInv, Load
    PROVE  ChainInv' /\ Grows /\ SameRest(mem', mem)
<1>1. PICK new : new = Recovered
  OBVIOUS
<1>2. /\ Mishap /\ Len(disk.audit) + Cardinality(disk.live) <= MaxRecords
      /\ mem' = new /\ disk' = new /\ previousHash' = HeadHash(new.audit)
      /\ told' = told /\ clock' = clock
  BY <1>1 DEF Load
<1>3. /\ Sound(disk) /\ SameRest(mem, disk) /\ mem.live \in SUBSET Apps
      /\ told \subseteq Hashes(disk.audit) /\ mishaps \in 0..MaxMishaps
      /\ clock \in 0..MaxTime
  BY DEF ChainInv
<1>4. disk.live \in SUBSET Apps
  BY <1>3 DEF SameRest
<1>5. PICK n \in Nat : n = Cardinality(disk.live)
  BY <1>4, AuthorityAssumption, FS_Subset, FS_CardinalityType
<1>6. /\ Sound(new) /\ SameRest(new, disk)
      /\ new.seq = disk.seq + n /\ Len(new.audit) = Len(disk.audit) + n
      /\ Continues(new.audit, disk.audit)
  BY <1>1, <1>3, <1>5, RecoveredSound
<1>7. disk.seq \in Nat /\ Len(disk.audit) \in Nat /\ Len(new.audit) \in Nat /\ new.seq \in Nat
  BY <1>3, <1>6, SoundFacts
<1>8. disk.seq <= new.seq /\ new.seq <= new.seq /\ Len(new.audit) <= MaxRecords
  <2>1. \A d \in Nat : d <= d + n
    BY SMT
  <2>2. \A d \in Nat : d <= d
    BY SMT
  <2> QED BY <1>2, <1>5, <1>6, <1>7, <2>1, <2>2
<1>9. Continues(new.audit, new.audit) /\ told' \subseteq Hashes(new.audit)
  BY <1>2, <1>3, <1>6, <1>7, ContinuesTransitive, ContinuesHashes
<1>10. SameRest(new, new) /\ SameRest(new, mem) /\ new.live \in SUBSET Apps
  BY <1>3, <1>4, <1>6 DEF SameRest
<1>11. mishaps' \in 0..MaxMishaps
  BY <1>2, <1>3, MishapType
<1>12. ChainInv'
  BY <1>2, <1>3, <1>6, <1>8, <1>9, <1>10, <1>11 DEF ChainInv
<1> QED BY <1>2, <1>6, <1>8, <1>10, <1>12 DEF Grows

\* The steps that change nothing but the chain, and the clock.
LEMMA OtherStep ==
    ASSUME AuthorityInv, EscalateRefused \/ Load \/ TimePasses \/ UNCHANGED vars
    PROVE  AuthorityInv' /\ Grows
<1>1. UNCHANGED <<tokens, lineage, revoked, mounted, signed>>
  BY DEF EscalateRefused, Load, TimePasses, tokenVars, vars
<1>2. ChainInv
  BY DEF AuthorityInv
<1>3. ChainInv' /\ Grows /\ SameRest(mem', mem)
  <2>1. CASE EscalateRefused
    BY <1>2, <2>1, EscalateStep
  <2>2. CASE Load
    BY <1>2, <2>2, LoadStep
  <2>3. CASE TimePasses
    <3>1. UNCHANGED <<mem, disk, previousHash, told, mishaps>>
      BY <2>3 DEF TimePasses
    <3>2. clock < MaxTime /\ clock' = clock + 1 /\ clock \in 0..MaxTime
      BY <1>2, <2>3 DEF TimePasses, ChainInv
    <3>3. clock' \in 0..MaxTime
      BY <3>2, AuthorityAssumption, SMT
    <3> QED BY <1>2, <3>1, <3>3, IdleStep
  <2>4. CASE UNCHANGED vars
    <3>1. UNCHANGED <<mem, disk, previousHash, told, mishaps>> /\ clock' = clock
      BY <2>4 DEF vars
    <3>2. clock' \in 0..MaxTime
      BY <1>2, <3>1 DEF ChainInv
    <3> QED BY <1>2, <3>1, <3>2, IdleStep
  <2> QED BY <2>1, <2>2, <2>3, <2>4
<1> QED BY <1>1, <1>3, RestKept

----------------------------------------------------------------------------
(* The theorems.                                                           *)

\* The empty supervisor.
LEMMA AuthorityInit == Init => AuthorityInv
<1> SUFFICES ASSUME Init PROVE AuthorityInv
  OBVIOUS
<1>1. PICK b : b = [audit |-> <<>>, seq |-> 0, live |-> Apps, revoked |-> <<>>, mounts |-> {},
                    witnessed |-> <<>>]
  OBVIOUS
<1>2. /\ disk = b /\ mem = b /\ previousHash = NoHash /\ tokens = {} /\ lineage = {}
      /\ revoked = {} /\ mounted = {} /\ signed = {} /\ told = {} /\ clock = 0 /\ mishaps = 0
  BY <1>1 DEF Init
<1>3. Fields(b, <<>>, 0, Apps, <<>>, {}, <<>>)
  BY <1>1, FieldsOf
<1>4. /\ Len(<<>>) = 0 /\ 0 \in Nat /\ 0 <= 0 /\ \A i \in 1..0 : FALSE
  BY SMT
<1>5. IsSeq(<<>>) /\ \A S : <<>> \in Seq(S)
  BY SMT DEF IsSeq
<1>6. 0 <= MaxRecords /\ 0 <= MaxWitnessed /\ 0 <= MaxRevoked /\ 0 \in 0..MaxTime
        /\ 0 \in 0..MaxMishaps
  BY AuthorityAssumption, SMT
<1>7. VerifyAudit(<<>>)
  BY <1>4 DEF VerifyAudit
<1>8. Sound(b)
  BY <1>3, <1>4, <1>5, <1>7 DEF Sound, Fields
<1>9. Continues(<<>>, <<>>) /\ SameRest(b, b) /\ HeadHash(<<>>) = NoHash
  BY <1>4 DEF Continues, SameRest, HeadHash
<1>10. ChainInv
  BY <1>2, <1>3, <1>4, <1>6, <1>8, <1>9 DEF ChainInv, Fields
<1>11. WitnessInv
  BY <1>2, <1>3, <1>4, <1>5, <1>6 DEF WitnessInv, Fields
<1>12. TokenInv
  BY <1>2, <1>3, <1>4, <1>5, <1>6 DEF TokenInv, Fields
<1>13. MountInv
  BY <1>2, <1>3 DEF MountInv, Fields
<1> QED BY <1>10, <1>11, <1>12, <1>13 DEF AuthorityInv

\* Every step keeps the invariant, and the chain on disk goes on.
LEMMA AuthorityNext == ASSUME AuthorityInv, [Next]_vars PROVE AuthorityInv' /\ Grows
<1>1. ASSUME NEW k \in Keys, NEW s \in Subjects, NEW e \in Expiries,
             NEW g \in SUBSET Grants \ {{}}, MintCapabilityToken(k, s, e, g)
      PROVE  AuthorityInv' /\ Grows
  BY <1>1, MintStep
<1>2. ASSUME NEW t \in tokens, NEW c \in Caveats, NEW g \in SUBSET Grants \ {{}},
             Attenuate(t, c, g)
      PROVE  AuthorityInv' /\ Grows
  BY <1>2, AttenuateStep
<1>3. ASSUME NEW t \in tokens, RevokeCapabilityToken(t) PROVE AuthorityInv' /\ Grows
  BY <1>3, RevokeStep
<1>4. CASE checkToken
  BY <1>4, CheckStep
<1>5. ASSUME NEW app \in Apps, NEW where \in Mountable, NEW e \in Expiries,
             MountHostfs(app, where, e)
      PROVE  AuthorityInv' /\ Grows
  BY <1>5, MountStep
<1>6. ASSUME NEW m \in mem.mounts, UnmountHostfs(m) PROVE AuthorityInv' /\ Grows
  BY <1>6, UnmountStep
<1>7. CASE WitnessHead
  BY <1>7, HeadStep
<1>8. ASSUME NEW cp \in signed, RecordCosignature(cp) PROVE AuthorityInv' /\ Grows
  BY <1>8, CosignStep
<1>9. ASSUME NEW app \in Apps, RetireApplication(app) PROVE AuthorityInv' /\ Grows
  BY <1>9, RetireStep
<1>10. CASE EscalateRefused \/ Load \/ TimePasses \/ UNCHANGED vars
  BY <1>10, OtherStep
<1> QED BY <1>1, <1>2, <1>3, <1>4, <1>5, <1>6, <1>7, <1>8, <1>9, <1>10 DEF Next

\* The inductive invariant of the authority holds throughout: through failed
\* writes, restarts and records that were never written.
THEOREM AuthorityInvariant == Spec => []AuthorityInv
<1>1. AuthorityInv /\ [Next]_vars => AuthorityInv'
  BY AuthorityNext
<1> QED BY <1>1, AuthorityInit, PTL DEF Spec

\* The chain that a restart would load and the checkpoints in it always verify,
\* so do those in memory, the next record will name the last hash, and no record
\* behind an answer is lost, whatever writes fail.
THEOREM HistoryHoldsCorrect == Spec => []HistoryHolds
<1>1. ASSUME AuthorityInv PROVE HistoryHolds
  <2>1. ChainInv /\ WitnessInv /\ TokenInv
    BY <1>1 DEF AuthorityInv
  <2>2. /\ Sound(mem) /\ Sound(disk) /\ SameRest(mem, disk)
        /\ Continues(mem.audit, disk.audit) /\ Len(mem.audit) <= MaxRecords
        /\ mem.live \in SUBSET Apps /\ previousHash = HeadHash(mem.audit)
        /\ told \subseteq Hashes(disk.audit)
    BY <2>1 DEF ChainInv
  <2>3. Len(disk.audit) \in Nat /\ Len(mem.audit) \in Nat /\ mem.seq \in Nat /\ disk.seq \in Nat
    BY <2>2, SoundFacts
  <2>4. Len(disk.audit) <= MaxRecords
    <3>1. Len(disk.audit) <= Len(mem.audit)
      BY <2>2 DEF Continues
    <3> QED BY <2>2, <2>3, <3>1, AuthorityAssumption, SMTT(30)
  <2>5. mem.seq >= Len(mem.audit) /\ disk.seq >= Len(disk.audit)
    <3>1. Len(mem.audit) <= mem.seq /\ Len(disk.audit) <= disk.seq
      BY <2>2 DEF Sound
    <3> QED BY <2>3, <3>1, SMT
  <2>7. mem.revoked \in Seq(tokens) /\ mem.witnessed \in Seq(signed)
    BY <2>1 DEF TokenInv, WitnessInv
  <2>8. Len(mem.revoked) <= MaxRevoked /\ Len(mem.witnessed) <= MaxWitnessed
    BY <2>1 DEF TokenInv, WitnessInv
  <2>9. revoked \subseteq tokens
    <3>1. mem.revoked \in Seq(tokens)
      BY <2>1 DEF TokenInv
    <3>2. \A i \in 1..Len(mem.revoked) : mem.revoked[i] \in tokens
      BY <3>1, SMT
    <3> QED BY <2>1, <3>2 DEF TokenInv
  <2>10. /\ disk.live = mem.live /\ disk.revoked = mem.revoked
         /\ disk.witnessed = mem.witnessed
    BY <2>2 DEF SameRest
  <2>11. lineage \subseteq tokens \X tokens /\ clock \in 0..MaxTime /\ mishaps \in 0..MaxMishaps
    BY <2>1 DEF TokenInv, ChainInv
  <2>12. TypeOK
    BY <2>2, <2>4, <2>5, <2>7, <2>8, <2>9, <2>10, <2>11 DEF TypeOK
  <2>13. \A cp : Recorded(cp, disk.audit) => Recorded(cp, mem.audit)
    BY <2>2, <2>3, ContinuesHashes
  <2>14. \A i \in 1..Len(mem.witnessed) :
           /\ mem.witnessed[i] \in signed
           /\ Recorded(mem.witnessed[i], disk.audit) /\ Recorded(mem.witnessed[i], mem.audit)
    <3>1. mem.witnessed \in Seq(signed)
      BY <2>1 DEF WitnessInv
    <3>2. \A i \in 1..Len(mem.witnessed) : mem.witnessed[i] \in signed
      BY <3>1, SMT
    <3> QED BY <2>1, <2>13, <3>2 DEF WitnessInv
  <2>15. VerifyAudit(mem.audit) /\ VerifyAudit(disk.audit)
    BY <2>2 DEF Sound
  <2>16. VerifyWitness(mem)
    BY <2>14, <2>15 DEF VerifyWitness, Recorded
  <2>17. VerifyWitness(disk)
    BY <2>10, <2>14, <2>15 DEF VerifyWitness, Recorded
  <2> QED BY <2>2, <2>12, <2>16, <2>17 DEF HistoryHolds, Hashes
<1> QED BY <1>1, AuthorityInvariant, PTL

\* checkToken allows nothing that a token of the chain does not allow, or that
\* one was revoked for, for any grants, caveats and any length of chain.
THEOREM AllowedByChainCorrect == Spec => []AllowedByChain
<1>1. ASSUME AuthorityInv PROVE AllowedByChain
  <2> SUFFICES ASSUME NEW principal \in Subjects, NEW app \in Apps, NEW request \in Requests,
                      NEW t \in tokens, Allowed(principal, app, request, t),
                      NEW p \in lineage, p[2] = t
               PROVE  /\ p[1] \notin revoked
                      /\ p[1].subject = principal /\ Allows(p[1], request)
    BY DEF AllowedByChain
  <2>1. TokenInv
    BY <1>1 DEF AuthorityInv
  <2>2. t \in Token /\ p[1] \in Token /\ Descends(p[1], t)
    BY <2>1 DEF TokenInv
  <2>3. t # NoToken
    <3>1. DOMAIN t = {"key", "subject", "expires", "grants", "caveats"}
      BY <2>2 DEF Token
    <3>2. DOMAIN NoToken = {"subject"}
      BY DEF NoToken
    <3>3. "key" # "subject"
      OBVIOUS
    <3> QED BY <3>1, <3>2, <3>3
  <2>4. t.subject = principal /\ Allows(t, request) /\ ~tokenRevokedLocked(t)
    BY <2>3 DEF Allowed
  <2>5. p[1] \notin revoked
    <3> SUFFICES ASSUME p[1] \in revoked PROVE FALSE
      OBVIOUS
    <3>1. PICK i \in 1..Len(mem.revoked) : mem.revoked[i] = p[1]
      BY <2>1 DEF TokenInv
    <3>2. revokedBy(p[1], t)
      BY <2>2 DEF Descends, revokedBy, Extends
    <3> QED BY <2>4, <3>1, <3>2 DEF tokenRevokedLocked
  <2>6. Allows(p[1], request)
    <3>1. PICK g \in t.grants : grantContains(g, request)
      BY <2>4 DEF Allows
    <3>2. PICK h \in p[1].grants : grantContains(h, g)
      BY <2>2 DEF Descends
    <3>3. h \in Grants /\ g \in Grants /\ request \in Grants \union Requests
      BY <2>2 DEF Token
    <3> QED BY <3>1, <3>2, <3>3, GrantsTransitive DEF Allows
  <2> QED BY <2>2, <2>4, <2>5, <2>6 DEF Descends
<1> QED BY <1>1, AuthorityInvariant, PTL

\* CheckHostfs allows exactly what the mounts that were answered and not
\* unmounted allow, across failed writes and restarts.
THEOREM MountsHoldCorrect == Spec => []MountsHold
<1>1. ASSUME AuthorityInv PROVE MountsHold
  <2>1. mounted = {m \in mem.mounts : m.enabled}
    BY <1>1 DEF AuthorityInv, MountInv
  <2> QED BY <2>1 DEF MountsHold, CheckHostfs
<1> QED BY <1>1, AuthorityInvariant, PTL

\* The chain on disk is append-only: no write, failed write or restart drops or
\* changes a record that was written.
THEOREM ChainAppendOnly == Spec => [][Grows]_vars
<1>1. AuthorityInv /\ [Next]_vars => Grows
  BY AuthorityNext
<1> QED BY <1>1, AuthorityInvariant, PTL DEF Spec
=============================================================================
