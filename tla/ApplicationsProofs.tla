------------------------- MODULE ApplicationsProofs -------------------------
(***************************************************************************)
(* The theorems about applications and the context store: contexts are     *)
(* distinct, taint follows content, and the store implements ContextLog.   *)
(***************************************************************************)
EXTENDS Applications, TLAPS

\* Most steps rearrange first-order facts; the few that compute cite SMT.
USE ZenonT(30)

----------------------------------------------------------------------------
(* Sequences of anything.                                                  *)

\* A sequence, whatever its elements.
IsSeq(s) == s \in Seq({s[i] : i \in 1..Len(s)})

LEMMA SeqIsSeq == ASSUME NEW S, NEW s \in Seq(S) PROVE IsSeq(s) /\ Len(s) \in Nat
  BY SMT DEF IsSeq

LEMMA IsSeqLen == ASSUME NEW s, IsSeq(s) PROVE Len(s) \in Nat /\ DOMAIN s = 1..Len(s)
  BY SMT DEF IsSeq

\* One more element.
LEMMA AppendAny ==
    ASSUME NEW s, IsSeq(s), NEW e
    PROVE  /\ IsSeq(Append(s, e)) /\ Len(s) \in Nat /\ Len(Append(s, e)) = Len(s) + 1
           /\ \A i \in 1..Len(s) : Append(s, e)[i] = s[i]
           /\ Append(s, e)[Len(s) + 1] = e
<1> DEFINE S == {s[i] : i \in 1..Len(s)} \cup {e}
<1>1. s \in Seq(S) /\ e \in S
  BY SMT DEF IsSeq
<1> HIDE DEF S
<1>2. Append(s, e) \in Seq(S) /\ Len(Append(s, e)) = Len(s) + 1 /\ Len(s) \in Nat
  BY <1>1, SMT
<1>3. \A i \in 1..Len(s) : Append(s, e)[i] = s[i]
  BY <1>1, SMT
<1>4. Append(s, e)[Len(s) + 1] = e
  BY <1>1, SMT
<1> QED BY <1>2, <1>3, <1>4, SeqIsSeq

\* A function on 1..n is a sequence.
LEMMA FunctionIsSeq ==
    ASSUME NEW n \in Nat, NEW f, f = [i \in 1..n |-> f[i]]
    PROVE  IsSeq(f) /\ Len(f) = n
<1> DEFINE S == {f[i] : i \in 1..n}
<1>1. f \in [1..n -> S]
  OBVIOUS
<1> HIDE DEF S
<1>2. f \in Seq(S)
  BY <1>1, SMT
<1>3. DOMAIN f = 1..n /\ DOMAIN f = 1..Len(f) /\ Len(f) \in Nat
  BY <1>1, <1>2, SMT
<1>4. Len(f) = n
  BY <1>3, SMT
<1> QED BY <1>2, <1>4, SeqIsSeq

\* An element is replaced.
LEMMA ExceptAny ==
    ASSUME NEW s, IsSeq(s), NEW k \in 1..Len(s), NEW e
    PROVE  /\ IsSeq([s EXCEPT ![k] = e]) /\ Len([s EXCEPT ![k] = e]) = Len(s)
           /\ [s EXCEPT ![k] = e][k] = e
           /\ \A i \in 1..Len(s) : i # k => [s EXCEPT ![k] = e][i] = s[i]
<1>1. PICK n \in Nat : n = Len(s) /\ DOMAIN s = 1..n
  BY IsSeqLen
<1>2. PICK t : t = [s EXCEPT ![k] = e]
  OBVIOUS
<1>3. t = [i \in 1..n |-> t[i]] /\ t[k] = e /\ \A i \in 1..n : i # k => t[i] = s[i]
  BY <1>1, <1>2
<1>4. IsSeq(t) /\ Len(t) = n
  BY <1>3, FunctionIsSeq
<1> QED BY <1>1, <1>2, <1>3, <1>4

LEMMA TypedExcept ==
    ASSUME NEW S, NEW s \in Seq(S), NEW k \in 1..Len(s), NEW e \in S
    PROVE  /\ [s EXCEPT ![k] = e] \in Seq(S) /\ Len([s EXCEPT ![k] = e]) = Len(s)
           /\ [s EXCEPT ![k] = e][k] = e
           /\ \A i \in 1..Len(s) : i # k => [s EXCEPT ![k] = e][i] = s[i]
  BY SMT

LEMMA TypedAppend ==
    ASSUME NEW S, NEW s \in Seq(S), NEW e \in S
    PROVE  /\ Append(s, e) \in Seq(S) /\ Len(s) \in Nat /\ Len(Append(s, e)) = Len(s) + 1
           /\ Append(s, e)[Len(s) + 1] = e
           /\ \A i \in 1..Len(s) : Append(s, e)[i] = s[i]
  BY SMT

\* A sequence is what it was with one more element.
LEMMA AppendIs ==
    ASSUME NEW f, IsSeq(f), NEW g, IsSeq(g), NEW e, Len(g) = Len(f) + 1,
           \A i \in 1..Len(f) : g[i] = f[i], g[Len(f) + 1] = e
    PROVE  g = Append(f, e)
<1>1. PICK n \in Nat : n = Len(f)
  BY IsSeqLen
<1>2. PICK h : h = Append(f, e)
  OBVIOUS
<1>3. IsSeq(h) /\ Len(h) = n + 1 /\ (\A i \in 1..n : h[i] = f[i]) /\ h[n + 1] = e
  <2>1. /\ IsSeq(Append(f, e)) /\ Len(Append(f, e)) = Len(f) + 1
        /\ \A i \in 1..Len(f) : Append(f, e)[i] = f[i]
        /\ Append(f, e)[Len(f) + 1] = e
    BY ONLY IsSeq(f), AppendAny
  <2> QED BY <1>1, <1>2, <2>1
<1>4. \A i \in 1..(n + 1) : i \in 1..n \/ i = n + 1
  BY SMT
<1>5. \A i \in 1..(n + 1) : g[i] = h[i]
  BY <1>1, <1>3, <1>4
<1>6. g = [i \in 1..(n + 1) |-> g[i]]
  BY <1>1, SMT DEF IsSeq
<1>7. h = [i \in 1..(n + 1) |-> h[i]]
  BY <1>3, SMT DEF IsSeq
<1> QED BY <1>2, <1>5, <1>6, <1>7

----------------------------------------------------------------------------
(* The content of pages.                                                   *)

DataHashes == {"data"} \X Seq(Data)
Tails      == DataHashes \union {NoTail}

\* What a hash of data, or no tail, holds.
LEMMA HashData ==
    /\ \A h \in DataHashes : h = DataHash(h[2]) /\ h[2] \in Seq(Data) /\ h # NoTail
    /\ \A h \in Tails : h[2] \in Seq(Data)
    /\ NoTail[2] = <<>>
    /\ \A s : DataHash(s)[2] = s
    /\ \A s \in Seq(Data) : DataHash(s) \in DataHashes
<1>1. ASSUME NEW h \in DataHashes
      PROVE  h = DataHash(h[2]) /\ h[2] \in Seq(Data) /\ h # NoTail
  <2>1. h[1] = "data" /\ h = <<h[1], h[2]>> /\ h[2] \in Seq(Data)
    BY SMT DEF DataHashes
  <2>2. NoTail[1] = "null"
    BY DEF NoTail
  <2> QED BY <2>1, <2>2 DEF DataHash
<1>2. NoTail[2] = <<>>
  BY DEF NoTail
<1>3. <<>> \in Seq(Data)
  BY SMT
<1>4. \A s : DataHash(s)[2] = s
  BY DEF DataHash
<1>5. \A s \in Seq(Data) : DataHash(s) \in DataHashes
  BY DEF DataHash, DataHashes
<1> QED BY <1>1, <1>2, <1>3, <1>4, <1>5 DEF Tails

\* What the steps need to know of Content, a recursion over the pages: a
\* context without pages and tail is empty, an append to the tail is one to the
\* content, and sealing the tail changes nothing.  It is shown by induction
\* below, where the library of induction is instantiated.
ContentLaw ==
    /\ Content(<<>>, NoTail) = <<>>
    /\ \A p \in Seq(DataHashes) :
         /\ \A t \in Tails : Content(p, t) \in Seq(Data)
         /\ \A t \in Tails, d \in Data :
              Content(p, DataHash(Append(t[2], d))) = Append(Content(p, t), d)
         /\ \A t \in DataHashes : Content(Append(p, t), NoTail) = Content(p, t)

\* The content holds data of X.
HasTaint(content, X) == \E i \in 1..Len(content) : content[i] \in X

\* One more datum.
LEMMA TaintAppend ==
    ASSUME NEW s \in Seq(Data), NEW d \in Data, NEW X, HasTaint(Append(s, d), X)
    PROVE  HasTaint(s, X) \/ d \in X
<1>1. PICK n \in Nat : n = Len(s)
  BY SMT
<1>2. PICK t : t = Append(s, d)
  OBVIOUS
<1>3. Len(t) = n + 1 /\ t[n + 1] = d /\ \A i \in 1..n : t[i] = s[i]
  BY <1>1, <1>2, SMT
<1>4. PICK i \in 1..(n + 1) : t[i] \in X
  BY <1>2, <1>3 DEF HasTaint
<1>5. i \in 1..n \/ i = n + 1
  BY SMT
<1> QED BY <1>1, <1>3, <1>4, <1>5 DEF HasTaint

----------------------------------------------------------------------------
(* The invariants.                                                         *)

Snaps      == [ctx : Nat, prefix : Seq(DataHashes), tail : Tails]
SnapHashes == {"snap"} \X Snaps

\* A grant is of a checkpoint's snapshot or of an artifact's datum.
Checkpoints == Nat \X SnapHashes \X {"checkpoint"}
Artifacts   == Nat \X {DataHash(<<d>>) : d \in Data} \X {"artifact"}

\* Every commit's key is in the idempotency table of its context.
Tabled(C, O, n) ==
    \A i \in 1..Len(C) : C[i].ctx \in 1..n /\ C[i].key \in DOMAIN O[C[i].ctx]

\* The tables fit together.
StoreInv ==
    /\ owner \in Seq(Owners) /\ Len(owner) <= MaxContexts
    /\ tail \in Seq(Tails) /\ Len(tail) = Len(owner)
    /\ pages \in Seq(Seq(DataHashes)) /\ Len(pages) = Len(owner)
    /\ IsSeq(operations) /\ Len(operations) = Len(owner)
    /\ IsSeq(commits) /\ Len(commits) <= MaxCommits
    /\ Tabled(commits, operations, Len(owner))
    /\ grants \subseteq Checkpoints \union Artifacts
    /\ \A g \in grants : g[1] \in Context
    /\ DOMAIN blobs \subseteq DataHashes \union SnapHashes

\* What the store looks like as a ContextLog.
LogOf   == [c \in Context |-> ContextContent(c)]
SavedOf == [c \in Context |-> Saved(c)]
FilesOf == [c \in Context |-> Files(c)]
FeedOf  == [i \in 1..Len(commits) |->
                [ctx |-> commits[i].ctx, kind |-> commits[i].kind, key |-> commits[i].key]]

\* The contexts that hold data they tell of, or can restore it.
Dirty(c) == \E content \in Saved(c) \union {ContextContent(c)} : HasTaint(content, Telling(dropped, c))
DirtySet == {c \in Context : Dirty(c)}

App == [owner : Owners, ctx : Nat, kernel : Nat, tainted : BOOLEAN, live : BOOLEAN,
        turn : Turns, turns : Nat]

\* The application knows of what its context tells.
Told(app, D) == app.ctx \in D => app.tainted

\* It knows before the context does: from the claim on of what the message
\* declares, and of what an answer tells before it is frozen.
Owes(app, R) ==
    /\ app.turn \in Telling(R, app.ctx) => app.tainted
    /\ app.turn = "tainted" => app.tainted

\* So it is for applications A, whose answers in hand are w.
Owed(A, w, R) ==
    /\ \A a \in DOMAIN A : Owes(A[a], R)
    /\ DOMAIN w \subseteq DOMAIN A
    /\ \A a \in DOMAIN w : w[a] \in Telling(R, A[a].ctx) => A[a].tainted

\* Applications A, of n ids drawn, fit contexts owned by W and dirty in D; no
\* kernel id above k is in use.
Fits(A, n, W, D, k) ==
    /\ A \in [DOMAIN A -> App] /\ DOMAIN A \subseteq 1..n
    /\ \A a \in DOMAIN A :
         /\ A[a].ctx \in 1..Len(W) /\ W[A[a].ctx] = A[a].owner
         /\ A[a].kernel <= k
         /\ Told(A[a], D)
    /\ \A a, b \in DOMAIN A : a # b => A[a].ctx # A[b].ctx /\ A[a].kernel # A[b].kernel

\* No id that is still to be drawn names a fork.
ForkKeys ==
    \A c \in Context : \A key \in DOMAIN operations[c] : key[1] = "fork" => key[2] \in 1..issued

\* Memory and disk differ in the kernel ids that were drawn in vain.
AppInv ==
    /\ StoreInv
    /\ mem \in [apps : {mem.apps}, nextKernel : Nat]
    /\ disk \in [apps : {mem.apps}, nextKernel : 0..mem.nextKernel]
    /\ Fits(mem.apps, issued, owner, DirtySet, disk.nextKernel)
    /\ Owed(mem.apps, worker, dropped)
    /\ ForkKeys
    /\ lock \in Apps \union {0} /\ issued \in 0..MaxApps /\ mishaps \in 0..MaxMishaps

----------------------------------------------------------------------------
(* The tables.                                                             *)

\* One more commit, with a key that its context's table has by now.
LEMMA TabledGrows ==
    ASSUME NEW C, IsSeq(C), NEW O, NEW n \in Nat, Tabled(C, O, n),
           NEW P, NEW m \in Nat, n <= m, \A b \in 1..n : DOMAIN O[b] \subseteq DOMAIN P[b],
           NEW r, r.ctx \in 1..m, r.key \in DOMAIN P[r.ctx]
    PROVE  Tabled(Append(C, r), P, m)
<1>1. PICK E : E = Append(C, r)
  OBVIOUS
<1>2. PICK k \in Nat : k = Len(C)
  BY AppendAny
<1>3. Len(E) = k + 1 /\ E[k + 1] = r /\ \A i \in 1..k : E[i] = C[i]
  BY <1>1, <1>2, AppendAny
<1>4. \A i \in 1..(k + 1) : i \in 1..k \/ i = k + 1
  BY SMT
<1>5. \A b \in 1..n : b \in 1..m
  BY SMT
<1>6. ASSUME NEW i \in 1..Len(E) PROVE E[i].ctx \in 1..m /\ E[i].key \in DOMAIN P[E[i].ctx]
  <2>1. CASE i \in 1..k
    <3>1. E[i] = C[i] /\ C[i].ctx \in 1..n /\ C[i].key \in DOMAIN O[C[i].ctx]
      BY <1>2, <1>3, <2>1 DEF Tabled
    <3> QED BY <1>5, <3>1
  <2>2. CASE i = k + 1
    BY <1>3, <2>2
  <2> QED BY <1>3, <1>4, <2>1, <2>2
<1> QED BY <1>1, <1>6 DEF Tabled

\* A row of the idempotency table.
Row(O, c, key, v) == [O EXCEPT ![c] = With(@, key, v)]

LEMMA RowAdded ==
    ASSUME NEW O, IsSeq(O), NEW c \in 1..Len(O), NEW key, NEW v
    PROVE  /\ IsSeq(Row(O, c, key, v)) /\ Len(Row(O, c, key, v)) = Len(O)
           /\ DOMAIN Row(O, c, key, v)[c] = DOMAIN O[c] \union {key}
           /\ \A b \in 1..Len(O) : b # c => Row(O, c, key, v)[b] = O[b]
<1>0. PICK P : P = Row(O, c, key, v)
  OBVIOUS
<1>1. PICK f : f = With(O[c], key, v)
  OBVIOUS
<1>2. P = [O EXCEPT ![c] = f]
  BY <1>0, <1>1 DEF Row
<1>3. IsSeq(P) /\ Len(P) = Len(O) /\ P[c] = f /\ \A b \in 1..Len(O) : b # c => P[b] = O[b]
  <2>1. /\ IsSeq([O EXCEPT ![c] = f]) /\ Len([O EXCEPT ![c] = f]) = Len(O)
        /\ [O EXCEPT ![c] = f][c] = f
        /\ \A b \in 1..Len(O) : b # c => [O EXCEPT ![c] = f][b] = O[b]
    BY ONLY IsSeq(O), c \in 1..Len(O), ExceptAny
  <2> QED BY <1>2, <2>1
<1>4. DOMAIN f = DOMAIN O[c] \union {key}
  BY <1>1 DEF With
<1> QED BY <1>0, <1>3, <1>4

\* A commit is one more entry of the feed.
LEMMA FeedGrows ==
    ASSUME IsSeq(commits), NEW c, NEW kind, NEW h, NEW key,
           commits' = Append(commits, [ctx |-> c, kind |-> kind, handle |-> h, key |-> key])
    PROVE  FeedOf' = Append(FeedOf, [ctx |-> c, kind |-> kind, key |-> key])
<1>1. PICK C : C = commits
  OBVIOUS
<1>2. PICK r : r = [ctx |-> c, kind |-> kind, handle |-> h, key |-> key]
  OBVIOUS
<1>3. PICK E : E = Append(C, r)
  OBVIOUS
<1>4. PICK k \in Nat : k = Len(C)
  BY <1>1, AppendAny
<1>5. Len(E) = k + 1 /\ E[k + 1] = r /\ \A i \in 1..k : E[i] = C[i]
  <2>1. IsSeq(C)
    BY <1>1
  <2> QED BY <1>3, <1>4, <2>1, AppendAny
<1>6. PICK f : f = [i \in 1..k |-> [ctx |-> C[i].ctx, kind |-> C[i].kind, key |-> C[i].key]]
  OBVIOUS
<1>7. PICK g : g = [i \in 1..(k + 1) |-> [ctx |-> E[i].ctx, kind |-> E[i].kind, key |-> E[i].key]]
  OBVIOUS
<1>8. f = FeedOf
  BY <1>1, <1>4, <1>6 DEF FeedOf
<1>9. g = FeedOf'
  BY <1>1, <1>2, <1>3, <1>5, <1>7 DEF FeedOf
<1>10. \A i \in 1..k : i \in 1..(k + 1)
  BY SMT
<1>11. k + 1 \in 1..(k + 1)
  BY SMT
<1>12. f = [i \in 1..k |-> f[i]]
  BY <1>6
<1>13. g = [i \in 1..(k + 1) |-> g[i]]
  BY <1>7
<1>14. \A i \in 1..k : g[i] = f[i]
  BY <1>5, <1>6, <1>7, <1>10
<1>15. g[k + 1] = [ctx |-> c, kind |-> kind, key |-> key]
  <2>1. r.ctx = c /\ r.kind = kind /\ r.key = key
    BY <1>2
  <2> QED BY <1>5, <1>7, <1>11, <2>1
<1>16. g = Append(f, [ctx |-> c, kind |-> kind, key |-> key])
  <2>1. IsSeq(f) /\ Len(f) = k
    BY <1>12, FunctionIsSeq
  <2>2. k + 1 \in Nat
    BY SMT
  <2>3. IsSeq(g) /\ Len(g) = k + 1
    BY <1>13, <2>2, FunctionIsSeq
  <2>4. PICK e : e = [ctx |-> c, kind |-> kind, key |-> key]
    OBVIOUS
  <2> HIDE DEF FeedOf
  <2> QED BY <1>14, <1>15, <2>1, <2>3, <2>4, AppendIs
<1> QED BY <1>8, <1>9, <1>16

\* A key that the context's table does not have is not in the feed.
LEMMA UnusedFresh ==
    ASSUME StoreInv, NEW c, NEW key, ~Used(c, key)
    PROVE  Log!Fresh(c, key)
<1>1. IsSeq(commits) /\ Len(commits) \in Nat
  BY IsSeqLen DEF StoreInv
<1>2. FeedOf = [i \in 1..Len(commits) |->
                  [ctx |-> commits[i].ctx, kind |-> commits[i].kind, key |-> commits[i].key]]
  BY DEF FeedOf
<1>3. \A i \in 1..Len(commits) : FeedOf[i].ctx = commits[i].ctx /\ FeedOf[i].key = commits[i].key
  BY <1>2
<1>4. Len(FeedOf) = Len(commits)
  BY <1>1, <1>2, SMT
<1>5. \A i \in 1..Len(commits) : commits[i].ctx = c => commits[i].key # key
  BY DEF StoreInv, Tabled, Used
<1>6. \A i \in 1..Len(FeedOf) : FeedOf[i].ctx = c => FeedOf[i].key # key
  BY <1>3, <1>4, <1>5
<1> QED BY <1>6 DEF Log!Fresh, FeedOf

\* Only this key is new in the idempotency table.
KeysGrow(key) ==
    \A b \in Context' : \A k \in DOMAIN operations'[b] :
        (b \in Context /\ k \in DOMAIN operations[b]) \/ k = key

\* mutate adds its rows.
LEMMA BindStep ==
    ASSUME StoreInv, NEW c \in Context, NEW key, NEW kind, NEW input, NEW result,
           ~Used(c, key), Len(commits) < MaxCommits, owner' = owner,
           Bind(c, key, kind, input, result)
    PROVE  /\ IsSeq(operations') /\ Len(operations') = Len(owner)
           /\ IsSeq(commits') /\ Len(commits') <= MaxCommits
           /\ Tabled(commits', operations', Len(owner))
           /\ KeysGrow(key) /\ Log!Effect(c, kind, key)
<1>1. PICK O : O = operations
  OBVIOUS
<1>2. PICK P : P = operations'
  OBVIOUS
<1>3. PICK n \in Nat : n = Len(owner)
  BY SMT DEF StoreInv
<1>4. IsSeq(O) /\ Len(O) = n /\ c \in 1..Len(O) /\ Context = 1..n /\ Context' = 1..n
  BY <1>1, <1>3 DEF StoreInv, Context
<1>5. PICK v : v = Operation(kind, input, result)
  OBVIOUS
<1>6. P = Row(O, c, key, v)
  BY <1>1, <1>2, <1>5 DEF Bind, Row
<1>7. /\ IsSeq(P) /\ Len(P) = Len(O)
      /\ DOMAIN P[c] = DOMAIN O[c] \union {key}
      /\ \A b \in 1..Len(O) : b # c => P[b] = O[b]
  <2>1. /\ IsSeq(Row(O, c, key, v)) /\ Len(Row(O, c, key, v)) = Len(O)
        /\ DOMAIN Row(O, c, key, v)[c] = DOMAIN O[c] \union {key}
        /\ \A b \in 1..Len(O) : b # c => Row(O, c, key, v)[b] = O[b]
    BY ONLY <1>4, RowAdded
  <2> QED BY ONLY <1>6, <2>1
<1>8. PICK r : r = [ctx |-> c, kind |-> kind, handle |-> result, key |-> key]
  OBVIOUS
<1>9. commits' = Append(commits, r) /\ r.ctx = c /\ r.key = key
  BY <1>8 DEF Bind
<1>10. PICK C : C = commits
  OBVIOUS
<1>11. IsSeq(C) /\ Tabled(C, O, n) /\ Len(C) <= MaxCommits
  BY <1>1, <1>3, <1>10 DEF StoreInv
<1>12. IsSeq(Append(C, r)) /\ Len(C) \in Nat /\ Len(Append(C, r)) = Len(C) + 1
  BY ONLY <1>11, AppendAny
<1>13. Len(C) + 1 <= MaxCommits
  <2>1. Len(C) < MaxCommits /\ MaxCommits \in Nat
    BY <1>10, ContextStoreAssumption
  <2> QED BY <1>12, <2>1, SMT
<1>14. Tabled(Append(C, r), P, n)
  <2>1. n <= n
    BY SMT
  <2>2. \A b \in 1..n : DOMAIN O[b] \subseteq DOMAIN P[b]
    BY <1>4, <1>7
  <2>3. r.ctx \in 1..n /\ r.key \in DOMAIN P[r.ctx]
    BY <1>4, <1>7, <1>9
  <2> QED BY ONLY <1>11, n \in Nat, <2>1, <2>2, <2>3, TabledGrows
<1>15. KeysGrow(key)
  BY <1>1, <1>2, <1>4, <1>7 DEF KeysGrow
<1>16. Log!Effect(c, kind, key)
  <2>1. Log!Fresh(c, key)
    BY UnusedFresh
  <2>2. commits' = Append(commits, [ctx |-> c, kind |-> kind, handle |-> result, key |-> key])
    BY DEF Bind
  <2>3. FeedOf' = Append(FeedOf, [ctx |-> c, kind |-> kind, key |-> key])
    BY <1>10, <1>11, <2>2, FeedGrows
  <2> QED BY <2>1, <2>3 DEF Log!Effect, FeedOf
<1> QED BY <1>2, <1>3, <1>4, <1>7, <1>9, <1>10, <1>12, <1>13, <1>14, <1>15, <1>16

\* A blob is put where it may already be.
LEMMA BlobStep ==
    ASSUME NEW h, NEW H, DOMAIN blobs \subseteq H, h \in H, putContextBlob(h)
    PROVE  DOMAIN blobs' \subseteq H
<1>1. CASE h \in DOMAIN blobs
  BY <1>1 DEF putContextBlob
<1>2. CASE h \notin DOMAIN blobs
  <2>1. blobs' = With(blobs, h, h)
    BY <1>2 DEF putContextBlob
  <2>2. DOMAIN With(blobs, h, h) = DOMAIN blobs \union {h}
    BY DEF With
  <2> QED BY <2>1, <2>2
<1> QED BY <1>1, <1>2

\* The fields of the store's tables, at one context.
LEMMA StoreFields ==
    ASSUME StoreInv, NEW c \in Context
    PROVE  tail[c] \in Tails /\ pages[c] \in Seq(DataHashes)
<1>1. c \in 1..Len(tail) /\ c \in 1..Len(pages) /\ tail \in Seq(Tails) /\ pages \in Seq(Seq(DataHashes))
  BY DEF StoreInv, Context
<1> QED BY <1>1, SMT

LEMMA AppendDataStep ==
    ASSUME ContentLaw, StoreInv, NEW o, NEW c, NEW key, NEW d \in Data, AppendData(o, c, key, d)
    PROVE  /\ StoreInv' /\ owner' = owner /\ c \in Context /\ KeysGrow(key)
           /\ LogOf' = [LogOf EXCEPT ![c] = Append(@, d)]
           /\ SavedOf' = SavedOf /\ FilesOf' = FilesOf
           /\ Log!Effect(c, "append", key)
<1> DEFINE previous == IF tail[c] = NoTail THEN <<>> ELSE blobs[tail[c]][2]
<1>1. /\ c \in Context /\ ~Used(c, key) /\ Len(commits) < MaxCommits
      /\ tail[c] # NoTail => contextBlob(tail[c])
      /\ owner' = owner /\ pages' = pages /\ grants' = grants
  BY DEF AppendData, FirstUse, authorizeContext
<1>2. tail[c] \in Tails /\ pages[c] \in Seq(DataHashes)
  BY <1>1, StoreFields
<1>3. previous = tail[c][2]
  BY <1>1, HashData DEF contextBlob
<1> HIDE DEF previous
<1>4. PICK hash : hash = DataHash(Append(tail[c][2], d))
  OBVIOUS
<1>5. /\ putContextBlob(hash) /\ tail' = [tail EXCEPT ![c] = hash]
      /\ Bind(c, key, "append", d, hash)
  BY <1>3, <1>4 DEF AppendData, previous
<1>6. hash \in DataHashes
  <2>1. PICK s \in Seq(Data) : s = tail[c][2]
    BY <1>2, HashData
  <2>2. Append(s, d) \in Seq(Data)
    BY SMT
  <2> QED BY <1>4, <2>1, <2>2, HashData
<1>7. tail \in Seq(Tails) /\ hash \in Tails /\ c \in 1..Len(tail) /\ Context = 1..Len(tail)
  BY <1>1, <1>6 DEF StoreInv, Tails, Context
<1>8. /\ tail' \in Seq(Tails) /\ Len(tail') = Len(tail)
      /\ tail'[c] = hash /\ \A b \in Context : b # c => tail'[b] = tail[b]
  <2>1. /\ [tail EXCEPT ![c] = hash] \in Seq(Tails) /\ Len([tail EXCEPT ![c] = hash]) = Len(tail)
        /\ [tail EXCEPT ![c] = hash][c] = hash
        /\ \A b \in 1..Len(tail) : b # c => [tail EXCEPT ![c] = hash][b] = tail[b]
    BY ONLY <1>7, TypedExcept
  <2> QED BY <1>5, <1>7, <2>1
<1>9. /\ IsSeq(operations') /\ Len(operations') = Len(owner)
      /\ IsSeq(commits') /\ Len(commits') <= MaxCommits
      /\ Tabled(commits', operations', Len(owner))
      /\ KeysGrow(key) /\ Log!Effect(c, "append", key)
  BY <1>1, <1>5, BindStep
<1>10. DOMAIN blobs' \subseteq DataHashes \union SnapHashes
  <2>1. DOMAIN blobs \subseteq DataHashes \union SnapHashes /\ hash \in DataHashes \union SnapHashes
    BY <1>6 DEF StoreInv
  <2> QED BY <1>5, <2>1, BlobStep
<1>11. StoreInv'
  BY <1>1, <1>8, <1>9, <1>10 DEF StoreInv, Context
<1>12. Content(pages[c], hash) = Append(Content(pages[c], tail[c]), d)
  BY <1>2, <1>4 DEF ContentLaw
<1>13. LogOf' = [LogOf EXCEPT ![c] = Append(@, d)]
  BY <1>1, <1>8, <1>12 DEF LogOf, ContextContent, Context
<1>14. SavedOf' = SavedOf /\ FilesOf' = FilesOf
  BY <1>1 DEF SavedOf, FilesOf, Saved, Files, Context
<1> QED BY <1>1, <1>9, <1>11, <1>13, <1>14

----------------------------------------------------------------------------
(* Grants.                                                                 *)

\* Saved and Files, of a table of grants.
SavedIn(G, c) == {Content(g[2][2].prefix, g[2][2].tail) :
                    g \in {g \in G : g[1] = c /\ g[3] = "checkpoint"}}
FilesIn(G, c) == {g[2][2][1] : g \in {g \in G : g[1] = c /\ g[3] = "artifact"}}

CheckpointOf(c, s) == <<c, SnapHash(s), "checkpoint">>
ArtifactOf(c, d)   == <<c, DataHash(<<d>>), "artifact">>

\* One more checkpoint.
LEMMA CheckpointGrant ==
    ASSUME NEW G, NEW c, NEW s
    PROVE  LET g == CheckpointOf(c, s)
           IN  /\ SavedIn(G \union {g}, c) = SavedIn(G, c) \union {Content(s.prefix, s.tail)}
               /\ \A b : b # c => SavedIn(G \union {g}, b) = SavedIn(G, b)
               /\ \A b : FilesIn(G \union {g}, b) = FilesIn(G, b)
<1>0. PICK g : g = CheckpointOf(c, s)
  OBVIOUS
<1>1. g[1] = c /\ g[2] = SnapHash(s) /\ g[3] = "checkpoint" /\ g[2][2] = s
  BY <1>0 DEF SnapHash, CheckpointOf
<1>2. "checkpoint" # "artifact"
  OBVIOUS
<1>3. SavedIn(G \union {g}, c) = SavedIn(G, c) \union {Content(s.prefix, s.tail)}
  BY <1>1 DEF SavedIn
<1>4. ASSUME NEW b, b # c PROVE SavedIn(G \union {g}, b) = SavedIn(G, b)
  BY <1>1, <1>4 DEF SavedIn
<1>5. ASSUME NEW b PROVE FilesIn(G \union {g}, b) = FilesIn(G, b)
  BY <1>1, <1>2 DEF FilesIn
<1> QED BY <1>0, <1>3, <1>4, <1>5

\* One more artifact.
LEMMA ArtifactGrant ==
    ASSUME NEW G, NEW c, NEW d
    PROVE  LET g == ArtifactOf(c, d)
           IN  /\ FilesIn(G \union {g}, c) = FilesIn(G, c) \union {d}
               /\ \A b : b # c => FilesIn(G \union {g}, b) = FilesIn(G, b)
               /\ \A b : SavedIn(G \union {g}, b) = SavedIn(G, b)
<1>0. PICK g : g = ArtifactOf(c, d)
  OBVIOUS
<1>1. g[1] = c /\ g[2] = DataHash(<<d>>) /\ g[3] = "artifact" /\ g[2][2][1] = d
  BY <1>0 DEF DataHash, ArtifactOf
<1>2. "checkpoint" # "artifact"
  OBVIOUS
<1>3. FilesIn(G \union {g}, c) = FilesIn(G, c) \union {d}
  BY <1>1 DEF FilesIn
<1>4. ASSUME NEW b, b # c PROVE FilesIn(G \union {g}, b) = FilesIn(G, b)
  BY <1>1, <1>4 DEF FilesIn
<1>5. ASSUME NEW b PROVE SavedIn(G \union {g}, b) = SavedIn(G, b)
  BY <1>1, <1>2 DEF SavedIn
<1> QED BY <1>0, <1>3, <1>4, <1>5

LEMMA CheckpointStep ==
    ASSUME StoreInv, NEW o, NEW c, NEW key, Checkpoint(o, c, key)
    PROVE  /\ StoreInv' /\ owner' = owner /\ c \in Context /\ KeysGrow(key)
           /\ SavedOf' = [SavedOf EXCEPT ![c] = @ \union {LogOf[c]}]
           /\ LogOf' = LogOf /\ FilesOf' = FilesOf
           /\ Log!Effect(c, "checkpoint", key)
<1>0. PICK s : s = snapshotContext(c)
  OBVIOUS
<1>1. PICK hash : hash = SnapHash(s)
  OBVIOUS
<1>2. PICK g : g = <<c, hash, "checkpoint">>
  OBVIOUS
<1>3. /\ c \in Context /\ ~Used(c, key) /\ Len(commits) < MaxCommits
      /\ putContextBlob(hash) /\ grants' = grants \union {g}
      /\ Bind(c, key, "checkpoint", 0, hash)
      /\ owner' = owner /\ tail' = tail /\ pages' = pages
  BY <1>0, <1>1, <1>2 DEF Checkpoint, FirstUse, authorizeContext
<1>4. tail[c] \in Tails /\ pages[c] \in Seq(DataHashes)
  BY <1>3, StoreFields
<1>5. c \in Nat
  <2>1. c \in 1..Len(owner) /\ owner \in Seq(Owners)
    BY <1>3 DEF Context, StoreInv
  <2> QED BY <2>1, SMT
<1>6. s.prefix = pages[c] /\ s.tail = tail[c] /\ s \in Snaps
  BY <1>0, <1>4, <1>5 DEF snapshotContext, Snaps
<1>7. hash \in SnapHashes /\ g \in Checkpoints /\ g[1] = c
  BY <1>1, <1>2, <1>5, <1>6 DEF SnapHash, SnapHashes, Checkpoints
<1>8. /\ IsSeq(operations') /\ Len(operations') = Len(owner)
      /\ IsSeq(commits') /\ Len(commits') <= MaxCommits
      /\ Tabled(commits', operations', Len(owner))
      /\ KeysGrow(key) /\ Log!Effect(c, "checkpoint", key)
  BY <1>3, BindStep
<1>9. DOMAIN blobs' \subseteq DataHashes \union SnapHashes
  <2>1. DOMAIN blobs \subseteq DataHashes \union SnapHashes /\ hash \in DataHashes \union SnapHashes
    BY <1>7 DEF StoreInv
  <2> QED BY <1>3, <2>1, BlobStep
<1>10. grants' \subseteq Checkpoints \union Artifacts /\ \A e \in grants' : e[1] \in Context
  BY <1>3, <1>7 DEF StoreInv
<1>11. StoreInv'
  BY <1>3, <1>8, <1>9, <1>10 DEF StoreInv, Context
<1>12. /\ SavedIn(grants \union {g}, c) = SavedIn(grants, c) \union {Content(pages[c], tail[c])}
       /\ \A b : b # c => SavedIn(grants \union {g}, b) = SavedIn(grants, b)
       /\ \A b : FilesIn(grants \union {g}, b) = FilesIn(grants, b)
  <2>1. g = CheckpointOf(c, s)
    BY <1>1, <1>2 DEF CheckpointOf
  <2>2. /\ SavedIn(grants \union {g}, c) = SavedIn(grants, c) \union {Content(s.prefix, s.tail)}
        /\ \A b : b # c => SavedIn(grants \union {g}, b) = SavedIn(grants, b)
        /\ \A b : FilesIn(grants \union {g}, b) = FilesIn(grants, b)
    BY ONLY <2>1, CheckpointGrant
  <2> QED BY <1>6, <2>2
<1>13. LogOf' = LogOf
  BY <1>3 DEF LogOf, ContextContent, Context
<1>14. LogOf[c] = Content(pages[c], tail[c])
  BY <1>3 DEF LogOf, ContextContent
<1>15. /\ SavedOf = [b \in Context |-> SavedIn(grants, b)]
       /\ SavedOf' = [b \in Context |-> SavedIn(grants \union {g}, b)]
       /\ FilesOf = [b \in Context |-> FilesIn(grants, b)]
       /\ FilesOf' = [b \in Context |-> FilesIn(grants \union {g}, b)]
  BY <1>3 DEF SavedOf, FilesOf, Saved, Files, SavedIn, FilesIn, Context
<1>16. SavedOf' = [SavedOf EXCEPT ![c] = @ \union {LogOf[c]}]
  BY <1>3, <1>12, <1>14, <1>15
<1>17. FilesOf' = FilesOf
  BY <1>12, <1>15
<1> QED BY <1>3, <1>8, <1>11, <1>13, <1>16, <1>17

LEMMA CommitArtifactStep ==
    ASSUME StoreInv, NEW o, NEW c, NEW key, NEW d \in Data, CommitArtifact(o, c, key, d)
    PROVE  /\ StoreInv' /\ owner' = owner /\ c \in Context /\ KeysGrow(key)
           /\ FilesOf' = [FilesOf EXCEPT ![c] = @ \union {d}]
           /\ LogOf' = LogOf /\ SavedOf' = SavedOf
           /\ Log!Effect(c, "artifact", key)
<1>1. PICK hash : hash = DataHash(<<d>>)
  OBVIOUS
<1>2. PICK g : g = <<c, hash, "artifact">>
  OBVIOUS
<1>3. /\ c \in Context /\ ~Used(c, key) /\ Len(commits) < MaxCommits
      /\ putContextBlob(hash) /\ grants' = grants \union {g}
      /\ Bind(c, key, "artifact", d, hash)
      /\ owner' = owner /\ tail' = tail /\ pages' = pages
  BY <1>1, <1>2 DEF CommitArtifact, FirstUse, authorizeContext
<1>5. c \in Nat
  <2>1. c \in 1..Len(owner) /\ owner \in Seq(Owners)
    BY <1>3 DEF Context, StoreInv
  <2> QED BY <2>1, SMT
<1>6. hash \in DataHashes
  <2>1. <<d>> \in Seq(Data)
    BY SMT
  <2> QED BY <1>1, <2>1, HashData
<1>7. g \in Artifacts /\ g[1] = c
  BY <1>1, <1>2, <1>5 DEF Artifacts
<1>8. /\ IsSeq(operations') /\ Len(operations') = Len(owner)
      /\ IsSeq(commits') /\ Len(commits') <= MaxCommits
      /\ Tabled(commits', operations', Len(owner))
      /\ KeysGrow(key) /\ Log!Effect(c, "artifact", key)
  BY <1>3, BindStep
<1>9. DOMAIN blobs' \subseteq DataHashes \union SnapHashes
  <2>1. DOMAIN blobs \subseteq DataHashes \union SnapHashes /\ hash \in DataHashes \union SnapHashes
    BY <1>6 DEF StoreInv
  <2> QED BY <1>3, <2>1, BlobStep
<1>10. grants' \subseteq Checkpoints \union Artifacts /\ \A e \in grants' : e[1] \in Context
  BY <1>3, <1>7 DEF StoreInv
<1>11. StoreInv'
  BY <1>3, <1>8, <1>9, <1>10 DEF StoreInv, Context
<1>12. /\ FilesIn(grants \union {g}, c) = FilesIn(grants, c) \union {d}
       /\ \A b : b # c => FilesIn(grants \union {g}, b) = FilesIn(grants, b)
       /\ \A b : SavedIn(grants \union {g}, b) = SavedIn(grants, b)
  <2>1. g = ArtifactOf(c, d)
    BY <1>1, <1>2 DEF ArtifactOf
  <2> QED BY ONLY <2>1, ArtifactGrant
<1>13. LogOf' = LogOf
  BY <1>3 DEF LogOf, ContextContent, Context
<1>15. /\ SavedOf = [b \in Context |-> SavedIn(grants, b)]
       /\ SavedOf' = [b \in Context |-> SavedIn(grants \union {g}, b)]
       /\ FilesOf = [b \in Context |-> FilesIn(grants, b)]
       /\ FilesOf' = [b \in Context |-> FilesIn(grants \union {g}, b)]
  BY <1>3 DEF SavedOf, FilesOf, Saved, Files, SavedIn, FilesIn, Context
<1>16. FilesOf' = [FilesOf EXCEPT ![c] = @ \union {d}]
  BY <1>3, <1>12, <1>15
<1>17. SavedOf' = SavedOf
  BY <1>12, <1>15
<1> QED BY <1>3, <1>8, <1>11, <1>13, <1>16, <1>17

LEMMA RestoreStep ==
    ASSUME StoreInv, NEW o, NEW c, NEW key, NEW hash, Restore(o, c, key, hash)
    PROVE  /\ StoreInv' /\ owner' = owner /\ c \in Context /\ KeysGrow(key)
           /\ \E content \in SavedOf[c] : LogOf' = [LogOf EXCEPT ![c] = content]
           /\ SavedOf' = SavedOf /\ FilesOf' = FilesOf
           /\ Log!Effect(c, "restore", key)
<1>1. PICK g : g = <<c, hash, "checkpoint">>
  OBVIOUS
<1>2. PICK s : s = hash[2]
  OBVIOUS
<1>3. /\ c \in Context /\ ~Used(c, key) /\ Len(commits) < MaxCommits
      /\ g \in grants /\ blobs[hash] = hash
      /\ pages' = [pages EXCEPT ![c] = s.prefix] /\ tail' = [tail EXCEPT ![c] = s.tail]
      /\ Bind(c, key, "restore", hash, hash)
      /\ blobs' = blobs /\ owner' = owner /\ grants' = grants
  BY <1>1, <1>2 DEF Restore, FirstUse, authorizeContext, contextBlob
<1>4. g[1] = c /\ g[2] = hash /\ g[3] = "checkpoint"
  BY <1>1
<1>5. g \in Checkpoints
  <2>1. g \in Checkpoints \/ g \in Artifacts
    BY <1>3 DEF StoreInv
  <2>2. g \in Artifacts => g[3] = "artifact"
    BY SMT DEF Artifacts
  <2> QED BY <1>4, <2>1, <2>2
<1>6. hash \in SnapHashes
  BY <1>4, <1>5, SMT DEF Checkpoints
<1>7. s \in Snaps
  BY <1>2, <1>6, SMT DEF SnapHashes
<1>8. s.prefix \in Seq(DataHashes) /\ s.tail \in Tails
  BY <1>7 DEF Snaps
<1>9. /\ tail \in Seq(Tails) /\ c \in 1..Len(tail) /\ Context = 1..Len(tail)
      /\ pages \in Seq(Seq(DataHashes)) /\ c \in 1..Len(pages) /\ Context = 1..Len(pages)
  BY <1>3 DEF StoreInv, Context
<1>10. /\ tail' \in Seq(Tails) /\ Len(tail') = Len(tail)
       /\ tail'[c] = s.tail /\ \A b \in Context : b # c => tail'[b] = tail[b]
  <2>1. PICK h : h = s.tail
    OBVIOUS
  <2>2. /\ [tail EXCEPT ![c] = h] \in Seq(Tails) /\ Len([tail EXCEPT ![c] = h]) = Len(tail)
        /\ [tail EXCEPT ![c] = h][c] = h
        /\ \A b \in 1..Len(tail) : b # c => [tail EXCEPT ![c] = h][b] = tail[b]
    BY ONLY <1>8, <1>9, <2>1, TypedExcept
  <2> QED BY <1>3, <1>9, <2>1, <2>2
<1>11. /\ pages' \in Seq(Seq(DataHashes)) /\ Len(pages') = Len(pages)
       /\ pages'[c] = s.prefix /\ \A b \in Context : b # c => pages'[b] = pages[b]
  <2>1. PICK h : h = s.prefix
    OBVIOUS
  <2>2. /\ [pages EXCEPT ![c] = h] \in Seq(Seq(DataHashes)) /\ Len([pages EXCEPT ![c] = h]) = Len(pages)
        /\ [pages EXCEPT ![c] = h][c] = h
        /\ \A b \in 1..Len(pages) : b # c => [pages EXCEPT ![c] = h][b] = pages[b]
    BY ONLY <1>8, <1>9, <2>1, TypedExcept
  <2> QED BY <1>3, <1>9, <2>1, <2>2
<1>12. /\ IsSeq(operations') /\ Len(operations') = Len(owner)
       /\ IsSeq(commits') /\ Len(commits') <= MaxCommits
       /\ Tabled(commits', operations', Len(owner))
       /\ KeysGrow(key) /\ Log!Effect(c, "restore", key)
  BY <1>3, BindStep
<1>13. StoreInv'
  BY <1>3, <1>10, <1>11, <1>12 DEF StoreInv, Context
<1>14. PICK content : content = Content(s.prefix, s.tail)
  OBVIOUS
<1>15. content \in SavedOf[c]
  BY <1>2, <1>3, <1>4, <1>14 DEF SavedOf, Saved
<1>16. LogOf' = [LogOf EXCEPT ![c] = content]
  <2>1. LogOf = [b \in Context |-> Content(pages[b], tail[b])]
    BY DEF LogOf, ContextContent
  <2>2. LogOf' = [b \in Context |-> Content(pages'[b], tail'[b])]
    BY <1>3 DEF LogOf, ContextContent, Context
  <2>3. /\ Content(pages'[c], tail'[c]) = content
        /\ \A b \in Context : b # c => Content(pages'[b], tail'[b]) = Content(pages[b], tail[b])
    BY <1>10, <1>11, <1>14
  <2>4. LogOf' = [b \in Context |-> IF b = c THEN content ELSE LogOf[b]]
    BY <2>1, <2>2, <2>3
  <2>5. [LogOf EXCEPT ![c] = content] = [b \in Context |-> IF b = c THEN content ELSE LogOf[b]]
    BY <2>1
  <2> QED BY ONLY <2>4, <2>5
<1>17. SavedOf' = SavedOf /\ FilesOf' = FilesOf
  BY <1>3 DEF SavedOf, FilesOf, Saved, Files, Context
<1> QED BY <1>3, <1>12, <1>13, <1>15, <1>16, <1>17

----------------------------------------------------------------------------
(* New contexts.                                                           *)

\* A function on 1..n, and one that goes on.
Listed(f, n) == f = [i \in 1..n |-> f[i]]

LEMMA ViewGrows ==
    ASSUME NEW n \in Nat, NEW f, Listed(f, n), NEW g, Listed(g, n + 1), \A i \in 1..n : g[i] = f[i]
    PROVE  g = Append(f, g[n + 1])
<1>1. IsSeq(f) /\ Len(f) = n
  BY FunctionIsSeq DEF Listed
<1>2. n + 1 \in Nat
  BY SMT
<1>3. IsSeq(g) /\ Len(g) = n + 1
  BY <1>2, FunctionIsSeq DEF Listed
<1>4. Len(g) = Len(f) + 1 /\ (\A i \in 1..Len(f) : g[i] = f[i]) /\ g[Len(f) + 1] = g[n + 1]
  BY <1>1, <1>3
<1> QED BY ONLY <1>1, <1>3, <1>4, AppendIs

\* Nothing is granted to a context that is new.
LEMMA NewContextViews ==
    ASSUME StoreInv, NEW o, owner' = Append(owner, o), grants' = grants, NEW x,
           LET n == Len(owner)
           IN  /\ Content(pages'[n + 1], tail'[n + 1]) = x
               /\ \A c \in 1..n : Content(pages'[c], tail'[c]) = Content(pages[c], tail[c])
    PROVE  /\ LogOf' = Append(LogOf, x)
           /\ SavedOf' = Append(SavedOf, {})
           /\ FilesOf' = Append(FilesOf, {})
<1>1. PICK n \in Nat : n = Len(owner)
  BY SMT DEF StoreInv
<1>2. IsSeq(owner)
  BY SeqIsSeq DEF StoreInv
<1>3. Len(Append(owner, o)) = Len(owner) + 1
  BY ONLY <1>2, AppendAny
<1>4. Context = 1..n /\ Context' = 1..(n + 1)
  BY <1>1, <1>3 DEF Context
<1>5. n + 1 \in 1..(n + 1) /\ (\A i \in 1..n : i \in 1..(n + 1)) /\ n + 1 \notin 1..n
  BY SMT
<1>6. LogOf' = Append(LogOf, x)
  <2>1. PICK f : f = [c \in 1..n |-> Content(pages[c], tail[c])]
    OBVIOUS
  <2>2. PICK g : g = [c \in 1..(n + 1) |-> Content(pages'[c], tail'[c])]
    OBVIOUS
  <2>3. Listed(f, n)
    BY <2>1 DEF Listed
  <2>4. Listed(g, n + 1)
    BY <2>2 DEF Listed
  <2>5. \A i \in 1..n : g[i] = f[i]
    BY <1>1, <1>5, <2>1, <2>2
  <2>6. g[n + 1] = x
    BY <1>1, <1>5, <2>2
  <2>7. g = Append(f, g[n + 1])
    BY ONLY n \in Nat, <2>3, <2>4, <2>5, ViewGrows
  <2>8. f = LogOf /\ g = LogOf'
    BY <1>4, <2>1, <2>2 DEF LogOf, ContextContent
  <2> QED BY <2>6, <2>7, <2>8
<1>7. \A g \in grants : g[1] # n + 1
  BY <1>4, <1>5 DEF StoreInv
<1>8. SavedOf' = Append(SavedOf, {})
  <2>1. PICK f : f = [c \in 1..n |-> SavedIn(grants, c)]
    OBVIOUS
  <2>2. PICK g : g = [c \in 1..(n + 1) |-> SavedIn(grants, c)]
    OBVIOUS
  <2>3. Listed(f, n)
    BY <2>1 DEF Listed
  <2>4. Listed(g, n + 1)
    BY <2>2 DEF Listed
  <2>5. \A i \in 1..n : g[i] = f[i]
    BY <1>5, <2>1, <2>2
  <2>6. g[n + 1] = {}
    <3>1. SavedIn(grants, n + 1) = {}
      BY <1>7 DEF SavedIn
    <3> QED BY <1>5, <2>2, <3>1
  <2>7. g = Append(f, g[n + 1])
    BY ONLY n \in Nat, <2>3, <2>4, <2>5, ViewGrows
  <2>8. f = SavedOf /\ g = SavedOf'
    BY <1>4, <2>1, <2>2 DEF SavedOf, Saved, SavedIn
  <2> QED BY <2>6, <2>7, <2>8
<1>9. FilesOf' = Append(FilesOf, {})
  <2>1. PICK f : f = [c \in 1..n |-> FilesIn(grants, c)]
    OBVIOUS
  <2>2. PICK g : g = [c \in 1..(n + 1) |-> FilesIn(grants, c)]
    OBVIOUS
  <2>3. Listed(f, n)
    BY <2>1 DEF Listed
  <2>4. Listed(g, n + 1)
    BY <2>2 DEF Listed
  <2>5. \A i \in 1..n : g[i] = f[i]
    BY <1>5, <2>1, <2>2
  <2>6. g[n + 1] = {}
    <3>1. FilesIn(grants, n + 1) = {}
      BY <1>7 DEF FilesIn
    <3> QED BY <1>5, <2>2, <3>1
  <2>7. g = Append(f, g[n + 1])
    BY ONLY n \in Nat, <2>3, <2>4, <2>5, ViewGrows
  <2>8. f = FilesOf /\ g = FilesOf'
    BY <1>4, <2>1, <2>2 DEF FilesOf, Files, FilesIn
  <2> QED BY <2>6, <2>7, <2>8
<1> QED BY <1>6, <1>8, <1>9

LEMMA CreateStep ==
    ASSUME ContentLaw, StoreInv, NEW o \in Owners, Create(o)
    PROVE  /\ StoreInv' /\ owner' = Append(owner, o)
           /\ LogOf' = Append(LogOf, <<>>)
           /\ SavedOf' = Append(SavedOf, {}) /\ FilesOf' = Append(FilesOf, {})
           /\ FeedOf' = FeedOf
           /\ \A b \in Context' : \A k \in DOMAIN operations'[b] :
                b \in Context /\ k \in DOMAIN operations[b]
<1>1. PICK n \in Nat : n = Len(owner)
  BY SMT DEF StoreInv
<1>2. /\ owner \in Seq(Owners) /\ tail \in Seq(Tails) /\ pages \in Seq(Seq(DataHashes))
      /\ IsSeq(operations) /\ Len(tail) = n /\ Len(pages) = n /\ Len(operations) = n
      /\ NoTail \in Tails /\ Len(owner) < MaxContexts
  BY <1>1 DEF StoreInv, Tails, Create
<1>3. /\ owner' = Append(owner, o) /\ tail' = Append(tail, NoTail) /\ pages' = Append(pages, <<>>)
      /\ operations' = Append(operations, <<>>)
      /\ blobs' = blobs /\ grants' = grants /\ commits' = commits
  BY DEF Create
<1>4. Append(owner, o) \in Seq(Owners) /\ Len(Append(owner, o)) = Len(owner) + 1
  BY ONLY <1>2, o \in Owners, TypedAppend
<1>5. /\ Append(tail, NoTail) \in Seq(Tails) /\ Len(Append(tail, NoTail)) = Len(tail) + 1
      /\ Append(tail, NoTail)[Len(tail) + 1] = NoTail
      /\ \A i \in 1..Len(tail) : Append(tail, NoTail)[i] = tail[i]
  BY ONLY <1>2, TypedAppend
<1>6. /\ Append(pages, <<>>) \in Seq(Seq(DataHashes)) /\ Len(Append(pages, <<>>)) = Len(pages) + 1
      /\ Append(pages, <<>>)[Len(pages) + 1] = <<>>
      /\ \A i \in 1..Len(pages) : Append(pages, <<>>)[i] = pages[i]
  <2>1. <<>> \in Seq(DataHashes)
    BY SMT
  <2> QED BY ONLY <1>2, <2>1, TypedAppend
<1>7. /\ IsSeq(Append(operations, <<>>)) /\ Len(Append(operations, <<>>)) = Len(operations) + 1
      /\ Append(operations, <<>>)[Len(operations) + 1] = <<>>
      /\ \A i \in 1..Len(operations) : Append(operations, <<>>)[i] = operations[i]
  BY ONLY <1>2, AppendAny
<1>8. /\ n + 1 \in Nat /\ n <= n + 1 /\ n + 1 <= MaxContexts
      /\ \A i \in 1..(n + 1) : i \in 1..n \/ i = n + 1
      /\ \A i \in 1..n : i \in 1..(n + 1)
  <2>1. n < MaxContexts /\ MaxContexts \in Nat
    BY <1>1, <1>2, ContextStoreAssumption
  <2> QED BY <2>1, SMT
<1>9. Context = 1..n /\ Context' = 1..(n + 1)
  BY <1>1, <1>3, <1>4 DEF Context
<1>10. DOMAIN <<>> = {}
  BY SMT
<1>11. \A b \in Context' : \A k \in DOMAIN operations'[b] :
          b \in Context /\ k \in DOMAIN operations[b]
  BY <1>2, <1>3, <1>7, <1>8, <1>9, <1>10
<1>12. Tabled(commits', operations', n + 1)
  <2>1. Tabled(commits, operations, n)
    BY <1>1 DEF StoreInv
  <2>2. \A i \in 1..n : operations'[i] = operations[i]
    BY <1>2, <1>3, <1>7
  <2> QED BY <1>3, <1>8, <2>1, <2>2 DEF Tabled
<1>13. \A g \in grants' : g[1] \in Context'
  BY <1>3, <1>8, <1>9 DEF StoreInv
<1>14. StoreInv'
  <2>1. /\ owner' \in Seq(Owners) /\ Len(owner') = n + 1 /\ tail' \in Seq(Tails) /\ Len(tail') = n + 1
        /\ pages' \in Seq(Seq(DataHashes)) /\ Len(pages') = n + 1
        /\ IsSeq(operations') /\ Len(operations') = n + 1
    BY <1>1, <1>2, <1>3, <1>4, <1>5, <1>6, <1>7
  <2>2. /\ IsSeq(commits') /\ Len(commits') <= MaxCommits /\ grants' \subseteq Checkpoints \union Artifacts
        /\ DOMAIN blobs' \subseteq DataHashes \union SnapHashes
    BY <1>3 DEF StoreInv
  <2> QED BY <1>8, <1>12, <1>13, <2>1, <2>2 DEF StoreInv
<1>15. LET m == Len(owner)
       IN  /\ Content(pages'[m + 1], tail'[m + 1]) = <<>>
           /\ \A c \in 1..m : Content(pages'[c], tail'[c]) = Content(pages[c], tail[c])
  BY <1>1, <1>2, <1>3, <1>5, <1>6 DEF ContentLaw
<1>16. /\ LogOf' = Append(LogOf, <<>>)
       /\ SavedOf' = Append(SavedOf, {}) /\ FilesOf' = Append(FilesOf, {})
  BY <1>3, <1>15, NewContextViews
<1>17. FeedOf' = FeedOf
  BY <1>3 DEF FeedOf
<1> QED BY <1>3, <1>11, <1>14, <1>16, <1>17

\* A sealed tail is a page.
LEMMA SealedFacts ==
    ASSUME ContentLaw, StoreInv, NEW c \in Context
    PROVE  Sealed(c) \in Seq(DataHashes) /\ Content(Sealed(c), NoTail) = Content(pages[c], tail[c])
<1>1. tail[c] \in Tails /\ pages[c] \in Seq(DataHashes)
  BY StoreFields
<1>2. CASE tail[c] = NoTail
  BY <1>1, <1>2 DEF Sealed
<1>3. CASE tail[c] # NoTail
  <2>1. PICK t \in DataHashes : t = tail[c]
    BY <1>1, <1>3 DEF Tails
  <2>2. PICK p \in Seq(DataHashes) : p = pages[c]
    BY <1>1
  <2>3. Sealed(c) = Append(p, t)
    BY <1>3, <2>1, <2>2 DEF Sealed
  <2>4. Append(p, t) \in Seq(DataHashes)
    BY SMT
  <2>5. Content(Append(p, t), NoTail) = Content(p, t)
    BY DEF ContentLaw
  <2> QED BY <2>1, <2>2, <2>3, <2>4, <2>5
<1> QED BY <1>2, <1>3

\* An element is replaced, and there is one more.
LEMMA TypedExceptAppend ==
    ASSUME NEW S, NEW s \in Seq(S), NEW n \in Nat, n = Len(s), NEW k \in 1..n, NEW e \in S, NEW x \in S
    PROVE  LET t == Append([s EXCEPT ![k] = e], x)
           IN  /\ t \in Seq(S) /\ Len(t) = n + 1 /\ t[k] = e /\ t[n + 1] = x
               /\ \A i \in 1..n : i # k => t[i] = s[i]
<1>1. PICK u : u = [s EXCEPT ![k] = e]
  OBVIOUS
<1>2. u \in Seq(S) /\ Len(u) = n /\ u[k] = e /\ \A i \in 1..n : i # k => u[i] = s[i]
  BY <1>1, SMT
<1>3. /\ Append(u, x) \in Seq(S) /\ Len(u) \in Nat /\ Len(Append(u, x)) = Len(u) + 1
      /\ Append(u, x)[Len(u) + 1] = x
      /\ \A i \in 1..Len(u) : Append(u, x)[i] = u[i]
  BY ONLY <1>2, x \in S, TypedAppend
<1> QED BY <1>1, <1>2, <1>3

LEMMA ForkStep ==
    ASSUME ContentLaw, StoreInv, NEW o, NEW c, NEW w \in Owners, NEW key, ForkTo(o, c, w, key)
    PROVE  /\ StoreInv' /\ owner' = Append(owner, w) /\ c \in Context /\ KeysGrow(key)
           /\ LogOf' = Append(LogOf, LogOf[c])
           /\ SavedOf' = Append(SavedOf, {}) /\ FilesOf' = Append(FilesOf, {})
           /\ Log!Effect(c, "fork", key)
<1>1. PICK n \in Nat : n = Len(owner)
  BY SMT DEF StoreInv
<1>2. /\ owner \in Seq(Owners) /\ tail \in Seq(Tails) /\ pages \in Seq(Seq(DataHashes))
      /\ IsSeq(operations) /\ Len(tail) = n /\ Len(pages) = n /\ Len(operations) = n
      /\ NoTail \in Tails
  BY <1>1 DEF StoreInv, Tails
<1>3. PICK h : h = Sealed(c)
  OBVIOUS
<1>4. PICK v : v = Operation("fork", 0, Len(owner) + 1)
  OBVIOUS
<1>5. PICK r : r = [ctx |-> c, kind |-> "fork", handle |-> Len(owner) + 1, key |-> key]
  OBVIOUS
<1>6. /\ c \in Context /\ ~Used(c, key) /\ Len(commits) < MaxCommits /\ Len(owner) < MaxContexts
      /\ owner' = Append(owner, w)
      /\ tail' = Append([tail EXCEPT ![c] = NoTail], NoTail)
      /\ pages' = Append([pages EXCEPT ![c] = h], h)
      /\ operations' = Append(Row(operations, c, key, v), <<>>)
      /\ commits' = Append(commits, r)
      /\ blobs' = blobs /\ grants' = grants
  BY <1>3, <1>4, <1>5 DEF ForkTo, FirstUse, authorizeContext, Row
<1>7. c \in 1..n /\ Context = 1..n
  BY <1>1, <1>6 DEF Context
<1>8. h \in Seq(DataHashes) /\ Content(h, NoTail) = Content(pages[c], tail[c])
  BY <1>3, <1>6, SealedFacts
<1>9. Append(owner, w) \in Seq(Owners) /\ Len(Append(owner, w)) = Len(owner) + 1
  BY ONLY <1>2, w \in Owners, TypedAppend
<1>10. PICK T : T = Append([tail EXCEPT ![c] = NoTail], NoTail)
  OBVIOUS
<1>11. /\ T \in Seq(Tails) /\ Len(T) = n + 1 /\ T[c] = NoTail /\ T[n + 1] = NoTail
       /\ \A i \in 1..n : i # c => T[i] = tail[i]
  BY ONLY n \in Nat, <1>2, <1>7, <1>10, TypedExceptAppend
<1>12. PICK P : P = Append([pages EXCEPT ![c] = h], h)
  OBVIOUS
<1>13. /\ P \in Seq(Seq(DataHashes)) /\ Len(P) = n + 1 /\ P[c] = h /\ P[n + 1] = h
       /\ \A i \in 1..n : i # c => P[i] = pages[i]
  BY ONLY n \in Nat, <1>2, <1>7, <1>8, <1>12, TypedExceptAppend
<1>14. PICK Q : Q = Row(operations, c, key, v)
  OBVIOUS
<1>15. /\ IsSeq(Q) /\ Len(Q) = n
       /\ DOMAIN Q[c] = DOMAIN operations[c] \union {key}
       /\ \A b \in 1..n : b # c => Q[b] = operations[b]
  <2>1. IsSeq(operations) /\ c \in 1..Len(operations)
    BY <1>2, <1>7
  <2>2. /\ IsSeq(Row(operations, c, key, v)) /\ Len(Row(operations, c, key, v)) = Len(operations)
        /\ DOMAIN Row(operations, c, key, v)[c] = DOMAIN operations[c] \union {key}
        /\ \A b \in 1..Len(operations) : b # c => Row(operations, c, key, v)[b] = operations[b]
    BY ONLY <2>1, RowAdded
  <2> QED BY <1>2, <1>14, <2>2
<1>16. PICK O : O = Append(Q, <<>>)
  OBVIOUS
<1>17. IsSeq(O) /\ Len(O) = n + 1 /\ O[n + 1] = <<>> /\ \A i \in 1..n : O[i] = Q[i]
  <2>1. /\ IsSeq(Append(Q, <<>>)) /\ Len(Append(Q, <<>>)) = Len(Q) + 1
        /\ Append(Q, <<>>)[Len(Q) + 1] = <<>>
        /\ \A i \in 1..Len(Q) : Append(Q, <<>>)[i] = Q[i]
    BY ONLY <1>15, AppendAny
  <2> QED BY <1>15, <1>16, <2>1
<1>18. /\ n + 1 \in Nat /\ n <= n + 1 /\ n + 1 <= MaxContexts
       /\ \A i \in 1..(n + 1) : i \in 1..n \/ i = n + 1
       /\ \A i \in 1..n : i \in 1..(n + 1)
  <2>1. n < MaxContexts /\ MaxContexts \in Nat
    BY <1>1, <1>6, ContextStoreAssumption
  <2> QED BY <2>1, SMT
<1>19. Context' = 1..(n + 1)
  BY <1>1, <1>6, <1>9 DEF Context
<1>20. DOMAIN <<>> = {}
  BY SMT
<1>21. KeysGrow(key)
  <2>1. operations' = O
    BY <1>6, <1>14, <1>16
  <2>2. ASSUME NEW b \in 1..(n + 1), NEW k \in DOMAIN O[b]
        PROVE  (b \in 1..n /\ k \in DOMAIN operations[b]) \/ k = key
    <3>1. b \in 1..n
      BY <1>17, <1>18, <1>20, <2>2
    <3>2. O[b] = Q[b]
      BY <1>17, <3>1
    <3> QED BY <1>15, <2>2, <3>1, <3>2
  <2> QED BY <1>7, <1>19, <2>1, <2>2 DEF KeysGrow
<1>22. PICK C : C = commits
  OBVIOUS
<1>23. IsSeq(C) /\ Tabled(C, operations, n) /\ Len(C) < MaxCommits
  BY <1>1, <1>6, <1>22 DEF StoreInv
<1>24. IsSeq(Append(C, r)) /\ Len(C) \in Nat /\ Len(Append(C, r)) = Len(C) + 1
  BY ONLY <1>23, AppendAny
<1>25. Len(C) + 1 <= MaxCommits
  <2>1. Len(C) < MaxCommits /\ MaxCommits \in Nat
    BY <1>23, ContextStoreAssumption
  <2> QED BY <1>24, <2>1, SMT
<1>26. Tabled(Append(C, r), O, n + 1)
  <2>1. \A b \in 1..n : DOMAIN operations[b] \subseteq DOMAIN O[b]
    BY <1>15, <1>17
  <2>2. r.ctx = c /\ r.key = key
    BY <1>5
  <2>3. r.ctx \in 1..(n + 1) /\ r.key \in DOMAIN O[r.ctx]
    BY <1>7, <1>15, <1>17, <1>18, <2>2
  <2> QED BY ONLY <1>18, <1>23, n \in Nat, <2>1, <2>3, TabledGrows
<1>27. \A g \in grants' : g[1] \in Context'
  BY <1>6, <1>7, <1>18, <1>19 DEF StoreInv
<1>28. StoreInv'
  <2>1. /\ owner' \in Seq(Owners) /\ Len(owner') = n + 1 /\ tail' \in Seq(Tails) /\ Len(tail') = n + 1
        /\ pages' \in Seq(Seq(DataHashes)) /\ Len(pages') = n + 1
        /\ IsSeq(operations') /\ Len(operations') = n + 1
    BY <1>1, <1>6, <1>9, <1>10, <1>11, <1>12, <1>13, <1>14, <1>16, <1>17
  <2>2. /\ IsSeq(commits') /\ Len(commits') <= MaxCommits /\ Tabled(commits', operations', n + 1)
    BY <1>6, <1>14, <1>16, <1>22, <1>24, <1>25, <1>26
  <2>3. /\ grants' \subseteq Checkpoints \union Artifacts
        /\ DOMAIN blobs' \subseteq DataHashes \union SnapHashes
    BY <1>6 DEF StoreInv
  <2> QED BY <1>18, <1>27, <2>1, <2>2, <2>3 DEF StoreInv
<1>29. PICK x : x = Content(pages[c], tail[c])
  OBVIOUS
<1>30. LET m == Len(owner)
       IN  /\ Content(pages'[m + 1], tail'[m + 1]) = x
           /\ \A b \in 1..m : Content(pages'[b], tail'[b]) = Content(pages[b], tail[b])
  <2>1. tail' = T /\ pages' = P
    BY <1>6, <1>10, <1>12
  <2>2. Content(P[n + 1], T[n + 1]) = x
    BY <1>8, <1>11, <1>13, <1>29
  <2>3. ASSUME NEW b \in 1..n PROVE Content(P[b], T[b]) = Content(pages[b], tail[b])
    <3>1. CASE b = c
      BY <1>8, <1>11, <1>13, <3>1
    <3>2. CASE b # c
      BY <1>11, <1>13, <3>2
    <3> QED BY <3>1, <3>2
  <2> QED BY <1>1, <2>1, <2>2, <2>3
<1>31. /\ LogOf' = Append(LogOf, x)
       /\ SavedOf' = Append(SavedOf, {}) /\ FilesOf' = Append(FilesOf, {})
  BY <1>6, <1>30, NewContextViews
<1>32. LogOf[c] = x
  BY <1>6, <1>29 DEF LogOf, ContextContent
<1>33. Log!Effect(c, "fork", key)
  <2>1. Log!Fresh(c, key)
    BY <1>6, UnusedFresh
  <2>2. FeedOf' = Append(FeedOf, [ctx |-> c, kind |-> "fork", key |-> key])
    BY <1>5, <1>6, <1>22, <1>23, FeedGrows
  <2> QED BY <2>1, <2>2 DEF Log!Effect, FeedOf
<1> QED BY <1>6, <1>21, <1>28, <1>31, <1>32, <1>33

\* What a blob reads as is not part of any content.
LEMMA RotStep ==
    ASSUME StoreInv, NEW h, Rot(h)
    PROVE  /\ StoreInv' /\ owner' = owner /\ operations' = operations
           /\ LogOf' = LogOf /\ SavedOf' = SavedOf /\ FilesOf' = FilesOf /\ FeedOf' = FeedOf
<1>1. /\ owner' = owner /\ tail' = tail /\ pages' = pages /\ grants' = grants
      /\ operations' = operations /\ commits' = commits
      /\ blobs' = [blobs EXCEPT ![h] = Garbled]
  BY DEF Rot
<1>2. DOMAIN blobs' = DOMAIN blobs
  BY <1>1
<1>3. StoreInv'
  BY <1>1, <1>2 DEF StoreInv, Context
<1> QED BY <1>1, <1>3 DEF LogOf, SavedOf, FilesOf, FeedOf, ContextContent, Saved, Files, Context

LEMMA IdleStore ==
    ASSUME StoreInv, UNCHANGED storeVars
    PROVE  /\ StoreInv' /\ owner' = owner /\ operations' = operations
           /\ LogOf' = LogOf /\ SavedOf' = SavedOf /\ FilesOf' = FilesOf /\ FeedOf' = FeedOf
<1>1. /\ owner' = owner /\ tail' = tail /\ pages' = pages /\ grants' = grants
      /\ operations' = operations /\ commits' = commits /\ blobs' = blobs
  BY DEF storeVars
<1>2. StoreInv'
  BY <1>1 DEF StoreInv, Context
<1> QED BY <1>1, <1>2 DEF LogOf, SavedOf, FilesOf, FeedOf, ContextContent, Saved, Files, Context

----------------------------------------------------------------------------
(* The store implements ContextLog.                                        *)

\* What a step of the system does to the store.
StoreNext ==
    \/ \E o \in Owners : Create(o)
    \/ \E o, c, key : \E d \in Data : AppendData(o, c, key, d) \/ CommitArtifact(o, c, key, d)
    \/ \E o, c, key : \E w \in Owners : ForkTo(o, c, w, key)
    \/ \E o, c, key : Checkpoint(o, c, key)
    \/ \E o, c, key, hash : Restore(o, c, key, hash)
    \/ \E h : Rot(h)
    \/ UNCHANGED storeVars

\* An effect's key is that of the feed's last entry.
LEMMA EffectKey ==
    ASSUME StoreInv, NEW c, NEW kind, NEW key, Log!Effect(c, kind, key)
    PROVE  Len(FeedOf') > Len(FeedOf) /\ FeedOf'[Len(FeedOf')].key = key
<1>1. PICK n \in Nat : n = Len(commits)
  BY IsSeqLen DEF StoreInv
<1>2. PICK f : f = FeedOf
  OBVIOUS
<1>3. f = [i \in 1..n |-> f[i]]
  BY <1>1, <1>2 DEF FeedOf
<1>4. IsSeq(f)
  BY <1>3, FunctionIsSeq
<1>5. PICK e : e = [ctx |-> c, kind |-> kind, key |-> key]
  OBVIOUS
<1>6. FeedOf' = Append(f, e)
  BY <1>2, <1>5 DEF Log!Effect, FeedOf
<1>7. Len(Append(f, e)) = Len(f) + 1 /\ Append(f, e)[Len(f) + 1] = e /\ Len(f) \in Nat
  BY ONLY <1>4, AppendAny
<1>8. PICK m \in Nat : m = Len(f)
  BY <1>7
<1>9. m + 1 > m
  BY SMT
<1>10. e.key = key
  BY <1>5
<1> QED BY <1>2, <1>6, <1>7, <1>8, <1>9, <1>10

LEMMA LogStep ==
    ASSUME ContentLaw, StoreInv, StoreNext
    PROVE  StoreInv' /\ [Log!Next]_(Log!vars)
<1>1. CASE \E o \in Owners : Create(o)
  <2>1. PICK o \in Owners : Create(o)
    BY <1>1
  <2>2. /\ StoreInv' /\ owner' = Append(owner, o)
        /\ LogOf' = Append(LogOf, <<>>)
        /\ SavedOf' = Append(SavedOf, {}) /\ FilesOf' = Append(FilesOf, {})
        /\ FeedOf' = FeedOf
    BY <2>1, CreateStep
  <2>3. Log!NewContext(o, <<>>)
    BY <2>2 DEF Log!NewContext, LogOf, SavedOf, FilesOf
  <2>4. Log!Create
    BY <2>2, <2>3 DEF Log!Create, FeedOf
  <2> QED BY <2>2, <2>4 DEF Log!Next
<1>2. CASE \E o, c, key : \E d \in Data : AppendData(o, c, key, d) \/ CommitArtifact(o, c, key, d)
  <2>1. PICK o, c, key : \E d \in Data : AppendData(o, c, key, d) \/ CommitArtifact(o, c, key, d)
    BY <1>2
  <2>2. PICK d \in Data : AppendData(o, c, key, d) \/ CommitArtifact(o, c, key, d)
    BY <2>1
  <2>3. CASE AppendData(o, c, key, d)
    <3>1. /\ StoreInv' /\ owner' = owner /\ c \in Context
          /\ LogOf' = [LogOf EXCEPT ![c] = Append(@, d)]
          /\ SavedOf' = SavedOf /\ FilesOf' = FilesOf
          /\ Log!Effect(c, "append", key)
      BY <2>3, AppendDataStep
    <3>2. Log!AppendData(c, key)
      BY <3>1 DEF Log!AppendData, LogOf, SavedOf, FilesOf
    <3>3. Len(FeedOf') > Len(FeedOf) /\ FeedOf'[Len(FeedOf')].key = key
      BY <3>1, EffectKey
    <3>4. Log!Keyed(c)
      BY <3>2, <3>3 DEF Log!Keyed, FeedOf
    <3> QED BY <3>1, <3>4 DEF Log!Next, Log!Context, Context
  <2>4. CASE CommitArtifact(o, c, key, d)
    <3>1. /\ StoreInv' /\ owner' = owner /\ c \in Context
          /\ FilesOf' = [FilesOf EXCEPT ![c] = @ \union {d}]
          /\ LogOf' = LogOf /\ SavedOf' = SavedOf
          /\ Log!Effect(c, "artifact", key)
      BY <2>4, CommitArtifactStep
    <3>2. Log!CommitArtifact(c, key)
      BY <3>1 DEF Log!CommitArtifact, LogOf, SavedOf, FilesOf
    <3>3. Len(FeedOf') > Len(FeedOf) /\ FeedOf'[Len(FeedOf')].key = key
      BY <3>1, EffectKey
    <3>4. Log!Keyed(c)
      BY <3>2, <3>3 DEF Log!Keyed, FeedOf
    <3> QED BY <3>1, <3>4 DEF Log!Next, Log!Context, Context
  <2> QED BY <2>2, <2>3, <2>4
<1>3. CASE \E o, c, key : \E w \in Owners : ForkTo(o, c, w, key)
  <2>1. PICK o, c, key : \E w \in Owners : ForkTo(o, c, w, key)
    BY <1>3
  <2>2. PICK w \in Owners : ForkTo(o, c, w, key)
    BY <2>1
  <2>3. /\ StoreInv' /\ owner' = Append(owner, w) /\ c \in Context
        /\ LogOf' = Append(LogOf, LogOf[c])
        /\ SavedOf' = Append(SavedOf, {}) /\ FilesOf' = Append(FilesOf, {})
        /\ Log!Effect(c, "fork", key)
    BY <2>2, ForkStep
  <2>4. Log!NewContext(w, LogOf[c])
    BY <2>3 DEF Log!NewContext, LogOf, SavedOf, FilesOf
  <2>5. Log!Fork(c, key)
    BY <2>3, <2>4 DEF Log!Fork, LogOf
  <2>6. Len(FeedOf') > Len(FeedOf) /\ FeedOf'[Len(FeedOf')].key = key
    BY <2>3, EffectKey
  <2>7. Log!Keyed(c)
    BY <2>5, <2>6 DEF Log!Keyed, FeedOf
  <2> QED BY <2>3, <2>7 DEF Log!Next, Log!Context, Context
<1>4. CASE \E o, c, key : Checkpoint(o, c, key)
  <2>1. PICK o, c, key : Checkpoint(o, c, key)
    BY <1>4
  <2>2. /\ StoreInv' /\ owner' = owner /\ c \in Context
        /\ SavedOf' = [SavedOf EXCEPT ![c] = @ \union {LogOf[c]}]
        /\ LogOf' = LogOf /\ FilesOf' = FilesOf
        /\ Log!Effect(c, "checkpoint", key)
    BY <2>1, CheckpointStep
  <2>3. Log!Checkpoint(c, key)
    BY <2>2 DEF Log!Checkpoint, LogOf, SavedOf, FilesOf
  <2>4. Len(FeedOf') > Len(FeedOf) /\ FeedOf'[Len(FeedOf')].key = key
    BY <2>2, EffectKey
  <2>5. Log!Keyed(c)
    BY <2>3, <2>4 DEF Log!Keyed, FeedOf
  <2> QED BY <2>2, <2>5 DEF Log!Next, Log!Context, Context
<1>5. CASE \E o, c, key, hash : Restore(o, c, key, hash)
  <2>1. PICK o, c, key, hash : Restore(o, c, key, hash)
    BY <1>5
  <2>2. /\ StoreInv' /\ owner' = owner /\ c \in Context
        /\ \E content \in SavedOf[c] : LogOf' = [LogOf EXCEPT ![c] = content]
        /\ SavedOf' = SavedOf /\ FilesOf' = FilesOf
        /\ Log!Effect(c, "restore", key)
    BY <2>1, RestoreStep
  <2>3. Log!Restore(c, key)
    BY <2>2 DEF Log!Restore, LogOf, SavedOf, FilesOf
  <2>4. Len(FeedOf') > Len(FeedOf) /\ FeedOf'[Len(FeedOf')].key = key
    BY <2>2, EffectKey
  <2>5. Log!Keyed(c)
    BY <2>3, <2>4 DEF Log!Keyed, FeedOf
  <2> QED BY <2>2, <2>5 DEF Log!Next, Log!Context, Context
<1>6. CASE (\E h : Rot(h)) \/ UNCHANGED storeVars
  <2>1. /\ StoreInv' /\ owner' = owner
        /\ LogOf' = LogOf /\ SavedOf' = SavedOf /\ FilesOf' = FilesOf /\ FeedOf' = FeedOf
    BY <1>6, RotStep, IdleStore
  <2> QED BY <2>1 DEF Log!vars, LogOf, SavedOf, FilesOf, FeedOf
<1> QED BY <1>1, <1>2, <1>3, <1>4, <1>5, <1>6 DEF StoreNext

\* No function on nothing but the empty sequence.
LEMMA EmptyView ==
    ASSUME NEW f, Listed(f, 0)
    PROVE  f = <<>>
<1>1. IsSeq(f) /\ Len(f) = 0
  <2>1. 0 \in Nat
    BY SMT
  <2> QED BY <2>1, FunctionIsSeq DEF Listed
<1> QED BY <1>1, SMT DEF IsSeq

LEMMA StoreStart == StoreInit => StoreInv /\ Log!Init
<1> SUFFICES ASSUME StoreInit PROVE StoreInv /\ Log!Init
  OBVIOUS
<1>1. /\ blobs = <<>> /\ owner = <<>> /\ tail = <<>> /\ pages = <<>>
      /\ grants = {} /\ operations = <<>> /\ commits = <<>>
  BY DEF StoreInit
<1>2. /\ \A S : <<>> \in Seq(S)
      /\ Len(<<>>) = 0 /\ DOMAIN <<>> = {} /\ 1..0 = {} /\ 0 \in Nat
      /\ 0 <= MaxContexts /\ 0 <= MaxCommits
  BY ContextStoreAssumption, SMT
<1>3. IsSeq(<<>>)
  BY <1>2 DEF IsSeq
<1>4. StoreInv
  BY <1>1, <1>2, <1>3 DEF StoreInv, Tabled, Context
<1>5. /\ [c \in 1..0 |-> ContextContent(c)] = <<>> /\ [c \in 1..0 |-> Saved(c)] = <<>>
      /\ [c \in 1..0 |-> Files(c)] = <<>>
      /\ [i \in 1..0 |-> [ctx |-> commits[i].ctx, kind |-> commits[i].kind, key |-> commits[i].key]] = <<>>
  <2>1. /\ Listed([c \in 1..0 |-> ContextContent(c)], 0) /\ Listed([c \in 1..0 |-> Saved(c)], 0)
        /\ Listed([c \in 1..0 |-> Files(c)], 0)
        /\ Listed([i \in 1..0 |-> [ctx |-> commits[i].ctx, kind |-> commits[i].kind, key |-> commits[i].key]], 0)
    BY DEF Listed
  <2> QED BY ONLY <2>1, EmptyView
<1>6. Log!Init
  BY <1>1, <1>2, <1>5 DEF Log!Init, Context
<1> QED BY <1>4, <1>6

----------------------------------------------------------------------------
(* Taint.                                                                  *)

\* More is told of where fewer labels were dropped.
LEMMA TellingLess ==
    ASSUME NEW R, NEW Q, R \subseteq Q, NEW c
    PROVE  Telling(Q, c) \subseteq Telling(R, c)
  BY DEF Telling

LEMMA TaintMore ==
    ASSUME NEW s, NEW X, NEW Y, X \subseteq Y, HasTaint(s, X)
    PROVE  HasTaint(s, Y)
  BY DEF HasTaint

\* DirtySet, of n contexts with contents L and saved contents S, where labels
\* were dropped in R.
Soiled(L, S, R, c)  == \E content \in S[c] \union {L[c]} : HasTaint(content, Telling(R, c))
DirtyIn(L, S, R, n) == {c \in 1..n : Soiled(L, S, R, c)}

LEMMA DirtyIs ==
    /\ DirtySet = DirtyIn(LogOf, SavedOf, dropped, Len(owner))
    /\ DirtySet' = DirtyIn(LogOf', SavedOf', dropped', Len(owner'))
<1>1. DirtySet = DirtyIn(LogOf, SavedOf, dropped, Len(owner))
  BY DEF DirtySet, Dirty, DirtyIn, Soiled, LogOf, SavedOf, Context
<1>2. DirtySet' = DirtyIn(LogOf', SavedOf', dropped', Len(owner'))
  BY DEF DirtySet, Dirty, DirtyIn, Soiled, LogOf, SavedOf, Context, HasTaint, Telling
<1> QED BY <1>1, <1>2

\* A label is dropped.
LEMMA DirtyDrop ==
    ASSUME NEW L, NEW S, NEW n, NEW R, NEW Q, R \subseteq Q
    PROVE  DirtyIn(L, S, Q, n) \subseteq DirtyIn(L, S, R, n)
<1> SUFFICES ASSUME NEW b \in DirtyIn(L, S, Q, n) PROVE b \in DirtyIn(L, S, R, n)
  OBVIOUS
<1>1. b \in 1..n
  BY DEF DirtyIn
<1>2. PICK content \in S[b] \union {L[b]} : HasTaint(content, Telling(Q, b))
  BY DEF DirtyIn, Soiled
<1>3. HasTaint(content, Telling(R, b))
  BY <1>2, TellingLess, TaintMore
<1> QED BY <1>1, <1>2, <1>3 DEF DirtyIn, Soiled

LEMMA LogData == ASSUME ContentLaw, StoreInv, NEW c \in Context PROVE LogOf[c] \in Seq(Data)
<1>1. tail[c] \in Tails /\ pages[c] \in Seq(DataHashes)
  BY StoreFields
<1>2. LogOf[c] = Content(pages[c], tail[c])
  BY DEF LogOf, ContextContent
<1> QED BY <1>1, <1>2 DEF ContentLaw

\* What an append, a checkpoint, a restore do at a context that was clean.
LEMMA DirtyAppend ==
    ASSUME NEW L, NEW S, NEW R, NEW n \in Nat, NEW c \in 1..n, L[c] \in Seq(Data), NEW d \in Data,
           Listed(L, n), NEW M, M = With(L, c, Append(L[c], d)),
           NEW b \in DirtyIn(M, S, R, n)
    PROVE  b \in DirtyIn(L, S, R, n) \/ (b = c /\ d \in Telling(R, c))
<1>0. DOMAIN L = 1..n /\ M = [i \in 1..n |-> IF i = c THEN Append(L[c], d) ELSE L[i]]
  BY DEF Listed, With
<1>1. b \in 1..n
  BY DEF DirtyIn
<1>2. PICK content \in S[b] \union {M[b]} : HasTaint(content, Telling(R, b))
  BY DEF DirtyIn, Soiled
<1>3. CASE content \in S[b] \/ b # c
  <2>1. content \in S[b] \union {L[b]}
    BY <1>0, <1>1, <1>2, <1>3
  <2> QED BY <1>1, <1>2, <2>1 DEF DirtyIn, Soiled
<1>4. CASE b = c /\ content = M[c]
  <2>1. content = Append(L[c], d)
    BY <1>0, <1>4
  <2>3. PICK X : X = Telling(R, c)
    OBVIOUS
  <2>4. HasTaint(Append(L[c], d), X)
    BY <1>2, <1>4, <2>1, <2>3
  <2>5. HasTaint(L[c], X) \/ d \in X
    BY ONLY L[c] \in Seq(Data), d \in Data, <2>4, TaintAppend
  <2>2. HasTaint(L[c], Telling(R, c)) \/ d \in Telling(R, c)
    BY <2>3, <2>5
  <2> QED BY <1>4, <2>2 DEF DirtyIn, Soiled
<1> QED BY <1>2, <1>3, <1>4

LEMMA DirtyCheckpoint ==
    ASSUME NEW L, NEW S, NEW R, NEW n \in Nat, NEW c \in 1..n, S = [b \in 1..n |-> S[b]],
           NEW T, T = [S EXCEPT ![c] = @ \union {L[c]}],
           NEW b \in DirtyIn(L, T, R, n)
    PROVE  b \in DirtyIn(L, S, R, n)
<1>1. b \in 1..n
  BY DEF DirtyIn
<1>2. PICK content \in T[b] \union {L[b]} : HasTaint(content, Telling(R, b))
  BY DEF DirtyIn, Soiled
<1>3. content \in S[b] \union {L[b]}
  BY <1>1, <1>2
<1> QED BY <1>1, <1>2, <1>3 DEF DirtyIn, Soiled

LEMMA DirtyRestore ==
    ASSUME NEW L, NEW S, NEW R, NEW n \in Nat, NEW c \in 1..n, L = [b \in 1..n |-> L[b]],
           NEW x \in S[c], NEW M, M = [L EXCEPT ![c] = x],
           NEW b \in DirtyIn(M, S, R, n)
    PROVE  b \in DirtyIn(L, S, R, n)
<1>1. b \in 1..n
  BY DEF DirtyIn
<1>2. PICK content \in S[b] \union {M[b]} : HasTaint(content, Telling(R, b))
  BY DEF DirtyIn, Soiled
<1>3. content \in S[b] \union {L[b]}
  BY <1>1, <1>2
<1> QED BY <1>1, <1>2, <1>3 DEF DirtyIn, Soiled

\* A new context has the taint of its first content.
LEMMA DirtyNew ==
    ASSUME NEW L, NEW S, NEW R, NEW Q, R \subseteq Q, NEW n \in Nat, IsSeq(L), Len(L) = n, IsSeq(S), Len(S) = n, NEW x,
           NEW b \in DirtyIn(Append(L, x), Append(S, {}), Q, n + 1)
    PROVE  b \in DirtyIn(L, S, R, n) \/ (b = n + 1 /\ HasTaint(x, Telling(Q, n + 1)))
<1>1. PICK M : M = Append(L, x)
  OBVIOUS
<1>2. PICK T : T = Append(S, {})
  OBVIOUS
<1>3. M[n + 1] = x /\ \A i \in 1..n : M[i] = L[i]
  <2>1. Append(L, x)[Len(L) + 1] = x /\ \A i \in 1..Len(L) : Append(L, x)[i] = L[i]
    BY ONLY IsSeq(L), AppendAny
  <2> QED BY <1>1, <2>1
<1>4. T[n + 1] = {} /\ \A i \in 1..n : T[i] = S[i]
  <2>1. Append(S, {})[Len(S) + 1] = {} /\ \A i \in 1..Len(S) : Append(S, {})[i] = S[i]
    BY ONLY IsSeq(S), AppendAny
  <2> QED BY <1>2, <2>1
<1>5. b \in 1..(n + 1) /\ \E content \in T[b] \union {M[b]} : HasTaint(content, Telling(Q, b))
  BY <1>1, <1>2 DEF DirtyIn, Soiled
<1>6. b \in 1..n \/ b = n + 1
  BY <1>5, SMT
<1>7. CASE b \in 1..n
  <2>1. b \in DirtyIn(L, S, Q, n)
    BY <1>3, <1>4, <1>5, <1>7 DEF DirtyIn, Soiled
  <2> QED BY <2>1, DirtyDrop
<1>8. CASE b = n + 1
  BY <1>3, <1>4, <1>5, <1>8
<1> QED BY <1>6, <1>7, <1>8

----------------------------------------------------------------------------
(* Applications.                                                           *)

\* The store and the ids go on under applications that stay as they are.
LEMMA FitsStore ==
    ASSUME NEW A, NEW n \in Nat, NEW W, NEW D, NEW k, Fits(A, n, W, D, k),
           NEW m \in Nat, n <= m, NEW V, NEW E,
           \A i \in 1..Len(W) : i \in 1..Len(V) /\ V[i] = W[i],
           \A a \in DOMAIN A : A[a].ctx \in E => A[a].tainted
    PROVE  Fits(A, m, V, E, k)
<1>1. DOMAIN A \subseteq 1..m
  <2>1. \A i \in 1..n : i \in 1..m
    BY SMT
  <2> QED BY <2>1 DEF Fits
<1> QED BY <1>1 DEF Fits, Told

\* Applications keep their ids, contexts and owners.
LEMMA FitsChange ==
    ASSUME NEW A, NEW n, NEW W, NEW D, NEW k \in Nat, Fits(A, n, W, D, k),
           NEW l \in Nat, k <= l, NEW B, DOMAIN B = DOMAIN A, B \in [DOMAIN B -> App],
           \A a \in DOMAIN A :
             /\ B[a].ctx = A[a].ctx /\ B[a].owner = A[a].owner /\ B[a].kernel = A[a].kernel
             /\ Told(B[a], D)
    PROVE  Fits(B, n, W, D, l)
<1>1. ASSUME NEW a \in DOMAIN A PROVE B[a].kernel <= l
  <2>1. A[a] \in App /\ A[a].kernel <= k
    BY DEF Fits
  <2>2. PICK j \in Nat : j = A[a].kernel
    BY <2>1 DEF App
  <2>3. j <= k
    BY <2>1, <2>2
  <2>4. j <= l
    BY <2>3, SMT
  <2> QED BY <2>2, <2>4
<1>2. DOMAIN B \subseteq 1..n
  BY DEF Fits
<1>3. \A a \in DOMAIN B : B[a].ctx \in 1..Len(W) /\ W[B[a].ctx] = B[a].owner /\ B[a].kernel <= l /\ Told(B[a], D)
  BY <1>1 DEF Fits
<1>4. ASSUME NEW a \in DOMAIN B, NEW b \in DOMAIN B, a # b
      PROVE  B[a].ctx # B[b].ctx /\ B[a].kernel # B[b].kernel
  <2>1. A[a].ctx # A[b].ctx /\ A[a].kernel # A[b].kernel
    BY <1>4 DEF Fits
  <2> QED BY <2>1
<1> QED BY <1>2, <1>3, <1>4 DEF Fits

\* One more application, with an id, a kernel id and a context of its own.
LEMMA FitsAdd ==
    ASSUME NEW A, NEW n \in Nat, NEW W, NEW D, NEW k \in Nat, Fits(A, n, W, D, k),
           NEW app \in App, NEW l \in Nat, k < l, app.kernel = l,
           app.ctx \in 1..Len(W), W[app.ctx] = app.owner, Told(app, D),
           \A a \in DOMAIN A : A[a].ctx # app.ctx
    PROVE  Fits(With(A, n + 1, app), n + 1, W, D, l)
<1>1. PICK B : B = With(A, n + 1, app)
  OBVIOUS
<1>2. n + 1 \in 1..(n + 1) /\ n + 1 \notin 1..n /\ \A i \in 1..n : i \in 1..(n + 1)
  BY SMT
<1>3. n + 1 \notin DOMAIN A /\ DOMAIN A \subseteq 1..(n + 1)
  BY <1>2 DEF Fits
<1>4. B = [x \in DOMAIN A \union {n + 1} |-> IF x = n + 1 THEN app ELSE A[x]]
  BY <1>1 DEF With
<1>5. DOMAIN B = DOMAIN A \union {n + 1} /\ B[n + 1] = app /\ \A a \in DOMAIN A : B[a] = A[a]
  BY <1>3, <1>4
<1>6. B \in [DOMAIN B -> App] /\ DOMAIN B \subseteq 1..(n + 1)
  <2>1. \A a \in DOMAIN B : B[a] \in App
    BY <1>5 DEF Fits
  <2> QED BY <1>2, <1>3, <1>4, <1>5, <2>1
<1>7. \A a \in DOMAIN A : A[a].kernel <= l /\ A[a].kernel # l
  <2>1. ASSUME NEW a \in DOMAIN A PROVE A[a].kernel <= l /\ A[a].kernel # l
    <3>1. A[a] \in App /\ A[a].kernel <= k
      BY DEF Fits
    <3>2. PICK j \in Nat : j = A[a].kernel
      BY <3>1 DEF App
    <3>3. j <= k
      BY <3>1, <3>2
    <3>4. j <= l /\ j # l
      BY <3>3, SMT
    <3> QED BY <3>2, <3>4
  <2> QED BY <2>1
<1>8. l <= l
  BY SMT
<1>9. \A a \in DOMAIN B : B[a].ctx \in 1..Len(W) /\ W[B[a].ctx] = B[a].owner /\ B[a].kernel <= l /\ Told(B[a], D)
  BY <1>5, <1>7, <1>8 DEF Fits
<1>10. \A a, b \in DOMAIN B : a # b => B[a].ctx # B[b].ctx /\ B[a].kernel # B[b].kernel
  <2>1. ASSUME NEW a \in DOMAIN B, NEW b \in DOMAIN B, a # b
        PROVE  B[a].ctx # B[b].ctx /\ B[a].kernel # B[b].kernel
    <3>1. CASE a = n + 1
      <4>1. b \in DOMAIN A
        BY <1>5, <2>1, <3>1
      <4> QED BY <1>5, <1>7, <3>1, <4>1
    <3>2. CASE b = n + 1
      <4>1. a \in DOMAIN A
        BY <1>5, <2>1, <3>2
      <4> QED BY <1>5, <1>7, <3>2, <4>1
    <3>3. CASE a # n + 1 /\ b # n + 1
      <4>1. a \in DOMAIN A /\ b \in DOMAIN A
        BY <1>5, <3>3
      <4>2. A[a].ctx # A[b].ctx /\ A[a].kernel # A[b].kernel
        BY <2>1, <4>1 DEF Fits
      <4> QED BY <1>5, <4>1, <4>2
    <3> QED BY <3>1, <3>2, <3>3
  <2> QED BY <2>1
<1>11. Fits(B, n + 1, W, D, l)
  BY <1>6, <1>9, <1>10 DEF Fits
<1> QED BY <1>1, <1>11

----------------------------------------------------------------------------
(* Answers.                                                                *)

\* What is told of is data.
LEMMA TellingData ==
    /\ \A R, c : NoTurn \notin Telling(R, c)
    /\ \A R, c : \A t \in Asked : t \notin Telling(R, c)
    /\ "tainted" \notin Data /\ NoTurn # "tainted"
<1>1. \A R, c : Telling(R, c) \subseteq Data
  BY ApplicationsAssumption DEF Telling
<1>2. "tainted" \in Asked
  BY DEF Asked
<1>3. NoTurn # "tainted"
  BY SMT DEF NoTurn
<1> QED BY <1>1, <1>2, <1>3, ApplicationsAssumption

\* Workers v are idle, or as they were in w.
Resting(v, w, S) ==
    /\ DOMAIN v \subseteq S
    /\ \A b \in DOMAIN v : v[b] = NoTurn \/ (b \in DOMAIN w /\ v[b] = w[b])

LEMMA RestingSteps ==
    ASSUME NEW S, DOMAIN worker \subseteq S, NEW a
    PROVE  /\ Resting(worker, worker, S) /\ Resting(Without(a), worker, S)
           /\ a \in S => Resting(With(worker, a, NoTurn), worker, S)
<1>1. Resting(worker, worker, S)
  BY DEF Resting
<1>2. Resting(Without(a), worker, S)
  BY DEF Resting, Without
<1>3. ASSUME a \in S PROVE Resting(With(worker, a, NoTurn), worker, S)
  <2>1. PICK v : v = With(worker, a, NoTurn)
    OBVIOUS
  <2>2. v = [x \in DOMAIN worker \union {a} |-> IF x = a THEN NoTurn ELSE worker[x]]
    BY <2>1 DEF With
  <2>3. DOMAIN v = DOMAIN worker \union {a}
    BY <2>2
  <2>4. \A b \in DOMAIN v : v[b] = NoTurn \/ (b \in DOMAIN worker /\ v[b] = worker[b])
    BY <2>2, <2>3
  <2> QED BY <1>3, <2>1, <2>3, <2>4 DEF Resting
<1> QED BY <1>1, <1>2, <1>3

\* Applications are added or tainted, workers go to rest, and labels are
\* dropped.
LEMMA OwedStep ==
    ASSUME NEW A, NEW w, NEW R, Owed(A, w, R), NEW B, NEW v, NEW Q, R \subseteq Q,
           \A a \in DOMAIN A : a \in DOMAIN B /\ B[a].ctx = A[a].ctx /\ (A[a].tainted => B[a].tainted),
           \A a \in DOMAIN B : Owes(B[a], R), Resting(v, w, DOMAIN B)
    PROVE  Owed(B, v, Q)
<1>1. \A c : Telling(Q, c) \subseteq Telling(R, c)
  BY TellingLess
<1>2. \A a \in DOMAIN B : Owes(B[a], Q)
  BY <1>1 DEF Owes
<1>3. ASSUME NEW b \in DOMAIN v, v[b] \in Telling(Q, B[b].ctx) PROVE B[b].tainted
  <2>1. b \in DOMAIN w /\ v[b] = w[b]
    BY <1>3, TellingData DEF Resting
  <2>2. b \in DOMAIN A /\ (w[b] \in Telling(R, A[b].ctx) => A[b].tainted)
    BY <2>1 DEF Owed
  <2>3. B[b].ctx = A[b].ctx /\ (A[b].tainted => B[b].tainted)
    BY <2>2
  <2>4. w[b] \in Telling(R, A[b].ctx)
    BY <1>1, <1>3, <2>1, <2>3
  <2> QED BY <2>2, <2>3, <2>4
<1> QED BY <1>2, <1>3 DEF Owed, Resting

----------------------------------------------------------------------------
(* Records.                                                                *)

\* x is the application p, as far as the store is concerned.
SameApp(x, p) == x.owner = p.owner /\ x.ctx = p.ctx /\ x.kernel = p.kernel

LEMMA SetTurn ==
    ASSUME NEW p \in App, NEW t \in Turns
    PROVE  LET x == [p EXCEPT !.turn = t]
           IN  x \in App /\ SameApp(x, p) /\ x.turn = t /\ x.tainted = p.tainted /\ x.turns = p.turns
<1>1. PICK T : T = Turns
  OBVIOUS
<1>2. p \in [owner : Owners, ctx : Nat, kernel : Nat, tainted : BOOLEAN, live : BOOLEAN, turn : T, turns : Nat]
  BY <1>1 DEF App
<1>3. LET x == [p EXCEPT !.turn = t]
      IN  /\ x \in [owner : Owners, ctx : Nat, kernel : Nat, tainted : BOOLEAN, live : BOOLEAN, turn : T, turns : Nat]
          /\ SameApp(x, p) /\ x.turn = t /\ x.tainted = p.tainted /\ x.turns = p.turns
  BY <1>1, <1>2, SMT DEF SameApp
<1> QED BY <1>1, <1>3 DEF App

LEMMA SetLive ==
    ASSUME NEW p \in App, NEW t \in BOOLEAN
    PROVE  LET x == [p EXCEPT !.live = t]
           IN  x \in App /\ SameApp(x, p) /\ x.turn = p.turn /\ x.tainted = p.tainted
  BY SMT DEF App, SameApp

LEMMA SetTurns ==
    ASSUME NEW p \in App, NEW t \in Nat
    PROVE  LET x == [p EXCEPT !.turns = t]
           IN  x \in App /\ SameApp(x, p) /\ x.turn = p.turn /\ x.tainted = p.tainted
  BY SMT DEF App, SameApp

LEMMA SetTainted ==
    ASSUME NEW p \in App, NEW t \in BOOLEAN
    PROVE  LET x == [p EXCEPT !.tainted = t]
           IN  x \in App /\ SameApp(x, p) /\ x.turn = p.turn /\ x.tainted = t
  BY SMT DEF App, SameApp

\* The supervisor's state, and with application a replaced by x.
IsState(m) == m \in [apps : {m.apps}, nextKernel : Nat] /\ m.apps \in [DOMAIN m.apps -> App]

Changed(m, a, x) == [apps |-> [m.apps EXCEPT ![a] = x], nextKernel |-> m.nextKernel]

LEMMA ChangedFacts ==
    ASSUME NEW m, IsState(m), NEW a \in DOMAIN m.apps, NEW x \in App
    PROVE  LET c == Changed(m, a, x)
           IN  /\ IsState(c) /\ DOMAIN c.apps = DOMAIN m.apps /\ c.apps[a] = x
               /\ c.nextKernel = m.nextKernel
               /\ \A b \in DOMAIN m.apps : b # a => c.apps[b] = m.apps[b]
               /\ \A y : Changed(c, a, y) = Changed(m, a, y)
               /\ [m EXCEPT !.apps[a] = x] = c
<1>1. PICK A : A = m.apps
  OBVIOUS
<1>2. PICK c : c = Changed(m, a, x)
  OBVIOUS
<1>3. PICK B : B = [A EXCEPT ![a] = x]
  OBVIOUS
<1>4. m \in [apps : {A}, nextKernel : Nat] /\ A \in [DOMAIN A -> App] /\ a \in DOMAIN A
  BY <1>1 DEF IsState
<1>5. /\ B \in [DOMAIN A -> App] /\ DOMAIN B = DOMAIN A /\ B[a] = x
      /\ \A b \in DOMAIN A : b # a => B[b] = A[b]
  BY <1>3, <1>4
<1>6. c = [apps |-> B, nextKernel |-> m.nextKernel]
  BY <1>1, <1>2, <1>3 DEF Changed
<1>7. m.nextKernel \in Nat
  BY <1>4
<1>8. c.apps = B /\ c.nextKernel = m.nextKernel
  BY <1>6
<1>9. IsState(c)
  BY <1>5, <1>6, <1>7, <1>8 DEF IsState
<1>10. ASSUME NEW y PROVE Changed(c, a, y) = Changed(m, a, y)
  <2>1. [B EXCEPT ![a] = y] = [A EXCEPT ![a] = y]
    BY <1>3, <1>4, <1>5
  <2> QED BY <1>1, <1>8, <2>1 DEF Changed
<1>11. [m EXCEPT !.apps[a] = x] = c
  <2>1. [m EXCEPT !.apps[a] = x] = [m EXCEPT !.apps = B]
    BY <1>1, <1>3
  <2>2. [m EXCEPT !.apps = B] = [apps |-> B, nextKernel |-> m.nextKernel]
    BY <1>4, SMT
  <2> QED BY <1>6, <2>1, <2>2
<1> QED BY <1>1, <1>2, <1>5, <1>8, <1>9, <1>10, <1>11

----------------------------------------------------------------------------
(* Steps of the supervisor.                                                *)

LEMMA AppInvFacts ==
    ASSUME AppInv
    PROVE  /\ StoreInv /\ IsState(mem) /\ disk.apps = mem.apps
           /\ disk \in [apps : {disk.apps}, nextKernel : Nat]
           /\ mem.nextKernel \in Nat /\ disk.nextKernel \in Nat /\ disk.nextKernel <= mem.nextKernel
           /\ Fits(mem.apps, issued, owner, DirtySet, disk.nextKernel) /\ ForkKeys
           /\ Owed(mem.apps, worker, dropped) /\ DOMAIN worker \subseteq Apps
           /\ issued \in Nat
<1>1. /\ mem \in [apps : {mem.apps}, nextKernel : Nat]
      /\ disk \in [apps : {mem.apps}, nextKernel : 0..mem.nextKernel]
      /\ Fits(mem.apps, issued, owner, DirtySet, disk.nextKernel)
      /\ StoreInv /\ ForkKeys /\ issued \in 0..MaxApps
      /\ Owed(mem.apps, worker, dropped)
  BY DEF AppInv
<1>2. PICK k \in Nat : k = mem.nextKernel
  BY <1>1
<1>3. PICK l \in 0..k : l = disk.nextKernel
  BY <1>1, <1>2
<1>4. l \in Nat /\ l <= k
  BY SMT
<1>5. disk.apps = mem.apps /\ disk \in [apps : {disk.apps}, nextKernel : Nat]
  <2>1. disk = [apps |-> disk.apps, nextKernel |-> disk.nextKernel] /\ disk.apps = mem.apps
    BY <1>1
  <2> QED BY <1>3, <1>4, <2>1
<1>6. IsState(mem)
  BY <1>1 DEF IsState, Fits
<1>7. issued \in Nat
  BY <1>1, ApplicationsAssumption, SMT
<1>8. DOMAIN worker \subseteq Apps
  BY <1>1 DEF Owed, Apps
<1> QED BY <1>1, <1>2, <1>3, <1>4, <1>5, <1>6, <1>7, <1>8

\* A mishap counts.
LEMMA MishapFacts == ASSUME AppInv, Mishap PROVE mishaps' \in 0..MaxMishaps
<1>1. mishaps \in 0..MaxMishaps /\ mishaps < MaxMishaps /\ mishaps' = mishaps + 1 /\ MaxMishaps \in Nat
  BY ApplicationsAssumption DEF AppInv, Mishap
<1> QED BY <1>1, SMT

\* The write succeeds or fails.
LEMMA Persisted ==
    ASSUME AppInv, NEW state, persistLocked(state), StoreInv', ForkKeys',
           state \in [apps : {state.apps}, nextKernel : Nat],
           Fits(state.apps, issued', owner', DirtySet', state.nextKernel),
           Fits(mem.apps, issued', owner', DirtySet', disk.nextKernel),
           DOMAIN mem.apps \subseteq DOMAIN state.apps,
           Owed(mem'.apps, worker', dropped'),
           lock' \in DOMAIN mem.apps \union {0}, issued' \in 0..MaxApps
    PROVE  AppInv'
<1>1. PICK k \in Nat : k = state.nextKernel
  OBVIOUS
<1>2. PICK l \in Nat : l = disk.nextKernel
  BY AppInvFacts
<1>3. k \in 0..k /\ l \in 0..l
  BY SMT
<1>4. disk.apps = mem.apps /\ disk \in [apps : {disk.apps}, nextKernel : Nat]
  BY AppInvFacts
<1>5. CASE mem' = state /\ disk' = state /\ UNCHANGED mishaps
  <2>1. mishaps' \in 0..MaxMishaps
    BY <1>5 DEF AppInv
  <2>2. state \in [apps : {state.apps}, nextKernel : 0..state.nextKernel]
    <3>1. state = [apps |-> state.apps, nextKernel |-> state.nextKernel]
      OBVIOUS
    <3> QED BY <1>1, <1>3, <3>1
  <2>3. /\ mem' \in [apps : {mem'.apps}, nextKernel : Nat]
        /\ disk' \in [apps : {mem'.apps}, nextKernel : 0..mem'.nextKernel]
        /\ Fits(mem'.apps, issued', owner', DirtySet', disk'.nextKernel)
    BY <1>5, <2>2
  <2>4. lock' \in DOMAIN mem'.apps \union {0}
    BY <1>5
  <2> QED BY <2>1, <2>3, <2>4 DEF AppInv, Apps
<1>6. CASE Mishap /\ mem' = disk /\ UNCHANGED disk
  <2>1. mishaps' \in 0..MaxMishaps
    BY <1>6, MishapFacts
  <2>2. disk \in [apps : {disk.apps}, nextKernel : 0..disk.nextKernel]
    <3>1. disk = [apps |-> disk.apps, nextKernel |-> disk.nextKernel]
      BY <1>4
    <3> QED BY <1>2, <1>3, <3>1
  <2>3. /\ mem' \in [apps : {mem'.apps}, nextKernel : Nat]
        /\ disk' \in [apps : {mem'.apps}, nextKernel : 0..mem'.nextKernel]
        /\ Fits(mem'.apps, issued', owner', DirtySet', disk'.nextKernel)
    BY <1>4, <1>6, <2>2
  <2>4. lock' \in DOMAIN mem'.apps \union {0}
    BY <1>4, <1>6
  <2> QED BY <2>1, <2>3, <2>4 DEF AppInv, Apps
<1> QED BY <1>5, <1>6 DEF persistLocked, Written, RolledBack

\* The state is not written.
LEMMA Kept ==
    ASSUME AppInv, mem' = mem, disk' = disk, StoreInv', ForkKeys', issued' = issued,
           mishaps' = mishaps, lock' \in DOMAIN mem.apps \union {0},
           Fits(mem.apps, issued, owner', DirtySet', disk.nextKernel),
           Owed(mem.apps, worker', dropped')
    PROVE  AppInv'
  BY DEF AppInv, Apps

\* No other key may name a fork.
LEMMA KeysStep ==
    ASSUME AppInv, issued' \in Nat, issued <= issued',
           \A b \in Context' : \A k \in DOMAIN operations'[b] :
               (b \in Context /\ k \in DOMAIN operations[b]) \/ (k[1] = "fork" => k[2] \in 1..issued')
    PROVE  ForkKeys'
<1>1. \A i \in 1..issued : i \in 1..issued'
  <2>1. PICK m \in Nat : m = issued
    BY AppInvFacts
  <2>2. PICK n \in Nat : n = issued'
    OBVIOUS
  <2>3. m <= n
    BY <2>1, <2>2
  <2>4. \A i \in 1..m : i \in 1..n
    BY <2>3, SMT
  <2> QED BY <2>1, <2>2, <2>4
<1>2. ForkKeys
  BY AppInvFacts
<1>3. ASSUME NEW b \in Context', NEW k \in DOMAIN operations'[b], k[1] = "fork" PROVE k[2] \in 1..issued'
  BY <1>1, <1>2, <1>3 DEF ForkKeys
<1> QED BY <1>3 DEF ForkKeys

\* The store does not change, or only in what a blob reads as.
LEMMA QuietStore ==
    ASSUME AppInv, UNCHANGED storeVars \/ (\E h : Rot(h)), issued' = issued
    PROVE  /\ StoreInv' /\ ForkKeys' /\ owner' = owner
           /\ dropped' = dropped => DirtySet' = DirtySet
           /\ dropped \subseteq dropped' => DirtySet' \subseteq DirtySet
<1>0. StoreInv /\ issued \in Nat /\ ForkKeys
  BY AppInvFacts
<1>1. /\ StoreInv' /\ owner' = owner /\ operations' = operations
      /\ LogOf' = LogOf /\ SavedOf' = SavedOf
  BY <1>0, RotStep, IdleStore
<1>2. ForkKeys'
  BY <1>0, <1>1 DEF ForkKeys, Context
<1>3. dropped' = dropped => DirtySet' = DirtySet
  BY <1>1, DirtyIs
<1>4. dropped \subseteq dropped' => DirtySet' \subseteq DirtySet
  BY <1>1, DirtyIs, DirtyDrop
<1> QED BY <1>1, <1>2, <1>3, <1>4

\* An application is changed, and the state written.
LEMMA ChangeStep ==
    ASSUME AppInv, NEW a \in Apps, NEW x \in App, SameApp(x, mem.apps[a]), Told(x, DirtySet),
           persistLocked(Changed(mem, a, x)), UNCHANGED storeVars, issued' = issued,
           lock' \in Apps \union {0}, dropped' = dropped, Owed(mem'.apps, worker', dropped)
    PROVE  AppInv'
<1>1. StoreInv' /\ ForkKeys' /\ owner' = owner /\ DirtySet' = DirtySet
  BY QuietStore
<1>2. PICK c : c = Changed(mem, a, x)
  OBVIOUS
<1>3. IsState(mem) /\ Fits(mem.apps, issued, owner, DirtySet, disk.nextKernel) /\ a \in DOMAIN mem.apps
  BY AppInvFacts DEF Apps
<1>4. /\ IsState(c) /\ DOMAIN c.apps = DOMAIN mem.apps /\ c.apps[a] = x
      /\ c.nextKernel = mem.nextKernel
      /\ \A b \in DOMAIN mem.apps : b # a => c.apps[b] = mem.apps[b]
  BY ONLY <1>2, <1>3, x \in App, ChangedFacts
<1>5. \A b \in DOMAIN mem.apps :
         /\ c.apps[b].ctx = mem.apps[b].ctx /\ c.apps[b].owner = mem.apps[b].owner
         /\ c.apps[b].kernel = mem.apps[b].kernel
         /\ Told(c.apps[b], DirtySet)
  BY <1>3, <1>4 DEF SameApp, Fits
<1>6. disk.nextKernel \in Nat /\ mem.nextKernel \in Nat /\ disk.nextKernel <= mem.nextKernel
  BY AppInvFacts
<1>7. c.apps \in [DOMAIN c.apps -> App]
  BY <1>4 DEF IsState
<1>8. Fits(c.apps, issued, owner, DirtySet, mem.nextKernel)
  BY ONLY <1>3, <1>4, <1>5, <1>6, <1>7, FitsChange
<1>9. c \in [apps : {c.apps}, nextKernel : Nat]
  BY <1>4 DEF IsState
<1>10. issued' \in 0..MaxApps
  BY DEF AppInv
<1>11. persistLocked(c) /\ lock' \in DOMAIN mem.apps \union {0} /\ DOMAIN mem.apps \subseteq DOMAIN c.apps
  BY <1>2, <1>4 DEF Apps
<1>12. /\ Fits(c.apps, issued', owner', DirtySet', c.nextKernel)
       /\ Fits(mem.apps, issued', owner', DirtySet', disk.nextKernel)
  BY <1>1, <1>3, <1>4, <1>8
<1>13. Owed(mem'.apps, worker', dropped')
  OBVIOUS
<1> QED BY <1>1, <1>9, <1>10, <1>11, <1>12, <1>13, Persisted

\* Whether or not the write succeeds, the workers are in step with it.
LEMMA OwedChange ==
    ASSUME AppInv, NEW a \in Apps, NEW x \in App, SameApp(x, mem.apps[a]), Owes(x, dropped),
           mem.apps[a].tainted => x.tainted, persistLocked(Changed(mem, a, x)),
           Resting(worker', worker, Apps)
    PROVE  Owed(mem'.apps, worker', dropped)
<1>1. PICK c : c = Changed(mem, a, x)
  OBVIOUS
<1>2. /\ IsState(mem) /\ Owed(mem.apps, worker, dropped) /\ disk.apps = mem.apps
      /\ a \in DOMAIN mem.apps /\ Resting(worker', worker, DOMAIN mem.apps)
  BY AppInvFacts DEF Apps
<1>3. /\ DOMAIN c.apps = DOMAIN mem.apps /\ c.apps[a] = x
      /\ \A b \in DOMAIN mem.apps : b # a => c.apps[b] = mem.apps[b]
  BY ONLY <1>1, <1>2, x \in App, ChangedFacts
<1>4. mem' = c \/ mem' = disk
  BY <1>1 DEF persistLocked, Written, RolledBack
<1>5. PICK B : B = mem'.apps
  OBVIOUS
<1>6. PICK A : A = mem.apps
  OBVIOUS
<1>7. PICK v : v = worker'
  OBVIOUS
<1>8. B = c.apps \/ B = A
  BY <1>2, <1>4, <1>5, <1>6
<1>9. Owed(A, worker, dropped) /\ Resting(v, worker, DOMAIN B) /\ DOMAIN B = DOMAIN A
  BY <1>2, <1>3, <1>6, <1>7, <1>8
<1>10. \A b \in DOMAIN A : b \in DOMAIN B /\ B[b].ctx = A[b].ctx /\ (A[b].tainted => B[b].tainted)
  BY <1>3, <1>6, <1>8, <1>9 DEF SameApp
<1>11. \A b \in DOMAIN B : Owes(B[b], dropped)
  BY <1>3, <1>6, <1>8, <1>9 DEF Owed
<1>12. dropped \subseteq dropped
  OBVIOUS
<1>13. Owed(B, v, dropped)
  BY ONLY <1>9, <1>10, <1>11, <1>12, OwedStep
<1> QED BY <1>5, <1>7, <1>13

\* The state is written as it is.
LEMMA SavedStep ==
    ASSUME AppInv, persistLocked(mem), UNCHANGED storeVars, issued' = issued,
           lock' \in Apps \union {0}, dropped \subseteq dropped',
           Owed(mem.apps, worker', dropped')
    PROVE  AppInv'
<1>1. StoreInv' /\ ForkKeys' /\ owner' = owner /\ DirtySet' \subseteq DirtySet
  BY QuietStore
<1>2. PICK A : A = mem.apps
  OBVIOUS
<1>3. PICK k \in Nat : k = disk.nextKernel
  BY AppInvFacts
<1>4. PICK l \in Nat : l = mem.nextKernel
  BY AppInvFacts
<1>5. PICK i \in Nat : i = issued
  BY AppInvFacts
<1>6. Fits(A, i, owner, DirtySet, k) /\ k <= l /\ IsState(mem) /\ disk.apps = A
  BY <1>2, <1>3, <1>4, <1>5, AppInvFacts
<1>7. /\ DOMAIN A = DOMAIN A /\ A \in [DOMAIN A -> App]
      /\ \A a \in DOMAIN A : /\ A[a].ctx = A[a].ctx /\ A[a].owner = A[a].owner
                             /\ A[a].kernel = A[a].kernel /\ Told(A[a], DirtySet)
  BY <1>6 DEF Fits
<1>8. Fits(A, i, owner, DirtySet, l)
  BY ONLY SMTT(30), k \in Nat, l \in Nat, <1>6, <1>7, FitsChange
<1>9. PICK E : E = DirtySet'
  OBVIOUS
<1>10. /\ i <= i /\ \A j \in 1..Len(owner) : j \in 1..Len(owner) /\ owner[j] = owner[j]
       /\ \A a \in DOMAIN A : A[a].ctx \in E => A[a].tainted
  <2>1. i <= i
    BY SMT
  <2> QED BY <1>1, <1>7, <1>9, <2>1 DEF Told
<1>11. Fits(A, i, owner, E, k)
  BY ONLY i \in Nat, <1>6, <1>10, FitsStore
<1>12. Fits(A, i, owner, E, l)
  BY ONLY i \in Nat, <1>8, <1>10, FitsStore
<1>13. /\ Fits(mem.apps, issued', owner', DirtySet', mem.nextKernel)
       /\ Fits(mem.apps, issued', owner', DirtySet', disk.nextKernel)
  BY <1>1, <1>2, <1>3, <1>4, <1>5, <1>9, <1>11, <1>12
<1>14. mem'.apps = mem.apps
  BY <1>2, <1>6 DEF persistLocked, Written, RolledBack
<1>15. Owed(mem'.apps, worker', dropped')
  BY <1>14
<1>16. mem \in [apps : {mem.apps}, nextKernel : Nat] /\ issued' \in 0..MaxApps
  BY DEF AppInv
<1>17. lock' \in DOMAIN mem.apps \union {0} /\ DOMAIN mem.apps \subseteq DOMAIN mem.apps
  BY DEF Apps
<1> QED BY <1>1, <1>13, <1>15, <1>16, <1>17, Persisted

\* What becomes of the application is told before.
LEMMA OwesApp == ASSUME AppInv, NEW a \in Apps PROVE Owes(mem.apps[a], dropped)
  BY AppInvFacts DEF Owed, Apps

LEMMA RetireStep ==
    ASSUME AppInv, NEW a \in Apps, RetireApplication(a)
    PROVE  AppInv'
<1>1. PICK t \in {NoTurn, mem.apps[a].turn} :
          persistLocked([mem EXCEPT !.apps[a] = [@ EXCEPT !.live = FALSE, !.turn = t]])
  BY DEF RetireApplication
<1>2. UNCHANGED storeVars /\ issued' = issued /\ lock' = 0 /\ worker' = worker /\ dropped' = dropped
  BY DEF RetireApplication
<1>3. /\ IsState(mem) /\ a \in DOMAIN mem.apps /\ mem.apps[a] \in App
      /\ Told(mem.apps[a], DirtySet)
  BY AppInvFacts DEF Apps, Fits, IsState
<1>4. PICK p : p = mem.apps[a]
  OBVIOUS
<1>5. PICK x : x = [p EXCEPT !.live = FALSE]
  OBVIOUS
<1>6. x \in App /\ SameApp(x, p) /\ x.turn = p.turn /\ x.tainted = p.tainted
  <2>1. p \in App /\ FALSE \in BOOLEAN
    BY <1>3, <1>4
  <2> QED BY ONLY <1>5, <2>1, SetLive
<1>7. PICK y : y = [x EXCEPT !.turn = t]
  OBVIOUS
<1>8. y \in App /\ SameApp(y, x) /\ y.turn = t /\ y.tainted = x.tainted
  <2>1. t \in Turns
    BY <1>1, <1>3 DEF App, Turns
  <2> QED BY ONLY <1>6, <1>7, <2>1, SetTurn
<1>9. y = [p EXCEPT !.live = FALSE, !.turn = t]
  BY <1>5, <1>7
<1>10. [mem EXCEPT !.apps[a] = [@ EXCEPT !.live = FALSE, !.turn = t]] = [mem EXCEPT !.apps[a] = y]
  BY <1>4, <1>9
<1>11. [mem EXCEPT !.apps[a] = y] = Changed(mem, a, y)
  BY ONLY <1>3, <1>8, ChangedFacts
<1>14. persistLocked(Changed(mem, a, y))
  BY <1>1, <1>10, <1>11
<1>15. Told(y, DirtySet)
  BY <1>3, <1>4, <1>6, <1>8 DEF Told, SameApp
<1>16. SameApp(y, mem.apps[a]) /\ lock' \in Apps \union {0}
  BY <1>2, <1>4, <1>6, <1>8 DEF SameApp
<1>17. Owes(y, dropped)
  BY <1>1, <1>4, <1>8, <1>6, <1>16, OwesApp, TellingData DEF Owes, SameApp
<1>18. (mem.apps[a].tainted => y.tainted) /\ Resting(worker', worker, Apps)
  BY <1>2, <1>4, <1>6, <1>8, AppInvFacts, RestingSteps
<1>19. Owed(mem'.apps, worker', dropped)
  BY <1>8, <1>14, <1>16, <1>17, <1>18, OwedChange
<1> QED BY <1>2, <1>8, <1>14, <1>15, <1>16, <1>19, ChangeStep

\* The message is claimed for the first time, or again.
LEMMA ClaimedFacts ==
    ASSUME NEW p \in App, NEW t \in Asked, NEW R, Owes(p, R)
    PROVE  LET z == Claimed(p, t)
           IN  z \in App /\ SameApp(z, p) /\ (p.tainted => z.tainted) /\ Owes(z, R)
<1>1. CASE p.turn # NoTurn
  BY <1>1 DEF Claimed, SameApp
<1>2. CASE p.turn = NoTurn
  <2>1. PICK x : x = [p EXCEPT !.turn = t]
    OBVIOUS
  <2>2. x \in App /\ SameApp(x, p) /\ x.turn = t /\ x.tainted = p.tainted /\ x.turns = p.turns
    <3>1. t \in Turns
      BY DEF Turns
    <3> QED BY ONLY p \in App, <2>1, <3>1, SetTurn
  <2>3. PICK n : n = x.turns + 1
    OBVIOUS
  <2>4. n \in Nat
    <3>1. PICK i \in Nat : i = x.turns
      BY <2>2 DEF App
    <3>2. i + 1 \in Nat
      BY SMT
    <3> QED BY <2>3, <3>1, <3>2
  <2>5. PICK y : y = [x EXCEPT !.turns = n]
    OBVIOUS
  <2>6. y \in App /\ SameApp(y, x) /\ y.turn = x.turn /\ y.tainted = x.tainted
    BY ONLY <2>2, <2>4, <2>5, SetTurns
  <2> DEFINE u == y.tainted \/ t = "tainted"
  <2>7. u \in BOOLEAN
    OBVIOUS
  <2> HIDE DEF u
  <2>8. PICK z : z = [y EXCEPT !.tainted = u]
    OBVIOUS
  <2>9. z \in App /\ SameApp(z, y) /\ z.turn = y.turn /\ z.tainted = u
    BY ONLY <2>6, <2>7, <2>8, SetTainted
  <2>10. z = [p EXCEPT !.turn = t, !.turns = @ + 1, !.tainted = @ \/ t = "tainted"]
    BY ONLY <2>1, <2>3, <2>5, <2>8 DEF u
  <2>11. z = Claimed(p, t)
    BY <1>2, <2>10 DEF Claimed
  <2>12. SameApp(z, p)
    BY <2>2, <2>6, <2>9 DEF SameApp
  <2>13. (p.tainted => z.tainted) /\ (t = "tainted" => z.tainted)
    BY <2>2, <2>6, <2>9 DEF u
  <2>14. Owes(z, R)
    BY <2>2, <2>6, <2>9, <2>13, TellingData DEF Owes
  <2> QED BY <2>9, <2>11, <2>12, <2>13, <2>14
<1> QED BY <1>1, <1>2

LEMMA ClaimStep ==
    ASSUME AppInv, NEW a \in Apps, NEW t \in Asked, ClaimTurn(a, t)
    PROVE  AppInv'
<1>1. persistLocked([mem EXCEPT !.apps[a] = Claimed(@, t)])
  BY DEF ClaimTurn, persistLocked
<1>2. /\ UNCHANGED storeVars /\ issued' = issued /\ lock' = 0 /\ dropped' = dropped
      /\ worker' = worker \/ worker' = With(worker, a, NoTurn)
  BY DEF ClaimTurn
<1>3. /\ IsState(mem) /\ a \in DOMAIN mem.apps /\ mem.apps[a] \in App
      /\ Told(mem.apps[a], DirtySet) /\ Owes(mem.apps[a], dropped)
  BY AppInvFacts, OwesApp DEF Apps, Fits, IsState
<1>4. PICK p : p = mem.apps[a]
  OBVIOUS
<1>5. PICK z : z = Claimed(p, t)
  OBVIOUS
<1>6. z \in App /\ SameApp(z, p) /\ (p.tainted => z.tainted) /\ Owes(z, dropped)
  BY <1>3, <1>4, <1>5, ClaimedFacts
<1>7. [mem EXCEPT !.apps[a] = Claimed(@, t)] = [mem EXCEPT !.apps[a] = z]
  BY ONLY <1>4, <1>5
<1>8. [mem EXCEPT !.apps[a] = z] = Changed(mem, a, z)
  BY ONLY <1>3, <1>6, ChangedFacts
<1>9. persistLocked(Changed(mem, a, z))
  BY <1>1, <1>7, <1>8
<1>10. Told(z, DirtySet) /\ SameApp(z, mem.apps[a]) /\ lock' \in Apps \union {0}
  BY <1>2, <1>3, <1>4, <1>6 DEF Told, SameApp
<1>11. (mem.apps[a].tainted => z.tainted) /\ Resting(worker', worker, Apps)
  BY <1>2, <1>4, <1>6, AppInvFacts, RestingSteps
<1>12. Owed(mem'.apps, worker', dropped)
  BY <1>6, <1>9, <1>10, <1>11, OwedChange
<1> QED BY <1>2, <1>6, <1>9, <1>10, <1>12, ChangeStep

\* An answer comes in that tells of nothing the application does not know.
LEMMA OwedAnswer ==
    ASSUME NEW A, NEW w, NEW R, Owed(A, w, R), NEW B, NEW v, NEW Q, R \subseteq Q,
           DOMAIN B = DOMAIN A,
           \A b \in DOMAIN A : B[b].ctx = A[b].ctx /\ (A[b].tainted => B[b].tainted),
           \A b \in DOMAIN B : Owes(B[b], R),
           NEW a \in DOMAIN B, NEW d, v = With(w, a, d),
           d \in Telling(Q, B[a].ctx) => B[a].tainted
    PROVE  Owed(B, v, Q)
<1>1. DOMAIN w \subseteq DOMAIN B
  BY DEF Owed
<1>2. Resting(w, w, DOMAIN B)
  BY <1>1 DEF Resting
<1>3. Owed(B, w, Q)
  BY <1>2, OwedStep
<1>4. v = [x \in DOMAIN w \union {a} |-> IF x = a THEN d ELSE w[x]]
  BY DEF With
<1>5. DOMAIN v = DOMAIN w \union {a} /\ v[a] = d /\ \A b \in DOMAIN w : b # a => v[b] = w[b]
  BY <1>4
<1>6. \A b \in DOMAIN v : v[b] \in Telling(Q, B[b].ctx) => B[b].tainted
  BY <1>3, <1>5 DEF Owed
<1> QED BY <1>3, <1>5, <1>6 DEF Owed

LEMMA ExecuteStep ==
    ASSUME AppInv, NEW a \in Apps, NEW d \in Data, ExecuteTurn(a, d)
    PROVE  AppInv'
<1>1. /\ UNCHANGED storeVars /\ issued' = issued /\ lock' = lock /\ worker' = With(worker, a, d)
      /\ d \in Tainted <=> mem.apps[a].turn = "tainted"
  BY DEF ExecuteTurn
<1>2. /\ IsState(mem) /\ a \in DOMAIN mem.apps /\ mem.apps[a] \in App
      /\ Told(mem.apps[a], DirtySet) /\ Owes(mem.apps[a], dropped)
      /\ Owed(mem.apps, worker, dropped) /\ disk.apps = mem.apps
  BY AppInvFacts, OwesApp DEF Apps, Fits, IsState
<1>3. d \in Tainted => mem.apps[a].tainted
  BY <1>1, <1>2 DEF Owes
<1>4. lock' \in Apps \union {0} /\ lock' \in DOMAIN mem.apps \union {0}
  BY <1>1 DEF AppInv, Apps
<1>5. PICK A : A = mem.apps
  OBVIOUS
<1>6. /\ Owed(A, worker, dropped) /\ DOMAIN A = DOMAIN A /\ a \in DOMAIN A
      /\ \A b \in DOMAIN A : A[b].ctx = A[b].ctx /\ (A[b].tainted => A[b].tainted)
      /\ \A b \in DOMAIN A : Owes(A[b], dropped)
  BY <1>2, <1>5 DEF Owed
<1>7. PICK v : v = With(worker, a, d)
  OBVIOUS
<1>8. CASE d \notin Labelled
  <2>1. mem' = mem /\ disk' = disk /\ mishaps' = mishaps /\ dropped' = dropped
    BY <1>8 DEF ExecuteTurn
  <2>2. StoreInv' /\ ForkKeys' /\ owner' = owner /\ DirtySet' = DirtySet
    BY <1>1, <2>1, QuietStore
  <2>3. Fits(mem.apps, issued, owner', DirtySet', disk.nextKernel)
    BY <2>2 DEF AppInv
  <2>4. d \in Telling(dropped, A[a].ctx) => A[a].tainted
    BY <1>3, <1>5, <1>8 DEF Telling
  <2>5. dropped \subseteq dropped
    OBVIOUS
  <2>6. Owed(A, v, dropped)
    BY ONLY <1>6, <1>7, <2>4, <2>5, OwedAnswer
  <2>7. Owed(mem.apps, worker', dropped')
    BY <1>1, <1>5, <1>7, <2>1, <2>6
  <2> QED BY <1>1, <1>4, <2>1, <2>2, <2>3, <2>7, Kept
<1>9. CASE d \in Labelled /\ RolledBack /\ dropped' = dropped \union {mem.apps[a].ctx}
  <2>1. persistLocked(mem) /\ dropped \subseteq dropped'
    BY <1>9 DEF persistLocked
  <2>2. PICK Q : Q = dropped'
    OBVIOUS
  <2>3. dropped \subseteq Q /\ A[a].ctx \in Q
    BY <1>5, <1>9, <2>2
  <2>4. d \in Telling(Q, A[a].ctx) => A[a].tainted
    BY <1>3, <1>5, <2>3 DEF Telling
  <2>5. Owed(A, v, Q)
    BY ONLY <1>6, <1>7, <2>3, <2>4, OwedAnswer
  <2>6. Owed(mem.apps, worker', dropped')
    BY <1>1, <1>5, <1>7, <2>2, <2>5
  <2> QED BY <1>1, <1>4, <2>1, <2>6, SavedStep
<1>10. CASE Written([mem EXCEPT !.apps[a].tainted = TRUE]) /\ dropped' = dropped
  <2>1. PICK p : p = mem.apps[a]
    OBVIOUS
  <2>2. PICK x : x = [p EXCEPT !.tainted = TRUE]
    OBVIOUS
  <2>3. x \in App /\ SameApp(x, p) /\ x.turn = p.turn /\ x.tainted = TRUE
    <3>1. p \in App /\ TRUE \in BOOLEAN
      BY <1>2, <2>1
    <3> QED BY ONLY <2>2, <3>1, SetTainted
  <2>4. [mem EXCEPT !.apps[a] = x] = Changed(mem, a, x)
    BY ONLY <1>2, <2>3, ChangedFacts
  <2>5. [mem EXCEPT !.apps[a].tainted = TRUE] = [mem EXCEPT !.apps[a] = x]
    BY <2>1, <2>2
  <2>6. PICK c : c = Changed(mem, a, x)
    OBVIOUS
  <2>7. mem' = c /\ persistLocked(Changed(mem, a, x))
    BY <1>10, <2>4, <2>5, <2>6 DEF persistLocked, Written
  <2>8. /\ DOMAIN c.apps = DOMAIN mem.apps /\ c.apps[a] = x
        /\ \A b \in DOMAIN mem.apps : b # a => c.apps[b] = mem.apps[b]
    BY ONLY <1>2, <2>3, <2>6, ChangedFacts
  <2>9. PICK B : B = c.apps
    OBVIOUS
  <2>10. Told(x, DirtySet) /\ SameApp(x, mem.apps[a]) /\ Owes(x, dropped)
    BY <2>1, <2>3 DEF Told, Owes
  <2>11. DOMAIN B = DOMAIN A /\ B[a] = x /\ \A b \in DOMAIN A : b # a => B[b] = A[b]
    BY <1>5, <2>8, <2>9
  <2>12. \A b \in DOMAIN A : B[b].ctx = A[b].ctx /\ (A[b].tainted => B[b].tainted)
    BY <1>5, <2>3, <2>10, <2>11 DEF SameApp
  <2>13. (\A b \in DOMAIN B : Owes(B[b], dropped)) /\ a \in DOMAIN B
    BY <1>6, <2>10, <2>11
  <2>14. (d \in Telling(dropped, B[a].ctx) => B[a].tainted) /\ dropped \subseteq dropped
    BY <2>3, <2>11
  <2>15. Owed(B, v, dropped)
    BY ONLY <1>6, <1>7, <2>11, <2>12, <2>13, <2>14, OwedAnswer
  <2>16. Owed(mem'.apps, worker', dropped)
    BY <1>1, <1>7, <2>7, <2>9, <2>15
  <2> QED BY <1>1, <1>4, <1>10, <2>3, <2>7, <2>10, <2>16, ChangeStep
<1> QED BY <1>8, <1>9, <1>10 DEF ExecuteTurn, foldTaint

\* The turn of an application is set, and the state written.
LEMMA TurnStep ==
    ASSUME AppInv, NEW a \in Apps, NEW t \in Turns, persistLocked([mem EXCEPT !.apps[a].turn = t]),
           t \in Telling(dropped, mem.apps[a].ctx) => mem.apps[a].tainted, t # "tainted",
           UNCHANGED storeVars, issued' = issued, dropped' = dropped, lock' \in Apps \union {0},
           Resting(worker', worker, Apps)
    PROVE  AppInv'
<1>3. /\ IsState(mem) /\ a \in DOMAIN mem.apps /\ mem.apps[a] \in App
      /\ Told(mem.apps[a], DirtySet)
  BY AppInvFacts DEF Apps, Fits, IsState
<1>4. PICK p : p = mem.apps[a]
  OBVIOUS
<1>5. PICK x : x = [p EXCEPT !.turn = t]
  OBVIOUS
<1>6. x \in App /\ SameApp(x, p) /\ x.turn = t /\ x.tainted = p.tainted
  <2>1. p \in App
    BY <1>3, <1>4
  <2> QED BY ONLY t \in Turns, <1>5, <2>1, SetTurn
<1>7. [mem EXCEPT !.apps[a] = x] = Changed(mem, a, x)
  BY ONLY <1>3, <1>6, ChangedFacts
<1>8. [mem EXCEPT !.apps[a].turn = t] = [mem EXCEPT !.apps[a] = x]
  BY <1>4, <1>5
<1>9. persistLocked(Changed(mem, a, x))
  BY <1>7, <1>8
<1>10. Told(x, DirtySet) /\ SameApp(x, mem.apps[a])
  BY <1>3, <1>4, <1>6 DEF Told, SameApp
<1>11. Owes(x, dropped) /\ (mem.apps[a].tainted => x.tainted)
  BY <1>4, <1>6, <1>10 DEF Owes, SameApp
<1>12. Owed(mem'.apps, worker', dropped)
  BY <1>6, <1>9, <1>10, <1>11, OwedChange
<1> QED BY <1>6, <1>9, <1>10, <1>12, ChangeStep

LEMMA FinishPrepareStep ==
    ASSUME AppInv, NEW a \in Apps, FinishPrepare(a)
    PROVE  AppInv'
<1>1. PICK t : t = worker[a]
  OBVIOUS
<1>2. /\ persistLocked([mem EXCEPT !.apps[a].turn = t]) /\ a \in DOMAIN worker /\ t \in Data
      /\ UNCHANGED storeVars /\ issued' = issued /\ dropped' = dropped
      /\ lock' = a \/ lock' = 0
      /\ worker' = With(worker, a, NoTurn) \/ worker' = Without(a)
  BY <1>1 DEF FinishPrepare, persistLocked
<1>3. t \in Turns /\ t # "tainted"
  BY <1>2, TellingData DEF Turns
<1>4. t \in Telling(dropped, mem.apps[a].ctx) => mem.apps[a].tainted
  BY <1>1, <1>2, AppInvFacts DEF Owed
<1>5. lock' \in Apps \union {0} /\ Resting(worker', worker, Apps)
  BY <1>2, AppInvFacts, RestingSteps
<1> QED BY <1>2, <1>3, <1>4, <1>5, TurnStep

LEMMA FinishCommitStep ==
    ASSUME AppInv, NEW a \in Apps, FinishCommit(a)
    PROVE  AppInv'
<1>1. PICK t : t = NoTurn
  OBVIOUS
<1>2. /\ persistLocked([mem EXCEPT !.apps[a].turn = t])
      /\ UNCHANGED storeVars /\ issued' = issued /\ dropped' = dropped
      /\ lock' = 0 /\ worker' = Without(a)
  BY <1>1 DEF FinishCommit
<1>3. /\ t \in Turns /\ t # "tainted"
      /\ t \in Telling(dropped, mem.apps[a].ctx) => mem.apps[a].tainted
  BY <1>1, TellingData DEF Turns
<1>4. lock' \in Apps \union {0} /\ Resting(worker', worker, Apps)
  BY <1>2, AppInvFacts, RestingSteps
<1> QED BY <1>2, <1>3, <1>4, TurnStep

\* The turn is left to be claimed again.
LEMMA RequeueStep ==
    ASSUME AppInv, NEW a \in Apps, RequeueClaim(a) \/ FinishFails(a)
    PROVE  AppInv'
<1>1. /\ UNCHANGED storeVars /\ persistLocked(mem) /\ issued' = issued /\ dropped' = dropped
      /\ lock' = 0 /\ worker' = Without(a)
  BY DEF RequeueClaim, FinishFails
<1>2. PICK A : A = mem.apps
  OBVIOUS
<1>3. Owed(A, worker, dropped) /\ Resting(worker', worker, DOMAIN A)
  BY <1>1, <1>2, AppInvFacts, RestingSteps DEF Apps
<1>4. /\ dropped \subseteq dropped
      /\ \A b \in DOMAIN A : b \in DOMAIN A /\ A[b].ctx = A[b].ctx /\ (A[b].tainted => A[b].tainted)
      /\ \A b \in DOMAIN A : Owes(A[b], dropped)
  BY <1>3 DEF Owed
<1>5. PICK v : v = worker'
  OBVIOUS
<1>6. Resting(v, worker, DOMAIN A)
  BY <1>3, <1>5
<1>7. Owed(A, v, dropped)
  BY ONLY <1>3, <1>4, <1>6, OwedStep
<1>8. Owed(mem.apps, worker', dropped') /\ dropped \subseteq dropped' /\ lock' \in Apps \union {0}
  BY <1>1, <1>2, <1>5, <1>7
<1> QED BY <1>1, <1>8, SavedStep

LEMMA QuietStep ==
    ASSUME AppInv, Rots \/ UNCHANGED vars
    PROVE  AppInv'
<1>1. /\ UNCHANGED storeVars \/ (\E h : Rot(h))
      /\ mem' = mem /\ disk' = disk /\ issued' = issued /\ mishaps' = mishaps
      /\ lock' = lock /\ worker' = worker /\ dropped' = dropped
  BY DEF Rots, vars, appVars
<1>2. StoreInv' /\ ForkKeys' /\ owner' = owner /\ DirtySet' = DirtySet
  BY <1>1, QuietStore
<1>3. lock' \in DOMAIN mem.apps \union {0}
  BY <1>1 DEF AppInv, Apps
<1>4. Fits(mem.apps, issued, owner', DirtySet', disk.nextKernel) /\ Owed(mem.apps, worker', dropped')
  BY <1>1, <1>2 DEF AppInv
<1> QED BY <1>1, <1>2, <1>3, <1>4, Kept

\* The store is used for an application; what it makes dirty belongs to one
\* that is tainted.
LEMMA UseStep ==
    ASSUME AppInv, StoreInv', owner' = owner, NEW key, KeysGrow(key), key[1] # "fork",
           mem' = mem, disk' = disk, issued' = issued, mishaps' = mishaps,
           lock' \in Apps \union {0}, worker' = worker, dropped' = dropped, NEW a \in Apps,
           \A c \in DirtySet' : c \in DirtySet \/ (c = mem.apps[a].ctx /\ mem.apps[a].tainted)
    PROVE  AppInv'
<1>1. /\ issued \in Nat /\ Fits(mem.apps, issued, owner, DirtySet, disk.nextKernel)
      /\ a \in DOMAIN mem.apps
  BY AppInvFacts DEF Apps
<1>2. issued <= issued
  BY <1>1, SMT
<1>3. ForkKeys'
  BY <1>1, <1>2, KeysStep DEF KeysGrow
<1>4. ASSUME NEW b \in DOMAIN mem.apps, mem.apps[b].ctx \in DirtySet' PROVE mem.apps[b].tainted
  <2>1. CASE mem.apps[b].ctx \in DirtySet
    BY <1>1, <2>1 DEF Fits, Told
  <2>2. CASE mem.apps[b].ctx = mem.apps[a].ctx /\ mem.apps[a].tainted
    <3>1. a = b
      BY <1>1, <2>2 DEF Fits
    <3> QED BY <2>2, <3>1
  <2> QED BY <1>4, <2>1, <2>2
<1>5. Fits(mem.apps, issued, owner', DirtySet', disk.nextKernel)
  BY <1>1, <1>4 DEF Fits, Told
<1>6. Owed(mem.apps, worker', dropped')
  BY AppInvFacts
<1> QED BY <1>3, <1>5, <1>6, Kept DEF Apps

\* What an application is to the store.
LEMMA OfApp ==
    ASSUME AppInv, NEW a \in Apps
    PROVE  /\ mem.apps[a].ctx \in Context /\ mem.apps[a] \in App
           /\ Told(mem.apps[a], DirtySet) /\ owner[mem.apps[a].ctx] = mem.apps[a].owner
  BY AppInvFacts DEF Fits, Apps, Context

\* The views are functions on 1..n.
LEMMA Views ==
    ASSUME StoreInv
    PROVE  \E n \in Nat :
             /\ n = Len(owner) /\ Context = 1..n
             /\ LogOf = [b \in 1..n |-> LogOf[b]] /\ SavedOf = [b \in 1..n |-> SavedOf[b]]
             /\ IsSeq(LogOf) /\ Len(LogOf) = n /\ IsSeq(SavedOf) /\ Len(SavedOf) = n
<1>1. PICK n \in Nat : n = Len(owner)
  BY SMT DEF StoreInv
<1>2. LogOf = [b \in 1..n |-> LogOf[b]] /\ SavedOf = [b \in 1..n |-> SavedOf[b]]
  BY <1>1 DEF LogOf, SavedOf, Context
<1>3. IsSeq(LogOf) /\ Len(LogOf) = n /\ IsSeq(SavedOf) /\ Len(SavedOf) = n
  BY <1>2, FunctionIsSeq
<1> QED BY <1>1, <1>2, <1>3 DEF Context

LEMMA FinishAppendStep ==
    ASSUME ContentLaw, AppInv, NEW a \in Apps, FinishAppend(a)
    PROVE  AppInv'
<1>1. PICK p : p = mem.apps[a]
  OBVIOUS
<1>2. PICK key : key = ResultKey(a)
  OBVIOUS
<1>3. /\ p.turn \in Data /\ lock' = a /\ worker' = worker /\ dropped' = dropped
      /\ mem' = mem /\ disk' = disk /\ issued' = issued /\ mishaps' = mishaps
      /\ UNCHANGED storeVars \/ AppendData(p.owner, p.ctx, key, p.turn)
  BY <1>1, <1>2 DEF FinishAppend
<1>4. lock' \in Apps \union {0} /\ lock' \in DOMAIN mem.apps \union {0}
  BY <1>3 DEF Apps
<1>5. CASE UNCHANGED storeVars
  <2>1. StoreInv' /\ ForkKeys' /\ owner' = owner /\ DirtySet' = DirtySet
    BY <1>3, <1>5, QuietStore
  <2>2. Fits(mem.apps, issued, owner', DirtySet', disk.nextKernel) /\ Owed(mem.apps, worker', dropped')
    BY <1>3, <2>1 DEF AppInv
  <2> QED BY <1>3, <1>4, <2>1, <2>2, Kept
<1>6. CASE AppendData(p.owner, p.ctx, key, p.turn)
  <2>1. StoreInv /\ p.ctx \in Context /\ p \in App /\ Owes(p, dropped)
    BY <1>1, AppInvFacts, OfApp, OwesApp
  <2>2. PICK d \in Data : d = p.turn
    BY <1>3
  <2>3. PICK c : c = p.ctx
    OBVIOUS
  <2>4. /\ StoreInv' /\ owner' = owner /\ c \in Context /\ KeysGrow(key)
        /\ LogOf' = [LogOf EXCEPT ![c] = Append(@, d)] /\ SavedOf' = SavedOf
    <3>1. PICK o : o = p.owner
      OBVIOUS
    <3>2. AppendData(o, c, key, d)
      BY <1>6, <2>2, <2>3, <3>1
    <3> QED BY <2>1, <3>2, AppendDataStep
  <2>5. PICK n \in Nat : n = Len(owner) /\ Context = 1..n /\ LogOf = [b \in 1..n |-> LogOf[b]]
    BY <2>1, Views
  <2>6. LogOf[c] \in Seq(Data)
    BY <2>1, <2>4, LogData
  <2>10. PICK R : R = dropped
    OBVIOUS
  <2>7. ASSUME NEW b \in DirtySet' PROVE b \in DirtySet \/ (b = c /\ d \in Telling(R, c))
    <3>1. PICK L : L = LogOf
      OBVIOUS
    <3>2. PICK M : M = With(L, c, Append(L[c], d))
      OBVIOUS
    <3>6. M = [L EXCEPT ![c] = Append(@, d)]
      BY <2>4, <2>5, <3>1, <3>2 DEF With
    <3>3. DirtySet = DirtyIn(L, SavedOf, R, n) /\ DirtySet' = DirtyIn(M, SavedOf, R, n)
      BY <1>3, <2>4, <2>5, <2>10, <3>1, <3>6, DirtyIs
    <3>4. c \in 1..n /\ L[c] \in Seq(Data) /\ Listed(L, n) /\ b \in DirtyIn(M, SavedOf, R, n)
      BY <2>4, <2>5, <2>6, <2>7, <3>1, <3>3 DEF Listed
    <3>5. b \in DirtyIn(L, SavedOf, R, n) \/ (b = c /\ d \in Telling(R, c))
      BY ONLY n \in Nat, d \in Data, <3>2, <3>4, DirtyAppend
    <3> QED BY <3>3, <3>5
  <2>8. \A b \in DirtySet' : b \in DirtySet \/ (b = mem.apps[a].ctx /\ mem.apps[a].tainted)
    BY <1>1, <2>1, <2>2, <2>3, <2>7, <2>10 DEF Owes
  <2>9. key[1] # "fork"
    BY <1>2 DEF ResultKey
  <2> QED BY <1>3, <1>4, <2>4, <2>8, <2>9, UseStep
<1> QED BY <1>3, <1>5, <1>6

LEMMA FinishCheckpointStep ==
    ASSUME AppInv, NEW a \in Apps, FinishCheckpoint(a)
    PROVE  AppInv'
<1>1. PICK key : key = CheckpointKey(a)
  OBVIOUS
<1>2. PICK c : c = mem.apps[a].ctx
  OBVIOUS
<1>3. /\ Checkpoint(mem.apps[a].owner, c, key)
      /\ mem' = mem /\ disk' = disk /\ issued' = issued /\ mishaps' = mishaps /\ lock' = lock
      /\ worker' = worker /\ dropped' = dropped
  BY <1>1, <1>2 DEF FinishCheckpoint, appVars
<1>4. StoreInv
  BY AppInvFacts
<1>5. /\ StoreInv' /\ owner' = owner /\ c \in Context /\ KeysGrow(key)
      /\ SavedOf' = [SavedOf EXCEPT ![c] = @ \union {LogOf[c]}] /\ LogOf' = LogOf
  BY <1>3, <1>4, CheckpointStep
<1>6. PICK n \in Nat : n = Len(owner) /\ Context = 1..n /\ SavedOf = [b \in 1..n |-> SavedOf[b]]
  BY <1>4, Views
<1>7. ASSUME NEW b \in DirtySet' PROVE b \in DirtySet
  <2>0. PICK R : R = dropped
    OBVIOUS
  <2>1. PICK S : S = SavedOf
    OBVIOUS
  <2>2. PICK L : L = LogOf
    OBVIOUS
  <2>3. PICK T : T = [S EXCEPT ![c] = @ \union {L[c]}]
    OBVIOUS
  <2>4. DirtySet = DirtyIn(L, S, R, n) /\ DirtySet' = DirtyIn(L, T, R, n)
    BY <1>3, <1>5, <1>6, <2>0, <2>1, <2>2, <2>3, DirtyIs
  <2>5. c \in 1..n /\ S = [i \in 1..n |-> S[i]] /\ b \in DirtyIn(L, T, R, n)
    BY <1>5, <1>6, <1>7, <2>1, <2>4
  <2>6. b \in DirtyIn(L, S, R, n)
    BY ONLY n \in Nat, <2>3, <2>5, DirtyCheckpoint
  <2> QED BY <2>4, <2>6
<1>8. key[1] # "fork"
  BY <1>1 DEF CheckpointKey
<1>9. lock' \in Apps \union {0}
  BY <1>3 DEF AppInv
<1> QED BY <1>3, <1>5, <1>7, <1>8, <1>9, UseStep

LEMMA ImportStep ==
    ASSUME AppInv, NEW a \in Apps, NEW k, NEW d \in Data, ImportArtifact(a, k, d)
    PROVE  AppInv'
<1>1. PICK key : key = <<"artifact", k>>
  OBVIOUS
<1>3. /\ CommitArtifact(mem.apps[a].owner, mem.apps[a].ctx, key, d)
      /\ mem' = mem /\ disk' = disk /\ issued' = issued /\ mishaps' = mishaps /\ lock' = lock
      /\ worker' = worker /\ dropped' = dropped
  BY <1>1 DEF ImportArtifact, appVars
<1>4. StoreInv
  BY AppInvFacts
<1>5. StoreInv' /\ owner' = owner /\ KeysGrow(key) /\ SavedOf' = SavedOf /\ LogOf' = LogOf
  BY <1>3, <1>4, CommitArtifactStep
<1>6. DirtySet' = DirtySet
  BY <1>3, <1>5, DirtyIs
<1>8. key[1] # "fork"
  BY <1>1
<1>9. lock' \in Apps \union {0}
  BY <1>3 DEF AppInv
<1> QED BY <1>3, <1>5, <1>6, <1>8, <1>9, UseStep

LEMMA RestoreContextStep ==
    ASSUME AppInv, NEW a \in Apps, NEW k, NEW hash, RestoreContext(a, k, hash)
    PROVE  AppInv'
<1>1. PICK key : key = <<"restore", k>>
  OBVIOUS
<1>2. PICK c : c = mem.apps[a].ctx
  OBVIOUS
<1>3. /\ Restore(mem.apps[a].owner, c, key, hash)
      /\ mem' = mem /\ disk' = disk /\ issued' = issued /\ mishaps' = mishaps /\ lock' = lock
      /\ worker' = worker /\ dropped' = dropped
  BY <1>1, <1>2 DEF RestoreContext, appVars
<1>4. StoreInv
  BY AppInvFacts
<1>5. /\ StoreInv' /\ owner' = owner /\ c \in Context /\ KeysGrow(key)
      /\ \E content \in SavedOf[c] : LogOf' = [LogOf EXCEPT ![c] = content]
      /\ SavedOf' = SavedOf
  BY <1>3, <1>4, RestoreStep
<1>6. PICK n \in Nat : n = Len(owner) /\ Context = 1..n /\ LogOf = [b \in 1..n |-> LogOf[b]]
  BY <1>4, Views
<1>7. ASSUME NEW b \in DirtySet' PROVE b \in DirtySet
  <2>0. PICK R : R = dropped
    OBVIOUS
  <2>1. PICK S : S = SavedOf
    OBVIOUS
  <2>2. PICK L : L = LogOf
    OBVIOUS
  <2>3. PICK x \in S[c] : LogOf' = [L EXCEPT ![c] = x]
    BY <1>5, <2>1, <2>2
  <2>4. PICK M : M = [L EXCEPT ![c] = x]
    OBVIOUS
  <2>5. DirtySet = DirtyIn(L, S, R, n) /\ DirtySet' = DirtyIn(M, S, R, n)
    BY <1>3, <1>5, <1>6, <2>0, <2>1, <2>2, <2>3, <2>4, DirtyIs
  <2>6. c \in 1..n /\ L = [i \in 1..n |-> L[i]] /\ b \in DirtyIn(M, S, R, n)
    BY <1>5, <1>6, <1>7, <2>2, <2>5
  <2>7. b \in DirtyIn(L, S, R, n)
    BY ONLY n \in Nat, x \in S[c], <2>4, <2>6, DirtyRestore
  <2> QED BY <2>5, <2>7
<1>8. key[1] # "fork"
  BY <1>1
<1>9. lock' \in Apps \union {0}
  BY <1>3 DEF AppInv
<1> QED BY <1>3, <1>5, <1>7, <1>8, <1>9, UseStep

\* The store refuses, and an id is drawn in vain.
LEMMA StoreFailsStep ==
    ASSUME AppInv, StoreFails, lock' = lock, issued < MaxApps, issued' = issued + 1,
           worker' = worker, dropped' = dropped
    PROVE  AppInv'
<1>1. /\ UNCHANGED storeVars /\ disk' = disk /\ Mishap
      /\ mem' = [mem EXCEPT !.nextKernel = @ + 1]
  BY DEF StoreFails
<1>2. StoreInv /\ issued \in Nat /\ ForkKeys /\ disk.apps = mem.apps
  BY AppInvFacts
<1>3. issued' \in Nat /\ issued <= issued' /\ issued' \in 0..MaxApps
  BY <1>2, ApplicationsAssumption, SMT
<1>4. /\ StoreInv' /\ owner' = owner /\ operations' = operations
      /\ LogOf' = LogOf /\ SavedOf' = SavedOf
  BY <1>1, <1>2, IdleStore
<1>5. DirtySet' = DirtySet
  BY <1>4, DirtyIs
<1>6. ForkKeys'
  <2>1. \A b \in Context' : \A k \in DOMAIN operations'[b] : b \in Context /\ k \in DOMAIN operations[b]
    BY <1>4 DEF Context
  <2> QED BY <1>3, <2>1, KeysStep
<1>7. PICK A : A = mem.apps
  OBVIOUS
<1>8. PICK k \in Nat : k = mem.nextKernel
  BY AppInvFacts
<1>9. mem' = [apps |-> A, nextKernel |-> k + 1] /\ k + 1 \in Nat
  <2>1. mem \in [apps : {A}, nextKernel : Nat]
    BY <1>7 DEF AppInv
  <2> QED BY <1>1, <1>8, <2>1, SMT
<1>10. PICK l \in Nat : l = disk.nextKernel
  BY AppInvFacts
<1>11. l <= k
  BY <1>8, <1>10, AppInvFacts
<1>12. l \in 0..(k + 1)
  BY <1>11, SMT
<1>13. mem'.apps = A /\ mem'.nextKernel = k + 1
  BY <1>9
<1>14. disk \in [apps : {A}, nextKernel : 0..(k + 1)]
  <2>1. disk = [apps |-> disk.apps, nextKernel |-> disk.nextKernel]
    BY AppInvFacts
  <2> QED BY <1>2, <1>7, <1>10, <1>12, <2>1
<1>15. Fits(A, issued', owner', DirtySet', disk'.nextKernel)
  <2>1. /\ Fits(A, issued, owner, DirtySet, l)
        /\ \A i \in 1..Len(owner) : i \in 1..Len(owner) /\ owner[i] = owner[i]
        /\ \A a \in DOMAIN A : A[a].ctx \in DirtySet => A[a].tainted
    BY <1>7, <1>10, AppInvFacts DEF Fits, Told
  <2>2. Fits(A, issued', owner, DirtySet, l)
    BY ONLY <1>2, <1>3, <2>1, FitsStore
  <2> QED BY <1>1, <1>4, <1>5, <1>10, <2>2
<1>16. mishaps' \in 0..MaxMishaps
  BY <1>1, MishapFacts
<1>17. lock' \in DOMAIN A \union {0}
  BY <1>7 DEF AppInv, Apps
<1>18. mem' \in [apps : {mem'.apps}, nextKernel : Nat] /\ disk' \in [apps : {mem'.apps}, nextKernel : 0..mem'.nextKernel]
  BY <1>1, <1>9, <1>13, <1>14
<1>19. Owed(mem'.apps, worker', dropped')
  BY <1>7, <1>13, AppInvFacts
<1> QED BY <1>3, <1>4, <1>6, <1>13, <1>15, <1>16, <1>17, <1>18, <1>19 DEF AppInv, Apps

\* An application is added with the context that is new.
LEMMA AddStep ==
    ASSUME AppInv, StoreInv', ForkKeys', NEW o \in Owners, owner' = Append(owner, o),
           issued < MaxApps, issued' = issued + 1, NEW tainted \in BOOLEAN,
           \A c \in DirtySet' : c \in DirtySet \/ (c = Len(owner) + 1 /\ tainted),
           Add(NewApp(o, Len(owner) + 1, mem.nextKernel + 1, tainted)), lock' = lock,
           worker' = worker, dropped \subseteq dropped'
    PROVE  AppInv'
<1>1. PICK n \in Nat : n = Len(owner)
  BY AppInvFacts, SMT DEF StoreInv
<1>2. PICK k \in Nat : k = mem.nextKernel
  BY AppInvFacts
<1>3. PICK l \in Nat : l = disk.nextKernel
  BY AppInvFacts
<1>4. n + 1 \in Nat /\ k + 1 \in Nat /\ 0 \in Nat
  BY SMT
<1>5. l <= k
  BY <1>2, <1>3, AppInvFacts
<1>6. l < k + 1
  BY <1>5, SMT
<1>7. PICK app : app = NewApp(o, n + 1, k + 1, tainted)
  OBVIOUS
<1>8. /\ app \in App /\ app.owner = o /\ app.ctx = n + 1 /\ app.kernel = k + 1
      /\ app.tainted = tainted /\ app.turn = NoTurn
  <2>1. NoTurn \in Turns
    BY DEF Turns
  <2> QED BY <1>4, <1>7, <2>1 DEF NewApp, App
<1>9. PICK A : A = mem.apps
  OBVIOUS
<1>10. PICK i \in Nat : i = issued
  BY AppInvFacts
<1>11. i + 1 \in Nat /\ i <= i + 1 /\ issued' \in 0..MaxApps
  BY <1>10, ApplicationsAssumption, SMT
<1>12. PICK W : W = owner'
  OBVIOUS
<1>13. PICK D : D = DirtySet'
  OBVIOUS
<1>14. Len(W) = n + 1 /\ W[n + 1] = o /\ \A j \in 1..n : W[j] = owner[j]
  <2>1. owner \in Seq(Owners)
    BY DEF AppInv, StoreInv
  <2>2. /\ Len(Append(owner, o)) = Len(owner) + 1 /\ Append(owner, o)[Len(owner) + 1] = o
        /\ \A j \in 1..Len(owner) : Append(owner, o)[j] = owner[j]
    BY ONLY <2>1, o \in Owners, TypedAppend
  <2> QED BY <1>1, <1>12, <2>2
<1>15. n + 1 \in 1..(n + 1) /\ n + 1 \notin 1..n /\ \A j \in 1..n : j \in 1..(n + 1)
  BY SMT
<1>16. Fits(A, i, owner, DirtySet, l) /\ \A a \in DOMAIN A : A[a].ctx \in 1..n
  BY <1>1, <1>3, <1>9, <1>10, AppInvFacts DEF Fits
<1>17. /\ \A j \in 1..Len(owner) : j \in 1..Len(W) /\ W[j] = owner[j]
       /\ \A a \in DOMAIN A : A[a].ctx \in D => A[a].tainted
       /\ \A a \in DOMAIN A : A[a].ctx # app.ctx
  <2>1. \A j \in 1..Len(owner) : j \in 1..Len(W) /\ W[j] = owner[j]
    BY <1>1, <1>14, <1>15
  <2>2. \A a \in DOMAIN A : A[a].ctx # n + 1
    BY <1>15, <1>16
  <2>3. \A a \in DOMAIN A : A[a].ctx \in D => A[a].ctx \in DirtySet
    BY <1>1, <1>13, <2>2
  <2>4. \A a \in DOMAIN A : A[a].ctx \in D => A[a].tainted
    BY <1>16, <2>3 DEF Fits, Told
  <2> QED BY <1>8, <2>1, <2>2, <2>4
<1>18. i <= i
  BY SMT
<1>19. Fits(A, i, W, D, l)
  BY ONLY i \in Nat, <1>16, <1>17, <1>18, FitsStore
<1>20. Fits(A, i + 1, W, D, l)
  BY ONLY i \in Nat, <1>11, <1>16, <1>17, FitsStore
<1>21. Told(app, D)
  BY <1>1, <1>8, <1>13, <1>15, <1>16 DEF Told, DirtySet, Context
<1>22. app.ctx \in 1..Len(W) /\ W[app.ctx] = app.owner
  BY <1>8, <1>14, <1>15
<1>23. Fits(With(A, i + 1, app), i + 1, W, D, k + 1)
  BY ONLY i \in Nat, l \in Nat, <1>4, <1>6, <1>8, <1>17, <1>19, <1>21, <1>22, FitsAdd
<1>24. PICK B : B = With(A, i + 1, app)
  OBVIOUS
<1>25. PICK state : state = [apps |-> B, nextKernel |-> k + 1]
  OBVIOUS
<1>26. state.apps = B /\ state.nextKernel = k + 1 /\ state \in [apps : {state.apps}, nextKernel : Nat]
  BY <1>4, <1>25
<1>27. persistLocked(state)
  BY <1>1, <1>2, <1>7, <1>8, <1>9, <1>10, <1>24, <1>25 DEF Add
<1>28. DOMAIN mem.apps \subseteq DOMAIN state.apps
  BY <1>9, <1>24, <1>26 DEF With
<1>29. lock' \in DOMAIN mem.apps \union {0}
  BY DEF AppInv, Apps
<1>30. /\ Fits(state.apps, issued', owner', DirtySet', state.nextKernel)
       /\ Fits(mem.apps, issued', owner', DirtySet', disk.nextKernel)
  BY <1>3, <1>9, <1>10, <1>12, <1>13, <1>20, <1>23, <1>24, <1>26
<1>31. Owed(mem'.apps, worker', dropped')
  <2>1. PICK C : C = mem'.apps
    OBVIOUS
  <2>2. C = A \/ C = B
    BY <1>9, <1>26, <1>27, <2>1, AppInvFacts DEF persistLocked, Written, RolledBack
  <2>3. /\ Owed(A, worker, dropped) /\ i + 1 \notin DOMAIN A
    <3>1. i + 1 \notin 1..i
      BY SMT
    <3> QED BY <1>9, <1>16, <3>1, AppInvFacts DEF Fits
  <2>4. DOMAIN B = DOMAIN A \union {i + 1} /\ B[i + 1] = app /\ \A a \in DOMAIN A : B[a] = A[a]
    BY <1>24, <2>3 DEF With
  <2>5. Owes(app, dropped)
    BY <1>8, TellingData DEF Owes
  <2>6. \A a \in DOMAIN A : a \in DOMAIN C /\ C[a].ctx = A[a].ctx /\ (A[a].tainted => C[a].tainted)
    BY <2>2, <2>4
  <2>7. (\A a \in DOMAIN C : Owes(C[a], dropped)) /\ Resting(worker, worker, DOMAIN C)
    BY <2>2, <2>3, <2>4, <2>5 DEF Owed, Resting
  <2>8. PICK Q : Q = dropped'
    OBVIOUS
  <2>9. dropped \subseteq Q
    BY <2>8
  <2>10. Owed(C, worker, Q)
    BY ONLY <2>3, <2>6, <2>7, <2>9, OwedStep
  <2> QED BY <2>1, <2>8, <2>10
<1> QED BY <1>11, <1>26, <1>27, <1>28, <1>29, <1>30, <1>31, Persisted

LEMMA CreateApplicationStep ==
    ASSUME ContentLaw, AppInv, NEW o \in Owners, CreateApplication(o)
    PROVE  AppInv'
<1>1. issued < MaxApps /\ issued' = issued + 1 /\ lock' = lock /\ worker' = worker /\ dropped' = dropped
  BY DEF CreateApplication
<1>2. CASE StoreFails
  BY <1>1, <1>2, StoreFailsStep
<1>3. CASE Create(o) /\ Add(NewApp(o, Len(owner) + 1, mem.nextKernel + 1, FALSE))
  <2>1. StoreInv /\ issued \in Nat
    BY AppInvFacts
  <2>2. /\ StoreInv' /\ owner' = Append(owner, o)
        /\ LogOf' = Append(LogOf, <<>>) /\ SavedOf' = Append(SavedOf, {})
        /\ \A b \in Context' : \A k \in DOMAIN operations'[b] :
             b \in Context /\ k \in DOMAIN operations[b]
    BY <1>3, <2>1, CreateStep
  <2>3. issued' \in Nat /\ issued <= issued'
    BY <1>1, <2>1, SMT
  <2>4. ForkKeys'
    BY <2>2, <2>3, KeysStep
  <2>5. PICK n \in Nat : /\ n = Len(owner) /\ IsSeq(LogOf) /\ Len(LogOf) = n
                         /\ IsSeq(SavedOf) /\ Len(SavedOf) = n
    BY <2>1, Views
  <2>6. Len(owner') = n + 1
    <3>1. IsSeq(owner)
      BY <2>1, SeqIsSeq DEF StoreInv
    <3>2. Len(Append(owner, o)) = Len(owner) + 1
      BY ONLY <3>1, AppendAny
    <3> QED BY <2>2, <2>5, <3>2
  <2>7. \A X : ~HasTaint(<<>>, X)
    <3>1. Len(<<>>) = 0 /\ 1..0 = {}
      BY SMT
    <3> QED BY <3>1 DEF HasTaint
  <2>12. PICK R : R = dropped
    OBVIOUS
  <2>8. DirtySet = DirtyIn(LogOf, SavedOf, R, n) /\ DirtySet' = DirtyIn(Append(LogOf, <<>>), Append(SavedOf, {}), R, n + 1)
    BY <1>1, <2>2, <2>5, <2>6, <2>12, DirtyIs
  <2>13. R \subseteq R
    OBVIOUS
  <2>9. \A c \in DirtyIn(Append(LogOf, <<>>), Append(SavedOf, {}), R, n + 1) :
           c \in DirtyIn(LogOf, SavedOf, R, n) \/ (c = n + 1 /\ HasTaint(<<>>, Telling(R, n + 1)))
    BY ONLY <2>5, <2>13, n \in Nat, DirtyNew
  <2>10. \A c \in DirtySet' : c \in DirtySet \/ (c = Len(owner) + 1 /\ FALSE)
    BY <2>7, <2>8, <2>9
  <2>11. FALSE \in BOOLEAN
    OBVIOUS
  <2> QED BY <1>1, <1>3, <2>2, <2>4, <2>10, <2>11, AddStep
<1> QED BY <1>2, <1>3 DEF CreateApplication

LEMMA ForkApplicationStep ==
    ASSUME ContentLaw, AppInv, NEW a \in Apps, NEW o \in Owners, ForkApplication(a, o)
    PROVE  AppInv'
<1>1. issued < MaxApps /\ issued' = issued + 1 /\ lock' = lock /\ worker' = worker
  BY DEF ForkApplication
<1>2. PICK c : c = mem.apps[a].ctx
  OBVIOUS
<1>3. PICK key : key = ForkKey(issued + 1, a)
  OBVIOUS
<1>4. key[1] = "fork" /\ key[2] = issued + 1
  BY <1>3 DEF ForkKey
<1>5. StoreInv /\ issued \in Nat /\ ForkKeys /\ c \in Context /\ Told(mem.apps[a], DirtySet) /\ mem.apps[a] \in App
  BY <1>2, AppInvFacts, OfApp
<1>6. ~Used(c, key)
  <2>1. issued + 1 \notin 1..issued
    BY <1>5, SMT
  <2> QED BY <1>4, <1>5, <2>1 DEF ForkKeys, Used
<1>7. CASE StoreFails /\ dropped' = dropped
  BY <1>1, <1>7, StoreFailsStep
<1>8. CASE ~(StoreFails /\ dropped' = dropped)
  <2>1. /\ ForkTo(mem.apps[a].owner, c, o, key)
        /\ Add(NewApp(o, Len(owner) + 1, mem.nextKernel + 1, Inherited(a)))
        /\ dropped' = dropped \union {b \in {Len(owner) + 1} : c \in dropped}
    BY <1>2, <1>3, <1>6, <1>8 DEF ForkApplication
  <2>2. /\ StoreInv' /\ owner' = Append(owner, o) /\ KeysGrow(key)
        /\ LogOf' = Append(LogOf, LogOf[c]) /\ SavedOf' = Append(SavedOf, {})
    BY <1>5, <2>1, ForkStep
  <2>3. issued' \in Nat /\ issued <= issued' /\ issued + 1 \in 1..issued'
    BY <1>1, <1>5, SMT
  <2>4. ForkKeys'
    BY <1>4, <2>2, <2>3, KeysStep DEF KeysGrow
  <2>5. PICK n \in Nat : /\ n = Len(owner) /\ Context = 1..n /\ IsSeq(LogOf) /\ Len(LogOf) = n
                         /\ IsSeq(SavedOf) /\ Len(SavedOf) = n
    BY <1>5, Views
  <2>6. Len(owner') = n + 1
    <3>1. IsSeq(owner)
      BY <1>5, SeqIsSeq DEF StoreInv
    <3>2. Len(Append(owner, o)) = Len(owner) + 1
      BY ONLY <3>1, AppendAny
    <3> QED BY <2>2, <2>5, <3>2
  <2>7. PICK x : x = LogOf[c]
    OBVIOUS
  <2>15. PICK R : R = dropped
    OBVIOUS
  <2>16. PICK Q : Q = dropped'
    OBVIOUS
  <2>17. R \subseteq Q /\ Telling(Q, n + 1) \subseteq Telling(R, c)
    BY <2>1, <2>5, <2>15, <2>16 DEF Telling
  <2>8. DirtySet = DirtyIn(LogOf, SavedOf, R, n) /\ DirtySet' = DirtyIn(Append(LogOf, x), Append(SavedOf, {}), Q, n + 1)
    BY <2>2, <2>5, <2>6, <2>7, <2>15, <2>16, DirtyIs
  <2>9. \A b \in DirtyIn(Append(LogOf, x), Append(SavedOf, {}), Q, n + 1) :
           b \in DirtyIn(LogOf, SavedOf, R, n) \/ (b = n + 1 /\ HasTaint(x, Telling(Q, n + 1)))
    BY ONLY <2>5, <2>17, n \in Nat, DirtyNew
  <2>10. HasTaint(x, Telling(Q, n + 1)) => c \in DirtySet
    BY <1>5, <2>5, <2>7, <2>8, <2>17, TaintMore DEF DirtyIn, Soiled
  <2>11. Inherited(a) = mem.apps[a].tainted
    BY DEF Inherited
  <2>12. PICK tainted \in BOOLEAN : tainted = mem.apps[a].tainted
    BY <1>5 DEF App
  <2>13. \A b \in DirtySet' : b \in DirtySet \/ (b = Len(owner) + 1 /\ tainted)
    BY <1>2, <1>5, <2>5, <2>8, <2>9, <2>10, <2>12 DEF Told
  <2>14. Add(NewApp(o, Len(owner) + 1, mem.nextKernel + 1, tainted))
    BY <2>1, <2>11, <2>12
  <2>18. dropped \subseteq dropped'
    BY <2>1
  <2> QED BY <1>1, <2>2, <2>4, <2>13, <2>14, <2>18, AddStep
<1> QED BY <1>7, <1>8

LEMMA RestartStep ==
    ASSUME AppInv, Restart
    PROVE  AppInv'
<1>1. /\ UNCHANGED storeVars /\ issued' = issued /\ Mishap /\ mem' = Loaded /\ disk' = Loaded /\ lock' = 0
      /\ worker' = <<>> /\ dropped' = dropped
  BY DEF Restart
<1>2. StoreInv' /\ ForkKeys' /\ owner' = owner /\ DirtySet' = DirtySet
  BY <1>1, QuietStore
<1>3. PICK A : A = disk.apps
  OBVIOUS
<1>4. PICK l \in Nat : l = disk.nextKernel
  BY AppInvFacts
<1>5. Fits(A, issued, owner, DirtySet, l) /\ disk \in [apps : {A}, nextKernel : Nat]
  BY <1>3, <1>4, AppInvFacts
<1>6. PICK B : B = [a \in DOMAIN A |-> IF A[a].live THEN A[a] ELSE [A[a] EXCEPT !.turn = NoTurn]]
  OBVIOUS
<1>7. Loaded = [apps |-> B, nextKernel |-> l]
  <2>1. Loaded = [disk EXCEPT !.apps = B]
    BY <1>3, <1>6 DEF Loaded
  <2>2. [disk EXCEPT !.apps = B] = [apps |-> B, nextKernel |-> disk.nextKernel]
    BY <1>5, SMT
  <2> QED BY <1>4, <2>1, <2>2
<1>8. ASSUME NEW a \in DOMAIN A
      PROVE  /\ B[a] \in App /\ Told(B[a], DirtySet) /\ Owes(B[a], dropped) /\ (A[a].tainted => B[a].tainted)
             /\ B[a].ctx = A[a].ctx /\ B[a].owner = A[a].owner /\ B[a].kernel = A[a].kernel
  <2>1. A[a] \in App /\ Told(A[a], DirtySet) /\ Owes(A[a], dropped)
    BY <1>3, <1>5, AppInvFacts DEF Fits, Owed
  <2>2. CASE B[a] = A[a]
    BY <2>1, <2>2
  <2>3. CASE B[a] = [A[a] EXCEPT !.turn = NoTurn]
    <3>1. PICK p : p = A[a]
      OBVIOUS
    <3>2. PICK x : x = [p EXCEPT !.turn = NoTurn]
      OBVIOUS
    <3>3. p \in App /\ NoTurn \in Turns
      BY <2>1, <3>1 DEF Turns
    <3>4. x \in App /\ SameApp(x, p) /\ x.turn = NoTurn /\ x.tainted = p.tainted
      BY ONLY <3>2, <3>3, SetTurn
    <3>5. B[a] = x
      BY <2>3, <3>1, <3>2
    <3> QED BY <2>1, <3>1, <3>4, <3>5, TellingData DEF Told, Owes, SameApp
  <2> QED BY <1>6, <2>2, <2>3
<1>9. DOMAIN B = DOMAIN A /\ B \in [DOMAIN B -> App]
  BY <1>6, <1>8
<1>10. l <= l /\ l \in 0..l
  BY SMT
<1>11. Fits(B, issued, owner, DirtySet, l)
  BY ONLY SMTT(30), l \in Nat, <1>5, <1>8, <1>9, <1>10, FitsChange
<1>12. mem'.apps = B /\ disk'.apps = B /\ mem'.nextKernel = l /\ disk'.nextKernel = l
  BY <1>1, <1>7
<1>13. /\ mem' \in [apps : {mem'.apps}, nextKernel : Nat]
       /\ disk' \in [apps : {mem'.apps}, nextKernel : 0..mem'.nextKernel]
  BY <1>1, <1>7, <1>10, <1>12
<1>14. mishaps' \in 0..MaxMishaps
  BY <1>1, MishapFacts
<1>15. Fits(mem'.apps, issued', owner', DirtySet', disk'.nextKernel)
  BY <1>1, <1>2, <1>11, <1>12
<1>16. lock' \in Apps' \union {0} /\ issued' \in 0..MaxApps
  BY <1>1 DEF AppInv
<1>17. Owed(mem'.apps, worker', dropped')
  <2>1. PICK v : v = <<>>
    OBVIOUS
  <2>2. DOMAIN v = {}
    BY <2>1, SMT
  <2>3. Resting(v, worker, DOMAIN B) /\ Owed(A, worker, dropped) /\ dropped \subseteq dropped
    BY <1>3, <2>2, AppInvFacts DEF Resting
  <2>4. /\ \A a \in DOMAIN A : a \in DOMAIN B /\ B[a].ctx = A[a].ctx /\ (A[a].tainted => B[a].tainted)
        /\ \A a \in DOMAIN B : Owes(B[a], dropped)
    BY <1>8, <1>9
  <2>5. Owed(B, v, dropped)
    BY ONLY <2>3, <2>4, OwedStep
  <2> QED BY <1>1, <1>12, <2>1, <2>5
<1> QED BY <1>2, <1>13, <1>14, <1>15, <1>16, <1>17 DEF AppInv

----------------------------------------------------------------------------
(* The invariant.                                                          *)

LEMMA AppInit == Init => AppInv
<1> SUFFICES ASSUME Init PROVE AppInv
  OBVIOUS
<1>1. /\ StoreInit /\ disk = [apps |-> <<>>, nextKernel |-> 0] /\ mem = disk
      /\ lock = 0 /\ issued = 0 /\ mishaps = 0 /\ worker = <<>>
  BY DEF Init
<1>2. StoreInv
  BY <1>1, StoreStart
<1>3. DOMAIN <<>> = {} /\ 0 \in Nat /\ 0 \in 0..0 /\ 1..0 = {} /\ 0 \in 0..MaxApps /\ 0 \in 0..MaxMishaps
  BY ApplicationsAssumption, SMT
<1>4. <<>> \in [{} -> App]
  BY SMT
<1>5. PICK A : A = <<>>
  OBVIOUS
<1>6. DOMAIN A = {} /\ A \in [DOMAIN A -> App]
  BY <1>3, <1>4, <1>5
<1>7. mem = [apps |-> A, nextKernel |-> 0]
  BY <1>1, <1>5
<1>8. Fits(A, 0, owner, DirtySet, 0)
  BY <1>6 DEF Fits
<1>9. ForkKeys
  <2>1. Context = {}
    <3>1. Len(<<>>) = 0
      BY SMT
    <3> QED BY <1>1, <1>3, <3>1 DEF Context, StoreInit
  <2> QED BY <2>1 DEF ForkKeys
<1>10. mem.apps = A /\ disk.nextKernel = 0 /\ mem.nextKernel = 0
  <2>1. mem.apps = A /\ mem.nextKernel = 0
    BY ONLY <1>7
  <2> QED BY ONLY <1>1, <2>1
<1>11. Owed(A, worker, dropped)
  BY <1>1, <1>3, <1>6 DEF Owed
<1> QED BY <1>1, <1>2, <1>3, <1>7, <1>8, <1>9, <1>10, <1>11 DEF AppInv

LEMMA AppNext == ASSUME ContentLaw, AppInv, [Next]_vars PROVE AppInv'
<1>1. CASE \E o \in Owners : CreateApplication(o)
  BY <1>1, CreateApplicationStep
<1>2. CASE \E a \in Apps :
         \/ \E o \in Owners : ForkApplication(a, o)
         \/ RetireApplication(a)
         \/ \E t \in Asked : ClaimTurn(a, t)
         \/ \E d \in Data : ExecuteTurn(a, d)
         \/ RequeueClaim(a) \/ FinishPrepare(a)
         \/ FinishAppend(a) \/ FinishCheckpoint(a) \/ FinishCommit(a) \/ FinishFails(a)
         \/ \E k \in Imports, d \in Data : ImportArtifact(a, k, d)
         \/ \E k \in Imports, g \in grants : RestoreContext(a, k, g[2])
  <2>1. PICK a \in Apps :
         \/ \E o \in Owners : ForkApplication(a, o)
         \/ RetireApplication(a)
         \/ \E t \in Asked : ClaimTurn(a, t)
         \/ \E d \in Data : ExecuteTurn(a, d)
         \/ RequeueClaim(a) \/ FinishPrepare(a)
         \/ FinishAppend(a) \/ FinishCheckpoint(a) \/ FinishCommit(a) \/ FinishFails(a)
         \/ \E k \in Imports, d \in Data : ImportArtifact(a, k, d)
         \/ \E k \in Imports, g \in grants : RestoreContext(a, k, g[2])
    BY <1>2
  <2>2. CASE \E o \in Owners : ForkApplication(a, o)
    BY <2>2, ForkApplicationStep
  <2>3. CASE RetireApplication(a)
    BY <2>3, RetireStep
  <2>4. CASE \E t \in Asked : ClaimTurn(a, t)
    BY <2>4, ClaimStep
  <2>11. CASE \E d \in Data : ExecuteTurn(a, d)
    BY <2>11, ExecuteStep
  <2>12. CASE FinishPrepare(a)
    BY <2>12, FinishPrepareStep
  <2>5. CASE FinishAppend(a)
    BY <2>5, FinishAppendStep
  <2>6. CASE FinishCheckpoint(a)
    BY <2>6, FinishCheckpointStep
  <2>7. CASE FinishCommit(a)
    BY <2>7, FinishCommitStep
  <2>8. CASE RequeueClaim(a) \/ FinishFails(a)
    BY <2>8, RequeueStep
  <2>9. CASE \E k \in Imports, d \in Data : ImportArtifact(a, k, d)
    BY <2>9, ImportStep
  <2>10. CASE \E k \in Imports, g \in grants : RestoreContext(a, k, g[2])
    BY <2>10, RestoreContextStep
  <2> QED BY <2>1, <2>2, <2>3, <2>4, <2>5, <2>6, <2>7, <2>8, <2>9, <2>10, <2>11, <2>12
<1>3. CASE Rots \/ UNCHANGED vars
  BY <1>3, QuietStep
<1>4. CASE Restart
  BY <1>4, RestartStep
<1> QED BY <1>1, <1>2, <1>3, <1>4 DEF Next

\* Every step of the application layer is a step of the store, or leaves it
\* alone.
LEMMA StoreNextOf == AppInv /\ [Next]_vars => StoreNext
<1> SUFFICES ASSUME AppInv, [Next]_vars PROVE StoreNext
  OBVIOUS
<1>1. CASE \E o \in Owners : CreateApplication(o)
  BY <1>1 DEF CreateApplication, StoreFails, StoreNext
<1>2. ASSUME NEW a \in Apps, NEW o \in Owners, ForkApplication(a, o) PROVE StoreNext
  <2>1. UNCHANGED storeVars \/ ForkTo(mem.apps[a].owner, mem.apps[a].ctx, o, ForkKey(issued + 1, a))
    BY <1>2 DEF ForkApplication, StoreFails
  <2> QED BY <2>1 DEF StoreNext
<1>3. ASSUME NEW a \in Apps, RetireApplication(a) \/ FinishCommit(a) \/ FinishFails(a) \/ RequeueClaim(a)
                           \/ FinishPrepare(a) \/ (\E t \in Asked : ClaimTurn(a, t))
                           \/ \E d \in Data : ExecuteTurn(a, d)
      PROVE  StoreNext
  BY <1>3 DEF RetireApplication, FinishCommit, FinishFails, RequeueClaim, FinishPrepare, ClaimTurn, ExecuteTurn, StoreNext
<1>4. ASSUME NEW a \in Apps, FinishAppend(a) PROVE StoreNext
  <2>1. mem.apps[a].turn \in Data
    BY <1>4 DEF FinishAppend
  <2>2. \/ UNCHANGED storeVars
        \/ AppendData(mem.apps[a].owner, mem.apps[a].ctx, ResultKey(a), mem.apps[a].turn)
    BY <1>4 DEF FinishAppend
  <2>3. PICK d \in Data : d = mem.apps[a].turn
    BY <2>1
  <2>4. UNCHANGED storeVars \/ AppendData(mem.apps[a].owner, mem.apps[a].ctx, ResultKey(a), d)
    BY <2>2, <2>3
  <2> QED BY <2>4 DEF StoreNext
<1>5. ASSUME NEW a \in Apps, FinishCheckpoint(a) PROVE StoreNext
  BY <1>5 DEF FinishCheckpoint, StoreNext
<1>6. ASSUME NEW a \in Apps, NEW k \in Imports, NEW d \in Data, ImportArtifact(a, k, d) PROVE StoreNext
  BY <1>6 DEF ImportArtifact, StoreNext
<1>7. ASSUME NEW a \in Apps, NEW k \in Imports, NEW hash, RestoreContext(a, k, hash) PROVE StoreNext
  BY <1>7 DEF RestoreContext, StoreNext
<1>8. CASE Rots
  BY <1>8 DEF Rots, StoreNext
<1>9. CASE Restart \/ UNCHANGED vars
  BY <1>9 DEF Restart, vars, StoreNext
<1> QED BY <1>1, <1>2, <1>3, <1>4, <1>5, <1>6, <1>7, <1>8, <1>9 DEF Next

----------------------------------------------------------------------------
(* The content of pages, by induction, and the theorems.                   *)

INSTANCE SumsProofs

\* The content of the first n pages.
Joined(hashes, n, f) ==
    f = [i \in 0..n |-> IF i = 0 THEN <<>> ELSE f[i - 1] \o hashes[i][2]]

\* It exists, and is data.
LEMMA JoinedExists ==
    ASSUME NEW n \in Nat, NEW p, \A i \in 1..n : p[i] \in DataHashes
    PROVE  \E f \in [0..n -> Seq(Data)] : Joined(p, n, f)
<1> DEFINE S == {m \in Nat : m <= n => \E f \in [0..m -> Seq(Data)] : Joined(p, m, f)}
<1>1. 0 \in S
  <2>1. PICK f : f = [i \in 0..0 |-> <<>>]
    OBVIOUS
  <2>2. <<>> \in Seq(Data) /\ 0 \in Nat /\ \A i \in 0..0 : i = 0
    BY SMT
  <2>3. f \in [0..0 -> Seq(Data)]
    BY <2>1, <2>2
  <2>4. f = [i \in 0..0 |-> IF i = 0 THEN <<>> ELSE f[i - 1] \o p[i][2]]
    BY <2>1, <2>2
  <2> QED BY <2>2, <2>3, <2>4 DEF Joined
<1>2. ASSUME NEW m \in Nat, m \in S PROVE m + 1 \in S
  <2> SUFFICES ASSUME m + 1 <= n
               PROVE  \E f \in [0..(m + 1) -> Seq(Data)] : Joined(p, m + 1, f)
    <3>1. m + 1 \in Nat
      BY SMT
    <3> QED BY <3>1
  <2>1. m <= n /\ m + 1 \in 1..n /\ m \in 0..m
    BY SMT
  <2>2. PICK f \in [0..m -> Seq(Data)] : Joined(p, m, f)
    BY <1>2, <2>1
  <2>3. PICK b \in Seq(Data) : b = p[m + 1][2]
    BY <2>1, HashData
  <2>4. PICK last : last = f[m] \o b
    OBVIOUS
  <2>5. last \in Seq(Data)
    <3>1. f[m] \in Seq(Data)
      BY <2>1, <2>2
    <3> QED BY <2>3, <2>4, <3>1, SMTT(30)
  <2>6. PICK g : g = [i \in 0..(m + 1) |-> IF i = m + 1 THEN last ELSE f[i]]
    OBVIOUS
  <2>7. \A i \in 0..(m + 1) : i = m + 1 \/ i \in 0..m
    BY SMT
  <2>8. g \in [0..(m + 1) -> Seq(Data)]
    BY <2>2, <2>5, <2>6, <2>7
  <2>9. ASSUME NEW i \in 0..(m + 1)
        PROVE  g[i] = IF i = 0 THEN <<>> ELSE g[i - 1] \o p[i][2]
    <3>1. CASE i = m + 1
      <4>1. i # 0 /\ i - 1 = m /\ m \in 0..(m + 1) /\ m # m + 1
        BY <3>1, SMT
      <4>2. g[i] = last /\ g[i - 1] = f[m]
        BY <4>1, <3>1, <2>6
      <4> QED BY <4>1, <4>2, <3>1, <2>3, <2>4
    <3>2. CASE i # m + 1
      <4>1. i \in 0..m /\ (i = 0 \/ (i - 1 \in 0..(m + 1) /\ i - 1 # m + 1))
        BY <3>2, SMT
      <4>2. g[i] = f[i] /\ (i = 0 \/ g[i - 1] = f[i - 1])
        BY <4>1, <3>2, <2>6
      <4>3. f[i] = IF i = 0 THEN <<>> ELSE f[i - 1] \o p[i][2]
        BY <4>1, <2>2 DEF Joined
      <4> QED BY <4>2, <4>3
    <3> QED BY <3>1, <3>2
  <2>10. Joined(p, m + 1, g)
    BY <2>6, <2>9 DEF Joined
  <2> QED BY <2>8, <2>10
<1> HIDE DEF S
<1>3. n \in S
  BY <1>1, <1>2, Induction
<1>4. n <= n
  BY SMT
<1> QED BY <1>3, <1>4 DEF S

\* It is unique: it depends on the first n pages only.
LEMMA JoinedUnique ==
    ASSUME NEW n \in Nat, NEW p, NEW q, \A i \in 1..n : p[i] = q[i],
           NEW f, NEW g, Joined(p, n, f), Joined(q, n, g)
    PROVE  f[n] = g[n]
<1> DEFINE S == {m \in Nat : m <= n => f[m] = g[m]}
<1>1. 0 \in S
  <2>1. 0 \in Nat /\ 0 \in 0..n
    BY SMT
  <2> QED BY <2>1 DEF Joined
<1>2. ASSUME NEW m \in Nat, m \in S PROVE m + 1 \in S
  <2> SUFFICES ASSUME m + 1 <= n PROVE f[m + 1] = g[m + 1]
    <3>1. m + 1 \in Nat
      BY SMT
    <3> QED BY <3>1
  <2>1. m <= n /\ m + 1 \in 0..n /\ m + 1 \in 1..n /\ m + 1 # 0 /\ (m + 1) - 1 = m
    BY SMT
  <2>2. f[m + 1] = f[m] \o p[m + 1][2]
    BY <2>1 DEF Joined
  <2>3. g[m + 1] = g[m] \o q[m + 1][2]
    BY <2>1 DEF Joined
  <2>4. f[m] = g[m] /\ p[m + 1] = q[m + 1]
    BY <1>2, <2>1
  <2> QED BY <2>2, <2>3, <2>4
<1> HIDE DEF S
<1>3. n \in S
  BY <1>1, <1>2, Induction
<1>4. n <= n
  BY SMT
<1> QED BY <1>3, <1>4 DEF S

\* Content puts together what the pages hold and what the tail holds.
LEMMA ContentIs ==
    ASSUME NEW p \in Seq(DataHashes), NEW last, NEW n \in Nat, n = Len(p),
           NEW f, Joined(p, n, f)
    PROVE  Content(p, last) = f[n] \o last[2]
<1>1. \E g : g = [i \in 0..n |-> IF i = 0 THEN <<>> ELSE g[i - 1] \o p[i][2]]
  BY DEF Joined
<1>2. PICK u : u = CHOOSE g : g = [i \in 0..n |-> IF i = 0 THEN <<>> ELSE g[i - 1] \o p[i][2]]
  OBVIOUS
<1>3. Joined(p, n, u)
  BY <1>1, <1>2 DEF Joined
<1>4. Content(p, last) = u[n] \o last[2]
  BY <1>2 DEF Content
<1>5. \A i \in 1..n : p[i] = p[i]
  OBVIOUS
<1>6. u[n] = f[n]
  BY <1>3, <1>5, JoinedUnique, SMTT(30)
<1> QED BY <1>4, <1>6

\* The content of pages and tail: data; an append to the tail is one to the
\* content, a tail that is sealed changes nothing, and no page holds nothing.
LEMMA ContentFacts ==
    ASSUME NEW p \in Seq(DataHashes)
    PROVE  /\ \A t \in Tails : Content(p, t) \in Seq(Data)
           /\ \A t \in Tails, d \in Data :
                Content(p, DataHash(Append(t[2], d))) = Append(Content(p, t), d)
           /\ \A t \in DataHashes : Content(Append(p, t), NoTail) = Content(p, t)
<1>1. PICK n \in Nat : n = Len(p)
  BY SMT
<1>2. \A i \in 1..n : p[i] \in DataHashes
  BY <1>1, SMT
<1>3. PICK f \in [0..n -> Seq(Data)] : Joined(p, n, f)
  BY <1>2, JoinedExists
<1>4. PICK b \in Seq(Data) : b = f[n]
  <2>1. n \in 0..n
    BY SMT
  <2> QED BY <1>3, <2>1
<1>5. \A t : Content(p, t) = b \o t[2]
  BY <1>1, <1>3, <1>4, ContentIs
<1>6. ASSUME NEW t \in Tails PROVE Content(p, t) \in Seq(Data)
  <2>1. PICK r \in Seq(Data) : r = t[2]
    BY HashData
  <2>2. b \o r \in Seq(Data)
    BY SMT
  <2> QED BY <1>5, <2>1, <2>2
<1>7. ASSUME NEW t \in Tails, NEW d \in Data
      PROVE  Content(p, DataHash(Append(t[2], d))) = Append(Content(p, t), d)
  <2>1. PICK r \in Seq(Data) : r = t[2]
    BY HashData
  <2>2. b \o Append(r, d) = Append(b \o r, d)
    BY SMTT(30)
  <2>3. DataHash(Append(r, d))[2] = Append(r, d)
    BY HashData
  <2> QED BY <1>5, <2>1, <2>2, <2>3
<1>8. ASSUME NEW t \in DataHashes PROVE Content(Append(p, t), NoTail) = Content(p, t)
  <2>1. PICK q \in Seq(DataHashes) : q = Append(p, t)
    <3>1. Append(p, t) \in Seq(DataHashes)
      BY SMT
    <3> QED BY <3>1
  <2>2. Len(q) = n + 1 /\ q[n + 1] = t /\ n + 1 \in Nat /\ \A i \in 1..n : q[i] = p[i]
    BY <1>1, <2>1, SMTT(30)
  <2>3. PICK r \in Seq(Data) : r = t[2]
    BY HashData
  <2>4. \A i \in 1..(n + 1) : q[i] \in DataHashes
    BY <2>2, SMT
  <2>5. PICK g \in [0..(n + 1) -> Seq(Data)] : Joined(q, n + 1, g)
    BY <2>2, <2>4, JoinedExists
  <2>6. PICK h : h = [i \in 0..n |-> g[i]]
    OBVIOUS
  <2>7. Joined(p, n, h)
    <3>1. ASSUME NEW i \in 0..n
          PROVE  h[i] = IF i = 0 THEN <<>> ELSE h[i - 1] \o p[i][2]
      <4>1. i \in 0..(n + 1) /\ (i = 0 \/ (i - 1 \in 0..n /\ i \in 1..n))
        BY SMT
      <4>2. g[i] = IF i = 0 THEN <<>> ELSE g[i - 1] \o q[i][2]
        BY <2>5, <4>1 DEF Joined
      <4>3. h[i] = g[i] /\ (i = 0 \/ h[i - 1] = g[i - 1])
        BY <2>6, <4>1
      <4> QED BY <2>2, <4>1, <4>2, <4>3
    <3> QED BY <2>6, <3>1 DEF Joined
  <2>8. h[n] = b
    <3>1. h[n] = f[n]
      <4>1. \A i \in 1..n : p[i] = p[i]
        OBVIOUS
      <4>2. n \in Nat /\ Joined(p, n, f)
        BY <1>3
      <4> QED BY ONLY SMTT(30), <2>7, <4>1, <4>2, JoinedUnique
    <3> QED BY <1>4, <3>1
  <2>9. g[n + 1] = b \o r
    <3>1. n + 1 \in 0..(n + 1) /\ n + 1 # 0 /\ (n + 1) - 1 = n /\ n \in 0..n
      BY SMT
    <3>2. g[n + 1] = g[n] \o q[n + 1][2]
      BY <2>5, <3>1 DEF Joined
    <3>3. g[n] = h[n]
      BY <2>6, <3>1
    <3> QED BY <2>2, <2>3, <2>8, <3>2, <3>3
  <2>10. Content(q, NoTail) = g[n + 1] \o NoTail[2]
    BY <2>2, <2>5, ContentIs
  <2>11. (b \o r) \o <<>> = b \o r
    <3>1. b \o r \in Seq(Data)
      BY SMT
    <3> QED BY <3>1, SMTT(30)
  <2> QED BY <1>5, <2>1, <2>3, <2>9, <2>10, <2>11, HashData
<1> QED BY <1>6, <1>7, <1>8

\* A context without pages and tail is empty.
LEMMA ContentEmpty == Content(<<>>, NoTail) = <<>>
<1>1. <<>> \in Seq(DataHashes) /\ Len(<<>>) = 0 /\ 0 \in Nat /\ \A i \in 1..0 : FALSE
  BY SMT
<1>2. PICK f \in [0..0 -> Seq(Data)] : Joined(<<>>, 0, f)
  BY <1>1, JoinedExists
<1>3. f[0] = <<>>
  <2>1. 0 \in 0..0
    BY SMT
  <2> QED BY <1>2, <2>1 DEF Joined
<1>4. Content(<<>>, NoTail) = f[0] \o NoTail[2]
  BY <1>1, <1>2, ContentIs
<1>5. <<>> \o <<>> = <<>>
  BY SMT
<1> QED BY <1>3, <1>4, <1>5, HashData

LEMMA ContentLawHolds == ContentLaw
  BY ContentEmpty, ContentFacts DEF ContentLaw

\* The inductive invariant: the store's tables fit together, applications in
\* memory and on disk are the same but for kernel ids drawn in vain, each knows
\* of the taint of a turn before the turn's result is in its context, and no fork
\* has used a key that is still to be drawn.
THEOREM ApplicationsInvariant == Spec => []AppInv
<1>1. Init => AppInv
  BY AppInit
<1>2. AppInv /\ [Next]_vars => AppInv'
  BY ContentLawHolds, AppNext
<1> QED BY <1>1, <1>2, PTL DEF Spec

\* Whatever crashes, failed writes and failed transactions intervene, every
\* application created or forked by the supervisor, in memory and on disk, has
\* a context and a kernel id of its own, and is the owner of its context.
THEOREM ContextsDistinctCorrect == Spec => []ContextsDistinct
<1>1. AppInv => ContextsDistinct
  <2> SUFFICES ASSUME AppInv PROVE ContextsDistinct
    OBVIOUS
  <2>6. DOMAIN worker \subseteq Apps
    BY AppInvFacts
  <2>1. StoreInv /\ Fits(mem.apps, issued, owner, DirtySet, disk.nextKernel) /\ disk.apps = mem.apps
    BY AppInvFacts
  <2>2. \A h \in DOMAIN blobs : h[1] = "snap" \/ h \in {"data"} \X Seq(Data)
    <3>1. \A h \in SnapHashes : h[1] = "snap"
      BY SMT DEF SnapHashes
    <3>2. \A h \in DataHashes : h \in {"data"} \X Seq(Data)
      BY DEF DataHashes
    <3> QED BY <2>1, <3>1, <3>2 DEF StoreInv
  <2>3. DOMAIN tail = Context /\ DOMAIN pages = Context /\ DOMAIN operations = Context
    <3>1. IsSeq(tail) /\ IsSeq(pages) /\ IsSeq(operations)
      BY <2>1, SeqIsSeq DEF StoreInv
    <3>2. DOMAIN tail = 1..Len(tail) /\ DOMAIN pages = 1..Len(pages) /\ DOMAIN operations = 1..Len(operations)
      BY ONLY SMTT(30), <3>1, IsSeqLen
    <3> QED BY <2>1, <3>2 DEF StoreInv, Context
  <2>4. TypeOK
    BY <2>1, <2>2, <2>3, <2>6 DEF TypeOK, StoreInv, Fits, AppInv
  <2>5. ASSUME NEW state \in {mem, disk}, NEW a \in DOMAIN state.apps
        PROVE  /\ state.apps[a].ctx \in Context /\ owner[state.apps[a].ctx] = state.apps[a].owner
               /\ \A b \in DOMAIN state.apps \ {a} :
                    /\ state.apps[a].ctx # state.apps[b].ctx
                    /\ state.apps[a].kernel # state.apps[b].kernel
    <3>1. state.apps = mem.apps
      BY <2>1
    <3> QED BY <2>1, <3>1 DEF Fits, Context
  <2> QED BY <2>4, <2>5 DEF ContextsDistinct
<1> QED BY <1>1, ApplicationsInvariant, PTL

\* Once a context holds data of a message that declared taint, or data that the
\* provider labelled and foldTaint did not fail to write, or a checkpoint from
\* which it can be restored does, its application is tainted in the state as
\* last written, whether a turn of its own or a fork brought the data there.
THEOREM TaintFollowsContentCorrect == Spec => []TaintFollowsContent
<1>1. AppInv => TaintFollowsContent
  <2> SUFFICES ASSUME AppInv, NEW a \in DOMAIN disk.apps,
                      \E content \in Saved(disk.apps[a].ctx) \union {ContextContent(disk.apps[a].ctx)} :
                        \E i \in 1..Len(content) : content[i] \in Telling(dropped, disk.apps[a].ctx)
               PROVE  disk.apps[a].tainted
    BY DEF TaintFollowsContent
  <2>1. disk.apps = mem.apps
    BY AppInvFacts
  <2>2. disk.apps[a].ctx \in Context /\ Told(disk.apps[a], DirtySet)
    BY <2>1, OfApp DEF Apps
  <2>3. Dirty(disk.apps[a].ctx)
    BY DEF Dirty, HasTaint
  <2> QED BY <2>2, <2>3 DEF Told, DirtySet
<1> QED BY <1>1, ApplicationsInvariant, PTL

\* The SQLite store under the supervisor implements the log of contexts: every
\* transaction is one effect of a key that was not used before, told by one
\* commit, or changes nothing a reader sees.
THEOREM ImplementsLogCorrect == Spec => ImplementsLog
<1>1. Init => Log!Init
  BY StoreStart DEF Init
<1>2. AppInv /\ [Next]_vars => [Log!Next]_(Log!vars)
  <2>1. AppInv => StoreInv
    BY DEF AppInv
  <2> QED BY <2>1, ContentLawHolds, StoreNextOf, LogStep
<1> QED BY <1>1, <1>2, ApplicationsInvariant, PTL DEF Spec, ImplementsLog, Log!Spec
=============================================================================
