---------------------------- MODULE ContextStore ----------------------------
(***************************************************************************)
(* The context store: pages and a tail of content-addressed blobs, grants, *)
(* an idempotency table and a feed of commits, in one SQLite database      *)
(* whose transactions make every operation one step.  A blob's hash is     *)
(* modelled by its content.  An operation that is refused, fails its       *)
(* integrity check or repeats a key rolls back and changes nothing.        *)
(***************************************************************************)
EXTENDS Integers, Sequences, FiniteSets

CONSTANTS
    Data,          \* what is appended and committed
    Owners,
    MaxContexts,   \* bound: contexts ever created
    MaxCommits,    \* bound: keyed operations
    MaxRot         \* bound: blobs that go bad

ASSUME ContextStoreAssumption ==
    /\ MaxContexts \in Nat /\ MaxCommits \in Nat /\ MaxRot \in Nat

VARIABLES
    blobs,         \* hash to stored bytes
    owner,         \* contexts.owner, by the number of the context
    tail,          \* contexts.tail
    pages,         \* the hashes of its pages, by position
    grants,        \* context, hash and kind
    operations,    \* per context: key to digest and result
    commits        \* by cursor

storeVars == <<blobs, owner, tail, pages, grants, operations, commits>>

\* Hashes: of data, of a checkpoint's snapshot, and the NULL tail.
DataHash(bytes) == <<"data", bytes>>
SnapHash(snap)  == <<"snap", snap>>
NoTail          == <<"null", <<>>>>

\* What a blob that has gone bad reads as.
Garbled == DataHash(<<>>)

Context == 1..Len(owner)

\* A row is added to a table, or replaced.
With(f, k, v) == [x \in DOMAIN f \union {k} |-> IF x = k THEN v ELSE f[x]]

StoreInit ==
    /\ blobs = <<>> /\ owner = <<>> /\ tail = <<>> /\ pages = <<>>
    /\ grants = {} /\ operations = <<>> /\ commits = <<>>

-----------------------------------------------------------------------------
(* Blobs *)

\* contextBlob succeeds.
contextBlob(h) == h \in DOMAIN blobs /\ blobs[h] = h

\* INSERT OR IGNORE: a blob that is there, good or bad, is not replaced.
Putting(h) == h \in DOMAIN blobs => contextBlob(h)
putContextBlob(h) ==
    /\ Putting(h)
    /\ blobs' = IF h \in DOMAIN blobs THEN blobs ELSE With(blobs, h, h)

\* A blob's bytes change on disk.
Rot(h) ==
    /\ Cardinality({g \in DOMAIN blobs : blobs[g] # g}) < MaxRot
    /\ h # Garbled
    /\ blobs' = [blobs EXCEPT ![h] = Garbled]
    /\ UNCHANGED <<owner, tail, pages, grants, operations, commits>>

-----------------------------------------------------------------------------
(* Operations *)

authorizeContext(o, c) == c \in Context /\ owner[c] = o

Used(c, key) == key \in DOMAIN operations[c]

\* mutate reaches fn: otherwise the key's old result is returned or, for
\* another input, ErrContextIdempotency.
FirstUse(o, c, key, kind, input) ==
    /\ authorizeContext(o, c)
    /\ Len(commits) < MaxCommits
    /\ ~Used(c, key)

\* The rows that mutate adds to operations and commits.
Operation(kind, input, result) == [digest |-> <<kind, input>>, result |-> result]
Bind(c, key, kind, input, result) ==
    /\ operations' = [operations EXCEPT ![c] = With(@, key, Operation(kind, input, result))]
    /\ commits' = Append(commits, [ctx |-> c, kind |-> kind, handle |-> result, key |-> key])

\* A context without prefix.
Create(o) ==
    /\ Len(owner) < MaxContexts
    /\ owner' = Append(owner, o)
    /\ tail' = Append(tail, NoTail)
    /\ pages' = Append(pages, <<>>)
    /\ operations' = Append(operations, <<>>)
    /\ UNCHANGED <<blobs, grants, commits>>

\* The tail is replaced by a longer one.
AppendData(o, c, key, d) ==
    LET previous == IF tail[c] = NoTail THEN <<>> ELSE blobs[tail[c]][2]
        hash     == DataHash(Append(previous, d))
    IN  /\ FirstUse(o, c, key, "append", d)
        /\ tail[c] # NoTail => contextBlob(tail[c])
        /\ putContextBlob(hash)
        /\ tail' = [tail EXCEPT ![c] = hash]
        /\ Bind(c, key, "append", d, hash)
        /\ UNCHANGED <<owner, pages, grants>>

\* AppendData fails on a blob that has gone bad.
AppendRefused(c, d) ==
    \/ tail[c] # NoTail /\ ~contextBlob(tail[c])
    \/ ~Putting(DataHash(Append(tail[c][2], d)))

\* Mutant: the tail is let go.
MutantSealed(c) == pages[c]

\* The parent's pages once its tail is sealed.
Sealed(c) == IF tail[c] = NoTail THEN pages[c] ELSE Append(pages[c], tail[c])

\* Neither blobs are read nor the child's owner is part of the digest.
ForkTo(o, c, childOwner, key) ==
    /\ FirstUse(o, c, key, "fork", 0)
    /\ Len(owner) < MaxContexts
    /\ owner' = Append(owner, childOwner)
    /\ tail' = Append([tail EXCEPT ![c] = NoTail], NoTail)
    /\ pages' = Append([pages EXCEPT ![c] = Sealed(c)], Sealed(c))
    /\ LET child == Len(owner) + 1
       IN  /\ operations' = Append([operations EXCEPT
                  ![c] = With(@, key, Operation("fork", 0, child))], <<>>)
           /\ commits' = Append(commits, [ctx |-> c, kind |-> "fork", handle |-> child, key |-> key])
    /\ UNCHANGED <<blobs, grants>>

\* Every page is read, and fails the snapshot if it is bad.
Readable(hashes, last) ==
    /\ \A i \in 1..Len(hashes) : contextBlob(hashes[i])
    /\ last # NoTail => contextBlob(last)
snapshotContext(c) == [ctx |-> c, prefix |-> pages[c], tail |-> tail[c]]

Checkpoint(o, c, key) ==
    LET hash == SnapHash(snapshotContext(c))
    IN  /\ FirstUse(o, c, key, "checkpoint", 0)
        /\ Readable(pages[c], tail[c])
        /\ putContextBlob(hash)
        /\ grants' = grants \union {<<c, hash, "checkpoint">>}
        /\ Bind(c, key, "checkpoint", 0, hash)
        /\ UNCHANGED <<owner, tail, pages>>

\* Checkpoint fails on one.
CheckpointRefused(c) ==
    ~Readable(pages[c], tail[c]) \/ ~Putting(SnapHash(snapshotContext(c)))

\* Pages and tail are replaced by the snapshot's; the pages the context has
\* now stay in blobs, for other checkpoints.
Restore(o, c, key, hash) ==
    /\ FirstUse(o, c, key, "restore", hash)
    /\ <<c, hash, "checkpoint">> \in grants
    /\ contextBlob(hash)
    /\ blobs[hash][1] = "snap"
    /\ LET snap == blobs[hash][2]
       IN  /\ snap.ctx = c
           /\ Readable(snap.prefix, snap.tail)
           /\ pages' = [pages EXCEPT ![c] = snap.prefix]
           /\ tail' = [tail EXCEPT ![c] = snap.tail]
    /\ Bind(c, key, "restore", hash, hash)
    /\ UNCHANGED <<blobs, owner, grants>>

CommitArtifact(o, c, key, d) ==
    LET hash == DataHash(<<d>>)
    IN  /\ FirstUse(o, c, key, "artifact", d)
        /\ putContextBlob(hash)
        /\ grants' = grants \union {<<c, hash, "artifact">>}
        /\ Bind(c, key, "artifact", d, hash)
        /\ UNCHANGED <<owner, tail, pages>>

-----------------------------------------------------------------------------
(* Refinement: the content that pages and tail stand for *)

Content(hashes, last) ==
    LET upto[i \in 0..Len(hashes)] == IF i = 0 THEN <<>> ELSE upto[i - 1] \o hashes[i][2]
    IN  upto[Len(hashes)] \o last[2]

\* What ReadPage and Pages let the owner of a context put together.
ContextContent(c) == Content(pages[c], tail[c])

\* What its checkpoints and its artifacts stand for.
Saved(c) == {Content(g[2][2].prefix, g[2][2].tail) :
                g \in {g \in grants : g[1] = c /\ g[3] = "checkpoint"}}
Files(c) == {g[2][2][1] : g \in {g \in grants : g[1] = c /\ g[3] = "artifact"}}

Log == INSTANCE ContextLog WITH
    log   <- [c \in Context |-> ContextContent(c)],
    saved <- [c \in Context |-> Saved(c)],
    files <- [c \in Context |-> Files(c)],
    feed  <- [i \in 1..Len(commits) |->
                [ctx |-> commits[i].ctx, kind |-> commits[i].kind, key |-> commits[i].key]]

\* The store implements ContextLog: contents survive sealing, sharing, forks
\* and restores as they were written, blobs that go bad are never built upon,
\* and a key that is repeated, with the same or another input, has no second
\* effect and no second commit.
ImplementsLog == Log!Spec
=============================================================================
