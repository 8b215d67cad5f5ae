----------------------------- MODULE ContextLog -----------------------------
(***************************************************************************)
(* What the context store promises, without pages, hashes or transactions: *)
(* a context is an append-only sequence of data that its owner can fork,   *)
(* save and bring back, every key has one effect, and the feed of commits  *)
(* tells of each effect once, in the order in which they happened.         *)
(***************************************************************************)
EXTENDS Integers, Sequences

CONSTANTS
    Data,      \* what is appended and committed
    Owners

VARIABLES
    owner,     \* of each context, by the number of the context
    log,       \* its content
    saved,     \* the contents that its checkpoints hold
    files,     \* its artifacts
    feed       \* context, kind and key of every effect, oldest first

vars == <<owner, log, saved, files, feed>>

Context == 1..Len(owner)

Init ==
    /\ owner = <<>> /\ log = <<>> /\ saved = <<>> /\ files = <<>>
    /\ feed = <<>>

Fresh(c, key) ==
    \A i \in 1..Len(feed) : feed[i].ctx = c => feed[i].key # key

Effect(c, kind, key) ==
    /\ Fresh(c, key)
    /\ feed' = Append(feed, [ctx |-> c, kind |-> kind, key |-> key])

NewContext(o, content) ==
    /\ o \in Owners
    /\ owner' = Append(owner, o)
    /\ log' = Append(log, content)
    /\ saved' = Append(saved, {})
    /\ files' = Append(files, {})

Create ==
    /\ \E o \in Owners : NewContext(o, <<>>)
    /\ UNCHANGED feed

AppendData(c, key) ==
    /\ Effect(c, "append", key)
    /\ \E d \in Data : log' = [log EXCEPT ![c] = Append(@, d)]
    /\ UNCHANGED <<owner, saved, files>>

Fork(c, key) ==
    /\ Effect(c, "fork", key)
    /\ \E o \in Owners : NewContext(o, log[c])

Checkpoint(c, key) ==
    /\ Effect(c, "checkpoint", key)
    /\ saved' = [saved EXCEPT ![c] = @ \union {log[c]}]
    /\ UNCHANGED <<owner, log, files>>

Restore(c, key) ==
    /\ Effect(c, "restore", key)
    /\ \E content \in saved[c] : log' = [log EXCEPT ![c] = content]
    /\ UNCHANGED <<owner, saved, files>>

CommitArtifact(c, key) ==
    /\ Effect(c, "artifact", key)
    /\ \E d \in Data : files' = [files EXCEPT ![c] = @ \union {d}]
    /\ UNCHANGED <<owner, log, saved>>

\* The key is the last entry's of the new feed, so that it need not be guessed.
Keyed(c) ==
    LET key == feed'[Len(feed')].key
    IN  /\ Len(feed') > Len(feed)
        /\ \/ AppendData(c, key) \/ Fork(c, key) \/ Checkpoint(c, key)
           \/ Restore(c, key) \/ CommitArtifact(c, key)

Next == Create \/ \E c \in Context : Keyed(c)

Spec == Init /\ [][Next]_vars
=============================================================================
