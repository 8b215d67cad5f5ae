------------------------------ MODULE Gateway ------------------------------
(***************************************************************************)
(* The message gateway: inbound messages of external conversations enter   *)
(* the mailbox of the bound application, replies leave through a durable   *)
(* outbox that a transporter claims, sends and acknowledges.               *)
(*                                                                         *)
(* Every handler writes the blob once, so it is one action here; a write   *)
(* that fails changes nothing durable (Rebuild).  The network may deliver  *)
(* an inbound message any number of times and in any order.                *)
(***************************************************************************)
EXTENDS Integers, Sequences, FiniteSets

CONSTANTS
    App, Channel, External,
    MailboxCap,   \* maxApplicationMailboxMessages
    OutboxCap,    \* maxOutboxEntries
    MaxSeq,       \* bound: sequence numbers of a conversation
    MaxClient,    \* bound: messages of control clients
    MaxEntries    \* bound: outbox entries ever made

ASSUME GatewayAssumption ==
    /\ "none" \notin App
    /\ MailboxCap \in Nat \ {0} /\ OutboxCap \in Nat
    /\ MaxSeq \in Nat /\ MaxClient \in Nat /\ MaxEntries \in Nat

VARIABLES
    channels,   \* "none", "active" or "revoked"
    bound,      \* per conversation: its application, or none
    last,       \* per conversation: LastSequence
    app,        \* per application: "serving", "frozen" or "tombstoned"
    tainted,    \* applications with taint that ExportMask does not clear
    mail,       \* all messages, in the order of their ids
    results,    \* messages with a committed turn result
    sourced,    \* the process-local map from message to conversation
    outbox,     \* its entries by id; ids grow with the position in the slice
    made,       \* per entry id: the message it replies to
    carried,    \* entries in the hands of the transporter
    accepted    \* replies the remote side has taken, by idempotency key

vars == <<channels, bound, last, app, tainted, mail, results, sourced, outbox,
          made, carried, accepted>>

NoApp  == "none"
NoConv == <<>>
Conv   == Channel \X External

\* A conversation and a sequence.
NoKey  == <<>>
Key    == Conv \X (1..MaxSeq)

\* key is the gateway's idempotency key or, as NoKey, any other one; env is what
\* the payload says of its source, channel, external_id and sequence, whoever
\* wrote it.  routed is history: the conversation of the key has delivered it.
Message == [app : App, key : Key \cup {NoKey}, env : Key \cup {NoKey},
            routed : BOOLEAN, open : BOOLEAN]
Entry   == [msg : Nat, conv : Conv, status : {"pending", "sent"}, tried : BOOLEAN]

TypeOK ==
    /\ channels \in [Channel -> {"none", "active", "revoked"}]
    /\ bound \in [Conv -> App \cup {NoApp}]
    /\ last \in [Conv -> 0..MaxSeq]
    /\ app \in [App -> {"serving", "frozen", "tombstoned"}]
    /\ tainted \in SUBSET App
    /\ mail \in Seq(Message)
    /\ results \in SUBSET (1..Len(mail))
    /\ DOMAIN sourced \subseteq 1..Len(mail)
    /\ made \in Seq(results)
    /\ DOMAIN outbox \subseteq 1..Len(made) /\ \A e \in DOMAIN outbox : outbox[e] \in Entry
    /\ carried \in SUBSET (1..Len(made))
    /\ accepted \in SUBSET results

Init ==
    /\ channels = [c \in Channel |-> "none"]
    /\ bound = [k \in Conv |-> NoApp]
    /\ last = [k \in Conv |-> 0]
    /\ app = [a \in App |-> "serving"]
    /\ tainted = {}
    /\ mail = <<>> /\ results = {} /\ sourced = <<>>
    /\ outbox = <<>> /\ made = <<>>
    /\ carried = {} /\ accepted = {}

-----------------------------------------------------------------------------
(* Channels and conversations *)

CreateChannel(c) ==
    /\ channels[c] = "none"
    /\ channels' = [channels EXCEPT ![c] = "active"]
    /\ UNCHANGED <<bound, last, app, tainted, mail, results, sourced, outbox, made,
                   carried, accepted>>

RevokeChannel(c) ==
    /\ channels[c] = "active"
    /\ channels' = [channels EXCEPT ![c] = "revoked"]
    /\ UNCHANGED <<bound, last, app, tainted, mail, results, sourced, outbox, made,
                   carried, accepted>>

\* Binding the same pair again keeps the cursor.
BoundCursor(k) == IF bound[k] = NoApp THEN 0 ELSE last[k]

BindConversation(k, a) ==
    /\ channels[k[1]] = "active"
    /\ bound[k] \in {NoApp, a}
    /\ bound' = [bound EXCEPT ![k] = a]
    /\ last' = [last EXCEPT ![k] = BoundCursor(k)]
    /\ UNCHANGED <<channels, app, tainted, mail, results, sourced, outbox, made,
                   carried, accepted>>

-----------------------------------------------------------------------------
(* Inbound *)

\* mailboxCapacityLocked and accepts.
Accepts(a) ==
    Cardinality({i \in 1..Len(mail) : mail[i].app = a /\ mail[i].open}) < MailboxCap

\* The message of an application under an idempotency key.
Keyed(a, key) == {i \in 1..Len(mail) : mail[i].app = a /\ mail[i].key = key}

\* sourceOf
sourceOf(i, k) == [j \in DOMAIN sourced \cup {i} |-> IF j = i THEN k ELSE sourced[j]]

\* What DeliverInbound hands to enqueueLocked.
Wrapped(k, n, a) == [app |-> a, key |-> <<k, n>>, env |-> <<k, n>>, routed |-> TRUE, open |-> TRUE]

\* Mutant: the cursor moves before the mailbox has accepted the message.
MutantEnqueueInbound(k, n, a) ==
    /\ last' = [last EXCEPT ![k] = n]
    /\ IF Accepts(a) THEN /\ mail' = Append(mail, Wrapped(k, n, a))
                          /\ sourced' = sourceOf(Len(mail) + 1, k)
                     ELSE UNCHANGED <<mail, sourced>>

\* enqueueLocked: a message that is there under this key with the same payload
\* is taken for this one, with another payload it is refused.  Message, source
\* and cursor are written together; a full mailbox writes nothing.
EnqueueInbound(k, n, a) ==
    /\ \/ /\ Keyed(a, <<k, n>>) = {} /\ Accepts(a)
          /\ mail' = Append(mail, Wrapped(k, n, a))
          /\ sourced' = sourceOf(Len(mail) + 1, k)
       \/ \E i \in Keyed(a, <<k, n>>) :
            /\ mail[i].env = <<k, n>>
            /\ mail' = [mail EXCEPT ![i].routed = TRUE]
            /\ sourced' = sourceOf(i, k)
    /\ last' = [last EXCEPT ![k] = n]

\* A sequence up to the cursor is answered from the mailbox or refused.
DeliverInbound(k, n) ==
    /\ channels[k[1]] = "active" /\ bound[k] # NoApp
    /\ n > last[k]
    /\ app[bound[k]] # "tombstoned"
    /\ EnqueueInbound(k, n, bound[k])
    /\ UNCHANGED <<channels, bound, app, tainted, results, outbox, made, carried, accepted>>

-----------------------------------------------------------------------------
(* The application *)

Clients == {i \in 1..Len(mail) : ~mail[i].routed}

\* Enqueue by a control client, or by a timer it has set: any payload, also one
\* that reads like the gateway's, and any key but those of timers and of file
\* and kernel events.
Send(a, key, env) ==
    /\ app[a] # "tombstoned"
    /\ key # NoKey => Keyed(a, key) = {}
    /\ Accepts(a)
    /\ Cardinality(Clients) < MaxClient
    /\ mail' = Append(mail, [app |-> a, key |-> key, env |-> env, routed |-> FALSE, open |-> TRUE])
    /\ UNCHANGED <<channels, bound, last, app, tainted, results, sourced, outbox, made,
                   carried, accepted>>

\* A turn commits its result; a message may bring confidential taint.
FinishTurn(i, taints) ==
    /\ mail[i].open /\ app[mail[i].app] = "serving"
    /\ mail' = [mail EXCEPT ![i].open = FALSE]
    /\ results' = results \cup {i}
    /\ tainted' = tainted \cup {a \in {mail[i].app} : taints}
    /\ UNCHANGED <<channels, bound, last, app, sourced, outbox, made, carried, accepted>>

\* SetApplicationState.
Freeze(a, to) ==
    /\ app[a] \in {"serving", "frozen"} \ {to}
    /\ app' = [app EXCEPT ![a] = to]
    /\ UNCHANGED <<channels, bound, last, tainted, mail, results, sourced, outbox, made,
                   carried, accepted>>

RetireApplication(a) ==
    /\ app[a] # "tombstoned"
    /\ app' = [app EXCEPT ![a] = "tombstoned"]
    /\ mail' = [i \in 1..Len(mail) |->
                  IF mail[i].app = a THEN [mail[i] EXCEPT !.open = FALSE] ELSE mail[i]]
    /\ UNCHANGED <<channels, bound, last, tainted, results, sourced, outbox, made,
                   carried, accepted>>

\* The conversation a message's payload names, if it is bound to the
\* application.
EnvelopeSource(i) ==
    IF mail[i].env # NoKey /\ bound[mail[i].env[1]] = mail[i].app THEN mail[i].env[1] ELSE NoConv

\* The messages the rebuilt map knows.
Rescanned == {i \in 1..Len(mail) : EnvelopeSource(i) # NoConv}

\* rescanSourcedLocked, after a restart or a write that failed.
Rebuild ==
    /\ sourced' = [i \in Rescanned |-> EnvelopeSource(i)]
    /\ UNCHANGED <<channels, bound, last, app, tainted, mail, results, outbox, made,
                   carried, accepted>>

-----------------------------------------------------------------------------
(* Outbound *)

\* The oldest sent entries go when there are too many; pending ones stay.
Evicted(box) ==
    LET sent == {e \in DOMAIN box : box[e].status # "pending"}
        gone == {e \in sent :
                   Cardinality({d \in sent : d < e}) < Cardinality(DOMAIN box) - OutboxCap}
    IN [e \in DOMAIN box \ gone |-> box[e]]

HasResult(i) == i \in results

\* Mutant: any conversation of the application will do.
MutantReplyConv(i) == CHOOSE k \in Conv : bound[k] = mail[i].app

\* The conversation a reply goes to.
ReplyConv(i) == sourced[i]

\* The outbox with a new entry.
Added(id, entry) == [e \in DOMAIN outbox \cup {id} |-> IF e = id THEN entry ELSE outbox[e]]

\* enqueueOutboxLocked: a known idempotency key is answered from the outbox.
Reply(i) ==
    /\ HasResult(i)
    /\ app[mail[i].app] = "serving"
    /\ i \in DOMAIN sourced /\ bound[ReplyConv(i)] = mail[i].app
    /\ channels[ReplyConv(i)[1]] = "active"
    /\ mail[i].app \notin tainted
    /\ \A e \in DOMAIN outbox : outbox[e].msg # i
    /\ Len(made) < MaxEntries
    /\ made' = Append(made, i)
    /\ outbox' = Evicted(Added(Len(made) + 1, [msg |-> i, conv |-> ReplyConv(i),
                                               status |-> "pending", tried |-> FALSE]))
    /\ UNCHANGED <<channels, bound, last, app, tainted, mail, results, sourced, carried, accepted>>

\* Mutant: a claimed entry is not handed out again.
MutantClaimable(e, k) == e.conv = k /\ e.status = "pending" /\ ~e.tried

\* Pending entries of the conversation, claimed before or not.
Claimable(e, k) == e.conv = k /\ e.status = "pending"

ClaimOutbox(k) ==
    /\ channels[k[1]] = "active" /\ bound[k] # NoApp
    /\ \E e \in DOMAIN outbox : Claimable(outbox[e], k) /\ e \notin carried
    /\ carried' = carried \cup {e \in DOMAIN outbox : Claimable(outbox[e], k)}
    /\ outbox' = [e \in DOMAIN outbox |->
                    IF Claimable(outbox[e], k) THEN [outbox[e] EXCEPT !.tried = TRUE] ELSE outbox[e]]
    /\ UNCHANGED <<channels, bound, last, app, tainted, mail, results, sourced, made, accepted>>

\* The remote side takes a carried entry, once per idempotency key.
RemoteAccepts(e) ==
    /\ e \in carried /\ made[e] \notin accepted
    /\ accepted' = accepted \cup {made[e]}
    /\ UNCHANGED <<channels, bound, last, app, tainted, mail, results, sourced, outbox,
                   made, carried>>

\* The transporter acknowledges what the remote side has; the entry may be
\* gone or sent already.
AckOutbox(e) ==
    /\ e \in carried /\ made[e] \in accepted
    /\ carried' = carried \ {e}
    /\ outbox' = [d \in DOMAIN outbox |->
                    IF d = e THEN [outbox[d] EXCEPT !.status = "sent"] ELSE outbox[d]]
    /\ UNCHANGED <<channels, bound, last, app, tainted, mail, results, sourced, made,
                   accepted>>

\* The transporter reconnects and has forgotten what it carried.
TransporterLost ==
    /\ carried # {}
    /\ carried' = {}
    /\ UNCHANGED <<channels, bound, last, app, tainted, mail, results, sourced, outbox,
                   made, accepted>>

-----------------------------------------------------------------------------
Next ==
    \/ \E c \in Channel : CreateChannel(c) \/ RevokeChannel(c)
    \/ \E k \in Conv, a \in App : BindConversation(k, a)
    \/ \E k \in Conv, n \in 1..MaxSeq : DeliverInbound(k, n)
    \/ \E a \in App, key, env \in Key \cup {NoKey} : Send(a, key, env)
    \/ \E a \in App : RetireApplication(a)
    \/ \E a \in App, to \in {"serving", "frozen"} : Freeze(a, to)
    \/ \E i \in 1..Len(mail), taints \in BOOLEAN : FinishTurn(i, taints)
    \/ \E i \in 1..Len(mail) : Reply(i)
    \/ \E k \in Conv : ClaimOutbox(k)
    \/ \E e \in 1..Len(made) : RemoteAccepts(e) \/ AckOutbox(e)
    \/ TransporterLost
    \/ Rebuild

Spec == Init /\ [][Next]_vars

\* A transporter claims again after every reconnect, and of the attempts that
\* are repeated for ever some get through.
FairSpec ==
    /\ Spec
    /\ \A k \in Conv : WF_vars(ClaimOutbox(k))
    /\ \A e \in 1..MaxEntries : SF_vars(e <= Len(made) /\ RemoteAccepts(e))

-----------------------------------------------------------------------------
(* Properties *)

\* The messages a conversation has delivered with a sequence.
Routed(k, n) == {i \in 1..Len(mail) : mail[i].routed /\ mail[i].key = <<k, n>>}

\* DeliverInbound writes message and cursor together: each sequence of a
\* conversation is in the mailbox at most once, and the cursor is the largest
\* one there, through full mailboxes, redeliveries, repeated bindings and
\* control clients that use the gateway's keys.
CursorIsLatest ==
    /\ TypeOK
    /\ \A k \in Conv :
      /\ \A n \in 1..MaxSeq : Cardinality(Routed(k, n)) <= 1
      /\ \A n \in (last[k] + 1)..MaxSeq : Routed(k, n) = {}
      /\ last[k] > 0 => Routed(k, last[k]) # {}

\* sourceOf and rescanSourcedLocked never forget, through restarts and failed
\* writes, which conversation delivered a message, and Reply answers that
\* conversation, also when several are bound to one application.  The reply to a
\* message no conversation delivered goes nowhere but to the conversation its
\* payload names, and only if that one is bound to the application.
ReplyToOrigin ==
    /\ \A i \in 1..Len(mail) :
         mail[i].routed => i \in DOMAIN sourced /\ sourced[i] = mail[i].key[1]
    /\ \A e \in DOMAIN outbox :
         LET m == mail[outbox[e].msg]
         IN /\ m.routed => outbox[e].conv = m.key[1]
            /\ m.env # NoKey /\ outbox[e].conv = m.env[1]
            /\ bound[outbox[e].conv] = m.app

\* A staged reply reaches the remote side unless its channel is revoked.
ReplyArrives ==
    \A e \in 1..MaxEntries, k \in Conv :
      (e \in DOMAIN outbox /\ outbox[e].conv = k)
        ~> ((e <= Len(made) /\ made[e] \in accepted) \/ channels[k[1]] = "revoked")

=============================================================================
