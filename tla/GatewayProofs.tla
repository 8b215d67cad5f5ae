--------------------------- MODULE GatewayProofs ---------------------------
(***************************************************************************)
(* The gateway's two promises for any number of channels, conversations,   *)
(* messages and replies: each inbound sequence enters the mailbox once,    *)
(* under a cursor that is exact, and replies go where the message came     *)
(* from.                                                                   *)
(***************************************************************************)
EXTENDS Gateway, FiniteSetTheorems, SequenceTheorems, TLAPS

----------------------------------------------------------------------------
\* A message its conversation has delivered carries that conversation's
\* envelope, is not beyond the cursor, and is known to the process-local map.
\* The map names for each message the conversation of its envelope, which is
\* bound to the message's application.  A mailbox holds a gateway key once, and
\* a cursor is the sequence of a delivered message.
Inbound ==
    /\ \A i \in 1..Len(mail) : mail[i].routed =>
         /\ mail[i].key # NoKey /\ mail[i].env = mail[i].key
         /\ mail[i].key[2] <= last[mail[i].key[1]]
         /\ i \in DOMAIN sourced
    /\ \A i \in DOMAIN sourced :
         /\ i \in 1..Len(mail) /\ mail[i].env # NoKey
         /\ sourced[i] = mail[i].env[1] /\ bound[mail[i].env[1]] = mail[i].app
    /\ \A i, j \in 1..Len(mail) :
         mail[i].app = mail[j].app /\ mail[i].key = mail[j].key
           => i = j \/ mail[i].key = NoKey
    /\ \A k \in Conv : last[k] > 0 =>
         \E i \in 1..Len(mail) : mail[i].routed /\ mail[i].key = <<k, last[k]>>

\* A staged reply goes to the conversation its message's envelope names.
Outbound ==
    \A e \in DOMAIN outbox :
        /\ outbox[e].msg \in 1..Len(mail) /\ mail[outbox[e].msg].env # NoKey
        /\ outbox[e].conv = mail[outbox[e].msg].env[1]
        /\ bound[outbox[e].conv] = mail[outbox[e].msg].app

GatewayInv == TypeOK /\ Inbound /\ Outbound

----------------------------------------------------------------------------
\* A step that may close messages and leaves routes, cursors and map alone.
Quiet ==
    /\ UNCHANGED <<bound, last, sourced>>
    /\ mail' \in Seq(Message) /\ Len(mail') = Len(mail)
    /\ \A i \in 1..Len(mail) :
         /\ mail'[i].app = mail[i].app /\ mail'[i].key = mail[i].key
         /\ mail'[i].env = mail[i].env /\ mail'[i].routed = mail[i].routed

LEMMA QuietInbound ==
    ASSUME Inbound, Quiet
    PROVE  Inbound'
<1>1. \A i \in DOMAIN sourced : i \in 1..Len(mail)
  BY DEF Inbound
<1>2. \A i \in 1..Len(mail') : mail'[i].routed =>
        /\ mail'[i].key # NoKey /\ mail'[i].env = mail'[i].key
        /\ mail'[i].key[2] <= last'[mail'[i].key[1]]
        /\ i \in DOMAIN sourced'
  BY SMTT(30) DEF Inbound, Quiet
<1>3. \A i \in DOMAIN sourced' :
        /\ i \in 1..Len(mail') /\ mail'[i].env # NoKey
        /\ sourced'[i] = mail'[i].env[1] /\ bound'[mail'[i].env[1]] = mail'[i].app
  BY SMTT(30), <1>1 DEF Inbound, Quiet
<1>4. \A i, j \in 1..Len(mail') :
        mail'[i].app = mail'[j].app /\ mail'[i].key = mail'[j].key
          => i = j \/ mail'[i].key = NoKey
  BY SMTT(30) DEF Inbound, Quiet
<1>5. ASSUME NEW k \in Conv, last'[k] > 0
      PROVE  \E i \in 1..Len(mail') : mail'[i].routed /\ mail'[i].key = <<k, last'[k]>>
  <2>1. last' = last /\ Len(mail') = Len(mail)
    BY DEF Quiet
  <2>2. PICK i \in 1..Len(mail) : mail[i].routed /\ mail[i].key = <<k, last[k]>>
    BY <1>5, <2>1, Zenon DEF Inbound
  <2>3. mail'[i].routed = mail[i].routed /\ mail'[i].key = mail[i].key
    BY DEF Quiet
  <2> QED
    BY <2>1, <2>2, <2>3, Zenon
<1> QED
  BY <1>2, <1>3, <1>4, <1>5, Zenon DEF Inbound

LEMMA QuietOutbound ==
    ASSUME TypeOK, Outbound, Quiet, DOMAIN outbox' = DOMAIN outbox,
           \A e \in DOMAIN outbox : outbox'[e].msg = outbox[e].msg /\ outbox'[e].conv = outbox[e].conv
    PROVE  Outbound'
  BY DEF Outbound, Quiet

LEMMA KeyFields ==
    ASSUME NEW x \in Key
    PROVE  x # NoKey /\ x[1] \in Conv /\ x[2] \in 1..MaxSeq /\ x = <<x[1], x[2]>>
  BY DEF Key, NoKey

LEMMA KeyOf ==
    ASSUME NEW k \in Conv, NEW n \in 1..MaxSeq
    PROVE  /\ <<k, n>> \in Key /\ <<k, n>> # NoKey
           /\ <<k, n>>[1] = k /\ <<k, n>>[2] = n
  BY DEF Key, NoKey

\* The fields of a message, and of the message once it is closed.
LEMMA Fields ==
    ASSUME NEW x \in Message
    PROVE  /\ x.app \in App /\ x.key \in Key \cup {NoKey} /\ x.env \in Key \cup {NoKey}
           /\ x.routed \in BOOLEAN
           /\ LET y == [x EXCEPT !.open = FALSE]
              IN /\ y \in Message /\ y.app = x.app /\ y.key = x.key
                 /\ y.env = x.env /\ y.routed = x.routed
           /\ LET y == [x EXCEPT !.routed = TRUE]
              IN y \in Message /\ y.app = x.app /\ y.key = x.key /\ y.env = x.env /\ y.routed
  BY Zenon DEF Message

LEMMA MailFields ==
    ASSUME TypeOK
    PROVE  Len(mail) \in Nat /\ \A i \in 1..Len(mail) : mail[i] \in Message
  BY DEF TypeOK

\* The parts of a message's key and envelope.
LEMMA MailKeys ==
    ASSUME TypeOK, NEW i \in 1..Len(mail)
    PROVE  /\ mail[i].app \in App /\ mail[i].routed \in BOOLEAN
           /\ mail[i].key # NoKey => mail[i].key[1] \in Conv /\ mail[i].key[2] \in 1..MaxSeq
           /\ mail[i].env # NoKey => mail[i].env[1] \in Conv
  BY MailFields, Fields, KeyFields, Zenon

\* Closing one message, or the messages of one application.
LEMMA CloseOne ==
    ASSUME TypeOK, NEW i \in 1..Len(mail), mail' = [mail EXCEPT ![i].open = FALSE],
           UNCHANGED <<bound, last, sourced>>
    PROVE  Quiet
<1> DEFINE y == [mail[i] EXCEPT !.open = FALSE]
<1>1. /\ y \in Message /\ y.app = mail[i].app /\ y.key = mail[i].key
      /\ y.env = mail[i].env /\ y.routed = mail[i].routed
  BY MailFields, Fields, Zenon
<1>2. mail' = [mail EXCEPT ![i] = y]
  OBVIOUS
<1> HIDE DEF y
<1>3. mail' \in Seq(Message) /\ Len(mail') = Len(mail)
  <2>1. mail \in Seq(Message)
    BY DEF TypeOK
  <2>2. [mail EXCEPT ![i] = y] \in Seq(Message) /\ Len([mail EXCEPT ![i] = y]) = Len(mail)
    BY <1>1, <2>1, ExceptSeq
  <2> QED
    BY <1>2, <2>2, Zenon
<1>4. mail'[i] = y /\ \A j \in 1..Len(mail) : j # i => mail'[j] = mail[j]
  BY <1>2 DEF TypeOK
<1> QED
  BY <1>1, <1>3, <1>4 DEF Quiet

LEMMA CloseAll ==
    ASSUME TypeOK, NEW a \in App, RetireApplication(a)
    PROVE  Quiet
<1> DEFINE f(i) == IF mail[i].app = a THEN [mail[i] EXCEPT !.open = FALSE] ELSE mail[i]
<1>1. Len(mail) \in Nat
  BY MailFields
<1>2. \A i \in 1..Len(mail) : /\ f(i) \in Message /\ f(i).app = mail[i].app /\ f(i).key = mail[i].key
                              /\ f(i).env = mail[i].env /\ f(i).routed = mail[i].routed
  BY MailFields, Fields, Zenon
<1>3. mail' = [i \in 1..Len(mail) |-> f(i)]
  BY DEF RetireApplication
<1> HIDE DEF f
<1>4. mail' \in Seq(Message) /\ Len(mail') = Len(mail)
  BY <1>1, <1>2, <1>3
<1> QED
  BY <1>2, <1>3, <1>4 DEF Quiet, RetireApplication

----------------------------------------------------------------------------
\* A message that is new under its key, from a conversation or a client.
Appended(x) ==
    /\ x \in Message /\ (x.key # NoKey => Keyed(x.app, x.key) = {})
    /\ mail' = Append(mail, x)
    /\ UNCHANGED <<channels, bound, app, tainted, results, outbox, made, carried, accepted>>

LEMMA AppendedFacts ==
    ASSUME TypeOK, NEW x, Appended(x), NEW m, m = Len(mail) + 1
    PROVE  /\ mail' \in Seq(Message) /\ Len(mail') = m /\ mail'[m] = x
           /\ \A i \in 1..Len(mail) : mail'[i] = mail[i]
           /\ 1..Len(mail') = 1..m
           /\ m \in 1..m /\ 1..Len(mail) \subseteq 1..m /\ m \notin 1..Len(mail)
           /\ \A i \in 1..m : i \in 1..Len(mail) \/ i = m
  BY DEF Appended, TypeOK

LEMMA AppendedType ==
    ASSUME TypeOK, NEW x, Appended(x), last' \in [Conv -> 0..MaxSeq],
           DOMAIN sourced' \subseteq DOMAIN sourced \cup {Len(mail) + 1}
    PROVE  TypeOK'
<1>1. mail' \in Seq(Message) /\ 1..Len(mail) \subseteq 1..Len(mail') /\ Len(mail) + 1 \in 1..Len(mail')
  BY AppendedFacts
<1> QED
  BY <1>1 DEF TypeOK, Appended

LEMMA AppendedUnique ==
    ASSUME TypeOK, Inbound, NEW x, Appended(x)
    PROVE  \A i, j \in 1..Len(mail') :
              mail'[i].app = mail'[j].app /\ mail'[i].key = mail'[j].key
                => i = j \/ mail'[i].key = NoKey
<1> DEFINE m == Len(mail) + 1
<1>1. /\ mail'[m] = x /\ \A i \in 1..Len(mail) : mail'[i] = mail[i]
      /\ \A i \in 1..Len(mail') : i \in 1..Len(mail) \/ i = m
  BY AppendedFacts
<1> HIDE DEF m
<1>2. \A i \in 1..Len(mail) : mail[i].app = x.app /\ mail[i].key = x.key => x.key = NoKey
  BY DEF Appended, Keyed
<1>3. SUFFICES ASSUME NEW i \in 1..Len(mail'), NEW j \in 1..Len(mail'),
                      mail'[i].app = mail'[j].app, mail'[i].key = mail'[j].key, i # j
               PROVE  mail'[i].key = NoKey
  BY Zenon
<1>4. CASE i \in 1..Len(mail) /\ j \in 1..Len(mail)
  <2>1. mail[i].app = mail[j].app /\ mail[i].key = mail[j].key /\ mail'[i] = mail[i]
    BY <1>1, <1>3, <1>4, Zenon
  <2>2. mail[i].key = NoKey
    BY <1>3, <1>4, <2>1, Zenon DEF Inbound
  <2> QED
    BY <2>1, <2>2, Zenon
<1>5. CASE i = m \/ j = m
  BY <1>1, <1>2, <1>3, <1>5, Zenon
<1> QED
  BY <1>1, <1>4, <1>5, Zenon

LEMMA AppendedOutbound ==
    ASSUME TypeOK, Outbound, NEW x, Appended(x)
    PROVE  Outbound'
<1>1. 1..Len(mail) \subseteq 1..Len(mail') /\ \A i \in 1..Len(mail) : mail'[i] = mail[i]
  BY AppendedFacts
<1> QED
  BY <1>1 DEF Outbound, Appended

\* Delivery of a new message: message, map entry and cursor move together.
LEMMA DeliverNew ==
    ASSUME TypeOK, Inbound, Outbound, NEW k \in Conv, NEW n \in 1..MaxSeq, bound[k] \in App,
           n > last[k], Appended(Wrapped(k, n, bound[k])),
           sourced' = sourceOf(Len(mail) + 1, k), last' = [last EXCEPT ![k] = n]
    PROVE  TypeOK' /\ Inbound' /\ Outbound'
<1> DEFINE x == Wrapped(k, n, bound[k])
           m == Len(mail) + 1
<1>1. x.app = bound[k] /\ x.key = <<k, n>> /\ x.env = <<k, n>> /\ x.routed
  BY DEF Wrapped
<1>2. <<k, n>> # NoKey /\ <<k, n>>[1] = k /\ <<k, n>>[2] = n
  BY KeyOf
<1>3. Appended(x)
  OBVIOUS
<1>4. bound' = bound
  BY DEF Appended
<1> HIDE DEF x
<1>5. /\ Len(mail') = m /\ mail'[m] = x /\ \A i \in 1..Len(mail) : mail'[i] = mail[i]
      /\ 1..Len(mail') = 1..m /\ m \in 1..m /\ 1..Len(mail) \subseteq 1..m /\ m \notin 1..Len(mail)
      /\ \A i \in 1..m : i \in 1..Len(mail) \/ i = m
  BY <1>3, AppendedFacts
<1> HIDE DEF m
<1>6. /\ DOMAIN sourced' = DOMAIN sourced \cup {m} /\ sourced'[m] = k
      /\ \A i \in DOMAIN sourced : i # m => sourced'[i] = sourced[i]
  BY DEF sourceOf, m
<1>7. /\ last' \in [Conv -> 0..MaxSeq] /\ last'[k] = n
      /\ \A c \in Conv : c # k => last'[c] = last[c]
      /\ \A c \in Conv : last[c] <= last'[c] /\ last[c] \in Nat /\ last'[c] \in Nat
  BY GatewayAssumption DEF TypeOK
<1>8. TypeOK'
  BY <1>3, <1>6, <1>7, AppendedType DEF m
<1>9. DOMAIN sourced \subseteq 1..Len(mail)
  BY DEF TypeOK
<1>10. \A i \in 1..m : mail'[i].routed =>
         /\ mail'[i].key # NoKey /\ mail'[i].env = mail'[i].key
         /\ mail'[i].key[2] <= last'[mail'[i].key[1]]
         /\ i \in DOMAIN sourced'
  <2> SUFFICES ASSUME NEW i \in 1..m, mail'[i].routed
               PROVE  /\ mail'[i].key # NoKey /\ mail'[i].env = mail'[i].key
                      /\ mail'[i].key[2] <= last'[mail'[i].key[1]]
                      /\ i \in DOMAIN sourced'
    BY Zenon
  <2>1. CASE i = m
    <3>1. mail'[i].key = <<k, n>> /\ mail'[i].env = <<k, n>> /\ i \in DOMAIN sourced'
      BY <1>1, <1>5, <1>6, <2>1, Zenon
    <3>2. mail'[i].key[2] <= last'[mail'[i].key[1]]
      BY <1>2, <1>7, <3>1
    <3> QED
      BY <1>2, <3>1, <3>2, Zenon
  <2>2. CASE i \in 1..Len(mail)
    <3>1. mail[i].key # NoKey /\ mail[i].env = mail[i].key /\ i \in DOMAIN sourced
          /\ mail[i].key[2] <= last[mail[i].key[1]]
      BY <1>5, <2>2, Zenon DEF Inbound
    <3>2. mail[i].key[1] \in Conv /\ mail[i].key[2] \in Nat
      BY <2>2, <3>1, MailKeys
    <3>3. mail[i].key[2] <= last'[mail[i].key[1]]
      BY <1>7, <3>1, <3>2
    <3> QED
      BY <1>5, <1>6, <2>2, <3>1, <3>3, Zenon
  <2> QED
    BY <1>5, <2>1, <2>2, Zenon
<1>11. \A i \in DOMAIN sourced' :
         /\ i \in 1..m /\ mail'[i].env # NoKey
         /\ sourced'[i] = mail'[i].env[1] /\ bound[mail'[i].env[1]] = mail'[i].app
  <2> SUFFICES ASSUME NEW i \in DOMAIN sourced'
               PROVE  /\ i \in 1..m /\ mail'[i].env # NoKey
                      /\ sourced'[i] = mail'[i].env[1] /\ bound[mail'[i].env[1]] = mail'[i].app
    BY Zenon
  <2>1. CASE i = m
    BY <1>1, <1>2, <1>5, <1>6, <2>1, Zenon
  <2>2. CASE i \in DOMAIN sourced /\ i # m
    BY SMTT(30), <1>5, <1>6, <1>9, <2>2 DEF Inbound
  <2> QED
    BY <1>6, <2>1, <2>2, Zenon
<1>12. \A c \in Conv : last'[c] > 0 =>
         \E i \in 1..m : mail'[i].routed /\ mail'[i].key = <<c, last'[c]>>
  <2> SUFFICES ASSUME NEW c \in Conv, last'[c] > 0
               PROVE  \E i \in 1..m : mail'[i].routed /\ mail'[i].key = <<c, last'[c]>>
    BY Zenon
  <2>1. CASE c = k
    BY <1>1, <1>5, <1>7, <2>1, Zenon
  <2>2. CASE c # k
    <3>1. PICK i \in 1..Len(mail) : mail[i].routed /\ mail[i].key = <<c, last[c]>>
      BY <1>7, <2>2, Zenon DEF Inbound
    <3> QED
      BY SMTT(30), <1>5, <1>7, <2>2, <3>1
  <2> QED
    BY <2>1, <2>2, Zenon
<1>13. Inbound'
  BY <1>3, <1>4, <1>5, <1>10, <1>11, <1>12, AppendedUnique, Zenon DEF Inbound
<1> QED
  BY <1>3, <1>8, <1>13, AppendedOutbound, Zenon

\* Delivery of a message that is there already, from a client, with this key
\* and this payload.
LEMMA DeliverAgain ==
    ASSUME TypeOK, Inbound, Outbound, NEW k \in Conv, NEW n \in 1..MaxSeq, bound[k] \in App,
           n > last[k], NEW d \in Keyed(bound[k], <<k, n>>), mail[d].env = <<k, n>>,
           mail' = [mail EXCEPT ![d].routed = TRUE], sourced' = sourceOf(d, k),
           last' = [last EXCEPT ![k] = n],
           UNCHANGED <<channels, bound, app, tainted, results, outbox, made, carried, accepted>>
    PROVE  TypeOK' /\ Inbound' /\ Outbound'
<1> DEFINE y == [mail[d] EXCEPT !.routed = TRUE]
<1>1. d \in 1..Len(mail) /\ mail[d].app = bound[k] /\ mail[d].key = <<k, n>>
  BY DEF Keyed
<1>2. /\ y \in Message /\ y.app = mail[d].app /\ y.key = mail[d].key
      /\ y.env = mail[d].env /\ y.routed
  BY <1>1, MailFields, Fields, Zenon
<1>3. mail' = [mail EXCEPT ![d] = y]
  OBVIOUS
<1> HIDE DEF y
<1>4. mail \in Seq(Message)
  BY DEF TypeOK
<1>5. mail' \in Seq(Message) /\ Len(mail') = Len(mail)
  <2>1. [mail EXCEPT ![d] = y] \in Seq(Message) /\ Len([mail EXCEPT ![d] = y]) = Len(mail)
    BY <1>1, <1>2, <1>4, ExceptSeq
  <2> QED
    BY <1>3, <2>1, Zenon
<1>6. mail'[d] = y /\ \A j \in 1..Len(mail) : j # d => mail'[j] = mail[j]
  BY <1>1, <1>3, <1>4
<1>7. /\ \A j \in 1..Len(mail) : /\ mail'[j].app = mail[j].app /\ mail'[j].key = mail[j].key
                                 /\ mail'[j].env = mail[j].env
                                 /\ mail'[j].routed => mail[j].routed \/ j = d
                                 /\ mail[j].routed => mail'[j].routed
      /\ mail'[d].routed
  BY <1>2, <1>6, Zenon
<1>8. <<k, n>> # NoKey /\ <<k, n>>[1] = k /\ <<k, n>>[2] = n
  BY KeyOf
<1>9. /\ DOMAIN sourced' = DOMAIN sourced \cup {d} /\ sourced'[d] = k
      /\ \A i \in DOMAIN sourced : i # d => sourced'[i] = sourced[i]
  BY DEF sourceOf
<1>10. /\ last' \in [Conv -> 0..MaxSeq] /\ last'[k] = n
       /\ \A c \in Conv : c # k => last'[c] = last[c]
       /\ \A c \in Conv : last[c] <= last'[c] /\ last[c] \in Nat /\ last'[c] \in Nat
  BY GatewayAssumption DEF TypeOK
<1>11. DOMAIN sourced \subseteq 1..Len(mail)
  BY DEF TypeOK
<1>12. TypeOK'
  <2>1. DOMAIN sourced' \subseteq 1..Len(mail)
    BY <1>1, <1>9, <1>11, Zenon
  <2> QED
    BY <1>5, <1>10, <2>1 DEF TypeOK
<1>13. \A i \in 1..Len(mail) : mail'[i].routed =>
         /\ mail'[i].key # NoKey /\ mail'[i].env = mail'[i].key
         /\ mail'[i].key[2] <= last'[mail'[i].key[1]]
         /\ i \in DOMAIN sourced'
  <2> SUFFICES ASSUME NEW i \in 1..Len(mail), mail'[i].routed
               PROVE  /\ mail[i].key # NoKey /\ mail[i].env = mail[i].key
                      /\ mail[i].key[2] <= last'[mail[i].key[1]]
                      /\ i \in DOMAIN sourced'
    BY SMTT(30), <1>7
  <2>1. CASE i = d
    BY <1>1, <1>8, <1>9, <1>10, <2>1
  <2>2. CASE mail[i].routed
    <3>1. mail[i].key # NoKey /\ mail[i].env = mail[i].key /\ i \in DOMAIN sourced
          /\ mail[i].key[2] <= last[mail[i].key[1]]
      BY <2>2, Zenon DEF Inbound
    <3>2. mail[i].key[1] \in Conv /\ mail[i].key[2] \in Nat
      BY <3>1, MailKeys
    <3>3. mail[i].key[2] <= last'[mail[i].key[1]]
      BY <1>10, <3>1, <3>2
    <3> QED
      BY <1>9, <3>1, <3>3, Zenon
  <2> QED
    BY SMTT(30), <1>7, <2>1, <2>2
<1>14. \A i \in DOMAIN sourced' :
         /\ i \in 1..Len(mail) /\ mail'[i].env # NoKey
         /\ sourced'[i] = mail'[i].env[1] /\ bound[mail'[i].env[1]] = mail'[i].app
  <2> SUFFICES ASSUME NEW i \in DOMAIN sourced'
               PROVE  /\ i \in 1..Len(mail) /\ mail[i].env # NoKey
                      /\ sourced'[i] = mail[i].env[1] /\ bound[mail[i].env[1]] = mail[i].app
    BY SMTT(30), <1>1, <1>7, <1>9, <1>11
  <2>1. CASE i = d
    BY <1>1, <1>8, <1>9, <2>1, Zenon
  <2>2. CASE i \in DOMAIN sourced /\ i # d
    BY <1>9, <2>2, Zenon DEF Inbound
  <2> QED
    BY <1>9, <2>1, <2>2, Zenon
<1>15. \A c \in Conv : last'[c] > 0 =>
         \E i \in 1..Len(mail) : mail'[i].routed /\ mail'[i].key = <<c, last'[c]>>
  <2> SUFFICES ASSUME NEW c \in Conv, last'[c] > 0
               PROVE  \E i \in 1..Len(mail) : mail'[i].routed /\ mail'[i].key = <<c, last'[c]>>
    BY Zenon
  <2>1. CASE c = k
    BY SMTT(30), <1>1, <1>7, <1>10, <2>1
  <2>2. CASE c # k
    <3>1. PICK i \in 1..Len(mail) : mail[i].routed /\ mail[i].key = <<c, last[c]>>
      BY <1>10, <2>2, Zenon DEF Inbound
    <3> QED
      BY SMTT(30), <1>7, <1>10, <2>2, <3>1
  <2> QED
    BY <2>1, <2>2, Zenon
<1>16. \A i, j \in 1..Len(mail) :
         mail'[i].app = mail'[j].app /\ mail'[i].key = mail'[j].key
           => i = j \/ mail'[i].key = NoKey
  BY SMTT(30), <1>7 DEF Inbound
<1>17. Inbound'
  BY <1>5, <1>13, <1>14, <1>15, <1>16, Zenon DEF Inbound
<1>18. Outbound'
  BY SMTT(30), <1>5, <1>7 DEF Outbound
<1> QED
  BY <1>12, <1>17, <1>18

LEMMA DeliverStep ==
    ASSUME TypeOK, Inbound, Outbound, NEW k \in Conv, NEW n \in 1..MaxSeq, DeliverInbound(k, n)
    PROVE  TypeOK' /\ Inbound' /\ Outbound'
<1>1. /\ bound[k] \in App /\ n > last[k] /\ EnqueueInbound(k, n, bound[k])
      /\ UNCHANGED <<channels, bound, app, tainted, results, outbox, made, carried, accepted>>
  BY DEF DeliverInbound, TypeOK
<1>2. CASE /\ Keyed(bound[k], <<k, n>>) = {}
           /\ mail' = Append(mail, Wrapped(k, n, bound[k]))
           /\ sourced' = sourceOf(Len(mail) + 1, k)
           /\ last' = [last EXCEPT ![k] = n]
  <2>1. /\ Wrapped(k, n, bound[k]) \in Message /\ Wrapped(k, n, bound[k]).app = bound[k]
        /\ Wrapped(k, n, bound[k]).key = <<k, n>>
    BY <1>1, KeyOf DEF Wrapped, Message
  <2>2. Appended(Wrapped(k, n, bound[k]))
    BY <1>1, <1>2, <2>1, Zenon DEF Appended
  <2> QED
    BY <1>1, <1>2, <2>2, DeliverNew, Zenon
<1>3. ASSUME NEW d \in Keyed(bound[k], <<k, n>>), mail[d].env = <<k, n>>,
             mail' = [mail EXCEPT ![d].routed = TRUE], sourced' = sourceOf(d, k),
             last' = [last EXCEPT ![k] = n]
      PROVE  TypeOK' /\ Inbound' /\ Outbound'
  BY <1>1, <1>3, DeliverAgain, Zenon
<1> QED
  BY <1>1, <1>2, <1>3, Zenon DEF EnqueueInbound

\* Sending: a client's message is in no conversation's count, whatever its
\* payload says.
LEMMA SendStep ==
    ASSUME TypeOK, Inbound, Outbound, NEW a \in App, NEW key \in Key \cup {NoKey},
           NEW env \in Key \cup {NoKey}, Send(a, key, env)
    PROVE  TypeOK' /\ Inbound' /\ Outbound'
<1> DEFINE x == [app |-> a, key |-> key, env |-> env, routed |-> FALSE, open |-> TRUE]
           m == Len(mail) + 1
<1>1. x \in Message /\ x.app = a /\ x.key = key /\ ~x.routed
  BY DEF Message
<1>2. Appended(x) /\ UNCHANGED <<bound, last, sourced>>
  BY <1>1 DEF Appended, Send
<1> HIDE DEF x
<1>3. /\ Len(mail') = m /\ mail'[m] = x /\ \A i \in 1..Len(mail) : mail'[i] = mail[i]
      /\ 1..Len(mail') = 1..m /\ m \in 1..m /\ 1..Len(mail) \subseteq 1..m
      /\ \A i \in 1..m : i \in 1..Len(mail) \/ i = m
  BY <1>2, AppendedFacts
<1> HIDE DEF m
<1>4. TypeOK'
  <2>1. last' \in [Conv -> 0..MaxSeq] /\ DOMAIN sourced' \subseteq DOMAIN sourced \cup {Len(mail) + 1}
    BY <1>2 DEF TypeOK
  <2> QED
    BY <1>2, <2>1, AppendedType
<1>5. Inbound'
  <2>1. \A i \in 1..Len(mail') : mail'[i].routed => i \in 1..Len(mail)
    BY <1>1, <1>3, Zenon
  <2>2. \A i \in DOMAIN sourced : i \in 1..Len(mail)
    BY DEF Inbound
  <2>3. \A i, j \in 1..Len(mail') :
              mail'[i].app = mail'[j].app /\ mail'[i].key = mail'[j].key
                => i = j \/ mail'[i].key = NoKey
    BY <1>2, AppendedUnique, Zenon
  <2>4. \A i \in 1..Len(mail') : mail'[i].routed =>
         /\ mail'[i].key # NoKey /\ mail'[i].env = mail'[i].key
         /\ mail'[i].key[2] <= last'[mail'[i].key[1]]
         /\ i \in DOMAIN sourced'
    BY <1>2, <1>3, <2>1, ZenonT(60) DEF Inbound
  <2>5. \A i \in DOMAIN sourced' :
         /\ i \in 1..Len(mail') /\ mail'[i].env # NoKey
         /\ sourced'[i] = mail'[i].env[1] /\ bound'[mail'[i].env[1]] = mail'[i].app
    BY <1>2, <1>3, <2>2, Zenon DEF Inbound
  <2>6. \A c \in Conv : last'[c] > 0 =>
         \E i \in 1..Len(mail') : mail'[i].routed /\ mail'[i].key = <<c, last'[c]>>
    <3> SUFFICES ASSUME NEW c \in Conv, last'[c] > 0
                 PROVE  \E i \in 1..Len(mail') : mail'[i].routed /\ mail'[i].key = <<c, last'[c]>>
      BY Zenon
    <3>1. last' = last
      BY <1>2
    <3>2. PICK i \in 1..Len(mail) : mail[i].routed /\ mail[i].key = <<c, last[c]>>
      BY <3>1, Zenon DEF Inbound
    <3>3. i \in 1..Len(mail') /\ mail'[i] = mail[i]
      BY <1>3, Zenon
    <3> QED
      BY <3>1, <3>2, <3>3, Zenon
  <2> QED
    BY <2>3, <2>4, <2>5, <2>6, Zenon DEF Inbound
<1> QED
  BY <1>2, <1>4, <1>5, AppendedOutbound, Zenon

\* Binding: a new binding starts at 0, and nothing was routed before it.
LEMMA BindStep ==
    ASSUME TypeOK, Inbound, Outbound, NEW k \in Conv, NEW a \in App, BindConversation(k, a)
    PROVE  TypeOK' /\ Inbound' /\ Outbound'
<1>1. /\ UNCHANGED <<channels, app, tainted, mail, results, sourced, outbox, made,
                     carried, accepted>>
      /\ bound[k] \in {NoApp, a}
      /\ bound' = [bound EXCEPT ![k] = a] /\ last' = [last EXCEPT ![k] = BoundCursor(k)]
  BY DEF BindConversation
<1>2. BoundCursor(k) \in 0..MaxSeq
  BY GatewayAssumption DEF BoundCursor, TypeOK
<1>3. TypeOK'
  BY <1>1, <1>2 DEF TypeOK
<1>4. CASE bound[k] = a /\ a # NoApp
  <2>1. bound' = bound /\ last' = last
    BY SMTT(30), <1>1, <1>4 DEF BoundCursor, TypeOK
  <2> QED
    <3>1. Quiet
      BY <1>1, <2>1 DEF Quiet, TypeOK
    <3> QED
      BY <1>1, <1>3, <3>1, QuietInbound, QuietOutbound
<1>5. CASE bound[k] = NoApp
  <2>1. \A i \in 1..Len(mail) : mail[i].app # NoApp
    BY MailKeys, GatewayAssumption DEF NoApp
  <2>2. /\ last'[k] = 0 /\ \A c \in Conv : c # k => last'[c] = last[c] /\ bound'[c] = bound[c]
    BY <1>1, <1>5 DEF BoundCursor, TypeOK
  <2>3. \A i \in DOMAIN sourced : bound'[mail[i].env[1]] = mail[i].app /\ mail[i].env[1] # k
    BY SMTT(30), <1>5, <2>1, <2>2, MailKeys DEF Inbound
  <2>4. \A i \in 1..Len(mail) : mail[i].routed =>
          mail[i].key[1] # k /\ last'[mail[i].key[1]] = last[mail[i].key[1]]
    BY SMTT(30), <2>2, <2>3, MailKeys DEF Inbound
  <2>5. \A c \in Conv : last'[c] > 0 => last'[c] = last[c]
    BY <2>2
  <2>6. Inbound'
    <3>1. mail' = mail /\ sourced' = sourced
      BY <1>1
    <3>2. \A c \in Conv : last'[c] > 0 =>
            \E i \in 1..Len(mail) : mail[i].routed /\ mail[i].key = <<c, last'[c]>>
      <4> SUFFICES ASSUME NEW c \in Conv, last'[c] > 0
                   PROVE  \E i \in 1..Len(mail) : mail[i].routed /\ mail[i].key = <<c, last'[c]>>
        BY Zenon
      <4>1. last'[c] = last[c]
        BY <2>5, Zenon
      <4>2. last[c] > 0
        BY <4>1
      <4>3. PICK i \in 1..Len(mail) : mail[i].routed /\ mail[i].key = <<c, last[c]>>
        BY <4>2, Zenon DEF Inbound
      <4> QED
        BY <4>1, <4>3, Zenon
    <3>3. \A i \in 1..Len(mail) : mail[i].routed =>
            /\ mail[i].key # NoKey /\ mail[i].env = mail[i].key
            /\ mail[i].key[2] <= last'[mail[i].key[1]] /\ i \in DOMAIN sourced
      BY SMTT(30), <2>4 DEF Inbound
    <3> QED
      <4>1. \A i \in DOMAIN sourced :
              /\ i \in 1..Len(mail) /\ mail[i].env # NoKey
              /\ sourced[i] = mail[i].env[1] /\ bound'[mail[i].env[1]] = mail[i].app
        BY <2>3, Zenon DEF Inbound
      <4>2. \A i, j \in 1..Len(mail) :
              mail[i].app = mail[j].app /\ mail[i].key = mail[j].key
                => i = j \/ mail[i].key = NoKey
        BY Zenon DEF Inbound
      <4> QED
        BY <3>1, <3>2, <3>3, <4>1, <4>2, Zenon DEF Inbound
  <2>7. Outbound'
    BY SMTT(30), <1>1, <1>5, <2>1, <2>2, MailKeys DEF Outbound
  <2> QED
    BY <1>3, <2>6, <2>7
<1> QED
  BY <1>1, <1>4, <1>5, GatewayAssumption DEF NoApp

\* Rebuilding: a routed message is known by its envelope, so it is found again.
LEMMA RebuildStep ==
    ASSUME TypeOK, Inbound, Outbound, Rebuild
    PROVE  TypeOK' /\ Inbound' /\ Outbound'
<1>1. UNCHANGED <<channels, bound, last, app, tainted, mail, results, outbox, made,
                  carried, accepted>>
  BY DEF Rebuild
<1>2. NoConv \notin Conv
  BY DEF NoConv, Conv
<1>3. \A i \in 1..Len(mail) : EnvelopeSource(i) # NoConv
        <=> mail[i].env # NoKey /\ bound[mail[i].env[1]] = mail[i].app
  BY <1>2, MailKeys, Zenon DEF EnvelopeSource
<1>4. /\ DOMAIN sourced' = {i \in 1..Len(mail) :
                              mail[i].env # NoKey /\ bound[mail[i].env[1]] = mail[i].app}
      /\ \A i \in DOMAIN sourced' : sourced'[i] = mail[i].env[1]
  BY <1>3 DEF Rebuild, Rescanned, EnvelopeSource
<1>5. TypeOK'
  BY <1>1, <1>4 DEF TypeOK
<1>6. DOMAIN sourced \subseteq DOMAIN sourced'
  BY <1>4, Zenon DEF Inbound
<1>7. Inbound'
  BY <1>1, <1>4, <1>6, Zenon DEF Inbound
<1>8. Outbound'
  BY <1>1 DEF Outbound
<1> QED
  BY <1>5, <1>7, <1>8

----------------------------------------------------------------------------
\* Replying: the conversation is the one the map names for the message.
LEMMA ReplyStep ==
    ASSUME TypeOK, Inbound, Outbound, NEW i \in 1..Len(mail), Reply(i)
    PROVE  TypeOK' /\ Inbound' /\ Outbound'
<1> DEFINE x == [msg |-> i, conv |-> ReplyConv(i), status |-> "pending", tried |-> FALSE]
           id == Len(made) + 1
           box == Added(id, x)
<1>1. /\ i \in results /\ i \in DOMAIN sourced
      /\ made' = Append(made, i) /\ outbox' = Evicted(box)
      /\ UNCHANGED <<channels, bound, last, app, tainted, mail, results, sourced, carried, accepted>>
  BY DEF Reply, HasResult
<1>2. /\ ReplyConv(i) = mail[i].env[1] /\ mail[i].env # NoKey
      /\ bound[ReplyConv(i)] = mail[i].app /\ ReplyConv(i) \in Conv
  BY <1>1, MailKeys, Zenon DEF ReplyConv, Inbound
<1>3. x \in Entry /\ x.msg = i /\ x.conv = ReplyConv(i)
  BY <1>2, MailFields DEF Entry
<1> HIDE DEF x
<1>4. /\ made' \in Seq(results) /\ Len(made') = id /\ 1..Len(made) \subseteq 1..id /\ id \in 1..id
  BY <1>1 DEF TypeOK
<1> HIDE DEF id
<1>5. DOMAIN box = DOMAIN outbox \cup {id} /\ box[id] = x
        /\ \A e \in DOMAIN outbox : e # id => box[e] = outbox[e]
  BY DEF Added
<1> HIDE DEF box
<1>6. DOMAIN outbox' \subseteq DOMAIN box /\ \A e \in DOMAIN outbox' : outbox'[e] = box[e]
  BY <1>1 DEF Evicted
<1>7. TypeOK'
  BY <1>1, <1>3, <1>4, <1>5, <1>6, Zenon DEF TypeOK
<1>8. Inbound'
  BY <1>1, Zenon DEF Inbound
<1>9. Outbound'
  BY SMTT(30), <1>1, <1>2, <1>3, <1>5, <1>6 DEF Outbound
<1> QED
  BY SMTT(30), <1>7, <1>8, <1>9

\* The steps that leave the routing alone.
LEMMA OtherSteps ==
    ASSUME TypeOK, Inbound, Outbound,
           \/ UNCHANGED vars
           \/ \E c \in Channel : CreateChannel(c) \/ RevokeChannel(c)
           \/ \E a \in App : RetireApplication(a)
           \/ \E a \in App, to \in {"serving", "frozen"} : Freeze(a, to)
           \/ \E i \in 1..Len(mail), taints \in BOOLEAN : FinishTurn(i, taints)
           \/ \E k \in Conv : ClaimOutbox(k)
           \/ \E e \in 1..Len(made) : RemoteAccepts(e) \/ AckOutbox(e)
           \/ TransporterLost
    PROVE  TypeOK' /\ Inbound' /\ Outbound'
<1>1. ASSUME Quiet, TypeOK', DOMAIN outbox' = DOMAIN outbox,
             \A e \in DOMAIN outbox :
                outbox'[e].msg = outbox[e].msg /\ outbox'[e].conv = outbox[e].conv
      PROVE  TypeOK' /\ Inbound' /\ Outbound'
  BY <1>1, QuietInbound, QuietOutbound
<1>2. ASSUME UNCHANGED <<bound, last, sourced, mail>> PROVE Quiet
  BY <1>2 DEF Quiet, TypeOK
<1>3. CASE UNCHANGED vars
  BY SMTT(30), <1>1, <1>2, <1>3 DEF vars, TypeOK
<1>4. ASSUME NEW c \in Channel, CreateChannel(c) \/ RevokeChannel(c)
      PROVE  TypeOK' /\ Inbound' /\ Outbound'
  BY <1>1, <1>2, <1>4, Zenon DEF CreateChannel, RevokeChannel, TypeOK
<1>5. ASSUME NEW a \in App, RetireApplication(a)
      PROVE  TypeOK' /\ Inbound' /\ Outbound'
  <2>1. Quiet
    BY <1>5, CloseAll
  <2>2. TypeOK'
    BY SMTT(30), <1>5, <2>1 DEF RetireApplication, TypeOK, Quiet
  <2> QED
    BY <1>1, <1>5, <2>1, <2>2 DEF RetireApplication
<1>6. ASSUME NEW a \in App, NEW to \in {"serving", "frozen"}, Freeze(a, to)
      PROVE  TypeOK' /\ Inbound' /\ Outbound'
  BY <1>1, <1>2, <1>6 DEF Freeze, TypeOK
<1>7. ASSUME NEW i \in 1..Len(mail), NEW taints \in BOOLEAN, FinishTurn(i, taints)
      PROVE  TypeOK' /\ Inbound' /\ Outbound'
  <2>1. Quiet
    BY <1>7, CloseOne, Zenon DEF FinishTurn
  <2>2. tainted' \in SUBSET App
    BY <1>7, MailKeys DEF FinishTurn, TypeOK
  <2>3. results \subseteq results' /\ results' \in SUBSET (1..Len(mail'))
    BY <1>7, <2>1 DEF FinishTurn, TypeOK, Quiet
  <2>4. made' \in Seq(results')
    BY SMTT(30), <1>7, <2>3, SeqMonotonic DEF FinishTurn, TypeOK
  <2>5. TypeOK'
    BY SMTT(30), <1>7, <2>1, <2>2, <2>3, <2>4 DEF FinishTurn, TypeOK, Quiet
  <2> QED
    BY <1>1, <1>7, <2>1, <2>5 DEF FinishTurn
<1>8. ASSUME NEW k \in Conv, ClaimOutbox(k)
      PROVE  TypeOK' /\ Inbound' /\ Outbound'
  <2>1. /\ DOMAIN outbox' = DOMAIN outbox
        /\ \A e \in DOMAIN outbox :
              /\ outbox'[e].msg = outbox[e].msg /\ outbox'[e].conv = outbox[e].conv
              /\ outbox'[e] \in Entry
    BY ZenonT(30), <1>8 DEF ClaimOutbox, TypeOK, Entry
  <2>2. /\ carried' \subseteq carried \cup DOMAIN outbox
        /\ UNCHANGED <<channels, bound, last, app, tainted, mail, results, sourced, made, accepted>>
    BY <1>8 DEF ClaimOutbox
  <2>3. TypeOK'
    BY <2>1, <2>2 DEF TypeOK
  <2> QED
    BY <1>1, <1>2, <2>1, <2>2, <2>3
<1>9. ASSUME NEW e \in 1..Len(made), RemoteAccepts(e)
      PROVE  TypeOK' /\ Inbound' /\ Outbound'
  <2>1. made[e] \in results
    BY DEF TypeOK
  <2> QED
    BY <1>1, <1>2, <1>9, <2>1, Zenon DEF RemoteAccepts, TypeOK
<1>10. ASSUME NEW d \in 1..Len(made), AckOutbox(d)
      PROVE  TypeOK' /\ Inbound' /\ Outbound'
  <2>1. /\ DOMAIN outbox' = DOMAIN outbox
        /\ \A e \in DOMAIN outbox :
              /\ outbox'[e].msg = outbox[e].msg /\ outbox'[e].conv = outbox[e].conv
              /\ outbox'[e] \in Entry
    BY <1>10, Zenon DEF AckOutbox, TypeOK, Entry
  <2>2. /\ carried' \subseteq carried
        /\ UNCHANGED <<channels, bound, last, app, tainted, mail, results, sourced, made, accepted>>
    BY <1>10 DEF AckOutbox
  <2>3. TypeOK'
    BY <2>1, <2>2 DEF TypeOK
  <2> QED
    BY <1>1, <1>2, <2>1, <2>2, <2>3
<1>11. CASE TransporterLost
  BY <1>1, <1>2, <1>11 DEF TransporterLost, TypeOK
<1> QED
  BY SMTT(30), <1>3, <1>4, <1>5, <1>6, <1>7, <1>8, <1>9, <1>10, <1>11

----------------------------------------------------------------------------
(* The whole invariant of the gateway: routes, cursors, the process-local  *)
(* map and the outbox agree with the mailbox after every handler, failed   *)
(* write and restart.                                                      *)
THEOREM GatewayInvariant == Spec => []GatewayInv
<1>1. Init => GatewayInv
  <2> SUFFICES ASSUME Init PROVE GatewayInv
    OBVIOUS
  <2>1. mail \in Seq(Message) /\ Len(mail) = 0 /\ made \in Seq(results) /\ Len(made) = 0
        /\ DOMAIN sourced = {} /\ DOMAIN outbox = {}
    BY DEF Init
  <2>2. TypeOK
    BY <2>1, GatewayAssumption DEF Init, TypeOK
  <2> QED
    BY <2>1, <2>2 DEF Init, GatewayInv, Inbound, Outbound
<1>2. GatewayInv /\ [Next]_vars => GatewayInv'
  <2> SUFFICES ASSUME GatewayInv, [Next]_vars PROVE TypeOK' /\ Inbound' /\ Outbound'
    BY DEF GatewayInv
  <2>1. TypeOK /\ Inbound /\ Outbound
    BY DEF GatewayInv
  <2>2. ASSUME NEW k \in Conv, NEW a \in App, BindConversation(k, a)
        PROVE  TypeOK' /\ Inbound' /\ Outbound'
    BY <2>1, <2>2, BindStep
  <2>3. ASSUME NEW k \in Conv, NEW n \in 1..MaxSeq, DeliverInbound(k, n)
        PROVE  TypeOK' /\ Inbound' /\ Outbound'
    BY <2>1, <2>3, DeliverStep
  <2>4. ASSUME NEW a \in App, NEW key \in Key \cup {NoKey}, NEW env \in Key \cup {NoKey},
               Send(a, key, env)
        PROVE  TypeOK' /\ Inbound' /\ Outbound'
    BY <2>1, <2>4, SendStep
  <2>5. ASSUME NEW i \in 1..Len(mail), Reply(i)
        PROVE  TypeOK' /\ Inbound' /\ Outbound'
    BY <2>1, <2>5, ReplyStep
  <2>6. CASE Rebuild
    BY <2>1, <2>6, RebuildStep
  <2> QED
    BY <2>1, <2>2, <2>3, <2>4, <2>5, <2>6, OtherSteps, Zenon DEF Next
<1> QED
  BY <1>1, <1>2, PTL DEF Spec

(* DeliverInbound: each sequence of a conversation is in the mailbox at    *)
(* most once and the cursor is the largest one there, for every mailbox    *)
(* capacity, every order of redeliveries and whatever control clients send.*)
THEOREM CursorIsLatestCorrect == Spec => []CursorIsLatest
<1>1. GatewayInv => CursorIsLatest
  <2> SUFFICES ASSUME GatewayInv, NEW k \in Conv
               PROVE  /\ \A n \in 1..MaxSeq : Cardinality(Routed(k, n)) <= 1
                      /\ \A n \in (last[k] + 1)..MaxSeq : Routed(k, n) = {}
                      /\ last[k] > 0 => Routed(k, last[k]) # {}
    BY DEF GatewayInv, CursorIsLatest
  <2>1. \A i \in 1..Len(mail), n \in 1..MaxSeq :
          i \in Routed(k, n) => n <= last[k] /\ mail[i].app = bound[k]
    <3> SUFFICES ASSUME NEW i \in 1..Len(mail), NEW n \in 1..MaxSeq, i \in Routed(k, n)
                 PROVE  n <= last[k] /\ mail[i].app = bound[k]
      BY Zenon
    <3>1. mail[i].routed /\ mail[i].key = <<k, n>>
      BY DEF Routed
    <3>2. <<k, n>>[1] = k /\ <<k, n>>[2] = n
      BY KeyOf
    <3> QED
      BY SMTT(30), <3>1, <3>2 DEF GatewayInv, Inbound
  <2>2. ASSUME NEW n \in 1..MaxSeq PROVE Cardinality(Routed(k, n)) <= 1
    <3>1. \A i, j \in Routed(k, n) : i = j
      <4>1. <<k, n>> # NoKey
        BY KeyOf
      <4> QED
        BY <2>1, <4>1, Zenon DEF GatewayInv, Inbound, Routed
    <3>2. CASE Routed(k, n) = {}
      BY <3>2, FS_EmptySet
    <3>3. CASE Routed(k, n) # {}
      <4>1. PICK i : i \in Routed(k, n)
        BY <3>3
      <4>2. Routed(k, n) = {i}
        BY <3>1, <4>1
      <4>3. Cardinality({i}) = 1
        BY FS_Singleton
      <4> QED
        BY <4>2, <4>3
    <3> QED
      BY <3>2, <3>3
  <2>3. ASSUME NEW n \in (last[k] + 1)..MaxSeq PROVE Routed(k, n) = {}
    <3>1. last[k] \in Nat /\ n \in 1..MaxSeq /\ ~(n <= last[k])
      BY GatewayAssumption DEF GatewayInv, TypeOK
    <3>2. \A i \in Routed(k, n) : i \in 1..Len(mail)
      BY DEF Routed
    <3> QED
      BY <2>1, <3>1, <3>2, Zenon
  <2>4. last[k] > 0 => Routed(k, last[k]) # {}
    BY Zenon DEF GatewayInv, Inbound, Routed
  <2> QED
    BY <2>2, <2>3, <2>4
<1> QED
  BY <1>1, GatewayInvariant, PTL

(* Reply and rescanSourcedLocked: the map always knows which conversation  *)
(* delivered a message, a reply to it is addressed to that conversation,   *)
(* and any other reply to the bound one its payload names, for any number  *)
(* of conversations bound to one application and any payload of a client.  *)
THEOREM ReplyToOriginCorrect == Spec => []ReplyToOrigin
<1>1. GatewayInv => ReplyToOrigin
  BY DEF GatewayInv, Inbound, Outbound, ReplyToOrigin
<1> QED
  BY <1>1, GatewayInvariant, PTL
=============================================================================
