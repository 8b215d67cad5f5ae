----------------------------- MODULE MCGateway -----------------------------
(* Gateway for TLC: control clients compete for the mailbox with a single  *)
(* inbound message.  Sending and delivering are not fair steps.            *)
EXTENDS Gateway

FewMessages == Clients # {} => Len(mail) <= 2
=============================================================================
