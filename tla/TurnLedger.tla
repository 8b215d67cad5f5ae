----------------------------- MODULE TurnLedger -----------------------------
(***************************************************************************)
(* What the turn engine promises about one message's turn, whatever        *)
(* happens to the process and to its two stores: an answer is decided once *)
(* and never replaced, the decided text enters the context once, and then  *)
(* its cost is charged once.  TurnRunner implements this specification.    *)
(***************************************************************************)
EXTENDS Integers, Sequences

CONSTANTS App, Msg, Text, Usage, NoApp, NoText, MaxTokens

VARIABLES
    payer,    \* the application a submitted message belongs to
    outcome,  \* the decided answer of a message: its text and its cost
    journal,  \* the texts in the context, in order
    settled,  \* messages whose cost is charged
    account   \* tokens charged so far

ledgerVars == <<payer, outcome, journal, settled, account>>

Undecided == [decided |-> FALSE, text |-> NoText, cost |-> 0]

Outcome == [decided : {TRUE}, text : Text \cup {NoText}, cost : Usage \cup {0}]

LInit ==
    /\ payer = [m \in Msg |-> NoApp]
    /\ outcome = [m \in Msg |-> Undecided]
    /\ journal = <<>>
    /\ settled = {}
    /\ account = [a \in App |-> 0]

Submit(m, a) ==
    /\ payer[m] = NoApp
    /\ payer' = [payer EXCEPT ![m] = a]
    /\ UNCHANGED <<outcome, journal, settled, account>>

Decide(m) ==
    /\ payer[m] # NoApp
    /\ ~outcome[m].decided
    /\ \E o \in Outcome : outcome' = [outcome EXCEPT ![m] = o]
    /\ UNCHANGED <<payer, journal, settled, account>>

Record(m) ==
    /\ outcome[m].decided
    /\ \A i \in DOMAIN journal : journal[i].msg # m
    /\ journal' = Append(journal, [msg |-> m, text |-> outcome[m].text])
    /\ UNCHANGED <<payer, outcome, settled, account>>

Settle(m) ==
    /\ m \notin settled
    /\ \E i \in DOMAIN journal : journal[i] = [msg |-> m, text |-> outcome[m].text]
    /\ settled' = settled \cup {m}
    /\ account' = [account EXCEPT ![payer[m]] =
                     IF @ + outcome[m].cost > MaxTokens THEN MaxTokens ELSE @ + outcome[m].cost]
    /\ UNCHANGED <<payer, outcome, journal>>

LNext ==
    \/ \E m \in Msg, a \in App : Submit(m, a)
    \/ \E m \in Msg : Decide(m) \/ Record(m) \/ Settle(m)

LSpec == LInit /\ [][LNext]_ledgerVars
=============================================================================
