--------------------------- MODULE MessageDelivery ---------------------------
(***************************************************************************)
(* What the queue promises of one message, whoever calls it and whatever   *)
(* dies: it is in one pair of hands at a time, each hand-over is paid for  *)
(* by one of a few tries, and once SENT and out of hand it stays so.       *)
(* domains/orders/messaging.py says so in the comments of attempt, retry   *)
(* and give_up_stale; MessageQueue is how it is done.                      *)
(***************************************************************************)
EXTENDS Naturals

CONSTANT Tries   \* tries the queue makes by itself

VARIABLES outcome,   \* QUEUED, SENT or FAILED
          left,      \* tries that may still be begun
          inHand,    \* somebody is sending it
          gone,      \* ... and WhatsApp has taken it from them
          copies     \* how often WhatsApp has taken it

vars == <<outcome, left, inHand, gone, copies>>

Init == /\ outcome = "QUEUED" /\ left = Tries
        /\ inHand = FALSE /\ gone = FALSE /\ copies = 0

Take == /\ outcome = "QUEUED" /\ ~inHand /\ left > 0
        /\ inHand' = TRUE /\ left' = left - 1
        /\ UNCHANGED <<outcome, gone, copies>>

HandOver == /\ inHand /\ ~gone
            /\ gone' = TRUE /\ copies' = copies + 1
            /\ UNCHANGED <<outcome, left, inHand>>

LetGo == inHand /\ inHand' = FALSE /\ gone' = FALSE /\ UNCHANGED <<left, copies>>

\* Sent only if it was taken; given up only with no try left.
Report == /\ LetGo
          /\ \/ gone /\ outcome' = "SENT"
             \/ outcome' = IF left = 0 THEN "FAILED" ELSE "QUEUED"

Die == LetGo /\ UNCHANGED outcome

GiveUp == /\ outcome = "QUEUED" /\ ~inHand
          /\ outcome' = "FAILED"
          /\ UNCHANGED <<left, inHand, gone, copies>>

\* Staff ask for one more try, or say that they have sent it themselves.
AskAgain == /\ outcome = "FAILED" /\ ~inHand
            /\ outcome' = "QUEUED" /\ left' = 1
            /\ UNCHANGED <<inHand, gone, copies>>

SentByHand == outcome' = "SENT" /\ UNCHANGED <<left, inHand, gone, copies>>

Next == Take \/ HandOver \/ Report \/ Die \/ GiveUp \/ AskAgain \/ SentByHand

Spec == Init /\ [][Next]_vars
=============================================================================
