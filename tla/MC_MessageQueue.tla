-------------------------- MODULE MC_MessageQueue --------------------------
(* MessageQueue with the intervals of domains/orders/messaging.py.           *)
EXTENDS MessageQueue

CONSTANTS request, cron1, cron2, clerk1, clerk2, null

TwoWaits == <<1, 5>>
=============================================================================
