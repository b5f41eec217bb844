---------------------------- MODULE MessageQueue ----------------------------
(***************************************************************************)
(* One customer message on its way to WhatsApp: domains/orders/messaging.py *)
(* and the three endpoints of crm_api/views.py that staff use on it.       *)
(*                                                                         *)
(* Messages share nothing, so the module follows one.  The request that    *)
(* wrote it, the runs of the send_queued_messages cron and staff's Retry   *)
(* all call `attempt`, which may die at any point.  Time is counted in     *)
(* minutes: `due` is next_attempt_at relative to now.                      *)
(***************************************************************************)
EXTENDS Integers, FiniteSets

CONSTANTS
  Request,       \* the thread dispatch starts once the message is committed
  Crons,         \* runs of the cron, which may overlap
  Clickers,      \* members of staff who may press Retry
  MaxAttempts,   \* MAX_ATTEMPTS
  RetryAfter,    \* RETRY_AFTER: the wait before the second and later tries
  Lease,         \* CLAIM_LEASE
  StaleAfter,    \* STALE_AFTER
  MaxSend,       \* the longest a try takes: every HTTP call of it timed out
  MaxRetries,    \* bound: how often staff press Retry
  Never          \* next_attempt_at NULL

Triers == {Request} \cup Crons \cup Clickers

ASSUME AttemptsAssumption ==
  /\ MaxAttempts \in Nat \ {0}
  /\ RetryAfter \in [1..MaxAttempts - 1 -> Nat]
  /\ \A n \in 1..MaxAttempts - 1 : RetryAfter[n] <= Lease
  /\ Lease \in Nat /\ StaleAfter \in Nat /\ MaxSend \in Nat /\ MaxRetries \in Nat
  /\ Never \notin Int
  /\ Request \notin Crons \cup Clickers

\* A message and nine photos, ten and thirty seconds at most each, fit in the
\* five minutes of a claim.
ASSUME SendFitsLease == MaxSend < Lease

VARIABLES
  status,     \* QUEUED, SENT or FAILED
  attempts,   \* automatic tries counted so far
  due,        \* minutes until next_attempt_at (negative: overdue), or Never
  clicked,    \* members of staff whose Retry has seen the message FAILED
  calls,      \* the one-off calls of attempt still to be made
  trying,     \* trier -> the number of the try it is making, 0 when it makes none
  age,        \* trier -> how long its try has been going
  accepted,   \* the triers whose try WhatsApp accepted
  copies,     \* how many times WhatsApp has accepted the message
  retries,    \* how often staff have pressed Retry
  shown       \* staff have been shown the message as one to send themselves

vars == <<status, attempts, due, clicked, calls, trying, age, accepted, copies, retries,
          shown>>

InFlight == {t \in Triers : trying[t] # 0}

\* The claim's WHERE clause.
Due == status = "QUEUED" /\ attempts < MaxAttempts /\ due # Never /\ due <= 0

\* The message is committed with a sender configured (_queue), or with none.
Init ==
  /\ status = "QUEUED" /\ attempts = 0
  /\ due \in {0, Never}
  /\ clicked = {}
  /\ calls = IF due = Never THEN {} ELSE {Request}
  /\ trying = [t \in Triers |-> 0] /\ age = [t \in Triers |-> 0]
  /\ accepted = {} /\ copies = 0 /\ retries = 0 /\ shown = FALSE

-----------------------------------------------------------------------------
(* attempt *)

\* Who may call attempt now: the cron at any time, the others once.
Calls(t) == trying[t] = 0 /\ (t \in Crons \/ t \in calls)

\* Mutant of Claim: the claim counts the try and leaves the message due.
ClaimInPlace(t) ==
  /\ Calls(t) /\ Due
  /\ attempts' = attempts + 1
  /\ trying' = [trying EXCEPT ![t] = attempts + 1]
  /\ age' = [age EXCEPT ![t] = 0]
  /\ calls' = calls \ {t}
  /\ UNCHANGED <<status, due, clicked, accepted, copies, retries, shown>>

\* The claim: one conditional UPDATE counts the try and moves it out of reach.  The
\* SELECT after it is part of the step.
Claim(t) ==
  /\ Calls(t) /\ Due
  /\ attempts' = attempts + 1
  /\ due' = Lease
  /\ trying' = [trying EXCEPT ![t] = attempts + 1]
  /\ age' = [age EXCEPT ![t] = 0]
  /\ calls' = calls \ {t}
  /\ UNCHANGED <<status, clicked, accepted, copies, retries, shown>>

\* A call that finds the message not due returns None.
FindNothing(t) ==
  /\ Calls(t) /\ ~Due
  /\ calls' = calls \ {t}
  /\ UNCHANGED <<status, attempts, due, clicked, trying, age, accepted, copies, retries, shown>>

\* WhatsApp takes the message; the answer may still be lost.
Accept(t) ==
  /\ trying[t] # 0 /\ t \notin accepted
  /\ accepted' = accepted \cup {t}
  /\ copies' = copies + 1
  /\ UNCHANGED <<status, attempts, due, clicked, calls, trying, age, retries, shown>>

Finish(t) ==
  /\ trying' = [trying EXCEPT ![t] = 0]
  /\ age' = [age EXCEPT ![t] = 0]
  /\ accepted' = accepted \ {t}
  /\ UNCHANGED <<attempts, clicked, calls, copies, retries, shown>>

\* The try is reported: save() writes the status it decided over whatever the row
\* says by now.
ReportSent(t) ==
  /\ t \in accepted
  /\ status' = "SENT" /\ due' = Never
  /\ Finish(t)

ReportFailed(t) ==
  /\ trying[t] # 0
  /\ IF trying[t] >= MaxAttempts
     THEN status' = "FAILED" /\ due' = Never
     ELSE status' = "QUEUED" /\ due' = RetryAfter[trying[t]]
  /\ Finish(t)

\* The worker restarts: a try is never reported, a call never made.
Crash(t) ==
  /\ trying[t] # 0 \/ t \in calls \cup clicked
  /\ trying' = [trying EXCEPT ![t] = 0]
  /\ age' = [age EXCEPT ![t] = 0]
  /\ accepted' = accepted \ {t}
  /\ calls' = calls \ {t}
  /\ clicked' = clicked \ {t}
  /\ UNCHANGED <<status, attempts, due, copies, retries, shown>>

-----------------------------------------------------------------------------
(* Staff *)

\* Mutant of Stale: only a message with tries left is given up on.
StaleWithTriesLeft ==
  status = "QUEUED" /\ attempts \in 1..MaxAttempts - 1 /\ due # Never /\ due < -StaleAfter

\* GET customer-messages: give_up_stale, then what staff must send themselves.
Stale == status = "QUEUED" /\ attempts >= 1 /\ due # Never /\ due < -StaleAfter
ListMessages ==
  /\ IF Stale THEN status' = "FAILED" /\ due' = Never ELSE UNCHANGED <<status, due>>
  /\ shown' = (status' = "FAILED" \/ (status' = "QUEUED" /\ due' = Never))
  /\ UNCHANGED <<attempts, clicked, calls, trying, age, accepted, copies, retries>>

\* POST retry-message: the endpoint refuses a message that is not FAILED ...
ClickRetry(t) ==
  /\ status = "FAILED"
  /\ t \in Clickers \ (clicked \cup calls) /\ trying[t] = 0
  /\ retries < MaxRetries
  /\ clicked' = clicked \cup {t}
  /\ UNCHANGED <<status, attempts, due, calls, trying, age, accepted, copies, retries, shown>>

\* Mutant of Retry: the UPDATE trusts the endpoint's check.
RetryUnchecked(t) ==
  /\ t \in clicked
  /\ status' = "QUEUED" /\ attempts' = MaxAttempts - 1 /\ due' = 0
  /\ retries' = retries + 1
  /\ clicked' = clicked \ {t}
  /\ calls' = calls \cup {t}
  /\ UNCHANGED <<trying, age, accepted, copies, shown>>

\* ... and the UPDATE of `retry`, which somebody may have beaten to it, looks
\* again.  The call of attempt follows in either case.
Retry(t) ==
  /\ t \in clicked
  /\ IF status = "FAILED"
     THEN /\ status' = "QUEUED" /\ attempts' = MaxAttempts - 1 /\ due' = 0
          /\ retries' = retries + 1
     ELSE UNCHANGED <<status, attempts, due, retries>>
  /\ clicked' = clicked \ {t}
  /\ calls' = calls \cup {t}
  /\ UNCHANGED <<trying, age, accepted, copies, shown>>

\* POST mark-message-sent, from a page that showed the message.
MarkSent ==
  /\ shown
  /\ status' = "SENT" /\ due' = Never /\ shown' = FALSE
  /\ UNCHANGED <<attempts, clicked, calls, trying, age, accepted, copies, retries>>

\* A minute passes; no try outlasts its timeouts.
Tick ==
  /\ \A t \in InFlight : age[t] < MaxSend
  /\ due' = IF due = Never \/ due < -StaleAfter THEN due ELSE due - 1
  /\ age' = [t \in Triers |-> IF trying[t] # 0 THEN age[t] + 1 ELSE 0]
  /\ UNCHANGED <<status, attempts, clicked, calls, trying, accepted, copies, retries, shown>>

Report(t) == ReportSent(t) \/ ReportFailed(t)

Next == \/ \E t \in Triers : \/ Claim(t) \/ FindNothing(t) \/ Accept(t) \/ Report(t)
                             \/ Crash(t) \/ ClickRetry(t) \/ Retry(t)
        \/ ListMessages \/ MarkSent \/ Tick

\* The cron runs every minute, a try that does not die reports within its
\* timeouts, time passes, and staff look at the order's messages now and then.
Fairness == /\ WF_vars(Tick)
            /\ WF_vars(ListMessages)
            /\ \A t \in Crons : WF_vars(Claim(t))
            /\ \A t \in Triers : WF_vars(Report(t))

Spec == Init /\ [][Next]_vars
FairSpec == Spec /\ Fairness

-----------------------------------------------------------------------------
(* Properties *)

TypeOK ==
  /\ status \in {"QUEUED", "SENT", "FAILED"}
  /\ attempts \in 0..MaxAttempts
  /\ due \in (-StaleAfter - 1)..Lease \cup {Never}
  /\ clicked \subseteq Clickers /\ calls \subseteq Triers
  /\ trying \in [Triers -> 0..MaxAttempts]
  /\ age \in [Triers -> 0..MaxSend]
  /\ accepted \subseteq Triers
  /\ copies \in Nat /\ retries \in Nat /\ shown \in BOOLEAN

\* "The request's thread, the cron and a Retry click can race for the same
\* message and only one sends" (attempt): no second try starts while one is going,
\* however late it reports, whatever staff do meanwhile.
OneTryAtATime == Cardinality(InFlight) <= 1

\* A message FAILED, which staff are told to send themselves, is not being sent:
\* neither giving up nor the last try leaves one behind.
FailedIsNotBeingSent == status = "FAILED" => InFlight = {}

\* A worker that dies mid-send costs a try: whatever crashes, WhatsApp is handed
\* the message MAX_ATTEMPTS times and once more for every Retry.
CopiesAreBounded == copies <= MaxAttempts + retries

\* The queue does what MessageDelivery promises: every step of the callers, of the
\* cron, of staff and of a dying worker is one of the promised steps or none.  In
\* particular nothing sends a message again that is SENT and in nobody's hands.
Delivery == INSTANCE MessageDelivery WITH
  Tries <- MaxAttempts, outcome <- status, left <- MaxAttempts - attempts,
  inHand <- InFlight # {}, gone <- accepted # {}
DeliversAsPromised == Delivery!Spec

\* A message with a sender configured does not wait as QUEUED forever: it is sent,
\* or staff are told (STALE_AFTER).
EventuallyAnswered == status = "QUEUED" /\ due # Never ~> status \in {"SENT", "FAILED"}
=============================================================================
