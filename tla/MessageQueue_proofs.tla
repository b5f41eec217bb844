------------------------ MODULE MessageQueue_proofs ------------------------
(***************************************************************************)
(* Whatever the numbers of crons, of staff, of tries and of minutes, as    *)
(* long as a try ends within its lease: one try at a time, a FAILED message *)
(* is not being sent, and the copies handed to WhatsApp are bounded.       *)
(***************************************************************************)
EXTENDS MessageQueue, FiniteSetTheorems, TLAPS

\* What the claims need to know of the fields they compute with.
Typed ==
  /\ attempts \in 0..MaxAttempts
  /\ due \in Int \cup {Never}
  /\ status \in {"QUEUED", "SENT", "FAILED"}
  /\ trying \in [Triers -> Nat] /\ age \in [Triers -> Nat]
  /\ clicked \subseteq Triers /\ calls \subseteq Triers
  /\ accepted \subseteq InFlight
  /\ copies \in Nat /\ retries \in Nat

\* While a try is going its message is out of the claim's and of give_up_stale's
\* reach: SENT by staff meanwhile, or claimed until the end of the lease.
OutOfReach ==
  \A t \in InFlight :
    /\ age[t] <= MaxSend
    /\ \/ status = "SENT"
       \/ status = "QUEUED" /\ due # Never /\ due >= Lease - age[t]

Alone == \A t, u \in InFlight : t = u

\* A try knows its own number: nobody counts another while it is going.
Numbered == \A t \in InFlight : trying[t] = attempts

\* A try that is going may still hand over the message once.
WithinBudget ==
  /\ copies <= attempts + retries
  /\ InFlight \ accepted # {} => copies + 1 <= attempts + retries

IInv == Typed /\ OutOfReach /\ Alone /\ WithinBudget

\* The claim and give_up_stale find nothing while a try is going.
LEMMA NothingDueInFlight == ASSUME IInv, NEW t \in InFlight
                            PROVE  ~Due /\ ~Stale /\ status # "FAILED"
BY AttemptsAssumption, SendFitsLease
   DEF IInv, Typed, OutOfReach, InFlight, Due, Stale

\* The first step of attempt, for any caller.
LEMMA ClaimKeepsIInv == ASSUME IInv, NEW t \in Triers, Claim(t)
                        PROVE  IInv'
<1>1. InFlight = {}
  BY NothingDueInFlight DEF Claim
<1>2. InFlight' = {t} /\ age'[t] = 0 /\ due' = Lease /\ status' = "QUEUED"
  <2>1. \A u \in Triers : trying'[u] = IF u = t THEN attempts + 1 ELSE trying[u]
    BY DEF Claim, IInv, Typed
  <2>2. \A u \in Triers : trying[u] = 0
    BY <1>1 DEF InFlight
  <2>3. attempts + 1 # 0
    BY AttemptsAssumption DEF IInv, Typed
  <2> QED
    BY <2>1, <2>2, <2>3 DEF Claim, Due, InFlight, IInv, Typed
<1>3. Typed'
  BY <1>1, <1>2, AttemptsAssumption DEF Claim, Due, IInv, Typed
<1>4. OutOfReach'
  BY <1>2, AttemptsAssumption DEF OutOfReach
<1>5. WithinBudget'
  BY <1>2, AttemptsAssumption DEF Claim, IInv, Typed, WithinBudget
<1> QED
  BY <1>2, <1>3, <1>4, <1>5 DEF IInv, Alone

\* A try ends, whatever it reports: nothing is in flight any more.
LEMMA FinishEmpties == ASSUME IInv, NEW t \in InFlight, Finish(t)
                       PROVE  /\ InFlight' = {} /\ accepted' = {}
                              /\ trying' \in [Triers -> Nat] /\ age' \in [Triers -> Nat]
<1>1. \A u \in Triers : u # t => trying[u] = 0
  BY DEF IInv, Alone, InFlight
<1>2. accepted \subseteq {t}
  BY <1>1 DEF IInv, Typed, InFlight
<1> QED
  BY <1>1, <1>2 DEF Finish, InFlight, IInv, Typed

LEMMA ReportKeepsIInv == ASSUME IInv, NEW t \in Triers, Report(t)
                         PROVE  IInv'
<1>1. t \in InFlight /\ Finish(t)
  BY DEF Report, ReportSent, ReportFailed, InFlight, IInv, Typed
<1>2. InFlight' = {} /\ accepted' = {} /\ trying' \in [Triers -> Nat] /\ age' \in [Triers -> Nat]
  BY <1>1, FinishEmpties
<1>3. due' \in Int \cup {Never} /\ status' \in {"QUEUED", "SENT", "FAILED"}
  <2>1. CASE ReportSent(t)
    BY <2>1 DEF ReportSent
  <2>2. CASE ReportFailed(t)
    <3>1. CASE trying[t] >= MaxAttempts
      BY <2>2, <3>1 DEF ReportFailed
    <3>2. CASE ~(trying[t] >= MaxAttempts)
      <4>1. trying[t] \in 1..MaxAttempts - 1
        BY <1>1, <3>2, AttemptsAssumption DEF InFlight, IInv, Typed
      <4>2. RetryAfter[trying[t]] \in Nat
        BY <4>1, AttemptsAssumption
      <4> QED
        BY <2>2, <3>2, <4>2 DEF ReportFailed
    <3> QED BY <3>1, <3>2
  <2> QED BY <2>1, <2>2 DEF Report
<1>4. Typed'
  BY <1>1, <1>2, <1>3 DEF Finish, IInv, Typed
<1> QED
  BY <1>1, <1>2, <1>4 DEF IInv, Typed, OutOfReach, Alone, WithinBudget, Finish

LEMMA CrashKeepsIInv == ASSUME IInv, NEW t \in Triers, Crash(t)
                        PROVE  IInv'
<1>1. InFlight' = InFlight \ {t} /\ \A u \in InFlight' : age'[u] = age[u]
  BY DEF Crash, InFlight, IInv, Typed
<1>2. Typed'
  BY <1>1 DEF Crash, IInv, Typed
<1>3. OutOfReach'
  BY <1>1 DEF Crash, IInv, OutOfReach
<1>4. WithinBudget'
  BY <1>1 DEF Crash, IInv, Typed, WithinBudget
<1> QED
  BY <1>1, <1>2, <1>3, <1>4 DEF IInv, Alone

LEMMA AcceptKeepsIInv == ASSUME IInv, NEW t \in Triers, Accept(t)
                         PROVE  IInv'
<1>1. t \in InFlight \ accepted /\ InFlight' = InFlight
  BY DEF Accept, InFlight
<1>2. InFlight' \ accepted' = {}
  BY <1>1 DEF Accept, IInv, Alone
<1>3. Typed'
  BY <1>1 DEF Accept, IInv, Typed
<1>4. WithinBudget'
  BY <1>1, <1>2 DEF Accept, IInv, Typed, WithinBudget
<1>5. OutOfReach' /\ Alone'
  BY <1>1 DEF Accept, IInv, OutOfReach, Alone
<1> QED
  BY <1>3, <1>4, <1>5 DEF IInv

LEMMA StaffKeepIInv == ASSUME IInv,
                              ListMessages \/ MarkSent \/ (\E t \in Triers : Retry(t))
                       PROVE  IInv'
<1>1. CASE ListMessages
  <2>1. InFlight' = InFlight
    BY <1>1 DEF ListMessages, InFlight
  <2>2. Typed' /\ WithinBudget' /\ Alone'
    BY <1>1, <2>1 DEF ListMessages, IInv, Typed, WithinBudget, Alone
  <2>3. InFlight # {} => UNCHANGED <<status, due, age>>
    BY <1>1, NothingDueInFlight DEF ListMessages
  <2> QED
    BY <2>1, <2>2, <2>3 DEF IInv, OutOfReach
<1>2. CASE MarkSent
  BY <1>2 DEF MarkSent, InFlight, IInv, Typed, OutOfReach, Alone, WithinBudget
<1>3. ASSUME NEW t \in Triers, Retry(t) PROVE IInv'
  <2>1. InFlight' = InFlight
    BY <1>3 DEF Retry, InFlight
  <2>2. CASE status = "FAILED"
    <3>1. InFlight = {}
      BY <2>2, NothingDueInFlight
    <3>2. Typed'
      BY <1>3, <2>1, <2>2, AttemptsAssumption DEF Retry, IInv, Typed
    <3>3. WithinBudget'
      BY <1>3, <2>1, <2>2, <3>1, AttemptsAssumption DEF Retry, IInv, Typed, WithinBudget
    <3> QED
      BY <2>1, <3>1, <3>2, <3>3 DEF IInv, OutOfReach, Alone
  <2>3. CASE status # "FAILED"
    BY <1>3, <2>1, <2>3 DEF Retry, IInv, Typed, OutOfReach, Alone, WithinBudget
  <2> QED BY <2>2, <2>3
<1> QED BY <1>1, <1>2, <1>3

\* The lease and the try age together, so a try never outlives its claim.
LEMMA TickKeepsIInv == ASSUME IInv, Tick
                       PROVE  IInv'
<1>1. InFlight' = InFlight
  BY DEF Tick, InFlight
<1>2. Typed'
  BY <1>1 DEF Tick, IInv, Typed
<1>3. OutOfReach'
  <2> SUFFICES ASSUME NEW t \in InFlight
               PROVE  /\ age'[t] <= MaxSend
                      /\ \/ status' = "SENT"
                         \/ status' = "QUEUED" /\ due' # Never /\ due' >= Lease - age'[t]
    BY <1>1 DEF OutOfReach
  <2>1. t \in Triers /\ trying[t] # 0 /\ age[t] < MaxSend /\ age'[t] = age[t] + 1
    BY DEF Tick, InFlight
  <2>2. age[t] \in Nat /\ Lease \in Nat /\ MaxSend \in Nat /\ StaleAfter \in Nat
    BY <2>1, AttemptsAssumption DEF IInv, Typed
  <2>3. CASE status = "SENT"
    BY <2>1, <2>2, <2>3 DEF Tick
  <2>4. CASE status = "QUEUED" /\ due # Never /\ due >= Lease - age[t]
    <3>1. due \in Int /\ due > 0
      BY <2>1, <2>2, <2>4, SendFitsLease DEF IInv, Typed
    <3>2. due' = due - 1 /\ due' # Never
      BY <2>2, <2>4, <3>1, AttemptsAssumption DEF Tick
    <3> QED
      BY <2>1, <2>2, <2>4, <3>1, <3>2 DEF Tick
  <2> QED
    BY <2>3, <2>4 DEF IInv, OutOfReach
<1>4. WithinBudget' /\ Alone'
  BY <1>1 DEF Tick, IInv, WithinBudget, Alone
<1> QED
  BY <1>2, <1>3, <1>4 DEF IInv

LEMMA InitIInv == Init => IInv
<1> SUFFICES ASSUME Init PROVE IInv
  OBVIOUS
<1>1. InFlight = {}
  BY DEF Init, InFlight
<1> QED
  BY <1>1, AttemptsAssumption DEF Init, Triers, IInv, Typed, OutOfReach, Alone, WithinBudget

LEMMA NextKeepsIInv == IInv /\ [Next]_vars => IInv'
<1> SUFFICES ASSUME IInv, [Next]_vars PROVE IInv'
  OBVIOUS
<1>1. ASSUME NEW t \in Triers, Claim(t) PROVE IInv'
  BY <1>1, ClaimKeepsIInv
<1>2. ASSUME NEW t \in Triers, FindNothing(t) PROVE IInv'
  BY <1>2 DEF FindNothing, InFlight, IInv, Typed, OutOfReach, Alone, WithinBudget
<1>3. ASSUME NEW t \in Triers, Accept(t) PROVE IInv'
  BY <1>3, AcceptKeepsIInv
<1>4. ASSUME NEW t \in Triers, Report(t) PROVE IInv'
  BY <1>4, ReportKeepsIInv
<1>5. ASSUME NEW t \in Triers, Crash(t) PROVE IInv'
  BY <1>5, CrashKeepsIInv
<1>6. ASSUME NEW t \in Triers, ClickRetry(t) PROVE IInv'
  BY <1>6 DEF ClickRetry, InFlight, IInv, Typed, OutOfReach, Alone, WithinBudget
<1>7. CASE ListMessages \/ MarkSent \/ (\E t \in Triers : Retry(t))
  BY <1>7, StaffKeepIInv
<1>8. CASE Tick
  BY <1>8, TickKeepsIInv
<1>9. CASE UNCHANGED vars
  BY <1>9 DEF vars, InFlight, IInv, Typed, OutOfReach, Alone, WithinBudget
<1> QED
  BY <1>1, <1>2, <1>3, <1>4, <1>5, <1>6, <1>7, <1>8, <1>9 DEF Next

LEMMA Inductive == Spec => []IInv
<1>1. Init => IInv
  BY InitIInv
<1>2. IInv /\ [Next]_vars => IInv'
  BY NextKeepsIInv
<1> QED
  BY <1>1, <1>2, PTL DEF Spec

\* "The request's thread, the cron and a Retry click can race for the same message
\* and only one sends" (attempt), for any number of them.
THEOREM OnlyOneSends == Spec => []OneTryAtATime
<1>1. IInv => OneTryAtATime
  <2> SUFFICES ASSUME IInv PROVE Cardinality(InFlight) <= 1
    BY DEF OneTryAtATime
  <2>1. CASE InFlight = {}
    BY <2>1, FS_EmptySet
  <2>2. CASE InFlight # {}
    <3>1. PICK t \in InFlight : InFlight = {t}
      BY <2>2 DEF IInv, Alone
    <3>2. Cardinality({t}) = 1
      BY FS_Singleton
    <3> QED BY <3>1, <3>2
  <2> QED BY <2>1, <2>2
<1> QED
  BY <1>1, Inductive, PTL

\* A message that staff are told to send themselves (FAILED) is never one a try is
\* still sending.
THEOREM FailedMessagesRest == Spec => []FailedIsNotBeingSent
<1>1. IInv => FailedIsNotBeingSent
  BY DEF IInv, OutOfReach, FailedIsNotBeingSent
<1> QED
  BY <1>1, Inductive, PTL

\* Whatever dies mid-send, WhatsApp is handed the message MAX_ATTEMPTS times and
\* once more for every Retry, at the most.
THEOREM BoundedCopies == Spec => []CopiesAreBounded
<1>1. IInv => CopiesAreBounded
  BY AttemptsAssumption DEF IInv, Typed, WithinBudget, CopiesAreBounded
<1> QED
  BY <1>1, Inductive, PTL

-----------------------------------------------------------------------------
(* The queue implements MessageDelivery. *)

LEMMA NextKeepsNumbered == IInv /\ Numbered /\ [Next]_vars => Numbered'
<1> SUFFICES ASSUME IInv, Numbered, [Next]_vars PROVE Numbered'
  OBVIOUS
<1>1. ASSUME NEW t \in Triers, Claim(t) PROVE Numbered'
  <2>1. InFlight = {}
    BY <1>1, NothingDueInFlight DEF Claim
  <2> QED
    BY <1>1, <2>1 DEF Claim, InFlight, Numbered, IInv, Typed
<1>2. ASSUME NEW t \in Triers, Report(t) \/ Crash(t) PROVE Numbered'
  <2>1. attempts' = attempts /\ trying' = [trying EXCEPT ![t] = 0]
    BY <1>2 DEF Report, ReportSent, ReportFailed, Finish, Crash
  <2> QED
    BY <2>1 DEF InFlight, Numbered, IInv, Typed
<1>3. ASSUME NEW t \in Triers, Retry(t) PROVE Numbered'
  <2>1. CASE status = "FAILED"
    <3>1. InFlight = {}
      BY <2>1, NothingDueInFlight
    <3> QED
      BY <1>3, <3>1 DEF Retry, InFlight, Numbered
  <2>2. CASE status # "FAILED"
    BY <1>3, <2>2 DEF Retry, InFlight, Numbered
  <2> QED BY <2>1, <2>2
<1>4. ASSUME NEW t \in Triers, FindNothing(t) \/ Accept(t) \/ ClickRetry(t) PROVE Numbered'
  BY <1>4 DEF FindNothing, Accept, ClickRetry, InFlight, Numbered
<1>5. CASE ListMessages \/ MarkSent \/ Tick \/ UNCHANGED vars
  BY <1>5 DEF ListMessages, MarkSent, Tick, vars, InFlight, Numbered
<1> QED
  BY <1>1, <1>2, <1>3, <1>4, <1>5 DEF Next

\* What a step that neither begins nor ends a try leaves of the promise's view.
SameHands == UNCHANGED <<InFlight, accepted, attempts, copies>>

LEMMA ClaimTakes == ASSUME IInv, NEW t \in Triers, Claim(t)
                    PROVE  Delivery!Take
<1>1. InFlight = {}
  BY NothingDueInFlight DEF Claim
<1>2. InFlight' # {}
  <2>1. attempts + 1 # 0 /\ trying'[t] = attempts + 1
    BY AttemptsAssumption DEF Claim, IInv, Typed
  <2> QED
    BY <2>1 DEF InFlight
<1>3. attempts \in Nat /\ MaxAttempts \in Nat /\ attempts < MaxAttempts
  BY AttemptsAssumption DEF Claim, Due, IInv, Typed
<1>4. /\ MaxAttempts - attempts > 0
      /\ MaxAttempts - attempts' = MaxAttempts - attempts - 1
  BY <1>3 DEF Claim
<1> QED
  BY <1>1, <1>2, <1>4 DEF Claim, Due, Delivery!Take

LEMMA AcceptHandsOver == ASSUME IInv, NEW t \in Triers, Accept(t)
                         PROVE  Delivery!HandOver
<1>1. t \in InFlight \ accepted /\ InFlight' = InFlight
  BY DEF Accept, InFlight
<1>2. accepted = {}
  BY <1>1 DEF IInv, Typed, Alone
<1> QED
  BY <1>1, <1>2 DEF Accept, Delivery!HandOver

LEMMA ReportReports == ASSUME IInv, Numbered, NEW t \in Triers, Report(t)
                       PROVE  Delivery!Report
<1>1. t \in InFlight /\ Finish(t)
  BY DEF Report, ReportSent, ReportFailed, InFlight, IInv, Typed
<1>2. InFlight' = {} /\ accepted' = {}
  BY <1>1, FinishEmpties
<1>3. Delivery!LetGo
  BY <1>1, <1>2 DEF Finish, Delivery!LetGo
<1>4. CASE ReportSent(t)
  BY <1>3, <1>4 DEF ReportSent, Delivery!Report
<1>5. CASE ReportFailed(t)
  <2>1. trying[t] = attempts
    BY <1>1 DEF Numbered
  <2>2. attempts >= MaxAttempts <=> MaxAttempts - attempts = 0
    BY AttemptsAssumption DEF IInv, Typed
  <2>3. status' = IF MaxAttempts - attempts = 0 THEN "FAILED" ELSE "QUEUED"
    BY <1>5, <2>1, <2>2 DEF ReportFailed
  <2> QED
    BY <1>3, <2>3 DEF Delivery!Report
<1> QED BY <1>4, <1>5 DEF Report

LEMMA CrashDies == ASSUME IInv, NEW t \in Triers, Crash(t)
                   PROVE  Delivery!Die \/ UNCHANGED Delivery!vars
<1>1. InFlight' = InFlight \ {t} /\ accepted' = accepted \ {t}
  BY DEF Crash, InFlight, IInv, Typed
<1>2. CASE t \in InFlight
  <2>1. InFlight = {t} /\ InFlight' = {} /\ accepted' = {}
    BY <1>1, <1>2 DEF IInv, Alone, Typed
  <2> QED
    BY <2>1 DEF Crash, Delivery!Die, Delivery!LetGo
<1>3. CASE t \notin InFlight
  <2>1. InFlight' = InFlight /\ accepted' = accepted
    BY <1>1, <1>3 DEF IInv, Typed
  <2> QED
    BY <2>1 DEF Crash, Delivery!vars
<1> QED BY <1>2, <1>3

LEMMA RetryAsks == ASSUME IInv, NEW t \in Triers, Retry(t)
                   PROVE  Delivery!AskAgain \/ UNCHANGED Delivery!vars
<1>1. InFlight' = InFlight /\ accepted' = accepted /\ copies' = copies
  BY DEF Retry, InFlight
<1>2. CASE status = "FAILED"
  <2>1. InFlight = {}
    BY <1>2, NothingDueInFlight
  <2>2. status' = "QUEUED" /\ MaxAttempts - attempts' = 1
    BY <1>2, AttemptsAssumption DEF Retry
  <2> QED
    BY <1>1, <1>2, <2>1, <2>2 DEF Delivery!AskAgain
<1>3. CASE status # "FAILED"
  BY <1>1, <1>3 DEF Retry, Delivery!vars
<1> QED BY <1>2, <1>3

LEMMA ListGivesUp == ASSUME IInv, ListMessages
                     PROVE  Delivery!GiveUp \/ UNCHANGED Delivery!vars
<1>1. SameHands
  BY DEF ListMessages, InFlight, SameHands
<1>2. CASE Stale
  <2>1. InFlight = {}
    BY <1>2, NothingDueInFlight
  <2> QED
    BY <1>1, <1>2, <2>1 DEF ListMessages, Stale, SameHands, Delivery!GiveUp
<1>3. CASE ~Stale
  BY <1>1, <1>3 DEF ListMessages, SameHands, Delivery!vars
<1> QED BY <1>2, <1>3

LEMMA StepsArePromised == IInv /\ Numbered /\ [Next]_vars => [Delivery!Next]_(Delivery!vars)
<1> SUFFICES ASSUME IInv, Numbered, [Next]_vars
             PROVE  Delivery!Next \/ UNCHANGED Delivery!vars
  OBVIOUS
<1>1. ASSUME NEW t \in Triers, Claim(t) \/ Accept(t) \/ Report(t)
      PROVE  Delivery!Next
  BY <1>1, ClaimTakes, AcceptHandsOver, ReportReports DEF Delivery!Next
<1>2. ASSUME NEW t \in Triers, Crash(t) \/ Retry(t)
      PROVE  Delivery!Next \/ UNCHANGED Delivery!vars
  BY <1>2, CrashDies, RetryAsks DEF Delivery!Next
<1>3. ASSUME NEW t \in Triers, FindNothing(t) \/ ClickRetry(t)
      PROVE  UNCHANGED Delivery!vars
  BY <1>3 DEF FindNothing, ClickRetry, InFlight, Delivery!vars
<1>4. CASE ListMessages
  BY <1>4, ListGivesUp DEF Delivery!Next
<1>5. CASE MarkSent
  BY <1>5 DEF MarkSent, InFlight, Delivery!SentByHand, Delivery!Next
<1>6. CASE Tick \/ UNCHANGED vars
  BY <1>6 DEF Tick, vars, InFlight, Delivery!vars
<1> QED
  BY <1>1, <1>2, <1>3, <1>4, <1>5, <1>6 DEF Next

\* However many callers race for a message and die at it, the queue does to it only
\* what MessageDelivery promises.
THEOREM QueueDelivers == Spec => DeliversAsPromised
<1>1. Init => Numbered /\ Delivery!Init
  <2> SUFFICES ASSUME Init PROVE Numbered /\ Delivery!Init
    OBVIOUS
  <2>1. InFlight = {}
    BY DEF Init, InFlight
  <2> QED
    BY <2>1, AttemptsAssumption DEF Init, Numbered, Delivery!Init
<1>2. IInv /\ Numbered /\ [Next]_vars => Numbered'
  BY NextKeepsNumbered
<1>3. IInv /\ Numbered /\ [Next]_vars => [Delivery!Next]_(Delivery!vars)
  BY StepsArePromised
<1> QED
  BY <1>1, <1>2, <1>3, Inductive, PTL DEF Spec, DeliversAsPromised, Delivery!Spec
=============================================================================
