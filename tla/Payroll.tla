------------------------------- MODULE Payroll -------------------------------
(***************************************************************************)
(* The pay of one staff member, week by week (apps/payroll).  Attended     *)
(* sessions become a draft, approval freezes it and takes what the person  *)
(* owes on the security deposit and on advances, a payout settles it.      *)
(*                                                                         *)
(* Every request is a transaction.  Approval holds the lock of its week    *)
(* while it checks and takes the person's lock only when it writes a       *)
(* recovery, so approvals of two weeks overlap: its checks are one step    *)
(* here and what it does under the person's lock another.                  *)
(***************************************************************************)
EXTENDS Integers, FiniteSets

CONSTANTS
  Weeks,       \* the pay periods
  Elsewhere,   \* the day of a session not recorded yet, or outside these weeks
  Sessions,    \* attendance sessions with a check-out, an hour each
  Rates,       \* the hourly rates an owner sets; 0 is not usable
  Terms,       \* the deposit terms an owner sets: the total and the weekly figure
  Advances,    \* positions in the order of repayment, oldest first
  Loans        \* the advances an owner gives: the amount and the weekly figure

ASSUME PayrollAssumption ==
  /\ Elsewhere \notin Weeks
  /\ IsFiniteSet(Sessions)
  /\ Rates \subseteq Nat
  /\ Terms \subseteq [agreed : Nat, weekly : Nat]
  /\ Advances \subseteq Nat \ {0}
  /\ Loans \subseteq [amount : Nat \ {0}, weekly : Nat]

VARIABLES
  day,         \* session -> the week it is filed under
  rate,        \* hourly_rate
  terms,       \* the newest deposit agreement, with deposit_weekly
  loan,        \* advance -> its amount (0 before it is given) and weekly_recovery
  cancelled,   \* the advances cancelled
  period,      \* week -> NONE, DRAFT or APPROVED
  slip,        \* week -> the person's PayrollRecord
  approving,   \* the weeks whose approval has made its checks
  depositRow,  \* week -> its DEPOSIT_RECOVERY row, 0 without one
  advanceRow,  \* week -> its ADVANCE_RECOVERY row
  recovered,   \* the sum of the DEPOSIT_RECOVERY rows
  repaid       \* advance -> the sum of its ADVANCE_RECOVERY rows

attendance == <<day, rate>>
obligations == <<terms, loan, cancelled>>
rows == <<depositRow, advanceRow, recovered, repaid>>
vars == <<attendance, obligations, period, slip, approving, rows>>

Most(a, b) == IF a >= b THEN a ELSE b
Least(a, b) == IF a <= b THEN a ELSE b

NoSlip == [status |-> "NONE", rate |-> 0, sessions |-> {}, deposit |-> 0, from |-> 0, repay |-> 0]
NoRow == [from |-> 0, amount |-> 0]
Slips == [status : {"NONE", "DRAFT", "APPROVED", "PAID"}, rate : Nat, sessions : SUBSET Sessions,
          deposit : Nat, from : Advances \cup {0}, repay : Nat]

Frozen(w) == slip[w].status \in {"APPROVED", "PAID"}
Gross(s) == s.rate * Cardinality(s.sessions)

\* deposit_state: "floored at zero"
Remaining == Most(0, terms.agreed - recovered)

\* outstanding_for: a cancelled advance reverses its own issue.
Owed(a) == IF a \in cancelled THEN 0 ELSE Most(0, loan[a].amount - repaid[a])

Init ==
  /\ day = [s \in Sessions |-> Elsewhere]
  /\ rate \in Rates /\ terms \in Terms
  /\ loan = [a \in Advances |-> [amount |-> 0, weekly |-> 0]] /\ cancelled = {}
  /\ period = [w \in Weeks |-> "NONE"] /\ slip = [w \in Weeks |-> NoSlip]
  /\ approving = {}
  /\ depositRow = [w \in Weeks |-> 0] /\ advanceRow = [w \in Weeks |-> NoRow]
  /\ recovered = 0 /\ repaid = [a \in Advances |-> 0]

-----------------------------------------------------------------------------
(* Drafting a week (services.generate) *)

\* already_paid_session_ids: what an approved or settled week has paid.
AlreadyPaid == UNION {slip[w].sessions : w \in {v \in Weeks : Frozen(v)}}

Worked(w) == {s \in Sessions : day[s] = w} \ AlreadyPaid

\* deposits.recovery_for: "never more than is still owed", "never more than the week
\* earned".
DepositDue(gross) == Least(Least(terms.weekly, Remaining), gross)

\* The oldest advance that is being repaid; one with a weekly figure of zero is parked.
BeingRepaid == {a \in Advances : Owed(a) > 0 /\ loan[a].weekly > 0}
Oldest == CHOOSE a \in BeingRepaid : \A b \in BeingRepaid : a <= b

\* advances.recovery_for, "handed what the deposit LEFT"
AdvanceDue(gross, deposit) ==
  IF BeingRepaid = {} THEN NoRow
  ELSE [from |-> Oldest,
        amount |-> Least(Least(loan[Oldest].weekly, Owed(Oldest)), gross - deposit)]

Draft(w) ==
  LET gross == rate * Cardinality(Worked(w))
      deposit == DepositDue(gross)
      advance == AdvanceDue(gross, deposit)
  IN  IF Worked(w) = {} THEN NoSlip
      ELSE [status |-> "DRAFT", rate |-> rate, sessions |-> Worked(w), deposit |-> deposit,
            from |-> advance.from, repay |-> advance.amount]

\* Pressed as often as the owner likes until the week is approved; it waits for an
\* approval that holds the week.
Generate(w) ==
  /\ w \notin approving
  /\ period[w] # "APPROVED"
  /\ period' = [period EXCEPT ![w] = "DRAFT"]
  /\ slip' = [slip EXCEPT ![w] = Draft(w)]
  /\ UNCHANGED <<attendance, obligations, approving, rows>>

-----------------------------------------------------------------------------
(* Approving it (services.approve) *)

\* What both approve and advances.record_recovery ask of the advance.
AdvanceStands(s) == s.repay > 0 => s.from \notin cancelled /\ s.repay <= Owed(s.from)

\* The checks.  A week without a record of this person has other people's.
Check(w) ==
  /\ w \notin approving /\ period[w] = "DRAFT"
  /\ slip[w] # NoSlip => slip[w].rate > 0
  /\ slip[w].deposit <= Remaining
  /\ AdvanceStands(slip[w])
  /\ approving' = approving \cup {w}
  /\ UNCHANGED <<attendance, obligations, period, slip, rows>>

\* deposits.record_recovery writes a row, unless nothing is owed any more.
Recovers(s) == s.deposit > 0 /\ Remaining > 0

\* Mutant of Freezable: the draft's figures are trusted.
FreezableAsDrafted(s) == TRUE

\* What each recovery looks at again under the person's lock.
Freezable(s) == (Recovers(s) => s.deposit <= Remaining) /\ AdvanceStands(s)

\* Mutant of Repays: the repayment that clears an advance writes no row.
RepaysUntilCleared(s) == s.repay > 0 /\ s.repay < Owed(s.from)

Repays(s) == s.repay > 0

\* The rest of the approval, one commit: both recoveries and the frozen week.
Freeze(w) ==
  LET s == slip[w]
  IN  /\ w \in approving
      /\ Freezable(s)
      /\ depositRow' = IF Recovers(s) THEN [depositRow EXCEPT ![w] = s.deposit] ELSE depositRow
      /\ recovered' = IF Recovers(s) THEN recovered + s.deposit ELSE recovered
      /\ advanceRow' = IF Repays(s) THEN [advanceRow EXCEPT ![w] = [from |-> s.from, amount |-> s.repay]]
                       ELSE advanceRow
      /\ repaid' = IF Repays(s) THEN [repaid EXCEPT ![s.from] = @ + s.repay] ELSE repaid
      /\ slip' = IF s = NoSlip THEN slip ELSE [slip EXCEPT ![w].status = "APPROVED"]
      /\ period' = [period EXCEPT ![w] = "APPROVED"]
      /\ approving' = approving \ {w}
      /\ UNCHANGED <<attendance, obligations>>

\* A recovery is refused under the lock, or the request dies: nothing is written.
RollBack(w) ==
  /\ w \in approving
  /\ approving' = approving \ {w}
  /\ UNCHANGED <<attendance, obligations, period, slip, rows>>

\* payouts.record_payout: once, from APPROVED, for exactly what the record says.
RecordPayout(w) ==
  /\ slip[w].status = "APPROVED"
  /\ slip' = [slip EXCEPT ![w].status = "PAID"]
  /\ UNCHANGED <<attendance, obligations, period, approving, rows>>

-----------------------------------------------------------------------------
(* What the owner enters meanwhile *)

\* A session is recorded, or a correction moves it to another week.
FileSession(s, w) ==
  /\ day[s] # w
  /\ day' = [day EXCEPT ![s] = w]
  /\ UNCHANGED <<rate, obligations, period, slip, approving, rows>>

\* The employment profile is saved.
SetTerms(r, t) ==
  /\ rate' = r /\ terms' = t
  /\ UNCHANGED <<day, loan, cancelled, period, slip, approving, rows>>

\* advances.issue; the date typed decides its place among the others.
Issue(a, l) ==
  /\ loan[a].amount = 0
  /\ l.weekly <= l.amount
  /\ loan' = [loan EXCEPT ![a] = l]
  /\ UNCHANGED <<attendance, terms, cancelled, period, slip, approving, rows>>

\* advances.set_weekly_recovery
SetWeeklyRecovery(a, n) ==
  /\ a \notin cancelled
  /\ n <= loan[a].amount
  /\ loan' = [loan EXCEPT ![a].weekly = n]
  /\ UNCHANGED <<attendance, terms, cancelled, period, slip, approving, rows>>

\* Mutant of Cancel: what payroll has taken back is not looked at.
CancelAnyway(a) ==
  /\ loan[a].amount > 0 /\ a \notin cancelled
  /\ cancelled' = cancelled \cup {a}
  /\ UNCHANGED <<attendance, terms, loan, period, slip, approving, rows>>

\* advances.cancel, under the person's lock
Cancel(a) ==
  /\ loan[a].amount > 0 /\ a \notin cancelled
  /\ repaid[a] = 0
  /\ cancelled' = cancelled \cup {a}
  /\ UNCHANGED <<attendance, terms, loan, period, slip, approving, rows>>

Payday(w) == Generate(w) \/ Check(w) \/ Freeze(w) \/ RollBack(w) \/ RecordPayout(w)

Lending(a) ==
  \/ \E l \in Loans : Issue(a, l)
  \/ \E l \in Loans : SetWeeklyRecovery(a, l.weekly)
  \/ Cancel(a)

Next ==
  \/ \E w \in Weeks : Payday(w)
  \/ \E s \in Sessions, w \in Weeks \cup {Elsewhere} : FileSession(s, w)
  \/ \E r \in Rates, t \in Terms : SetTerms(r, t)
  \/ \E a \in Advances : Lending(a)

Spec == Init /\ [][Next]_vars

-----------------------------------------------------------------------------
(* Properties *)

TypeOK ==
  /\ day \in [Sessions -> Weeks \cup {Elsewhere}]
  /\ rate \in Rates /\ terms \in Terms
  /\ loan \in [Advances -> [amount : Nat, weekly : Nat]] /\ cancelled \subseteq Advances
  /\ period \in [Weeks -> {"NONE", "DRAFT", "APPROVED"}]
  /\ slip \in [Weeks -> Slips] /\ approving \subseteq Weeks
  /\ depositRow \in [Weeks -> Nat]
  /\ advanceRow \in [Weeks -> [from : Advances \cup {0}, amount : Nat]]
  /\ recovered \in Nat /\ repaid \in [Advances -> Nat]

\* A recovery "can never exceed the obligation outstanding" (deposits.py): when one is
\* written the recoveries stay within the deposit agreed by then, whatever was drafted
\* and approved meanwhile.
NeverMoreThanAgreed == [][recovered' # recovered => recovered' <= terms.agreed]_vars

\* An advance is "never [recovered] beyond what is still outstanding on it", and one that
\* was cancelled, while a draft or an approval was on its way, has had nothing taken.
AdvancesAreRepaidOnce ==
  \A a \in Advances : repaid[a] <= loan[a].amount /\ (a \in cancelled => repaid[a] = 0)

\* "Always traceably to the payroll that took it": the ledger holds the advance recovery
\* of a payslip exactly when the payslip is frozen, and for what it says; a deposit
\* recovery belongs to a frozen payslip and is what it says.
RowsTellThePayslips ==
  \A w \in Weeks :
    /\ advanceRow[w].amount = IF Frozen(w) THEN slip[w].repay ELSE 0
    /\ advanceRow[w].amount > 0 => advanceRow[w].from = slip[w].from
    /\ depositRow[w] > 0 => Frozen(w) /\ depositRow[w] = slip[w].deposit

\* The two deductions never take more than the week earned, whatever is owed: "the final
\* invariant", net_payable is never negative.
WagesAreNeverNegative == \A w \in Weeks : slip[w].deposit + slip[w].repay <= Gross(slip[w])

\* "Approved payroll is a record, not a draft": nothing of an approved week changes, but
\* that it is paid, once.
ApprovedWeeksStand ==
  [][\A w \in Weeks : period[w] = "APPROVED" =>
       /\ period'[w] = "APPROVED"
       /\ slip'[w] # slip[w] => slip[w].status = "APPROVED"
                                /\ slip'[w] = [slip[w] EXCEPT !.status = "PAID"]
       /\ depositRow'[w] = depositRow[w] /\ advanceRow'[w] = advanceRow[w]]_vars
=============================================================================
