--------------------------- MODULE PaymentLedger ---------------------------
(***************************************************************************)
(* What one order has been paid, kept twice: the running total on the      *)
(* order (amount_paid, beside payment_status) and the dated rows of        *)
(* finance.Payment.  finance.signals listens to every save of the order    *)
(* that can have moved the total and, once it has committed, writes the    *)
(* difference as a row; a payment entered in Finance goes the other way.   *)
(*                                                                         *)
(* Requests run side by side.  Each loads the order when it begins and     *)
(* works on that copy: ATOMIC_REQUESTS is off, so a PATCH of the order is  *)
(* several commits, and moving a stage saves every column of the order as  *)
(* they were when its request began.                                       *)
(***************************************************************************)
EXTENDS Integers

CONSTANTS
  Requests,    \* requests that may be under way at the same time
  MaxMoney     \* the largest amount typed (a bound for TLC)

ASSUME LedgerAssumption == MaxMoney \in Nat

VARIABLES
  row,        \* the order's row: paid, label, total, pending (no price decided yet)
  ledger,     \* the sum of the order's dated rows
  req,        \* each request: where it is, what it is, its copy of the order
  high,       \* the most the committed row has ever said was paid
  raced       \* two requests have been under way at once

ledgerVars == <<row, ledger, req, high, raced>>

Money  == 0..MaxMoney
Labels == {"Pending", "Partially Paid", "Paid"}
Kinds  == {"amount", "advance", "other", "move", "record", "prices"}
Orders == [paid : Nat, label : Labels, total : Nat, pending : BOOLEAN]

Greater(a, b) == IF a >= b THEN a ELSE b
Lesser(a, b) == IF a <= b THEN a ELSE b

LabelOf(paid, total) ==
  IF paid = 0 THEN "Pending" ELSE IF paid >= total THEN "Paid" ELSE "Partially Paid"

\* Before the prices are decided nothing counts as paid in full.
Standing(pending, paid, total) ==
  IF ~pending THEN LabelOf(paid, total)
  ELSE IF paid > 0 THEN "Partially Paid" ELSE "Pending"

Idle(p) == req[p].at = "idle"

\* A request that is over keeps nothing.
Over == [at |-> "idle", kind |-> "other", asked |-> 0, seen |-> 0, then |-> "idle",
         order |-> [paid |-> 0, label |-> "Pending", total |-> 0, pending |-> FALSE]]
AtRest  == \A p \in Requests : Idle(p)

\* apply_advance: what was handed over with the order, no more than its total once that
\* is known.  The rows mirror it from the start.
Advance(pending, advance, total) == IF pending THEN advance ELSE Lesser(advance, total)

LedgerInit ==
  /\ \E pending \in BOOLEAN, advance, total \in Money :
       LET paid == Advance(pending, advance, total) IN
       /\ pending => total = 0
       /\ row = [paid |-> paid, label |-> Standing(pending, paid, total),
                 total |-> total, pending |-> pending]
       /\ ledger = paid /\ high = paid
  /\ req = [p \in Requests |-> Over]
  /\ raced = FALSE

-----------------------------------------------------------------------------
(* A request begins: the order is loaded, and for a PATCH its fields set *)

Open(p, kind, order, asked) ==
  /\ Idle(p)
  /\ req' = [req EXCEPT ![p] = [at |-> "loaded", kind |-> kind, order |-> order,
                                asked |-> asked, seen |-> 0, then |-> "idle"]]
  /\ raced' = (raced \/ \E q \in Requests \ {p} : ~Idle(q))
  /\ UNCHANGED <<row, ledger, high>>

\* A PATCH that says how much was paid.  Nothing compares it with the total here.
PatchAmount(p, amount) ==
  Open(p, "amount", [row EXCEPT !.paid = amount], amount)

\* A PATCH of the advance, and one of anything else: the payment status, the total.
PatchAdvance(p, amount) == Open(p, "advance", row, amount)

PatchOther(p, label, total) ==
  Open(p, "other", [row EXCEPT !.label = label, !.total = total], 0)

\* A stage is moved, or a tailor's completion filed.
Move(p) == Open(p, "move", row, 0)

\* A payment entered in Finance: "never take more than the order is owed".
Unpaid(amount) == ledger + amount <= row.total

EnterPayment(p, amount) ==
  /\ amount > 0 /\ Unpaid(amount)
  /\ Open(p, "record", row, amount)

\* The prices are set, to no less than has been paid.
PricesCover(total) == row.paid <= total

SetPrices(p, total) ==
  /\ PricesCover(total)
  /\ Open(p, "prices", row, total)

-----------------------------------------------------------------------------
(* What a request commits *)

\* The request's copy is now `order`, the row `landed`; the signal follows the commit.
\* After its last save only the copy is still of use.
Land(p, order, landed, then) ==
  LET r == IF then = "idle" THEN Over ELSE req[p] IN
  /\ row' = landed
  /\ high' = Greater(high, landed.paid)
  /\ req' = [req EXCEPT ![p] = [r EXCEPT !.at = "saved", !.order = order, !.then = then]]

WithPaid(order, paid, label) == [order EXCEPT !.paid = paid, !.label = label]

\* Mutant of SaveWhole: the signal answers only saves that name the paid column.
SaveWholeUnheard(p) ==
  /\ req[p].at = "loaded" /\ req[p].kind \in {"amount", "advance", "other", "move"}
  /\ row' = req[p].order /\ high' = Greater(high, row'.paid)
  /\ req' = [req EXCEPT ![p] = IF req[p].kind = "move" THEN Over ELSE [req[p] EXCEPT !.at = "reconcile"]]
  /\ UNCHANGED <<ledger, raced>>

\* Order.save() with no update_fields: every column, as this request knows them.  A
\* PATCH goes on to _reconcile_payment.
SaveWhole(p) ==
  /\ req[p].at = "loaded" /\ req[p].kind \in {"amount", "advance", "other", "move"}
  /\ Land(p, req[p].order, req[p].order, IF req[p].kind = "move" THEN "idle" ELSE "reconcile")
  /\ UNCHANGED <<ledger, raced>>

\* What _reconcile_payment takes the order to have been paid.
Intended(r) ==
  CASE r.kind \in {"amount", "advance"} -> r.asked
    [] r.kind = "other" /\ ~r.order.pending /\ r.order.label = "Paid"    -> r.order.total
    [] r.kind = "other" /\ ~r.order.pending /\ r.order.label = "Pending" -> 0
    [] OTHER -> r.order.paid

Settled(r) ==
  IF r.order.pending THEN Intended(r) ELSE Lesser(Intended(r), r.order.total)

\* Mutant of Reconcile: the payment status is left as it was.
ReconcileAmountOnly(p) ==
  LET paid == Settled(req[p]) IN
  /\ req[p].at = "reconcile"
  /\ Land(p, WithPaid(req[p].order, paid, req[p].order.label), [row EXCEPT !.paid = paid], "idle")
  /\ UNCHANGED <<ledger, raced>>

Reconcile(p) ==
  LET r     == req[p]
      paid  == Settled(r)
      label == Standing(r.order.pending, paid, r.order.total)
  IN /\ r.at = "reconcile"
     /\ Land(p, WithPaid(r.order, paid, label), WithPaid(row, paid, label), "idle")
     /\ UNCHANGED <<ledger, raced>>

\* payments.record is one transaction: the row is written and the rows summed ...
SumRows(p) ==
  /\ req[p].at = "loaded" /\ req[p].kind = "record"
  /\ req' = [req EXCEPT ![p].at = "summed", ![p].seen = ledger + req[p].asked]
  /\ UNCHANGED <<row, ledger, high, raced>>

\* ... and the order brought up to that sum, without another's uncommitted payment.
Record(p) ==
  LET r     == req[p]
      paid  == Lesser(r.seen, r.order.total)
      label == LabelOf(paid, r.order.total)
  IN /\ r.at = "summed"
     /\ Land(p, WithPaid(r.order, paid, label), WithPaid(row, paid, label), "idle")
     /\ ledger' = ledger + r.asked
     /\ UNCHANGED raced

\* set_prices is one transaction: the total, then what was paid against it.
Priced(order, total) ==
  LET paid == Lesser(order.paid, total) IN
  [paid |-> paid, label |-> LabelOf(paid, total), total |-> total, pending |-> FALSE]

CommitPrices(p) ==
  LET order == Priced(req[p].order, req[p].asked) IN
  /\ req[p].at = "loaded" /\ req[p].kind = "prices"
  /\ Land(p, order, order, "idle")
  /\ UNCHANGED <<ledger, raced>>

-----------------------------------------------------------------------------
(* sync_from_order, after each commit: the copy is compared with the rows *)

\* What is left of the request once its rows are written.
Synced(r) == IF r.then = "idle" THEN Over ELSE [r EXCEPT !.at = "reconcile", !.seen = 0]

\* Mutant of Compare: the whole snapshot is written whenever it is above the rows.
CompareWhole(p) ==
  LET r == req[p] IN
  /\ r.at = "saved"
  /\ req' = IF r.order.paid > ledger
            THEN [req EXCEPT ![p].at = "counted", ![p].seen = r.order.paid]
            ELSE [req EXCEPT ![p] = Synced(r)]
  /\ UNCHANGED <<row, ledger, high, raced>>

\* "A snapshot that went DOWN writes nothing."
Compare(p) ==
  LET r == req[p] IN
  /\ r.at = "saved"
  /\ req' = IF r.order.paid > ledger
            THEN [req EXCEPT ![p].at = "counted", ![p].seen = r.order.paid - ledger]
            ELSE [req EXCEPT ![p] = Synced(r)]
  /\ UNCHANGED <<row, ledger, high, raced>>

Mirror(p) ==
  /\ req[p].at = "counted"
  /\ ledger' = ledger + req[p].seen
  /\ req' = [req EXCEPT ![p] = Synced(req[p])]
  /\ UNCHANGED <<row, high, raced>>

Begin(p) ==
  \/ \E amount \in Money : PatchAmount(p, amount) \/ PatchAdvance(p, amount) \/ EnterPayment(p, amount)
  \/ \E label \in Labels, total \in Money : PatchOther(p, label, total)
  \/ \E total \in Money : SetPrices(p, total)
  \/ Move(p)

Continue(p) ==
  \/ SaveWhole(p) \/ Reconcile(p) \/ SumRows(p) \/ Record(p) \/ CommitPrices(p)
  \/ Compare(p) \/ Mirror(p)

LedgerNext == \E p \in Requests : Begin(p) \/ Continue(p)
LedgerSpec == LedgerInit /\ [][LedgerNext]_ledgerVars

-----------------------------------------------------------------------------
(* Properties *)

Steps == {"idle", "loaded", "saved", "reconcile", "summed", "counted"}

LedgerTypeOK ==
  /\ row \in Orders /\ ledger \in Nat /\ high \in Nat
  /\ req \in [Requests -> [at : Steps, kind : Kinds, order : Orders, asked : Nat,
                           seen : Nat, then : {"idle", "reconcile"}]]
  /\ raced \in BOOLEAN

\* However requests overlap, once they are done the dated rows account for the most the
\* order ever said it was paid: no money is left out of the books
\* ("one receiver on the model catches all of them", signals.py).
NoMoneyUnledgered == AtRest => high <= ledger

\* Requests that come one after another never write the same money twice: the rows come
\* to exactly the most the order has said, corrections downwards writing nothing.
NothingLedgeredTwice == AtRest /\ ~raced => ledger = high

\* One after another, they leave the payment status and what was paid in agreement with
\* the total, whatever mix of patches, prices, payments and stage moves was made.
LabelTellsTheBalance ==
  AtRest /\ ~raced /\ ~row.pending =>
    row.paid <= row.total /\ row.label = LabelOf(row.paid, row.total)

\* With nobody else at work the rows, the amount and the status all agree.
ExactWhenAlone == NothingLedgeredTwice /\ LabelTellsTheBalance
=============================================================================
