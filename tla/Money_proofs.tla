---------------------------- MODULE Money_proofs ----------------------------
(***************************************************************************)
(* The order's payments (PaymentLedger) and the staff's pay (Payroll), for *)
(* any number of requests, weeks, sessions and advances and any amounts.   *)
(*                                                                         *)
(* Payments.  However many requests overlap, the dated rows end up         *)
(* accounting for the most the order ever said it was paid; and one        *)
(* request after another leaves rows, amount and status in agreement.  The *)
(* most may run ahead of the rows only while some request still owes the   *)
(* difference: it has saved a copy that says so and has not compared it    *)
(* yet, or it has compared and not written the row.  The rows never        *)
(* shrink, so what it writes is still enough when it gets to it.  Alone,   *)
(* a request owes the exact difference, and the row it leaves agrees with  *)
(* its total already or is the very copy it goes on to reconcile.          *)
(*                                                                         *)
(* Pay.  What was taken back is on an approved payslip, is never more than *)
(* was owed and never more than was earned, and an approved week stays as  *)
(* it is.  The sums need no induction: every row is written by the one     *)
(* step that adds its amount to the running total.  What the invariant     *)
(* adds to the properties is that a week's status and its payslip's go     *)
(* together, that an approval under way holds a draft, and that a payslip  *)
(* which takes something names the advance it takes it from.               *)
(***************************************************************************)
EXTENDS PaymentLedger, Payroll, FiniteSetTheorems, WellFoundedInduction, TLAPS

-----------------------------------------------------------------------------
(* PAYMENTS *)

\* Request p is bound to bring the rows up to the most the order has said.
Owes(p) ==
  \/ req[p].at = "saved" /\ high <= req[p].order.paid
  \/ req[p].at = "counted" /\ high <= ledger + req[p].seen

Accounted == high <= ledger \/ \E p \in Requests : Owes(p)

LedgerInv == LedgerTypeOK /\ Accounted

\* A request, once under way.
ReqType == [at : Steps, kind : Kinds, order : Orders, asked : Nat, seen : Nat,
            then : {"idle", "reconcile"}]

-----------------------------------------------------------------------------
(* Lemmas about what requests are made of *)

LEMMA MoneyIsNat == Money \subseteq Nat
BY LedgerAssumption DEF Money

LEMMA LabelsAreLabels ==
  ASSUME NEW paid \in Nat, NEW total \in Nat, NEW pending \in BOOLEAN
  PROVE  LabelOf(paid, total) \in Labels /\ Standing(pending, paid, total) \in Labels
BY DEF LabelOf, Standing, Labels

LEMMA OverIsARequest == Over \in ReqType
BY DEF Over, ReqType, Steps, Kinds, Orders, Labels

\* A request moved on to its next step is a request.
LEMMA MovedOn ==
  ASSUME NEW r \in ReqType, NEW step \in Steps, NEW n \in Nat
  PROVE  [r EXCEPT !.at = step, !.seen = n] \in ReqType
BY DEF ReqType

\* A PATCH means an amount of money, and settling it leaves one.
LEMMA IntendedIsNat ==
  ASSUME NEW r \in ReqType
  PROVE  Intended(r) \in Nat /\ r.order.total \in Nat
<1>1. r.asked \in Nat /\ r.order.paid \in Nat /\ r.order.total \in Nat
  BY DEF ReqType, Orders
<1> QED BY <1>1 DEF Intended

LEMMA SettledIsNat ==
  ASSUME NEW r \in ReqType
  PROVE  Settled(r) \in Nat
BY IntendedIsNat DEF Settled, Lesser

\* Beginning a request commits nothing and takes only an idle one.
LEMMA OpenKeeps ==
  ASSUME LedgerInv, NEW p \in Requests, NEW kind \in Kinds, NEW order \in Orders,
         NEW asked \in Nat, Open(p, kind, order, asked)
  PROVE  LedgerInv'
<1> DEFINE new == [at |-> "loaded", kind |-> kind, order |-> order, asked |-> asked,
                   seen |-> 0, then |-> "idle"]
<1>1. new \in ReqType
  BY DEF ReqType, Steps
<1>2. req' = [req EXCEPT ![p] = new] /\ UNCHANGED <<row, ledger, high>>
      /\ req[p].at = "idle" /\ raced' \in BOOLEAN
  BY DEF Open, Idle, LedgerInv, LedgerTypeOK
<1>3. req \in [Requests -> ReqType]
  BY DEF LedgerInv, LedgerTypeOK, ReqType
<1> HIDE DEF new
<1>4. LedgerTypeOK'
  <2>1. req' \in [Requests -> ReqType]
    BY <1>1, <1>2, <1>3
  <2> QED BY <1>2, <2>1 DEF LedgerInv, LedgerTypeOK, ReqType
<1>5. Accounted'
  <2>1. ASSUME NEW q \in Requests, Owes(q)
        PROVE  Owes(q)'
    <3>1. q # p
      BY <1>2, <2>1 DEF Owes
    <3>2. req'[q] = req[q]
      BY <1>2, <1>3, <3>1
    <3> QED BY <1>2, <2>1, <3>2 DEF Owes
  <2> QED BY <1>2, <2>1 DEF LedgerInv, Accounted
<1> QED BY <1>4, <1>5 DEF LedgerInv

\* Every commit of the paid total leaves its own request owing whatever the rows lack,
\* and lets no other request off.
LEMMA LandKeeps ==
  ASSUME LedgerInv, NEW p \in Requests, NEW order \in Orders, NEW landed \in Orders,
         NEW then \in {"idle", "reconcile"}, landed.paid = order.paid,
         req[p].at \notin {"saved", "counted"},
         Land(p, order, landed, then), ledger' \in Nat, ledger <= ledger',
         raced' = raced
  PROVE  LedgerInv'
<1> DEFINE r   == IF then = "idle" THEN Over ELSE req[p]
           new == [r EXCEPT !.at = "saved", !.order = order, !.then = then]
<1>1. req \in [Requests -> ReqType] /\ high \in Nat /\ ledger \in Nat
  BY DEF LedgerInv, LedgerTypeOK, ReqType
<1>2. new \in ReqType /\ new.at = "saved" /\ new.order = order
  <2>1. r \in ReqType
    BY <1>1, OverIsARequest
  <2> QED BY <2>1 DEF ReqType, Steps
<1>3. row' = landed /\ high' = Greater(high, landed.paid) /\ req' = [req EXCEPT ![p] = new]
  BY DEF Land
<1>4. order.paid \in Nat
  BY DEF Orders
<1> HIDE DEF new
<1>5. LedgerTypeOK'
  <2>1. req' \in [Requests -> ReqType]
    BY <1>1, <1>2, <1>3
  <2>2. high' \in Nat
    BY <1>1, <1>3, <1>4 DEF Greater
  <2> QED BY <1>3, <2>1, <2>2 DEF LedgerInv, LedgerTypeOK, ReqType
<1>6. Accounted'
  <2>1. req'[p] = new
    BY <1>1, <1>3
  <2>2. CASE high <= order.paid
    <3>1. high' = order.paid
      BY <1>1, <1>3, <1>4, <2>2 DEF Greater
    <3>2. Owes(p)'
      BY <1>2, <1>4, <2>1, <3>1 DEF Owes
    <3> QED BY <3>2 DEF Accounted
  <2>3. CASE high > order.paid
    <3>1. high' = high
      BY <1>1, <1>3, <1>4, <2>3 DEF Greater
    <3>2. ASSUME NEW q \in Requests, Owes(q)
          PROVE  Owes(q)'
      <4>1. q # p
        BY <3>2 DEF Owes
      <4>2. req'[q] = req[q] /\ req[q].seen \in Nat
        BY <1>1, <1>3, <4>1 DEF ReqType
      <4> QED BY <1>1, <3>1, <3>2, <4>2 DEF Owes
    <3> QED BY <1>1, <3>1, <3>2 DEF LedgerInv, Accounted
  <2> QED BY <1>1, <1>4, <2>2, <2>3
<1> QED BY <1>5, <1>6 DEF LedgerInv

-----------------------------------------------------------------------------
(* Every step keeps the invariant *)

\* What a request carries, as facts the leaves below cite.
LEMMA RequestFacts ==
  ASSUME LedgerInv, NEW p \in Requests
  PROVE  /\ req \in [Requests -> ReqType] /\ req[p] \in ReqType
         /\ req[p].order \in Orders /\ req[p].asked \in Nat /\ req[p].seen \in Nat
         /\ req[p].order.paid \in Nat /\ req[p].order.total \in Nat
         /\ req[p].order.pending \in BOOLEAN
         /\ row \in Orders /\ ledger \in Nat /\ high \in Nat
BY DEF LedgerInv, LedgerTypeOK, ReqType, Orders

LEMMA BeginKeeps ==
  ASSUME LedgerInv, NEW p \in Requests, Begin(p)
  PROVE  LedgerInv'
<1>1. row \in Orders
  BY RequestFacts
<1>2. CASE \E amount \in Money : PatchAmount(p, amount)
  <2>1. PICK amount \in Money : PatchAmount(p, amount)
    BY <1>2
  <2>2. amount \in Nat /\ [row EXCEPT !.paid = amount] \in Orders
    BY <1>1, MoneyIsNat DEF Orders
  <2> QED BY <2>1, <2>2, OpenKeeps DEF PatchAmount, Kinds
<1>3. CASE \E amount \in Money : PatchAdvance(p, amount)
  BY <1>1, <1>3, MoneyIsNat, OpenKeeps DEF PatchAdvance, Kinds
<1>4. CASE \E amount \in Money : EnterPayment(p, amount)
  BY <1>1, <1>4, MoneyIsNat, OpenKeeps DEF EnterPayment, Kinds
<1>5. CASE \E label \in Labels, total \in Money : PatchOther(p, label, total)
  <2>1. PICK label \in Labels, total \in Money : PatchOther(p, label, total)
    BY <1>5
  <2>2. [row EXCEPT !.label = label, !.total = total] \in Orders
    BY <1>1, MoneyIsNat DEF Orders
  <2> QED BY <2>1, <2>2, OpenKeeps DEF PatchOther, Kinds
<1>6. CASE \E total \in Money : SetPrices(p, total)
  BY <1>1, <1>6, MoneyIsNat, OpenKeeps DEF SetPrices, Kinds
<1>7. CASE Move(p)
  BY <1>1, <1>7, OpenKeeps DEF Move, Kinds
<1> QED BY <1>2, <1>3, <1>4, <1>5, <1>6, <1>7 DEF Begin

\* A request that is only summing the rows owes nothing before or after.
LEMMA SumRowsKeeps ==
  ASSUME LedgerInv, NEW p \in Requests, SumRows(p)
  PROVE  LedgerInv'
<1> DEFINE new == [req[p] EXCEPT !.at = "summed", !.seen = ledger + req[p].asked]
<1>1. req' = [req EXCEPT ![p] = new] /\ UNCHANGED <<row, ledger, high, raced>>
  BY RequestFacts DEF SumRows
<1>2. new \in ReqType
  <2>1. ledger + req[p].asked \in Nat /\ req[p] \in ReqType /\ "summed" \in Steps
    BY RequestFacts DEF Steps
  <2> QED BY <2>1, MovedOn
<1> HIDE DEF new
<1>3. LedgerTypeOK'
  <2>1. req' \in [Requests -> ReqType]
    BY <1>1, <1>2, RequestFacts
  <2> QED BY <1>1, <2>1 DEF LedgerInv, LedgerTypeOK, ReqType
<1>4. ASSUME NEW q \in Requests, Owes(q)
      PROVE  Owes(q)'
  <2>1. q # p
    BY <1>4 DEF Owes, SumRows
  <2>2. req'[q] = req[q]
    BY <1>1, <2>1, RequestFacts
  <2> QED BY <1>1, <1>4, <2>2 DEF Owes
<1> QED BY <1>1, <1>3, <1>4 DEF LedgerInv, Accounted

\* Comparing settles the debt, or fixes the amount that will.
LEMMA CompareKeeps ==
  ASSUME LedgerInv, NEW p \in Requests, Compare(p)
  PROVE  LedgerInv'
<1>1. UNCHANGED <<row, ledger, high, raced>> /\ req[p].at = "saved"
  BY DEF Compare
<1>2. PICK new \in ReqType :
        /\ req' = [req EXCEPT ![p] = new]
        /\ req[p].order.paid <= ledger \/ (new.at = "counted" /\ ledger + new.seen = req[p].order.paid)
  <2>1. CASE req[p].order.paid > ledger
    <3>1. PICK gap \in Nat : gap = req[p].order.paid - ledger
      BY <2>1, RequestFacts
    <3> DEFINE new == [req[p] EXCEPT !.at = "counted", !.seen = gap]
    <3>2. req' = [req EXCEPT ![p] = new]
      BY <2>1, <3>1 DEF Compare
    <3>3. req[p] \in ReqType /\ "counted" \in Steps
      BY RequestFacts DEF Steps
    <3>4. new \in ReqType
      BY <3>1, <3>3, MovedOn
    <3>5. new.at = "counted" /\ new.seen = gap
      BY <3>3 DEF ReqType
    <3>6. ledger + gap = req[p].order.paid
      BY <3>1, RequestFacts
    <3> HIDE DEF new
    <3> QED BY <3>2, <3>4, <3>5, <3>6
  <2>2. CASE ~(req[p].order.paid > ledger)
    <3>1. req' = [req EXCEPT ![p] = Synced(req[p])]
      BY <2>2 DEF Compare
    <3>2. Synced(req[p]) \in ReqType
      BY OverIsARequest, RequestFacts DEF Synced, ReqType, Steps
    <3>3. req[p].order.paid <= ledger
      BY <2>2, RequestFacts
    <3> QED BY <3>1, <3>2, <3>3
  <2> QED BY <2>1, <2>2
<1>3. LedgerTypeOK'
  <2>1. req' \in [Requests -> ReqType]
    BY <1>2, RequestFacts
  <2> QED BY <1>1, <2>1 DEF LedgerInv, LedgerTypeOK, ReqType
<1>4. ASSUME NEW q \in Requests, Owes(q)
      PROVE  high <= ledger \/ Owes(q)'
  <2>1. CASE q = p
    <3>1. high <= req[p].order.paid
      BY <1>1, <1>4, <2>1 DEF Owes
    <3>2. req'[p] = new
      BY <1>2, RequestFacts
    <3> QED BY <1>1, <1>2, <2>1, <3>1, <3>2, RequestFacts DEF Owes
  <2>2. CASE q # p
    <3>1. req'[q] = req[q]
      BY <1>2, <2>2, RequestFacts
    <3> QED BY <1>1, <1>4, <3>1 DEF Owes
  <2> QED BY <2>1, <2>2
<1> QED BY <1>1, <1>3, <1>4 DEF LedgerInv, Accounted

\* Writing the row settles the writer's debt and lets nobody else off.
LEMMA MirrorKeeps ==
  ASSUME LedgerInv, NEW p \in Requests, Mirror(p)
  PROVE  LedgerInv'
<1>1. /\ req[p].at = "counted" /\ ledger' = ledger + req[p].seen
      /\ req' = [req EXCEPT ![p] = Synced(req[p])] /\ UNCHANGED <<row, high, raced>>
  BY DEF Mirror
<1>2. Synced(req[p]) \in ReqType
  BY OverIsARequest, RequestFacts DEF Synced, ReqType, Steps
<1>3. LedgerTypeOK'
  <2>1. req' \in [Requests -> ReqType]
    BY <1>1, <1>2, RequestFacts
  <2>2. ledger' \in Nat
    BY <1>1, RequestFacts
  <2> QED BY <1>1, <2>1, <2>2 DEF LedgerInv, LedgerTypeOK, ReqType
<1>4. ASSUME NEW q \in Requests, Owes(q)
      PROVE  high <= ledger' \/ Owes(q)'
  <2>1. CASE q = p
    BY <1>1, <1>4, <2>1 DEF Owes
  <2>2. CASE q # p
    <3>1. req'[q] = req[q] /\ req[q].seen \in Nat
      BY <1>1, <2>2, RequestFacts DEF ReqType
    <3> QED BY <1>1, <1>4, <3>1, RequestFacts DEF Owes
  <2> QED BY <2>1, <2>2
<1>5. high <= ledger => high <= ledger'
  BY <1>1, RequestFacts
<1> QED BY <1>1, <1>3, <1>4, <1>5 DEF LedgerInv, Accounted

LEMMA ContinueKeeps ==
  ASSUME LedgerInv, NEW p \in Requests, Continue(p)
  PROVE  LedgerInv'
<1>1. CASE SaveWhole(p)
  BY <1>1, LandKeeps, RequestFacts DEF SaveWhole
<1>2. CASE Reconcile(p)
  <2> DEFINE r     == req[p]
             paid  == Settled(r)
             label == Standing(r.order.pending, paid, r.order.total)
  <2>1. paid \in Nat /\ label \in Labels
    BY SettledIsNat, LabelsAreLabels, RequestFacts
  <2>2. /\ WithPaid(r.order, paid, label) \in Orders /\ WithPaid(row, paid, label) \in Orders
        /\ WithPaid(row, paid, label).paid = WithPaid(r.order, paid, label).paid
    BY <2>1, RequestFacts DEF WithPaid, Orders
  <2>3. /\ req[p].at = "reconcile" /\ UNCHANGED <<ledger, raced>>
        /\ Land(p, WithPaid(r.order, paid, label), WithPaid(row, paid, label), "idle")
    BY <1>2 DEF Reconcile
  <2> QED BY <2>2, <2>3, LandKeeps, RequestFacts
<1>3. CASE SumRows(p)
  BY <1>3, SumRowsKeeps
<1>4. CASE Record(p)
  <2> DEFINE r     == req[p]
             paid  == Lesser(r.seen, r.order.total)
             label == LabelOf(paid, r.order.total)
  <2>1. paid \in Nat /\ label \in Labels
    BY LabelsAreLabels, RequestFacts DEF Lesser
  <2>2. /\ WithPaid(r.order, paid, label) \in Orders /\ WithPaid(row, paid, label) \in Orders
        /\ WithPaid(row, paid, label).paid = WithPaid(r.order, paid, label).paid
    BY <2>1, RequestFacts DEF WithPaid, Orders
  <2>3. /\ req[p].at = "summed" /\ ledger' = ledger + r.asked /\ raced' = raced
        /\ Land(p, WithPaid(r.order, paid, label), WithPaid(row, paid, label), "idle")
    BY <1>4 DEF Record
  <2>4. ledger' \in Nat /\ ledger <= ledger'
    BY <2>3, RequestFacts
  <2> QED BY <2>2, <2>3, <2>4, LandKeeps
<1>5. CASE CommitPrices(p)
  <2> DEFINE order == Priced(req[p].order, req[p].asked)
  <2>1. order \in Orders
    BY LabelsAreLabels, RequestFacts DEF Priced, Lesser, Orders
  <2>2. /\ req[p].at = "loaded" /\ UNCHANGED <<ledger, raced>> /\ Land(p, order, order, "idle")
    BY <1>5 DEF CommitPrices
  <2> QED BY <2>1, <2>2, LandKeeps, RequestFacts
<1>6. CASE Compare(p)
  BY <1>6, CompareKeeps
<1>7. CASE Mirror(p)
  BY <1>7, MirrorKeeps
<1> QED BY <1>1, <1>2, <1>3, <1>4, <1>5, <1>6, <1>7 DEF Continue

LEMMA LedgerInitHolds == LedgerInit => LedgerInv
<1> SUFFICES ASSUME LedgerInit PROVE LedgerInv
  OBVIOUS
<1>1. PICK pending \in BOOLEAN, advance \in Money, total \in Money :
        LET paid == Advance(pending, advance, total) IN
        /\ row = [paid |-> paid, label |-> Standing(pending, paid, total),
                  total |-> total, pending |-> pending]
        /\ ledger = paid /\ high = paid
  BY DEF LedgerInit
<1>2. Advance(pending, advance, total) \in Nat /\ total \in Nat
  BY MoneyIsNat DEF Advance, Lesser
<1>3. row \in Orders /\ ledger \in Nat /\ high = ledger
  BY <1>1, <1>2, LabelsAreLabels DEF Orders
<1>4. req \in [Requests -> ReqType] /\ raced \in BOOLEAN
  BY OverIsARequest DEF LedgerInit
<1> QED BY <1>3, <1>4 DEF LedgerInv, LedgerTypeOK, Accounted, ReqType

\* The dated rows account for the most the order has ever said it was paid, or some
\* request is still bound to write what they lack: sync_from_order after every commit.
THEOREM LedgerInvAlways == LedgerSpec => []LedgerInv
<1>1. LedgerInit => LedgerInv
  BY LedgerInitHolds
<1>2. LedgerInv /\ [LedgerNext]_ledgerVars => LedgerInv'
  <2> SUFFICES ASSUME LedgerInv, [LedgerNext]_ledgerVars PROVE LedgerInv'
    OBVIOUS
  <2>1. CASE LedgerNext
    BY <2>1, BeginKeeps, ContinueKeeps DEF LedgerNext
  <2>2. CASE UNCHANGED ledgerVars
    BY <2>2 DEF ledgerVars, LedgerInv, LedgerTypeOK, Accounted, Owes
  <2> QED BY <2>1, <2>2
<1> QED BY <1>1, <1>2, PTL DEF LedgerSpec

\* Once every request is done, no money is missing from the dated rows, for any number
\* of requests and any amounts ("one receiver on the model catches all of them").
THEOREM NothingIsLost == LedgerSpec => []NoMoneyUnledgered
<1>1. LedgerInv => NoMoneyUnledgered
  BY DEF LedgerInv, Accounted, NoMoneyUnledgered, AtRest, Idle, Owes
<1> QED BY <1>1, LedgerInvAlways, PTL

-----------------------------------------------------------------------------
(* Requests one after another *)

\* The order's status and what was paid agree with its total, once that is decided.
Balanced(order) ==
  ~order.pending => order.paid <= order.total /\ order.label = LabelOf(order.paid, order.total)

\* What is still to come leaves the row in agreement: it agrees already, or the PATCH
\* goes on to _reconcile_payment with the row as its copy.
LeftBalanced(r) == IF r.then = "idle" THEN Balanced(row) ELSE r.order = row

\* What the only request at work has got to, and how the rows stand meanwhile.
OnCourse(r) ==
  \/ /\ r.at = "loaded" /\ ledger = high /\ Balanced(row)
     /\ r.kind \in {"move", "record", "prices"} => r.order = row
     /\ r.kind = "record" => ledger + r.asked <= row.total
  \/ r.at = "summed" /\ ledger = high /\ r.seen = ledger + r.asked /\ r.order = row
       /\ r.seen <= row.total
  \/ r.at = "saved" /\ high = Greater(ledger, r.order.paid) /\ LeftBalanced(r)
  \/ r.at = "counted" /\ high = ledger + r.seen /\ LeftBalanced(r)
  \/ r.at = "reconcile" /\ ledger = high /\ r.order = row

OthersIdle(p) == \A q \in Requests \ {p} : Idle(q)

Quiet   == AtRest /\ ledger = high /\ Balanced(row)
Busy(p) == ~Idle(p) /\ OthersIdle(p) /\ OnCourse(req[p])

\* As long as no two requests have been under way at once, nobody is at work and the
\* rows, the amount and the status agree, or one request is on course to that.
OneAfterAnother == raced \/ Quiet \/ \E p \in Requests : Busy(p)


\* With no two at once, a request that is under way is the only one.
LEMMA OnlyOneBusy ==
  ASSUME NEW p \in Requests, ~Idle(p), OneAfterAnother, ~raced
  PROVE  Busy(p)
BY DEF OneAfterAnother, Quiet, AtRest, Busy, OthersIdle

\* A request begins by itself, with the row as it is, or makes it two at once.
LEMMA OpenAlone ==
  ASSUME LedgerInv, OneAfterAnother, NEW p \in Requests, NEW kind \in Kinds,
         NEW order, NEW asked, Open(p, kind, order, asked),
         kind \in {"move", "record", "prices"} => order = row,
         kind = "record" => ledger + asked <= row.total
  PROVE  OneAfterAnother'
<1> DEFINE new == [at |-> "loaded", kind |-> kind, order |-> order, asked |-> asked,
                   seen |-> 0, then |-> "idle"]
<1>1. /\ req' = [req EXCEPT ![p] = new] /\ UNCHANGED <<row, ledger, high>> /\ Idle(p)
      /\ raced' = (raced \/ \E q \in Requests \ {p} : ~Idle(q))
  BY DEF Open
<1>2. req'[p] = new /\ \A q \in Requests \ {p} : req'[q] = req[q]
  BY <1>1, RequestFacts
<1>3. CASE raced'
  BY <1>3 DEF OneAfterAnother
<1>4. CASE ~raced'
  <2>1. ~raced /\ \A q \in Requests \ {p} : Idle(q)
    BY <1>1, <1>4
  <2>2. Quiet
    BY <1>1, <2>1 DEF OneAfterAnother, Busy
  <2>3. ~Idle(p)' /\ OthersIdle(p)'
    BY <1>2, <2>1 DEF Idle, OthersIdle
  <2>4. /\ new.at = "loaded" /\ ledger' = high' /\ Balanced(row')
        /\ new.kind \in {"move", "record", "prices"} => new.order = row'
        /\ new.kind = "record" => ledger' + new.asked <= row'.total
    BY <1>1, <2>2 DEF Quiet
  <2> HIDE DEF new
  <2>5. OnCourse(req[p])'
    BY <1>2, <2>4 DEF OnCourse
  <2> QED BY <2>3, <2>5 DEF OneAfterAnother, Busy
<1> QED BY <1>3, <1>4

\* A commit by the only request leaves the rows behind by exactly what its copy says
\* more, and the row in agreement or about to be reconciled.
LEMMA LandAlone ==
  ASSUME LedgerInv, NEW p \in Requests, Busy(p), NEW order, NEW landed,
         NEW then \in {"idle", "reconcile"}, Land(p, order, landed, then),
         high' = Greater(ledger', order.paid),
         IF then = "idle" THEN Balanced(landed) ELSE order = landed
  PROVE  OneAfterAnother'
<1> DEFINE r   == IF then = "idle" THEN Over ELSE req[p]
           new == [r EXCEPT !.at = "saved", !.order = order, !.then = then]
<1>1. row' = landed /\ req' = [req EXCEPT ![p] = new]
  BY DEF Land
<1>2. new.at = "saved" /\ new.order = order /\ new.then = then
  <2>1. r \in ReqType
    BY OverIsARequest, RequestFacts
  <2> QED BY <2>1 DEF ReqType
<1> HIDE DEF new
<1>3. req'[p] = new /\ \A q \in Requests \ {p} : req'[q] = req[q]
  BY <1>1, RequestFacts
<1>4. ~Idle(p)' /\ OthersIdle(p)'
  BY <1>2, <1>3 DEF Idle, OthersIdle, Busy
<1>5. LeftBalanced(req[p])'
  BY <1>1, <1>2, <1>3 DEF LeftBalanced, Balanced
<1>6. OnCourse(req[p])'
  BY <1>2, <1>3, <1>5 DEF OnCourse
<1> QED BY <1>4, <1>6 DEF OneAfterAnother, Busy

\* Once its rows are written the only request is over, and everything agrees, or it goes
\* on to reconcile the row it has just saved.
LEMMA SyncedAlone ==
  ASSUME LedgerInv, NEW p \in Requests, Busy(p), req[p].at # "idle",
         LeftBalanced(req[p]), row' = row, ledger' = high',
         req' = [req EXCEPT ![p] = Synced(req[p])]
  PROVE  OneAfterAnother'
<1>1. req'[p] = Synced(req[p]) /\ \A q \in Requests \ {p} : req'[q] = req[q]
  BY RequestFacts
<1>2. CASE req[p].then = "idle"
  <2>1. req'[p].at = "idle"
    BY <1>1, <1>2 DEF Synced, Over
  <2>2. AtRest'
    BY <1>1, <2>1 DEF AtRest, Idle, Busy, OthersIdle
  <2>3. Balanced(row)'
    BY <1>2 DEF LeftBalanced, Balanced
  <2> QED BY <2>2, <2>3 DEF OneAfterAnother, Quiet
<1>3. CASE req[p].then # "idle"
  <2>1. /\ req'[p] = [req[p] EXCEPT !.at = "reconcile", !.seen = 0]
        /\ req[p] \in ReqType
    BY <1>1, <1>3, RequestFacts DEF Synced
  <2>2. req'[p].at = "reconcile" /\ req'[p].order = req[p].order
    BY <2>1 DEF ReqType
  <2>3. ~Idle(p)' /\ OthersIdle(p)'
    BY <1>1, <2>2 DEF Idle, OthersIdle, Busy
  <2>4. OnCourse(req[p])'
    BY <1>3, <2>2 DEF OnCourse, LeftBalanced
  <2> QED BY <2>3, <2>4 DEF OneAfterAnother, Busy
<1> QED BY <1>2, <1>3

LEMMA BeginAlone ==
  ASSUME LedgerInv, OneAfterAnother, NEW p \in Requests, Begin(p)
  PROVE  OneAfterAnother'
<1> USE OpenAlone DEF Kinds
<1>1. CASE \E amount \in Money : PatchAmount(p, amount)
  BY <1>1 DEF PatchAmount
<1>2. CASE \E amount \in Money : PatchAdvance(p, amount)
  BY <1>2 DEF PatchAdvance
<1>3. CASE \E amount \in Money : EnterPayment(p, amount)
  BY <1>3 DEF EnterPayment, Unpaid
<1>4. CASE \E label \in Labels, total \in Money : PatchOther(p, label, total)
  BY <1>4 DEF PatchOther
<1>5. CASE \E total \in Money : SetPrices(p, total)
  BY <1>5 DEF SetPrices
<1>6. CASE Move(p)
  BY <1>6 DEF Move
<1> QED BY <1>1, <1>2, <1>3, <1>4, <1>5, <1>6 DEF Begin

LEMMA ContinueAlone ==
  ASSUME LedgerInv, OneAfterAnother, ~raced, NEW p \in Requests, Continue(p)
  PROVE  OneAfterAnother'
<1>0. Busy(p) /\ ~Idle(p) /\ OnCourse(req[p])
  <2>1. ~Idle(p)
    BY DEF Continue, SaveWhole, Reconcile, SumRows, Record, CommitPrices, Compare, Mirror, Idle
  <2> QED BY <2>1, OnlyOneBusy DEF Busy
<1> DEFINE r == req[p]
<1>1. CASE SaveWhole(p)
  <2> DEFINE then == IF r.kind = "move" THEN "idle" ELSE "reconcile"
  <2>1. /\ r.at = "loaded" /\ Land(p, r.order, r.order, then) /\ UNCHANGED <<ledger, raced>>
    BY <1>1 DEF SaveWhole
  <2>2. /\ ledger = high /\ Balanced(row) /\ (r.kind = "move" => r.order = row)
    BY <1>0, <2>1 DEF OnCourse
  <2>3. high' = Greater(ledger', r.order.paid)
    BY <2>1, <2>2 DEF Land
  <2>4. IF then = "idle" THEN Balanced(r.order) ELSE r.order = r.order
    BY <2>2
  <2>5. then \in {"idle", "reconcile"}
    OBVIOUS
  <2> HIDE DEF then
  <2> QED BY <1>0, <2>1, <2>3, <2>4, <2>5, LandAlone
<1>2. CASE Reconcile(p)
  <2> DEFINE paid  == Settled(r)
             label == Standing(r.order.pending, paid, r.order.total)
  <2>1. /\ r.at = "reconcile" /\ UNCHANGED <<ledger, raced>>
        /\ Land(p, WithPaid(r.order, paid, label), WithPaid(row, paid, label), "idle")
    BY <1>2 DEF Reconcile
  <2>2. ledger = high /\ r.order = row
    BY <1>0, <2>1 DEF OnCourse
  <2>3. paid \in Nat /\ row \in Orders
    BY SettledIsNat, RequestFacts
  <2>4. ~row.pending => paid <= row.total /\ label = LabelOf(paid, row.total)
    <3>1. ASSUME ~row.pending PROVE paid <= row.total
      <4>1. paid = Lesser(Intended(r), row.total)
        BY <2>2, <3>1 DEF Settled
      <4>2. Intended(r) \in Nat /\ row.total \in Nat
        BY IntendedIsNat, RequestFacts DEF Orders
      <4> QED BY <4>1, <4>2 DEF Lesser
    <3> QED BY <2>2, <3>1 DEF Standing
  <2> HIDE DEF paid, label
  <2>5. WithPaid(row, paid, label).paid = paid /\ WithPaid(row, paid, label).label = label
        /\ WithPaid(row, paid, label).total = row.total
        /\ WithPaid(row, paid, label).pending = row.pending
    BY <2>3 DEF WithPaid, Orders
  <2>6. Balanced(WithPaid(row, paid, label))
    BY <2>4, <2>5 DEF Balanced
  <2>7. high' = Greater(ledger', WithPaid(r.order, paid, label).paid)
    BY <2>1, <2>2 DEF Land
  <2> QED BY <1>0, <2>1, <2>6, <2>7, LandAlone
<1>3. CASE SumRows(p)
  <2>1. /\ r.at = "loaded" /\ r.kind = "record" /\ UNCHANGED <<row, ledger, high, raced>>
        /\ req' = [req EXCEPT ![p] = [req[p] EXCEPT !.at = "summed", !.seen = ledger + req[p].asked]]
    BY <1>3, RequestFacts DEF SumRows
  <2>2. /\ req'[p] = [r EXCEPT !.at = "summed", !.seen = ledger + r.asked]
        /\ \A q \in Requests \ {p} : req'[q] = req[q]
    BY <2>1, RequestFacts
  <2>3. /\ req'[p].at = "summed" /\ req'[p].seen = ledger + r.asked
        /\ req'[p].asked = r.asked /\ req'[p].order = r.order
    BY <2>2, RequestFacts DEF ReqType
  <2>4. ledger = high /\ r.order = row /\ ledger + r.asked <= row.total
    BY <1>0, <2>1 DEF OnCourse
  <2>5. OnCourse(req[p])'
    BY <2>1, <2>3, <2>4 DEF OnCourse
  <2>6. ~Idle(p)' /\ OthersIdle(p)'
    BY <1>0, <2>2, <2>3 DEF Idle, OthersIdle, Busy
  <2> QED BY <2>5, <2>6 DEF OneAfterAnother, Busy
<1>4. CASE Record(p)
  <2> DEFINE paid  == Lesser(r.seen, r.order.total)
             label == LabelOf(paid, r.order.total)
  <2>1. /\ r.at = "summed" /\ ledger' = ledger + r.asked /\ raced' = raced
        /\ Land(p, WithPaid(r.order, paid, label), WithPaid(row, paid, label), "idle")
    BY <1>4 DEF Record
  <2>2. /\ ledger = high /\ r.seen = ledger + r.asked /\ r.order = row /\ r.seen <= row.total
    BY <1>0, <2>1 DEF OnCourse
  <2>3. paid = r.seen /\ label = LabelOf(paid, row.total)
    BY <2>2, RequestFacts DEF Lesser
  <2>4. row \in Orders /\ paid <= row.total /\ paid \in Nat
    BY <2>2, <2>3, RequestFacts
  <2> HIDE DEF paid, label
  <2>5. WithPaid(row, paid, label).paid = paid /\ WithPaid(row, paid, label).label = label
        /\ WithPaid(row, paid, label).total = row.total
    BY <2>4 DEF WithPaid, Orders
  <2>6. Balanced(WithPaid(row, paid, label))
    BY <2>3, <2>4, <2>5 DEF Balanced
  <2>7. ledger' = paid /\ high' = Greater(high, paid) /\ high <= paid
    BY <2>1, <2>2, <2>3, <2>5, RequestFacts DEF Land
  <2>8. high' = Greater(ledger', WithPaid(r.order, paid, label).paid)
    <3>1. WithPaid(r.order, paid, label).paid = paid
      BY <2>2, <2>5
    <3>2. high' = paid
      BY <2>4, <2>7, RequestFacts DEF Greater
    <3> QED BY <2>7, <3>1, <3>2 DEF Greater
  <2> QED BY <1>0, <2>1, <2>6, <2>8, LandAlone
<1>5. CASE CommitPrices(p)
  <2> DEFINE order == Priced(r.order, r.asked)
  <2>1. /\ r.at = "loaded" /\ UNCHANGED <<ledger, raced>> /\ Land(p, order, order, "idle")
    BY <1>5 DEF CommitPrices
  <2>2. high' = Greater(ledger', order.paid)
    BY <1>0, <2>1 DEF Land, OnCourse
  <2>3. Balanced(order)
    <3>1. Lesser(r.order.paid, r.asked) <= r.asked
      BY RequestFacts DEF Lesser
    <3> QED BY <3>1 DEF Priced, Balanced
  <2> HIDE DEF order
  <2> QED BY <1>0, <2>1, <2>2, <2>3, LandAlone
<1>6. CASE Compare(p)
  <2>1. /\ r.at = "saved" /\ UNCHANGED <<row, ledger, high, raced>>
    BY <1>6 DEF Compare
  <2>2. high = Greater(ledger, r.order.paid) /\ LeftBalanced(r)
    BY <1>0, <2>1 DEF OnCourse
  <2>3. CASE r.order.paid > ledger
    <3>1. /\ req'[p] = [r EXCEPT !.at = "counted", !.seen = r.order.paid - ledger]
          /\ \A q \in Requests \ {p} : req'[q] = req[q]
      BY <1>6, <2>3, RequestFacts DEF Compare
    <3>2. /\ req'[p].at = "counted" /\ req'[p].seen = r.order.paid - ledger
          /\ req'[p].order = r.order /\ req'[p].then = r.then
      BY <3>1, RequestFacts DEF ReqType
    <3>3. high = ledger + (r.order.paid - ledger)
      BY <2>2, <2>3, RequestFacts DEF Greater
    <3>4. OnCourse(req[p])'
      BY <2>1, <2>2, <3>2, <3>3 DEF OnCourse, LeftBalanced
    <3>5. ~Idle(p)' /\ OthersIdle(p)'
      BY <1>0, <3>1, <3>2 DEF Idle, OthersIdle, Busy
    <3> QED BY <3>4, <3>5 DEF OneAfterAnother, Busy
  <2>4. CASE ~(r.order.paid > ledger)
    <3>1. req' = [req EXCEPT ![p] = Synced(req[p])]
      BY <1>6, <2>4 DEF Compare
    <3>2. high = ledger
      BY <2>2, <2>4, RequestFacts DEF Greater
    <3> QED BY <1>0, <2>1, <2>2, <3>1, <3>2, SyncedAlone
  <2> QED BY <2>3, <2>4
<1>7. CASE Mirror(p)
  <2>1. /\ r.at = "counted" /\ UNCHANGED <<row, high, raced>> /\ ledger' = ledger + r.seen
        /\ req' = [req EXCEPT ![p] = Synced(req[p])]
    BY <1>7 DEF Mirror
  <2>2. high = ledger + r.seen /\ LeftBalanced(r)
    BY <1>0, <2>1 DEF OnCourse
  <2> QED BY <1>0, <2>1, <2>2, SyncedAlone
<1> QED BY <1>1, <1>2, <1>3, <1>4, <1>5, <1>6, <1>7 DEF Continue

LEMMA BeginsQuiet == LedgerInit => OneAfterAnother
<1> SUFFICES ASSUME LedgerInit PROVE Quiet
  BY DEF OneAfterAnother
<1>1. PICK pending \in BOOLEAN, advance \in Money, total \in Money :
        LET paid == Advance(pending, advance, total) IN
        /\ row = [paid |-> paid, label |-> Standing(pending, paid, total),
                  total |-> total, pending |-> pending]
        /\ ledger = paid /\ high = paid
  BY DEF LedgerInit
<1>2. ~pending => Advance(pending, advance, total) <= total
  BY MoneyIsNat DEF Advance, Lesser
<1>3. Balanced(row)
  BY <1>1, <1>2 DEF Balanced, Standing
<1>4. AtRest
  BY DEF LedgerInit, AtRest, Idle, Over
<1> QED BY <1>1, <1>3, <1>4 DEF Quiet

LEMMA OneAfterAnotherInductive ==
  ASSUME LedgerInv, OneAfterAnother, [LedgerNext]_ledgerVars
  PROVE  OneAfterAnother'
<1>1. CASE UNCHANGED ledgerVars
  BY <1>1 DEF ledgerVars, OneAfterAnother, Quiet, Busy, AtRest, OthersIdle, Idle, OnCourse,
              LeftBalanced, Balanced
<1>2. ASSUME NEW p \in Requests, Begin(p) PROVE OneAfterAnother'
  BY <1>2, BeginAlone
<1>3. ASSUME NEW p \in Requests, Continue(p) PROVE OneAfterAnother'
  <2>1. CASE raced
    <3>1. raced' = raced
      BY <1>3 DEF Continue, SaveWhole, Reconcile, SumRows, Record, CommitPrices, Compare, Mirror
    <3> QED BY <2>1, <3>1 DEF OneAfterAnother
  <2>2. CASE ~raced
    BY <1>3, <2>2, ContinueAlone
  <2> QED BY <2>1, <2>2
<1> QED BY <1>1, <1>2, <1>3 DEF LedgerNext

\* Whatever mix of patches, prices, payments and stage moves comes one after another, the
\* dated rows come to exactly the most the order has said, and its status and amount
\* agree with its total; for any requests and amounts.
THEOREM AloneIsExact == LedgerSpec => []ExactWhenAlone
<1>1. LedgerInit => OneAfterAnother
  BY BeginsQuiet
<1>2. LedgerInv /\ OneAfterAnother /\ [LedgerNext]_ledgerVars => OneAfterAnother'
  BY OneAfterAnotherInductive
<1>3. OneAfterAnother => ExactWhenAlone
  BY DEF OneAfterAnother, Quiet, Busy, AtRest, Balanced, ExactWhenAlone, NothingLedgeredTwice,
         LabelTellsTheBalance
<1> QED BY <1>1, <1>2, <1>3, LedgerInvAlways, PTL DEF LedgerSpec

-----------------------------------------------------------------------------
(* PAY *)

\* A week is approved together with its payslip, and holds no row before.
WeekStands(w) ==
  /\ Frozen(w) => period[w] = "APPROVED"
  /\ slip[w].status = "DRAFT" => period[w] = "DRAFT"
  /\ slip[w].status = "NONE" => slip[w] = NoSlip
  /\ slip[w].repay > 0 => slip[w].from # 0
  /\ w \in approving => period[w] = "DRAFT"
  /\ depositRow[w] > 0 => Frozen(w) /\ depositRow[w] = slip[w].deposit
  /\ advanceRow[w] = IF Frozen(w) /\ slip[w].repay > 0
                     THEN [from |-> slip[w].from, amount |-> slip[w].repay] ELSE NoRow
  /\ slip[w].deposit + slip[w].repay <= Gross(slip[w])

PayInv == TypeOK /\ AdvancesAreRepaidOnce /\ \A w \in Weeks : WeekStands(w)

-----------------------------------------------------------------------------
(* Lemmas about the figures *)

LEMMA SmallestOf ==
  ASSUME NEW T \in SUBSET Nat, T # {}
  PROVE  \E a \in T : \A b \in T : a <= b
<1> DEFINE F == {0 .. a : a \in T}
<1>1. F \subseteq FiniteSubsetsOf(Nat)
  <2>1. \A a \in T : 0 .. a \in SUBSET Nat /\ IsFiniteSet(0 .. a)
    BY FS_Interval
  <2> QED BY <2>1 DEF FiniteSubsetsOf
<1>2. PICK I \in F : \A J \in F : ~ (<<J, I>> \in StrictSubsetOrdering(Nat))
  <2>1. F # {}
    OBVIOUS
  <2>2. IsWellFoundedOn(StrictSubsetOrdering(Nat), FiniteSubsetsOf(Nat))
    BY FS_StrictSubsetOrderingWellFounded
  <2> HIDE DEF F
  <2> QED BY <1>1, <2>1, <2>2, WFMin
<1>3. PICK a \in T : I = 0 .. a
  BY <1>2
<1>4. ASSUME NEW b \in T, b < a
      PROVE  FALSE
  <2>1. 0 .. b \subseteq 0 .. a /\ a \in 0 .. a /\ a \notin 0 .. b
    BY <1>4
  <2>2. <<0 .. b, 0 .. a>> \in StrictSubsetOrdering(Nat)
    BY <2>1 DEF StrictSubsetOrdering
  <2> QED BY <1>2, <1>3, <2>2
<1> QED BY <1>4

LEMMA OldestIsOne ==
  ASSUME BeingRepaid # {}
  PROVE  Oldest \in BeingRepaid
<1>1. BeingRepaid \in SUBSET Nat
  BY PayrollAssumption DEF BeingRepaid
<1> QED BY <1>1, SmallestOf, Zenon DEF Oldest

LEMMA NothingNegative ==
  ASSUME TypeOK
  PROVE  Remaining \in Nat /\ \A a \in Advances : Owed(a) \in Nat /\ loan[a].weekly \in Nat
<1>1. terms.agreed \in Nat /\ recovered \in Nat
  BY PayrollAssumption DEF TypeOK
<1>2. \A a \in Advances : loan[a].amount \in Nat /\ loan[a].weekly \in Nat /\ repaid[a] \in Nat
  BY DEF TypeOK
<1> QED BY <1>1, <1>2 DEF Remaining, Owed, Most

LEMMA ProductIsNat == \A m, n \in Nat : m * n \in Nat
OBVIOUS

LEMMA DraftFigures ==
  ASSUME TypeOK, NEW w \in Weeks
  PROVE  /\ Draft(w) \in Slips /\ Draft(w).status \in {"NONE", "DRAFT"}
         /\ Draft(w).status = "NONE" => Draft(w) = NoSlip
         /\ Draft(w).repay > 0 => Draft(w).from # 0
         /\ Draft(w).deposit + Draft(w).repay <= Gross(Draft(w))
<1> DEFINE gross == rate * Cardinality(Worked(w))
           deposit == DepositDue(gross)
           advance == AdvanceDue(gross, deposit)
<1>1. gross \in Nat /\ rate \in Nat /\ Worked(w) \in SUBSET Sessions
  <2>1. Worked(w) \in SUBSET Sessions
    BY DEF Worked
  <2>2. Cardinality(Worked(w)) \in Nat
    BY <2>1, PayrollAssumption, FS_Subset, FS_CardinalityType
  <2>3. rate \in Nat
    BY PayrollAssumption DEF TypeOK
  <2> QED BY <2>1, <2>2, <2>3, ProductIsNat
<1>2. CASE Worked(w) = {}
  <2>1. Draft(w) = NoSlip
    BY <1>2 DEF Draft
  <2>2. NoSlip \in Slips /\ NoSlip.status = "NONE"
    BY DEF NoSlip, Slips
  <2>3. Gross(NoSlip) = 0
    BY FS_EmptySet DEF Gross, NoSlip
  <2> QED BY <2>1, <2>2, <2>3 DEF NoSlip
<1>3. CASE Worked(w) # {}
  <2> HIDE DEF gross
  <2>1. deposit \in Nat /\ deposit <= gross
    <3>1. terms.weekly \in Nat
      BY PayrollAssumption DEF TypeOK
    <3> QED BY <1>1, <3>1, NothingNegative DEF DepositDue, Least
  <2> HIDE DEF deposit
  <2>2. /\ advance.from \in Advances \cup {0} /\ advance.amount \in Nat
        /\ advance.amount <= gross - deposit
        /\ advance.amount > 0 => advance.from # 0
    <3>1. CASE BeingRepaid = {}
      BY <1>1, <2>1, <3>1 DEF AdvanceDue, NoRow
    <3>2. CASE BeingRepaid # {}
      <4>1. Oldest \in Advances /\ Oldest # 0
        BY <3>2, OldestIsOne, PayrollAssumption DEF BeingRepaid
      <4>2. Owed(Oldest) \in Nat /\ loan[Oldest].weekly \in Nat
        BY <4>1, NothingNegative
      <4>3. advance = [from |-> Oldest,
                       amount |-> Least(Least(loan[Oldest].weekly, Owed(Oldest)), gross - deposit)]
        BY <3>2 DEF AdvanceDue
      <4> QED BY <1>1, <2>1, <4>1, <4>2, <4>3 DEF Least
    <3> QED BY <3>1, <3>2
  <2> HIDE DEF advance
  <2>3. Draft(w) = [status |-> "DRAFT", rate |-> rate, sessions |-> Worked(w),
                    deposit |-> deposit, from |-> advance.from, repay |-> advance.amount]
    BY <1>3 DEF Draft, gross, deposit, advance
  <2>4. Gross(Draft(w)) = gross
    BY <2>3 DEF Gross, gross
  <2> DEFINE s == [status |-> "DRAFT", rate |-> rate, sessions |-> Worked(w),
                   deposit |-> deposit, from |-> advance.from, repay |-> advance.amount]
  <2>5. s \in Slips /\ s.status = "DRAFT"
    BY <1>1, <2>1, <2>2 DEF Slips
  <2>6. s.repay > 0 => s.from # 0
    BY <2>2
  <2>7. s.deposit + s.repay <= gross
    BY <1>1, <2>1, <2>2
  <2> QED BY <2>3, <2>4, <2>5, <2>6, <2>7
<1> QED BY <1>2, <1>3

-----------------------------------------------------------------------------
(* Every step keeps the invariant *)

\* A week whose payslip, status and rows a step leaves alone, and whose approval it does
\* not begin, stands as it stood.
LEMMA LeftAlone ==
  ASSUME NEW w \in Weeks, WeekStands(w), slip'[w] = slip[w], period'[w] = period[w],
         depositRow'[w] = depositRow[w], advanceRow'[w] = advanceRow[w],
         w \in approving' => w \in approving
  PROVE  WeekStands(w)'
BY DEF WeekStands, Frozen, Gross

LEMMA InitStands == Init => PayInv
<1> SUFFICES ASSUME Init PROVE PayInv
  OBVIOUS
<1>1. NoSlip \in Slips /\ NoRow \in [from : Advances \cup {0}, amount : Nat]
  BY DEF NoSlip, NoRow, Slips
<1>2. TypeOK
  BY <1>1 DEF Init, TypeOK
<1>3. AdvancesAreRepaidOnce
  BY DEF Init, AdvancesAreRepaidOnce
<1>4. ASSUME NEW w \in Weeks PROVE WeekStands(w)
  <2>1. slip[w] = NoSlip /\ depositRow[w] = 0 /\ advanceRow[w] = NoRow /\ w \notin approving
    BY DEF Init
  <2>2. Gross(NoSlip) = 0
    BY FS_EmptySet DEF Gross, NoSlip
  <2> QED BY <2>1, <2>2 DEF WeekStands, Frozen, NoSlip
<1> QED BY <1>2, <1>3, <1>4 DEF PayInv

LEMMA GenerateStands ==
  ASSUME PayInv, NEW w \in Weeks, Generate(w)
  PROVE  PayInv'
<1>1. TypeOK /\ AdvancesAreRepaidOnce /\ \A v \in Weeks : WeekStands(v)
  BY DEF PayInv
<1> DEFINE s == Draft(w)
<1>3. /\ s \in Slips /\ s.status \in {"NONE", "DRAFT"}
      /\ s.status = "NONE" => s = NoSlip
      /\ s.repay > 0 => s.from # 0
      /\ s.deposit + s.repay <= Gross(s)
  BY <1>1, DraftFigures
<1> HIDE DEF s
<1>4. /\ slip' = [slip EXCEPT ![w] = s] /\ period' = [period EXCEPT ![w] = "DRAFT"]
      /\ w \notin approving /\ period[w] # "APPROVED"
      /\ UNCHANGED <<attendance, obligations, approving, rows>>
  BY DEF Generate, s
<1>5. TypeOK'
  BY <1>1, <1>3, <1>4 DEF TypeOK, attendance, obligations, rows
<1>6. AdvancesAreRepaidOnce'
  BY <1>1, <1>4 DEF AdvancesAreRepaidOnce, obligations, rows
<1>7. ASSUME NEW v \in Weeks PROVE WeekStands(v)'
  <2>1. CASE v = w
    <3>1. slip'[w] = s /\ period'[w] = "DRAFT" /\ w \notin approving'
      BY <1>1, <1>4 DEF TypeOK
    <3>2. ~ Frozen(w) /\ ~ (depositRow[w] > 0) /\ advanceRow[w] = NoRow
      BY <1>1, <1>4 DEF WeekStands
    <3> QED BY <1>3, <1>4, <2>1, <3>1, <3>2 DEF WeekStands, Frozen, Gross, rows
  <2>2. CASE v # w
    BY <1>1, <1>4, <2>2, LeftAlone DEF TypeOK, rows
  <2> QED BY <2>1, <2>2
<1> QED BY <1>5, <1>6, <1>7 DEF PayInv

LEMMA CheckStands ==
  ASSUME PayInv, NEW w \in Weeks, Check(w)
  PROVE  PayInv'
<1>1. TypeOK /\ AdvancesAreRepaidOnce /\ \A v \in Weeks : WeekStands(v)
  BY DEF PayInv
<1>2. /\ approving' = approving \cup {w} /\ period[w] = "DRAFT"
      /\ UNCHANGED <<attendance, obligations, period, slip, rows>>
  BY DEF Check
<1>3. TypeOK'
  BY <1>1, <1>2 DEF TypeOK, attendance, obligations, rows
<1>4. AdvancesAreRepaidOnce'
  BY <1>1, <1>2 DEF AdvancesAreRepaidOnce, obligations, rows
<1>5. ASSUME NEW v \in Weeks PROVE WeekStands(v)'
  BY <1>1, <1>2 DEF WeekStands, Frozen, Gross, rows
<1> QED BY <1>3, <1>4, <1>5 DEF PayInv

\* The step that moves the money.
LEMMA FreezeStands ==
  ASSUME PayInv, NEW w \in Weeks, Freeze(w)
  PROVE  PayInv'
<1>1. TypeOK /\ AdvancesAreRepaidOnce /\ \A v \in Weeks : WeekStands(v)
  BY DEF PayInv
<1> DEFINE s == slip[w]
<1>2. /\ w \in approving /\ Freezable(s)
      /\ depositRow' = IF Recovers(s) THEN [depositRow EXCEPT ![w] = s.deposit] ELSE depositRow
      /\ recovered' = IF Recovers(s) THEN recovered + s.deposit ELSE recovered
      /\ advanceRow' = IF Repays(s) THEN [advanceRow EXCEPT ![w] = [from |-> s.from, amount |-> s.repay]]
                       ELSE advanceRow
      /\ repaid' = IF Repays(s) THEN [repaid EXCEPT ![s.from] = @ + s.repay] ELSE repaid
      /\ slip' = IF s = NoSlip THEN slip ELSE [slip EXCEPT ![w].status = "APPROVED"]
      /\ period' = [period EXCEPT ![w] = "APPROVED"]
      /\ approving' = approving \ {w}
      /\ UNCHANGED <<attendance, obligations>>
  BY DEF Freeze
<1>3. /\ s \in Slips /\ period[w] = "DRAFT" /\ ~ Frozen(w)
      /\ s.repay > 0 => s.from # 0
      /\ ~ (depositRow[w] > 0) /\ advanceRow[w] = NoRow
      /\ s.deposit + s.repay <= Gross(s)
      /\ s.status = "NONE" => s = NoSlip
  BY <1>1, <1>2 DEF TypeOK, WeekStands
<1>4. s.deposit \in Nat /\ s.repay \in Nat /\ s.from \in Advances \cup {0}
  BY <1>3 DEF Slips
<1>5. slip' \in [Weeks -> Slips]
  BY <1>1, <1>2, <1>3 DEF TypeOK, Slips
<1>6. /\ repaid' \in [Advances -> Nat]
      /\ \A a \in Advances : repaid'[a] <= loan[a].amount /\ (a \in cancelled => repaid'[a] = 0)
  <2>1. CASE ~ Repays(s)
    BY <1>1, <1>2, <2>1 DEF TypeOK, AdvancesAreRepaidOnce
  <2>2. CASE Repays(s)
    <3>1. s.from \in Advances /\ s.from \notin cancelled /\ s.repay <= Owed(s.from)
      BY <1>2, <1>3, <1>4, <2>2 DEF Repays, Freezable, AdvanceStands
    <3>2. loan[s.from].amount \in Nat /\ repaid \in [Advances -> Nat]
      BY <1>1, <3>1 DEF TypeOK
    <3>3. repaid[s.from] + s.repay <= loan[s.from].amount
      BY <1>1, <1>4, <3>1, <3>2 DEF Owed, Most, AdvancesAreRepaidOnce
    <3>4. repaid' = [repaid EXCEPT ![s.from] = @ + s.repay]
      BY <1>2, <2>2
    <3> HIDE DEF s
    <3> QED BY <1>1, <1>4, <3>1, <3>2, <3>3, <3>4 DEF AdvancesAreRepaidOnce
  <2> QED BY <2>1, <2>2
<1>7. TypeOK'
  <2>1. depositRow' \in [Weeks -> Nat] /\ recovered' \in Nat
    BY <1>1, <1>2, <1>4 DEF TypeOK
  <2>2. advanceRow' \in [Weeks -> [from : Advances \cup {0}, amount : Nat]]
    BY <1>1, <1>2, <1>4 DEF TypeOK
  <2>3. period' \in [Weeks -> {"NONE", "DRAFT", "APPROVED"}] /\ approving' \subseteq Weeks
    BY <1>1, <1>2 DEF TypeOK
  <2> QED BY <1>1, <1>2, <1>5, <1>6, <2>1, <2>2, <2>3 DEF TypeOK, attendance, obligations
<1>8. AdvancesAreRepaidOnce'
  BY <1>2, <1>6 DEF AdvancesAreRepaidOnce, obligations
<1>9. ASSUME NEW v \in Weeks PROVE WeekStands(v)'
  <2>1. CASE v # w
    BY <1>1, <1>2, <2>1, LeftAlone DEF TypeOK
  <2>2. CASE v = w /\ s = NoSlip
    <3>1. ~ Recovers(s) /\ ~ Repays(s)
      BY <2>2 DEF Recovers, Repays, NoSlip
    <3>2. /\ slip'[w] = s /\ depositRow'[w] = depositRow[w] /\ advanceRow'[w] = NoRow
          /\ w \notin approving'
      BY <1>2, <1>3, <2>2, <3>1
    <3> QED BY <1>3, <2>2, <3>2 DEF WeekStands, Frozen, Gross, NoSlip
  <2>3. CASE v = w /\ s # NoSlip
    <3>1. /\ slip'[w] = [s EXCEPT !.status = "APPROVED"] /\ period'[w] = "APPROVED"
          /\ w \notin approving'
      BY <1>1, <1>2, <2>3 DEF TypeOK
    <3>2. /\ slip'[w].status = "APPROVED" /\ slip'[w].deposit = s.deposit /\ slip'[w].repay = s.repay
          /\ slip'[w].from = s.from /\ slip'[w].rate = s.rate /\ slip'[w].sessions = s.sessions
      BY <1>3, <3>1 DEF Slips
    <3>3. depositRow'[w] > 0 => depositRow'[w] = s.deposit
      BY <1>1, <1>2, <1>3 DEF TypeOK
    <3>4. advanceRow'[w] = IF s.repay > 0 THEN [from |-> s.from, amount |-> s.repay] ELSE NoRow
      BY <1>1, <1>2, <1>3 DEF TypeOK, Repays
    <3> HIDE DEF s
    <3>5. s.deposit + s.repay <= s.rate * Cardinality(s.sessions)
      BY <1>3 DEF Gross
    <3> QED BY <1>3, <2>3, <3>1, <3>2, <3>3, <3>4, <3>5 DEF WeekStands, Frozen, Gross
  <2> QED BY <2>1, <2>2, <2>3
<1> QED BY <1>7, <1>8, <1>9 DEF PayInv

LEMMA PayoutStands ==
  ASSUME PayInv, NEW w \in Weeks, RecordPayout(w)
  PROVE  PayInv'
<1>1. TypeOK /\ AdvancesAreRepaidOnce /\ \A v \in Weeks : WeekStands(v)
  BY DEF PayInv
<1>2. /\ slip[w].status = "APPROVED" /\ slip' = [slip EXCEPT ![w].status = "PAID"]
      /\ UNCHANGED <<attendance, obligations, period, approving, rows>>
  BY DEF RecordPayout
<1>3. slip[w] \in Slips /\ slip'[w] = [slip[w] EXCEPT !.status = "PAID"]
  BY <1>1, <1>2 DEF TypeOK
<1>4. /\ slip'[w].status = "PAID" /\ slip'[w].deposit = slip[w].deposit
      /\ slip'[w].repay = slip[w].repay /\ slip'[w].from = slip[w].from
      /\ slip'[w].rate = slip[w].rate /\ slip'[w].sessions = slip[w].sessions
  BY <1>3 DEF Slips
<1>5. TypeOK'
  <2>1. slip'[w] \in Slips
    BY <1>3 DEF Slips
  <2>2. slip \in [Weeks -> Slips] /\ slip' = [slip EXCEPT ![w] = slip'[w]]
    BY <1>1, <1>2 DEF TypeOK
  <2>3. slip' \in [Weeks -> Slips]
    BY <2>1, <2>2
  <2> QED BY <1>1, <1>2, <2>3 DEF TypeOK, attendance, obligations, rows
<1>6. AdvancesAreRepaidOnce'
  BY <1>1, <1>2 DEF AdvancesAreRepaidOnce, obligations, rows
<1>7. ASSUME NEW v \in Weeks PROVE WeekStands(v)'
  <2>1. CASE v # w
    BY <1>1, <1>2, <2>1, LeftAlone DEF TypeOK, rows
  <2>2. CASE v = w
    <3>1. WeekStands(w) /\ Frozen(w)
      BY <1>1, <1>2 DEF Frozen
    <3> QED BY <1>2, <1>4, <2>2, <3>1 DEF WeekStands, Frozen, Gross, rows
  <2> QED BY <2>1, <2>2
<1> QED BY <1>5, <1>6, <1>7 DEF PayInv

\* What the owner enters touches no payslip and no row.
LEMMA EntryStands ==
  ASSUME PayInv,
         \/ \E s \in Sessions, w \in Weeks \cup {Elsewhere} : FileSession(s, w)
         \/ \E r \in Rates, t \in Terms : SetTerms(r, t)
         \/ \E a \in Advances : Lending(a)
  PROVE  PayInv'
<1>1. TypeOK /\ AdvancesAreRepaidOnce /\ \A v \in Weeks : WeekStands(v)
  BY DEF PayInv
<1>2. UNCHANGED <<period, slip, approving, rows>>
  BY DEF FileSession, SetTerms, Lending, Issue, SetWeeklyRecovery, Cancel
<1>3. \A v \in Weeks : WeekStands(v)'
  BY <1>1, <1>2 DEF WeekStands, Frozen, Gross, rows
<1>4. TypeOK' /\ AdvancesAreRepaidOnce'
  <2>1. CASE \E s \in Sessions, w \in Weeks \cup {Elsewhere} : FileSession(s, w)
    BY <1>1, <2>1 DEF FileSession, TypeOK, AdvancesAreRepaidOnce, obligations, rows
  <2>2. CASE \E r \in Rates, t \in Terms : SetTerms(r, t)
    BY <1>1, <2>2 DEF SetTerms, TypeOK, AdvancesAreRepaidOnce, rows
  <2>3. ASSUME NEW a \in Advances, NEW l \in Loans, Issue(a, l)
        PROVE  TypeOK' /\ AdvancesAreRepaidOnce'
    <3>1. /\ loan' = [loan EXCEPT ![a] = l] /\ loan[a].amount = 0
          /\ UNCHANGED <<attendance, terms, cancelled, period, slip, approving, rows>>
      BY <2>3 DEF Issue
    <3>2. l \in [amount : Nat, weekly : Nat]
      BY PayrollAssumption
    <3>3. TypeOK'
      BY <1>1, <3>1, <3>2 DEF TypeOK, attendance, rows
    <3>4. loan'[a] = l /\ \A b \in Advances : b # a => loan'[b] = loan[b]
      BY <1>1, <3>1 DEF TypeOK
    <3>5. repaid[a] = 0
      BY <1>1, <3>1 DEF TypeOK, AdvancesAreRepaidOnce
    <3> QED BY <1>1, <3>1, <3>2, <3>3, <3>4, <3>5 DEF AdvancesAreRepaidOnce, rows
  <2>4. ASSUME NEW a \in Advances, NEW l \in Loans, SetWeeklyRecovery(a, l.weekly)
        PROVE  TypeOK' /\ AdvancesAreRepaidOnce'
    <3>1. /\ loan' = [loan EXCEPT ![a].weekly = l.weekly]
          /\ UNCHANGED <<attendance, terms, cancelled, period, slip, approving, rows>>
      BY <2>4 DEF SetWeeklyRecovery
    <3>2. l.weekly \in Nat
      BY PayrollAssumption
    <3>3. loan' \in [Advances -> [amount : Nat, weekly : Nat]]
      BY <1>1, <3>1, <3>2 DEF TypeOK
    <3>4. \A b \in Advances : loan'[b].amount = loan[b].amount
      BY <1>1, <3>1 DEF TypeOK
    <3> QED BY <1>1, <3>1, <3>3, <3>4 DEF TypeOK, AdvancesAreRepaidOnce, attendance, rows
  <2>5. ASSUME NEW a \in Advances, Cancel(a)
        PROVE  TypeOK' /\ AdvancesAreRepaidOnce'
    BY <1>1, <2>5 DEF Cancel, TypeOK, AdvancesAreRepaidOnce, attendance, rows
  <2> QED BY <2>1, <2>2, <2>3, <2>4, <2>5 DEF Lending
<1> QED BY <1>1, <1>3, <1>4 DEF PayInv

LEMMA StepStands == PayInv /\ [Next]_vars => PayInv'
<1> SUFFICES ASSUME PayInv, [Next]_vars PROVE PayInv'
  OBVIOUS
<1>1. CASE \E w \in Weeks : Payday(w)
  <2>1. PICK w \in Weeks : Payday(w)
    BY <1>1
  <2>2. CASE RollBack(w)
    BY <2>2 DEF RollBack, PayInv, TypeOK, AdvancesAreRepaidOnce, WeekStands, Frozen, Gross,
                attendance, obligations, rows
  <2> QED BY <2>1, <2>2, GenerateStands, CheckStands, FreezeStands, PayoutStands DEF Payday
<1>2. CASE UNCHANGED vars
  BY <1>2 DEF vars, attendance, obligations, rows, PayInv, TypeOK, AdvancesAreRepaidOnce,
              WeekStands, Frozen, Gross
<1> QED BY <1>1, <1>2, EntryStands DEF Next

\* The invariant holds in every state the payroll reaches.
THEOREM PayInvAlways == Spec => []PayInv
BY InitStands, StepStands, PTL DEF Spec

-----------------------------------------------------------------------------
(* What it is for *)

\* An advance is never recovered beyond what was lent, and one that was cancelled while a
\* draft or an approval was on its way has had nothing taken (advances.record_recovery).
THEOREM AdvancesNeverOverpaid == Spec => []AdvancesAreRepaidOnce
<1>1. PayInv => AdvancesAreRepaidOnce
  BY DEF PayInv
<1> QED BY <1>1, PayInvAlways, PTL

\* Every recovery in the ledger is on a frozen payslip that says the same
\* (services._freeze_records), and every frozen payslip's advance is in the ledger.
THEOREM RecoveriesAreTraceable == Spec => []RowsTellThePayslips
<1>1. ASSUME PayInv, NEW w \in Weeks
      PROVE  /\ advanceRow[w].amount = IF Frozen(w) THEN slip[w].repay ELSE 0
             /\ advanceRow[w].amount > 0 => advanceRow[w].from = slip[w].from
             /\ depositRow[w] > 0 => Frozen(w) /\ depositRow[w] = slip[w].deposit
  <2>1. WeekStands(w) /\ slip[w] \in Slips
    BY <1>1 DEF PayInv, TypeOK
  <2>2. slip[w].repay \in Nat
    BY <2>1 DEF Slips
  <2> QED BY <2>1, <2>2 DEF WeekStands, NoRow
<1>2. PayInv => RowsTellThePayslips
  BY <1>1 DEF RowsTellThePayslips
<1> QED BY <1>2, PayInvAlways, PTL

\* Deposit and advance together never take more than the week earned (services._calculate_for).
THEOREM NetIsNeverNegative == Spec => []WagesAreNeverNegative
<1>1. PayInv => WagesAreNeverNegative
  BY DEF PayInv, WeekStands, WagesAreNeverNegative
<1> QED BY <1>1, PayInvAlways, PTL

\* Whatever weeks are approved at once, a deposit recovery that is written stays within the
\* agreement (deposits.record_recovery).
THEOREM DepositsAreNeverOvercollected == Spec => NeverMoreThanAgreed
<1>1. ASSUME PayInv, [Next]_vars, recovered' # recovered
      PROVE  recovered' <= terms.agreed
  <2>1. PICK w \in Weeks : Freeze(w)
    BY <1>1 DEF Next, Payday, Lending, Generate, Check, RollBack, RecordPayout, FileSession,
                SetTerms, Issue, SetWeeklyRecovery, Cancel, vars, rows
  <2>2. /\ Recovers(slip[w]) /\ slip[w].deposit <= Remaining
        /\ recovered' = recovered + slip[w].deposit
    BY <1>1, <2>1 DEF Freeze, Freezable
  <2>3. slip[w].deposit \in Nat /\ slip[w].deposit > 0
    BY <1>1, <2>2 DEF PayInv, TypeOK, Slips, Recovers
  <2>4. terms.agreed \in Nat /\ recovered \in Nat
    BY <1>1, PayrollAssumption DEF PayInv, TypeOK
  <2> QED BY <2>2, <2>3, <2>4 DEF Remaining, Most
<1>2. PayInv /\ [Next]_vars => [recovered' # recovered => recovered' <= terms.agreed]_vars
  BY <1>1
<1> QED BY <1>2, PayInvAlways, PTL DEF Spec, NeverMoreThanAgreed

\* Nothing of an approved week changes, but that its payslip is paid, once (services.generate,
\* payouts.record_payout).
THEOREM ApprovedIsARecord == Spec => ApprovedWeeksStand
<1>1. ASSUME PayInv, [Next]_vars, NEW w \in Weeks, period[w] = "APPROVED"
      PROVE  /\ period'[w] = "APPROVED"
             /\ slip'[w] # slip[w] => slip[w].status = "APPROVED"
                                      /\ slip'[w] = [slip[w] EXCEPT !.status = "PAID"]
             /\ depositRow'[w] = depositRow[w] /\ advanceRow'[w] = advanceRow[w]
  <2>1. w \notin approving /\ TypeOK
    BY <1>1 DEF PayInv, WeekStands
  <2>2. CASE \E v \in Weeks : Payday(v)
    <3>1. PICK v \in Weeks : Payday(v)
      BY <2>2
    <3>2. CASE Generate(v) \/ Freeze(v)
      <4>1. v # w
        BY <1>1, <2>1, <3>2 DEF Generate, Freeze
      <4> QED BY <1>1, <2>1, <3>2, <4>1 DEF Generate, Freeze, TypeOK, rows
    <3>3. CASE Check(v) \/ RollBack(v)
      BY <1>1, <3>3 DEF Check, RollBack, rows
    <3>4. CASE RecordPayout(v)
      BY <1>1, <2>1, <3>4 DEF RecordPayout, TypeOK, rows
    <3> QED BY <3>1, <3>2, <3>3, <3>4 DEF Payday
  <2>3. CASE ~ \E v \in Weeks : Payday(v)
    <3>1. UNCHANGED <<period, slip, rows>>
      BY <1>1, <2>3 DEF Next, FileSession, SetTerms, Lending, Issue, SetWeeklyRecovery, Cancel, vars
    <3> QED BY <1>1, <3>1 DEF rows
  <2> QED BY <2>2, <2>3
<1> DEFINE Stands ==
      \A w \in Weeks : period[w] = "APPROVED" =>
        /\ period'[w] = "APPROVED"
        /\ slip'[w] # slip[w] => slip[w].status = "APPROVED"
                                 /\ slip'[w] = [slip[w] EXCEPT !.status = "PAID"]
        /\ depositRow'[w] = depositRow[w] /\ advanceRow'[w] = advanceRow[w]
<1>2. PayInv /\ [Next]_vars => [Stands]_vars
  BY <1>1
<1> QED BY <1>2, PayInvAlways, PTL DEF Spec, ApprovedWeeksStand
=============================================================================
