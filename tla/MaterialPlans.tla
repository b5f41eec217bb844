--------------------------- MODULE MaterialPlans ---------------------------
(***************************************************************************)
(* What orders plan, hold and use of one stocked item                      *)
(* (apps/inventory/order_materials.py), on top of the item's own figures   *)
(* (Stock).                                                                *)
(*                                                                         *)
(* A plan has a line for each garment of its order that needs the item,    *)
(* and the garment's stages drive it: taking the order reserves, finishing *)
(* the stitching consumes, the order's last handover releases the rest.    *)
(* The same plan can also be worked by hand.  An order has one live plan;  *)
(* the module keeps its latest.                                            *)
(***************************************************************************)
EXTENDS Stock

CONSTANTS
  Orders,
  Lines,       \* the garments that need the item
  OrderOf,     \* line -> its order
  Sequence,    \* line -> its place in the plan
  Required,    \* line -> required_quantity
  Packaging,   \* the item is packaging: its lines are deducted at dispatch
  MaxLine      \* bound: the largest figure of a line

ASSUME PlanAssumption ==
  /\ IsFiniteSet(Lines)
  /\ OrderOf \in [Lines -> Orders] /\ Sequence \in [Lines -> Nat]
  /\ \A k, l \in Lines : Sequence[k] = Sequence[l] => k = l
  /\ Required \in [Lines -> Nat \ {0}]
  /\ Packaging \in BOOLEAN /\ MaxLine \in Nat

VARIABLES
  plan,        \* order -> the status of its latest plan, or NONE
  line,        \* line -> its four figures on that plan
  packed,      \* the orders whose plan has packaging_deducted_at
  taken,       \* the orders whose `created` stage is COMPLETED
  stitched,    \* the garments whose stitching is COMPLETED
  given        \* the garments handed over

production == <<taken, stitched, given>>
vars == <<stock, plan, line, packed, production>>

Statuses == {"NONE", "DRAFT", "RESERVED", "IN_PRODUCTION", "COMPLETED", "CANCELLED"}
Figures == [reserved : Nat, consumed : Nat, wasted : Nat, returned : Nat]
Blank == [reserved |-> 0, consumed |-> 0, wasted |-> 0, returned |-> 0]

LinesOf(o) == {l \in Lines : OrderOf[l] = o}
Live(o) == plan[o] \in {"DRAFT", "RESERVED", "IN_PRODUCTION"}

\* outstanding_reservation: below zero when more was used than was reserved
Held(r) == r.reserved - r.consumed - r.wasted - r.returned

\* Mutant of StillToReserve: what is reserved already is reserved again.
WholeRequirement(l, r) == Most(0, Required[l] - r.consumed - r.wasted)
StillToReserve(l, r) == Most(0, Required[l] - r.consumed - r.wasted - Held(r))

\* Mutant of StillToDraw: waste does not count as drawn.
WasteApart(l, r) == Required[l] - r.consumed - r.returned
StillToDraw(l, r) == Required[l] - r.consumed - r.wasted - r.returned

\* Mutant of BackedBy: what one order uses comes off anybody's reservation.
BackedByAll(q, r) == q
BackedBy(q, r) == Most(0, Least(q, Held(r)))

\* `taken` of orders that came another way than a confirmed draft or a run for stock:
\* their materials were attached afterwards, so they have no plan.
PlansInit ==
  /\ current = 0 /\ reserved = 0
  /\ at = [p \in Places |-> 0] /\ on = [s \in Spots |-> 0]
  /\ plan = [o \in Orders |-> "NONE"]
  /\ line = [l \in Lines |-> Blank]
  /\ packed = {}
  /\ taken \in SUBSET Orders /\ stitched = {} /\ given = {}

-----------------------------------------------------------------------------
(* The steps of a plan *)

\* ensure_plan: the lines of the live plan, or of a new one.
Ensured(o) == [l \in Lines |-> IF OrderOf[l] = o /\ ~Live(o) THEN Blank ELSE line[l]]

Wanted(o, lines) == SumFunction([l \in LinesOf(o) |-> StillToReserve(l, lines[l])])

\* reserve: the lines take what is available in their order, as far as it goes.
Got(o, lines) ==
  LET earlier(l) == {k \in LinesOf(o) : Sequence[k] < Sequence[l]}
      free(l) == current - reserved
                 - SumFunction([k \in earlier(l) |-> StillToReserve(k, lines[k])])
  IN  [l \in LinesOf(o) |-> Least(StillToReserve(l, lines[l]), Most(0, free(l)))]

WithReserved(o, lines) ==
  [l \in Lines |-> IF OrderOf[l] = o
                   THEN [lines[l] EXCEPT !.reserved = @ + Got(o, lines)[l]] ELSE lines[l]]
GotInAll(o, lines) == SumFunction(Got(o, lines))

Hold(q) ==
  IF q = 0 THEN UNCHANGED stock ELSE Movement(q, 0, reserved + q, Nowhere, Nowhere, FALSE)

Status(o, s) == plan' = [plan EXCEPT ![o] = s]

\* reserve, the screens' and the one an order's confirmation makes
ReservePlan(o, partial) ==
  /\ plan[o] \in {"DRAFT", "RESERVED"}
  /\ partial \/ Wanted(o, line) <= current - reserved
  /\ line' = WithReserved(o, line)
  /\ \A l \in LinesOf(o) : line'[l].reserved <= MaxLine
  /\ Hold(GotInAll(o, line))
  /\ Status(o, "RESERVED")
  /\ UNCHANGED <<packed, production>>

\* Whoever plans opens the gathering checklist of an order that never had a plan.
OpenChecklist(o) ==
  /\ plan[o] = "NONE"
  /\ ~(LinesOf(o) \subseteq given)
  /\ line' = Ensured(o)
  /\ Status(o, "DRAFT")
  /\ UNCHANGED <<stock, packed, production>>

\* confirm_consumption: the line's own reservation goes first, and no more of it.
Consume(l, used, wasted, from) ==
  LET o == OrderOf[l]
  IN  /\ plan[o] \in {"RESERVED", "IN_PRODUCTION"}
      /\ line' = [line EXCEPT ![l].consumed = @ + used, ![l].wasted = @ + wasted]
      /\ line'[l].consumed <= MaxLine /\ line'[l].wasted <= MaxLine
      /\ Book(used + wasted, -1, Most(0, reserved - BackedBy(used + wasted, line[l])),
              from, Nowhere, FALSE)
      /\ Status(o, "IN_PRODUCTION")
      /\ UNCHANGED <<packed, production>>

Unused(o) == SumFunction([l \in LinesOf(o) |-> Most(0, Held(line[l]))])

\* Mutant of ReleaseUnused: the lines are not saved.
ReleaseUnsaved(o) ==
  /\ IF Unused(o) = 0 THEN UNCHANGED stock
     ELSE Movement(Unused(o), 0, reserved - Unused(o), Nowhere, Nowhere, FALSE)
  /\ line' = line

\* release_unused: every line gives back what it still holds; refused when the item's
\* own reserved figure does not cover it.
ReleaseUnused(o) ==
  /\ IF Unused(o) = 0 THEN UNCHANGED stock
     ELSE Movement(Unused(o), 0, reserved - Unused(o), Nowhere, Nowhere, FALSE)
  /\ line' = [l \in Lines |-> IF OrderOf[l] = o
                              THEN [line[l] EXCEPT !.returned = @ + Most(0, Held(line[l]))]
                              ELSE line[l]]

ReturnUnused(o) ==
  /\ plan[o] \notin {"NONE", "CANCELLED"}
  /\ Unused(o) > 0
  /\ \A l \in LinesOf(o) : line[l].returned + Held(line[l]) <= MaxLine
  /\ ReleaseUnused(o)
  /\ UNCHANGED <<plan, packed, production>>

DeductPackaging(o, from) ==
  LET draw == [l \in LinesOf(o) |-> IF Packaging THEN Most(0, StillToDraw(l, line[l])) ELSE 0]
      q == SumFunction(draw)
      backed == SumFunction([l \in LinesOf(o) |-> BackedBy(draw[l], line[l])])
  IN  /\ plan[o] \in {"RESERVED", "IN_PRODUCTION"}
      /\ o \notin packed
      /\ IF q = 0 THEN UNCHANGED stock
         ELSE Book(q, -1, Most(0, reserved - backed), from, Nowhere, FALSE)
      /\ line' = [l \in Lines |-> IF OrderOf[l] = o
                                  THEN [line[l] EXCEPT !.consumed = @ + draw[l]] ELSE line[l]]
      /\ packed' = packed \cup {o}
      /\ UNCHANGED <<plan, production>>

\* close, with release_outstanding or refused while a reservation is outstanding
Close(o, release) ==
  /\ Live(o)
  /\ IF release THEN ReleaseUnused(o)
     ELSE (\A l \in LinesOf(o) : Held(line[l]) <= 0) /\ UNCHANGED <<stock, line>>
  /\ Status(o, "COMPLETED")
  /\ UNCHANGED <<packed, production>>

Cancel(o) ==
  /\ Live(o)
  /\ ReleaseUnused(o)
  /\ Status(o, "CANCELLED")
  /\ UNCHANGED <<packed, production>>

-----------------------------------------------------------------------------
(* The stages of the order's garments (sync_order_materials) *)

\* A draft is confirmed, a run for stock started, or a reopened `created` completed
\* again: plan what is not planned and reserve what there is.
Confirm(o) ==
  /\ o \notin taken
  /\ plan[o] # "IN_PRODUCTION"
  /\ line' = WithReserved(o, Ensured(o))
  /\ \A l \in LinesOf(o) : line'[l].reserved <= MaxLine
  /\ Hold(GotInAll(o, Ensured(o)))
  /\ Status(o, "RESERVED")
  /\ packed' = IF Live(o) THEN packed ELSE packed \ {o}
  /\ taken' = taken \cup {o}
  /\ UNCHANGED <<stitched, given>>

\* Stitching is done, so the garment's cloth is used up: as much of it as there is in
\* stock, reserved for this order or not.
Stitch(l) ==
  LET o == OrderOf[l]
      lines == IF Live(o) THEN line ELSE WithReserved(o, Ensured(o))
      got == IF Live(o) THEN 0 ELSE GotInAll(o, Ensured(o))
      usable == Least(StillToDraw(l, lines[l]), current)
  IN  /\ o \in taken /\ l \notin stitched
      /\ IF usable <= 0
         THEN /\ line' = lines
              /\ Hold(got)
              /\ Status(o, IF Live(o) THEN plan[o] ELSE "RESERVED")
         ELSE /\ plan[o] # "DRAFT"
              /\ line' = [lines EXCEPT ![l].consumed = @ + usable]
              /\ Book(usable, -1, Most(0, reserved + got - BackedBy(usable, lines[l])),
                      Nowhere, Nowhere, FALSE)
              /\ Status(o, "IN_PRODUCTION")
      /\ packed' = IF Live(o) THEN packed ELSE packed \ {o}
      /\ stitched' = stitched \cup {l}
      /\ UNCHANGED <<taken, given>>

\* A garment is handed over; the order's last one releases what is left and closes
\* the plan, or is refused.
HandOver(l) ==
  LET o == OrderOf[l]
  IN  /\ l \in stitched \ given
      /\ given' = given \cup {l}
      /\ IF LinesOf(o) \subseteq given' /\ Live(o)
         THEN ReleaseUnused(o) /\ Status(o, "COMPLETED")
         ELSE UNCHANGED <<stock, line, plan>>
      /\ UNCHANGED <<packed, taken, stitched>>

\* A supervisor reopens the handover, the stitching or the order itself, and what came
\* after is to be done again; "inventory is deliberately left alone".
ReopenHandover(l) == l \in given /\ given' = given \ {l} /\ UNCHANGED <<taken, stitched>>
ReopenStitching(l) ==
  l \in stitched /\ stitched' = stitched \ {l} /\ given' = given \ {l} /\ UNCHANGED taken
ReopenOrder(o) ==
  /\ o \in taken /\ taken' = taken \ {o}
  /\ stitched' = stitched \ LinesOf(o) /\ given' = given \ LinesOf(o)
Reopen ==
  /\ (\E l \in Lines : ReopenHandover(l) \/ ReopenStitching(l)) \/ \E o \in Orders : ReopenOrder(o)
  /\ UNCHANGED <<stock, plan, line, packed>>

-----------------------------------------------------------------------------
Production == \/ \E o \in Orders : Confirm(o)
              \/ \E l \in Lines : Stitch(l) \/ HandOver(l)
              \/ Reopen

ByHand ==
  \/ \E o \in Orders, yes \in BOOLEAN : ReservePlan(o, yes) \/ Close(o, yes)
  \/ \E o \in Orders : OpenChecklist(o) \/ ReturnUnused(o) \/ Cancel(o)
  \/ \E o \in Orders, from \in Named : DeductPackaging(o, from)
  \/ \E l \in Lines, used, wasted \in 0..MaxStep, from \in Named :
       used + wasted \in Steps /\ Consume(l, used, wasted, from)

Screens == (Receive \/ Release \/ Issue \/ WriteOff) /\ UNCHANGED <<plan, line, packed, production>>

PlansNext == Production \/ ByHand \/ Screens

PlansSpec == PlansInit /\ [][PlansNext]_vars

-----------------------------------------------------------------------------
(* Properties *)

PlansTypeOK ==
  /\ TypeOK
  /\ plan \in [Orders -> Statuses] /\ line \in [Lines -> Figures]
  /\ packed \subseteq Orders /\ taken \subseteq Orders
  /\ stitched \subseteq Lines /\ given \subseteq stitched

\* A plan that is over holds nothing: whatever was used beyond, wasted, returned and
\* topped up on the way, closing one gives all of it back ("Complete inventory
\* reconciliation before closing the order").
ClosedPlansHoldNothing ==
  \A l \in Lines : plan[OrderOf[l]] \in {"COMPLETED", "CANCELLED"} => Held(line[l]) <= 0

\* A line never reserves more than it requires, however often reserve is asked for,
\* before or after something was given back.
NeverOverReserved == \A l \in Lines : line[l].reserved - line[l].returned <= Required[l]

\* What the lines say of reservations adds up, while a plan is open and after.
ReservationsAddUp == ClosedPlansHoldNothing /\ NeverOverReserved

Claims == SumFunction([l \in Lines |-> Most(0, Held(line[l]))])

\* "reserved_backed": what an order's lines do never takes the item's reserved figure
\* below what all orders' lines hold, unless the cloth itself has run out.
PlansKeepReservations ==
  [][Claims <= reserved /\ line' # line /\ Claims' <= current' => Claims' <= reserved']_vars

\* Finishing a garment or packing an order draws only what is still missing: what was
\* used, wasted or given back by hand is not drawn a second time.
NothingDrawnTwice ==
  [][\A l \in Lines :
       (stitched' # stitched \/ packed' # packed) /\ line'[l].consumed > line[l].consumed
       => line'[l].consumed + line'[l].wasted + line'[l].returned <= Required[l]]_vars
=============================================================================
