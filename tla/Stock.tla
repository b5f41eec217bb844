------------------------------- MODULE Stock -------------------------------
(***************************************************************************)
(* One stocked item: how much there is, how much is spoken for, in which   *)
(* location it lies and on which shelves (apps/inventory/services.py and   *)
(* shelves.py).  Items share nothing, so the module follows one.           *)
(*                                                                         *)
(* Every change takes the item's row lock first and is one transaction, so *)
(* an operation is a step; one that raises rolls back, so a refusal is a   *)
(* step that cannot be taken.  Quantities are whole thousandths (STEP).    *)
(***************************************************************************)
EXTENDS Integers, FiniteSets, Functions

CONSTANTS
  Places,      \* StockLocation
  Default,     \* the default location, which stays active
  Nowhere,     \* no location named
  Spots,       \* the shelves of all locations: leaves, all in use
  PlaceOf,     \* shelf -> its location
  WalkOrder,   \* shelf -> its place in walking order
  ShopFloor,   \* the shelves on the shop floor; the others are back room
  MaxStock,    \* bound: the stock receipts stop at
  MaxStep      \* bound: the largest quantity of one movement

ASSUME StockAssumption ==
  /\ Default \in Places /\ Nowhere \notin Places
  /\ IsFiniteSet(Places) /\ IsFiniteSet(Spots)
  /\ PlaceOf \in [Spots -> Places] /\ WalkOrder \in [Spots -> Nat]
  /\ \A s, u \in Spots : WalkOrder[s] = WalkOrder[u] => s = u
  /\ ShopFloor \subseteq Spots
  /\ MaxStock \in Nat /\ MaxStep \in Nat

VARIABLES
  current,     \* current_stock
  reserved,    \* reserved_stock
  at,          \* location -> LocationStock.quantity
  on           \* shelf -> SpotStock.quantity

stock == <<current, reserved, at, on>>

Steps == 1..MaxStep
Named == Places \cup {Nowhere}
Least(a, b) == IF a <= b THEN a ELSE b
Most(a, b) == IF a <= b THEN b ELSE a
SpotsAt(p) == {s \in Spots : PlaceOf[s] = p}
Shelved(p) == SumFunctionOnSet(on, SpotsAt(p))
NotShelved(p) == Most(0, at[p] - Shelved(p))

Init ==
  /\ current = 0 /\ reserved = 0
  /\ at = [p \in Places |-> 0]
  /\ on = [s \in Spots |-> 0]

-----------------------------------------------------------------------------
(* record_movement *)

\* Shelf u is emptied before shelf s: in walking order or, when a stock count
\* lowered the figure, the back room first and from its far end.
Before(u, s, counted) ==
  IF counted
  THEN \/ u \notin ShopFloor /\ s \in ShopFloor
       \/ (u \in ShopFloor <=> s \in ShopFloor) /\ WalkOrder[u] > WalkOrder[s]
  ELSE WalkOrder[u] < WalkOrder[s]

\* Mutant of AfterStockChange: what left the location is taken off its shelves.
TakeOffShelves(p, left, counted) ==
  LET excess == Least(at[p] - left, Shelved(p))
      ahead(s) == {u \in SpotsAt(p) : Before(u, s, counted)}
      take(s) == Least(on[s], Most(0, excess - SumFunctionOnSet(on, ahead(s))))
  IN  [s \in Spots |-> IF PlaceOf[s] = p THEN on[s] - take(s) ELSE on[s]]

\* What the shelves hold once location p is down to `left`: only what is too much
\* for it comes off them.
AfterStockChange(p, left, counted) ==
  LET excess == Shelved(p) - Most(0, left)
      ahead(s) == {u \in SpotsAt(p) : Before(u, s, counted)}
      take(s) == Least(on[s], Most(0, excess - SumFunctionOnSet(on, ahead(s))))
  IN  [s \in Spots |-> IF PlaceOf[s] = p THEN on[s] - take(s) ELSE on[s]]

\* Mutant of ReservedAfter: stock that is gone stays reserved.
ReservedAsWanted(wanted, left) == wanted

\* "Reservation reduced -- stock no longer available."
ReservedAfter(wanted, left) == IF wanted > left THEN left ELSE wanted

\* Mutant of Source: only a movement that names a location takes from one.
NamedSource(delta, from) == from

Source(delta, from) == IF delta < 0 /\ from = Nowhere THEN Default ELSE from
Target(delta, to) == IF delta > 0 /\ to = Nowhere THEN Default ELSE to

\* q of the item move: `delta` is -1, 0 or 1 times q to the stock, `wanted` what would
\* be reserved afterwards.  Refused when stock, reservation or location would go below
\* zero ...
Book(q, delta, wanted, from, to, counted) ==
  LET f == Source(delta, from)
      t == Target(delta, to)
      left == current + delta * q
  IN  /\ q > 0
      /\ left >= 0 /\ wanted >= 0
      /\ f # Nowhere => at[f] >= q
      /\ current' = left
      /\ reserved' = ReservedAfter(wanted, left)
      /\ at' = [p \in Places |-> at[p] - (IF p = f THEN q ELSE 0) + (IF p = t THEN q ELSE 0)]
      /\ on' = IF f = Nowhere THEN on ELSE AfterStockChange(f, at[f] - q, counted)

\* ... or more would be reserved than there is.
Movement(q, delta, wanted, from, to, counted) ==
  /\ wanted > reserved => wanted <= current + delta * q
  /\ Book(q, delta, wanted, from, to, counted)

-----------------------------------------------------------------------------
(* The owner's stock screens (InventoryItemViewSet) *)

\* stock-in, goods-receipt, return, customer-return and a purchase order's receipt
Receive ==
  \E q \in Steps, to \in Named :
    /\ current + q <= MaxStock
    /\ Movement(q, 1, reserved, Nowhere, to, FALSE)

Reserve == \E q \in Steps : Movement(q, 0, reserved + q, Nowhere, Nowhere, FALSE)

Release == \E q \in Steps : Movement(q, 0, reserved - q, Nowhere, Nowhere, FALSE)

\* issue, consume and waste take from the reservation first.
Issue ==
  \E q \in Steps, from \in Named :
    Movement(q, -1, Most(0, reserved - q), from, Nowhere, FALSE)

\* damage, scrap and supplier-return
WriteOff == \E q \in Steps, from \in Named : Movement(q, -1, reserved, from, Nowhere, FALSE)

Transfer ==
  \E q \in Steps, from \in Places, to \in Places :
    from # to /\ Movement(q, 0, reserved, from, to, FALSE)

\* adjust: the count is the new figure, wherever the difference is booked.
Adjust ==
  \E n \in 0..MaxStock, where \in Named :
    \/ n > current /\ Movement(n - current, 1, reserved, Nowhere, where, TRUE)
    \/ n < current /\ Movement(current - n, -1, reserved, where, Nowhere, TRUE)

-----------------------------------------------------------------------------
(* Racks & shelves: only where the stock is *)

Shelve(s, q) ==
  /\ on' = [on EXCEPT ![s] = on[s] + q]
  /\ UNCHANGED <<current, reserved, at>>

\* Mutant of PutAway: any of the location's pieces may be put away.
PutAwayAnything ==
  \E s \in Spots, q \in Steps : q <= at[PlaceOf[s]] /\ Shelve(s, q)

PutAway ==
  \E s \in Spots, q \in Steps : q <= NotShelved(PlaceOf[s]) /\ Shelve(s, q)

\* move, and move_all for this item
MoveShelf ==
  \E s, u \in Spots, q \in 1..MaxStock :
    /\ s # u /\ PlaceOf[s] = PlaceOf[u] /\ q <= on[s]
    /\ on' = [on EXCEPT ![s] = on[s] - q, ![u] = on[u] + q]
    /\ UNCHANGED <<current, reserved, at>>

TakeOff ==
  \E s \in Spots, q \in Steps : q <= on[s] /\ Shelve(s, -q)

\* Fewer than recorded: they are in the store somewhere.  More: as far as the
\* location has pieces on no shelf.
CountShelf ==
  \E s \in Spots, n \in 0..MaxStock :
    /\ n # on[s]
    /\ Shelve(s, IF n < on[s] THEN n - on[s]
                 ELSE Least(n - on[s], NotShelved(PlaceOf[s])))

Movements == Receive \/ Reserve \/ Release \/ Issue \/ WriteOff \/ Transfer \/ Adjust
ShelfMoves == PutAway \/ MoveShelf \/ TakeOff \/ CountShelf

Next == Movements \/ ShelfMoves

Spec == Init /\ [][Next]_stock

-----------------------------------------------------------------------------
(* Properties *)

TypeOK ==
  /\ current \in Nat /\ reserved \in Nat
  /\ at \in [Places -> Nat] /\ on \in [Spots -> Nat]

\* What is promised is there: whatever is issued, written off or counted down, no more
\* stays reserved than is in stock, so available_stock is never negative.
ReservedIsInStock == reserved <= current

\* THE ONE RULE (shelves.py): for every item at every location, the sum on its shelves
\* is at most what the location has, whatever leaves it, from wherever.
TheOneRule == \A p \in Places : Shelved(p) <= at[p]

\* The locations hold, together, exactly the stock there is: every movement that
\* changes the one changes the other, named a location or not.
LocationsHoldTheStock == SumFunctionOnSet(at, Places) = current

\* Stock, its locations and its shelves are three records of one fact.
RecordsAgree == TheOneRule /\ LocationsHoldTheStock

\* "Stock that left a location with no shelf named comes from 'Not shelved' first"
\* (after_stock_change): the app takes pieces off shelves only when every piece left in
\* the location is on one.
NotShelvedFirst ==
  [][\A p \in Places : at'[p] # at[p] /\ Shelved(p)' < Shelved(p) => Shelved(p)' = at'[p]]_stock
=============================================================================
