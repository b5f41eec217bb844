------------------------ MODULE MaterialPlans_proofs ------------------------
(***************************************************************************)
(* Proofs about MaterialPlans, for any number of orders, lines, locations  *)
(* and shelves and any figures: the lines' reservations add up, an order   *)
(* never uses up what others have reserved, and nothing is drawn twice.    *)
(*                                                                         *)
(* What the lines hold in all, Claims, is a sum over lines, the item's     *)
(* reserved figure is one number, and every step changes both.  A step is  *)
(* made of three things only, which have a lemma each: lines that reserve  *)
(* (WithReserved), lines that draw (Drawn and DrawnInAll) and lines that   *)
(* give back (ReleaseUnused); Stitch does the first two at once.           *)
(***************************************************************************)
EXTENDS MaterialPlans, Stock_proofs

-----------------------------------------------------------------------------
(* What a step keeps *)

\* What each line holds of the item's reserved figure, and all of them.
ClaimsOf(lines) == [l \in Lines |-> Most(0, Held(lines[l]))]
ClaimsIn(lines) == SumFunctionOnSet(ClaimsOf(lines), Lines)

LinesHold == line \in [Lines -> Figures] /\ plan \in [Orders -> Statuses]

\* NeverOverReserved, of any lines.
Within(lines) == \A l \in Lines : lines[l].reserved - lines[l].returned <= Required[l]

PlansInv == StockInv /\ LinesHold /\ ReservationsAddUp

KeepsStock == Booked \/ UNCHANGED stock

KeepsClaims ==
  ClaimsIn(line) <= reserved /\ ClaimsIn(line') <= current' => ClaimsIn(line') <= reserved'

DrawsOnce ==
  \A l \in Lines : line'[l].consumed > line[l].consumed
    => line'[l].consumed + line'[l].wasted + line'[l].returned <= Required[l]

\* What is to be shown of each step.
Sound ==
  /\ KeepsStock /\ LinesHold' /\ ReservationsAddUp'
  /\ line' # line => KeepsClaims
  /\ stitched' # stitched \/ packed' # packed => DrawsOnce

-----------------------------------------------------------------------------
(* Lemmas about lines and sums *)

LEMMA LinesAreFew ==
  /\ IsFiniteSet(Lines)
  /\ \A o : LinesOf(o) \in SUBSET Lines /\ IsFiniteSet(LinesOf(o))
  /\ \A l \in Lines : Required[l] \in Nat /\ OrderOf[l] \in Orders /\ l \in LinesOf(OrderOf[l])
<1>1. \A o : LinesOf(o) \in SUBSET Lines
  BY DEF LinesOf
<1> QED BY <1>1, PlanAssumption, FS_Subset DEF LinesOf

\* SumFunction sums over the whole domain.
LEMMA SumOverDomain ==
  ASSUME NEW f
  PROVE  SumFunction(f) = SumFunctionOnSet(f, DOMAIN f)
BY DEF SumFunction

\* What is nothing outside T sums up to its sum over T.
LEMMA SumPadded ==
  ASSUME NEW S, IsFiniteSet(S), NEW T \in SUBSET S, NEW f, Whole(f, T), NEW g,
         \A x \in S : g[x] = IF x \in T THEN f[x] ELSE 0
  PROVE  SumFunctionOnSet(g, S) = SumFunctionOnSet(f, T)
<1> DEFINE Bad == {U \in SUBSET S : SumFunctionOnSet(g, U) # SumFunctionOnSet(f, U \cap T)}
<1>1. SUFFICES Bad = {}
  <2>1. S \cap T = T
    OBVIOUS
  <2> QED BY <2>1
<1>2. SUFFICES ASSUME Bad # {} PROVE FALSE
  OBVIOUS
<1>3. PICK U \in Bad : \A V \in Bad : ~(V \subseteq U /\ V # U)
  <2>1. Bad \in SUBSET (SUBSET S)
    OBVIOUS
  <2> HIDE DEF Bad
  <2> QED BY <1>2, <2>1, Smallest
<1>4. IsFiniteSet(U) /\ IsFiniteSet(U \cap T) /\ Whole(g, U) /\ Whole(f, U \cap T)
  BY <1>3, FS_Subset DEF Whole
<1>5. U # {}
  <2>1. {} \cap T = {}
    OBVIOUS
  <2> QED BY <1>3, <2>1, SumOfNone
<1> DEFINE y == Pick(U)
<1>6. y \in U
  BY <1>5, PickIsOne
<1> HIDE DEF y
<1>7. U \ {y} \in SUBSET S /\ U \ {y} \notin Bad
  BY <1>3, <1>6
<1>8. SumFunctionOnSet(g, U) = g[y] + SumFunctionOnSet(g, U \ {y})
  BY <1>4, <1>6, SumApart
<1>9. SumFunctionOnSet(g, U \ {y}) = SumFunctionOnSet(f, (U \ {y}) \cap T)
  BY <1>7
<1>10. CASE y \in T
  <2>1. SumFunctionOnSet(f, U \cap T) = f[y] + SumFunctionOnSet(f, (U \cap T) \ {y})
    BY <1>4, <1>6, <1>10, SumApart
  <2>2. (U \ {y}) \cap T = (U \cap T) \ {y} /\ g[y] = f[y]
    BY <1>3, <1>6, <1>10
  <2> QED BY <1>3, <1>8, <1>9, <2>1, <2>2
<1>11. CASE y \notin T
  <2>1. (U \ {y}) \cap T = U \cap T /\ g[y] = 0
    BY <1>3, <1>6, <1>11
  <2>2. SumFunctionOnSet(f, U \cap T) \in Int
    BY <1>4, SumIsWhole
  <2>3. SumFunctionOnSet(g, U) = 0 + SumFunctionOnSet(f, U \cap T)
    BY <1>8, <1>9, <2>1
  <2> QED BY <1>3, <2>2, <2>3
<1> QED BY <1>10, <1>11

\* A line's figures are whole numbers, and so is what it holds.
LEMMA FiguresAreWhole ==
  ASSUME NEW r \in Figures
  PROVE  /\ r.reserved \in Nat /\ r.consumed \in Nat /\ r.wasted \in Nat /\ r.returned \in Nat
         /\ Held(r) \in Int /\ Most(0, Held(r)) \in Nat
         /\ \A q : BackedBy(q, r) = Most(0, Least(q, Held(r)))
         /\ \A q \in Nat : BackedBy(q, r) \in Nat
BY DEF Figures, Held, BackedBy, Most, Least

LEMMA ClaimsAreWhole ==
  ASSUME NEW lines \in [Lines -> Figures]
  PROVE  /\ Whole(ClaimsOf(lines), Lines) /\ ClaimsIn(lines) \in Int
         /\ \A l \in Lines : ClaimsOf(lines)[l] = Most(0, Held(lines[l]))
         /\ \A l \in Lines : ClaimsOf(lines)[l] \in Nat
<1>1. \A l \in Lines : /\ ClaimsOf(lines)[l] = Most(0, Held(lines[l]))
                       /\ ClaimsOf(lines)[l] \in Nat
  BY FiguresAreWhole DEF ClaimsOf
<1>2. Whole(ClaimsOf(lines), Lines)
  BY <1>1 DEF Whole
<1>3. ClaimsIn(lines) \in Int
  BY <1>2, LinesAreFew, SumIsWhole DEF ClaimsIn
<1> QED BY <1>1, <1>2, <1>3

\* Claims is that sum, before a step and after it.
LEMMA ClaimsAreTheSum == Claims = ClaimsIn(line) /\ Claims' = ClaimsIn(line')
BY SumOverDomain DEF Claims, ClaimsIn, ClaimsOf

\* Whoever holds no more line by line holds no more in all.
LEMMA ClaimsShrink ==
  ASSUME NEW lines \in [Lines -> Figures], NEW new \in [Lines -> Figures],
         \A l \in Lines : Most(0, Held(new[l])) <= Most(0, Held(lines[l]))
  PROVE  ClaimsIn(new) <= ClaimsIn(lines)
<1>1. \A l \in Lines : ClaimsOf(new)[l] <= ClaimsOf(lines)[l]
  BY ClaimsAreWhole
<1> QED BY <1>1, ClaimsAreWhole, LinesAreFew, SumMonotone DEF ClaimsIn

-----------------------------------------------------------------------------
(* Lines that reserve *)

LEMMA GotIsWhole ==
  ASSUME StockInv, NEW o, NEW lines \in [Lines -> Figures]
  PROVE  /\ Got(o, lines) \in [LinesOf(o) -> Nat]
         /\ \A l \in LinesOf(o) : Got(o, lines)[l] <= StillToReserve(l, lines[l])
         /\ GotInAll(o, lines) \in Nat
         /\ GotInAll(o, lines) = SumFunctionOnSet(Got(o, lines), LinesOf(o))
<1> DEFINE still == [k \in Lines |-> StillToReserve(k, lines[k])]
           earlier(l) == {k \in LinesOf(o) : Sequence[k] < Sequence[l]}
           before(l) == SumFunction([k \in earlier(l) |-> StillToReserve(k, lines[k])])
<1>1. \A l \in Lines : StillToReserve(l, lines[l]) \in Nat
  <2> SUFFICES ASSUME NEW l \in Lines PROVE StillToReserve(l, lines[l]) \in Nat
    OBVIOUS
  <2>1. lines[l] \in Figures /\ Required[l] \in Nat
    BY LinesAreFew
  <2> QED BY <2>1, FiguresAreWhole DEF StillToReserve, Most
<1>2. ASSUME NEW l \in LinesOf(o)
      PROVE  before(l) \in Int
  <2> DEFINE E == earlier(l)
             f == [k \in E |-> StillToReserve(k, lines[k])]
  <2>1. E \in SUBSET Lines /\ IsFiniteSet(E)
    BY LinesAreFew, FS_Subset DEF LinesOf
  <2>2. Whole(f, E) /\ DOMAIN f = E
    BY <1>1, <2>1 DEF Whole
  <2>3. SumFunctionOnSet(f, E) \in Int
    <3> HIDE DEF E, f
    <3> QED BY <2>1, <2>2, SumIsWhole
  <2>4. SumFunction(f) = SumFunctionOnSet(f, E)
    BY <2>2, SumOverDomain
  <2> QED BY <2>3, <2>4
<1>3. Got(o, lines) = [l \in LinesOf(o) |->
        Least(StillToReserve(l, lines[l]), Most(0, current - reserved - before(l)))]
  BY DEF Got
<1> HIDE DEF before
<1>4. ASSUME NEW l \in LinesOf(o)
      PROVE  Got(o, lines)[l] \in Nat /\ Got(o, lines)[l] <= StillToReserve(l, lines[l])
  <2>1. current - reserved - before(l) \in Int
    BY <1>2 DEF StockInv, Covered
  <2>2. Most(0, current - reserved - before(l)) \in Nat
    BY <2>1, MostIsWhole
  <2>3. StillToReserve(l, lines[l]) \in Nat
    BY <1>1, LinesAreFew
  <2>4. Got(o, lines)[l] =
          Least(StillToReserve(l, lines[l]), Most(0, current - reserved - before(l)))
    BY <1>3
  <2> QED BY <2>2, <2>3, <2>4 DEF Least
<1>5. Got(o, lines) \in [LinesOf(o) -> Nat]
  BY <1>3, <1>4
<1>6. GotInAll(o, lines) = SumFunctionOnSet(Got(o, lines), LinesOf(o))
  BY <1>5, SumOverDomain DEF GotInAll
<1>7. Whole(Got(o, lines), LinesOf(o))
  BY <1>5 DEF Whole
<1>8. GotInAll(o, lines) \in Int /\ GotInAll(o, lines) >= 0
  BY <1>5, <1>6, <1>7, LinesAreFew, SumIsWhole, SumNotNegative
<1> QED BY <1>4, <1>5, <1>6, <1>8

\* What the lines reserve in all is what their claims grow by at the most, and no line
\* reserves more than it requires.
LEMMA Reserving ==
  ASSUME StockInv, NEW o, NEW lines \in [Lines -> Figures], Within(lines),
         NEW new, new = WithReserved(o, lines)
  PROVE  /\ new \in [Lines -> Figures] /\ Within(new)
         /\ \A l \in Lines : /\ new[l].consumed = lines[l].consumed
                             /\ OrderOf[l] # o => new[l] = lines[l]
         /\ ClaimsIn(new) <= ClaimsIn(lines) + GotInAll(o, lines)
<1> DEFINE got == Got(o, lines)
           more == [l \in Lines |-> IF l \in LinesOf(o) THEN got[l] ELSE 0]
           base == [l \in Lines |-> ClaimsOf(new)[l] - more[l]]
<1>1. /\ got \in [LinesOf(o) -> Nat]
      /\ \A l \in LinesOf(o) : got[l] <= StillToReserve(l, lines[l])
      /\ GotInAll(o, lines) = SumFunctionOnSet(got, LinesOf(o))
      /\ GotInAll(o, lines) \in Nat
  BY GotIsWhole
<1>2. ASSUME NEW l \in Lines
      PROVE  /\ new[l] \in Figures /\ new[l].consumed = lines[l].consumed
             /\ OrderOf[l] # o => new[l] = lines[l]
             /\ new[l].reserved - new[l].returned <= Required[l]
             /\ Most(0, Held(new[l])) - more[l] <= Most(0, Held(lines[l]))
             /\ more[l] \in Nat
  <2> DEFINE r == lines[l]
  <2>1. r \in Figures /\ r.reserved - r.returned <= Required[l] /\ Required[l] \in Nat
    BY LinesAreFew DEF Within
  <2>2. /\ r.reserved \in Nat /\ r.consumed \in Nat /\ r.wasted \in Nat /\ r.returned \in Nat
        /\ Held(r) = r.reserved - r.consumed - r.wasted - r.returned
    BY <2>1, FiguresAreWhole DEF Held
  <2>3. CASE OrderOf[l] = o
    <3>1. l \in LinesOf(o)
      BY <2>3 DEF LinesOf
    <3>2. new[l] = [r EXCEPT !.reserved = r.reserved + got[l]]
      BY <2>3 DEF WithReserved
    <3>3. got[l] \in Nat /\ got[l] <= StillToReserve(l, r) /\ more[l] = got[l]
      BY <1>1, <3>1
    <3>4. /\ new[l] \in Figures /\ new[l].reserved = r.reserved + got[l]
          /\ new[l].consumed = r.consumed /\ new[l].wasted = r.wasted
          /\ new[l].returned = r.returned
      BY <2>1, <3>2, <3>3 DEF Figures
    <3>5. Held(new[l]) = Held(r) + got[l]
      BY <2>2, <3>3, <3>4 DEF Held
    <3>6. new[l].reserved - new[l].returned <= Required[l]
      <4> HIDE DEF r, got, more
      <4> QED BY <2>1, <2>2, <3>3, <3>4 DEF StillToReserve, Most
    <3>7. Most(0, Held(new[l])) - more[l] <= Most(0, Held(r))
      <4> HIDE DEF r, got, more
      <4> QED BY <2>2, <3>3, <3>5 DEF Most
    <3> QED BY <2>3, <3>3, <3>4, <3>6, <3>7
  <2>4. CASE OrderOf[l] # o
    <3>1. new[l] = r /\ l \notin LinesOf(o) /\ more[l] = 0
      BY <2>4 DEF WithReserved, LinesOf
    <3> QED BY <2>1, <2>2, <3>1 DEF Most
  <2> QED BY <2>3, <2>4
<1>3. new \in [Lines -> Figures]
  <2>1. new = [l \in Lines |-> new[l]]
    BY DEF WithReserved
  <2> QED BY <1>2, <2>1
<1>4. Within(new)
  BY <1>2 DEF Within
<1>5. Whole(more, Lines) /\ Whole(base, Lines) /\ (\A l \in Lines : base[l] <= ClaimsOf(lines)[l])
  BY <1>2, <1>3, ClaimsAreWhole DEF Whole
<1>6. SumFunctionOnSet(base, Lines) <= ClaimsIn(lines)
  <2> HIDE DEF base
  <2> QED BY <1>5, LinesAreFew, ClaimsAreWhole, SumMonotone DEF ClaimsIn
<1>7. SumFunctionOnSet(base, Lines) = ClaimsIn(new) - SumFunctionOnSet(more, Lines)
  <2>1. \A l \in Lines : base[l] = ClaimsOf(new)[l] - more[l]
    OBVIOUS
  <2> HIDE DEF base, more
  <2> QED BY <1>3, <1>5, <2>1, LinesAreFew, ClaimsAreWhole, SumLess DEF ClaimsIn
<1>8. SumFunctionOnSet(more, Lines) = SumFunctionOnSet(got, LinesOf(o))
  <2>1. \A l \in Lines : more[l] = IF l \in LinesOf(o) THEN got[l] ELSE 0
    OBVIOUS
  <2>2. Whole(got, LinesOf(o))
    BY <1>1 DEF Whole
  <2> HIDE DEF got, more
  <2> QED BY <2>1, <2>2, LinesAreFew, SumPadded
<1>9. ClaimsIn(new) \in Int /\ ClaimsIn(lines) \in Int
  BY <1>3, ClaimsAreWhole
<1>10. ClaimsIn(new) <= ClaimsIn(lines) + GotInAll(o, lines)
  <2> DEFINE a == SumFunctionOnSet(base, Lines)
             b == SumFunctionOnSet(more, Lines)
  <2>1. a <= ClaimsIn(lines) /\ a = ClaimsIn(new) - b /\ b = GotInAll(o, lines)
    BY <1>1, <1>6, <1>7, <1>8
  <2> HIDE DEF a, b
  <2> QED BY <1>1, <1>9, <2>1
<1> QED BY <1>2, <1>3, <1>4, <1>10

\* A plan made anew starts its lines from nothing.
LEMMA Ensuring ==
  ASSUME PlansInv, NEW o, NEW lines, lines = Ensured(o)
  PROVE  /\ lines \in [Lines -> Figures] /\ Within(lines) /\ ClaimsIn(lines) <= ClaimsIn(line)
         /\ \A l \in Lines : /\ lines[l].consumed <= line[l].consumed
                             /\ OrderOf[l] # o => lines[l] = line[l]
<1>1. /\ Blank \in Figures /\ Held(Blank) = 0 /\ Blank.consumed = 0
      /\ Blank.reserved - Blank.returned = 0
  BY DEF Blank, Figures, Held
<1>2. ASSUME NEW l \in Lines
      PROVE  /\ lines[l] \in Figures /\ lines[l].reserved - lines[l].returned <= Required[l]
             /\ Most(0, Held(lines[l])) <= Most(0, Held(line[l]))
             /\ lines[l].consumed <= line[l].consumed
             /\ OrderOf[l] # o => lines[l] = line[l]
  <2>1. /\ line[l] \in Figures /\ line[l].reserved - line[l].returned <= Required[l]
        /\ Required[l] \in Nat
    BY LinesAreFew DEF PlansInv, LinesHold, ReservationsAddUp, NeverOverReserved
  <2>2. line[l].consumed \in Nat /\ Most(0, Held(line[l])) \in Nat
    BY <2>1, FiguresAreWhole
  <2>3. lines[l] = line[l] \/ (OrderOf[l] = o /\ lines[l] = Blank)
    BY DEF Ensured
  <2> QED BY <1>1, <2>1, <2>2, <2>3 DEF Most
<1>3. lines \in [Lines -> Figures]
  <2>1. lines = [l \in Lines |-> lines[l]]
    BY DEF Ensured
  <2> QED BY <1>2, <2>1
<1>4. ClaimsIn(lines) <= ClaimsIn(line)
  BY <1>2, <1>3, ClaimsShrink DEF PlansInv, LinesHold
<1> QED BY <1>2, <1>3, <1>4 DEF Within

-----------------------------------------------------------------------------
(* Lines that draw *)

\* Of what is drawn, the claim shrinks by what was backed.
LEMMA ClaimAfterDraw ==
  ASSUME NEW q \in Nat, NEW h \in Int
  PROVE  Most(0, h - q) = Most(0, h) - Most(0, Least(q, h))
BY DEF Most, Least

\* A line that draws q, as consumed or wasted.
Drawn(r, s, q) ==
  /\ s \in Figures /\ s.reserved = r.reserved /\ s.returned = r.returned
  /\ s.consumed + s.wasted = r.consumed + r.wasted + q

LEMMA DrawnClaim ==
  ASSUME NEW r \in Figures, NEW q \in Nat, NEW s, Drawn(r, s, q)
  PROVE  /\ s \in Figures /\ s.reserved - s.returned = r.reserved - r.returned
         /\ Held(s) <= Held(r)
         /\ Most(0, Held(s)) = Most(0, Held(r)) - BackedBy(q, r)
         /\ s.consumed + s.wasted + s.returned = r.consumed + r.wasted + r.returned + q
<1>1. Held(r) \in Int /\ BackedBy(q, r) = Most(0, Least(q, Held(r)))
  BY FiguresAreWhole
<1>2. Held(s) = Held(r) - q
  BY FiguresAreWhole DEF Held, Drawn
<1>3. s.consumed + s.wasted + s.returned = r.consumed + r.wasted + r.returned + q
  BY FiguresAreWhole DEF Drawn
<1> QED BY <1>1, <1>2, <1>3, ClaimAfterDraw DEF Drawn

\* One line draws.
LEMMA DrawnByOne ==
  ASSUME NEW lines \in [Lines -> Figures], Within(lines), NEW l \in Lines, NEW q \in Nat,
         NEW new \in [Lines -> Figures], Drawn(lines[l], new[l], q),
         \A k \in Lines \ {l} : new[k] = lines[k]
  PROVE  /\ Within(new)
         /\ ClaimsIn(new) = ClaimsIn(lines) - BackedBy(q, lines[l])
<1>1. /\ new[l].reserved - new[l].returned = lines[l].reserved - lines[l].returned
      /\ ClaimsOf(new)[l] = ClaimsOf(lines)[l] - BackedBy(q, lines[l])
  BY DrawnClaim, ClaimsAreWhole
<1>2. Within(new)
  BY <1>1 DEF Within
<1>3. \A k \in Lines \ {l} : ClaimsOf(lines)[k] = ClaimsOf(new)[k]
  BY ClaimsAreWhole
<1>4. ClaimsIn(new) = ClaimsIn(lines) + ClaimsOf(new)[l] - ClaimsOf(lines)[l]
  <2>1. ClaimsOf(new)[l] \in Int
    BY ClaimsAreWhole
  <2> QED BY <1>3, <2>1, ClaimsAreWhole, LinesAreFew, SumChanged DEF ClaimsIn
<1>5. /\ BackedBy(q, lines[l]) \in Nat /\ ClaimsOf(lines)[l] \in Int
      /\ ClaimsIn(lines) \in Int
  BY FiguresAreWhole, ClaimsAreWhole
<1> QED BY <1>1, <1>2, <1>4, <1>5

\* Every line of an order draws.
LEMMA DrawnInAll ==
  ASSUME NEW lines \in [Lines -> Figures], Within(lines), NEW o,
         NEW draw \in [LinesOf(o) -> Nat], NEW new \in [Lines -> Figures],
         \A l \in Lines : IF OrderOf[l] = o THEN Drawn(lines[l], new[l], draw[l])
                                             ELSE new[l] = lines[l],
         NEW backed, backed = SumFunction([l \in LinesOf(o) |-> BackedBy(draw[l], lines[l])])
  PROVE  Within(new) /\ backed \in Nat /\ ClaimsIn(new) = ClaimsIn(lines) - backed
<1> DEFINE b == [l \in LinesOf(o) |-> BackedBy(draw[l], lines[l])]
           pad == [l \in Lines |-> IF l \in LinesOf(o) THEN b[l] ELSE 0]
<1>1. ASSUME NEW l \in Lines
      PROVE  /\ new[l].reserved - new[l].returned = lines[l].reserved - lines[l].returned
             /\ ClaimsOf(new)[l] = ClaimsOf(lines)[l] - pad[l]
             /\ pad[l] \in Nat
  <2>0. ClaimsOf(lines)[l] \in Nat
    BY ClaimsAreWhole
  <2>1. CASE OrderOf[l] = o
    <3>1. l \in LinesOf(o) /\ draw[l] \in Nat /\ lines[l] \in Figures
      BY <2>1 DEF LinesOf
    <3>2. Drawn(lines[l], new[l], draw[l])
      BY <2>1
    <3>3. pad[l] = BackedBy(draw[l], lines[l]) /\ pad[l] \in Nat
      BY <3>1, FiguresAreWhole
    <3> HIDE DEF pad, b
    <3> QED BY <3>1, <3>2, <3>3, DrawnClaim, ClaimsAreWhole
  <2>2. CASE OrderOf[l] # o
    <3>1. l \notin LinesOf(o)
      BY <2>2 DEF LinesOf
    <3>2. new[l] = lines[l] /\ pad[l] = 0
      BY <2>2, <3>1
    <3> HIDE DEF pad, b
    <3> QED BY <2>0, <3>2, ClaimsAreWhole
  <2> QED BY <2>1, <2>2
<1>2. Within(new)
  BY <1>1 DEF Within
<1>3. Whole(b, LinesOf(o)) /\ \A l \in LinesOf(o) : b[l] \in Nat
  <2>1. \A l \in LinesOf(o) : b[l] \in Nat
    BY LinesAreFew, FiguresAreWhole
  <2> HIDE DEF b
  <2> QED BY <2>1 DEF Whole
<1>4. backed = SumFunctionOnSet(b, LinesOf(o))
  BY SumOverDomain
<1>5. backed \in Nat
  <2>1. backed \in Int /\ backed >= 0
    <3> HIDE DEF b
    <3> QED BY <1>3, <1>4, LinesAreFew, SumIsWhole, SumNotNegative
  <2> QED BY <2>1
<1>6. SumFunctionOnSet(pad, Lines) = backed
  <2>1. \A l \in Lines : pad[l] = IF l \in LinesOf(o) THEN b[l] ELSE 0
    OBVIOUS
  <2> HIDE DEF pad, b
  <2> QED BY <1>3, <1>4, <2>1, LinesAreFew, SumPadded
<1>7. Whole(pad, Lines)
  BY <1>1 DEF Whole
<1> HIDE DEF pad, b
<1>8. ClaimsIn(new) = ClaimsIn(lines) - SumFunctionOnSet(pad, Lines)
  BY <1>1, <1>7, ClaimsAreWhole, LinesAreFew, SumLess DEF ClaimsIn
<1> QED BY <1>2, <1>5, <1>6, <1>8

-----------------------------------------------------------------------------
(* What a step does to the item *)

LEMMA FiguresOfTheItem ==
  ASSUME StockInv
  PROVE  /\ current \in Nat /\ reserved \in Nat /\ reserved <= current
         /\ Nowhere \in Named /\ FALSE \in BOOLEAN
         /\ 0 \in Int /\ -1 \in Int /\ Way(0, Nowhere, Nowhere)
         /\ \A from \in Named : Way(-1, from, Nowhere)
BY DEF StockInv, Covered, Named, Way

LEMMA Holding ==
  ASSUME StockInv, NEW q \in Nat, Hold(q)
  PROVE  KeepsStock /\ reserved' = reserved + q /\ current' = current
<1>1. /\ current \in Nat /\ reserved \in Nat /\ reserved + q \in Int
      /\ Way(0, Nowhere, Nowhere) /\ Nowhere \in Named /\ 0 \in Int /\ FALSE \in BOOLEAN
  BY FiguresOfTheItem
<1>2. CASE q = 0
  BY <1>1, <1>2 DEF Hold, KeepsStock, stock
<1>3. CASE q # 0
  <2>1. Movement(q, 0, reserved + q, Nowhere, Nowhere, FALSE)
    BY <1>3 DEF Hold
  <2>2. Booked
    BY <1>1, <2>1, MovementBooks
  <2>3. /\ reserved + q <= current + 0 * q
        /\ current' = current + 0 * q /\ reserved' = ReservedAfter(reserved + q, current + 0 * q)
    BY <1>1, <1>3, <2>1 DEF Movement, Book
  <2> QED BY <1>1, <2>2, <2>3 DEF ReservedAfter, KeepsStock
<1> QED BY <1>2, <1>3

\* Cloth that is used comes off the reserved figure no further than to zero or to what
\* there is, so claims that fit the stock fit the reserved figure.
LEMMA Using ==
  ASSUME StockInv, NEW q \in Nat, NEW w \in Int, NEW from \in Named,
         Book(q, -1, Most(0, w), from, Nowhere, FALSE)
  PROVE  KeepsStock /\ \A c \in Int : c <= w /\ c <= current' => c <= reserved'
<1>1. /\ current \in Nat /\ Most(0, w) \in Int /\ -1 \in Int /\ Nowhere \in Named
      /\ FALSE \in BOOLEAN /\ Way(-1, from, Nowhere)
  BY FiguresOfTheItem DEF Most
<1>2. Booked
  BY <1>1, Zenon DEF Booked
<1>3. current' = current + -1 * q /\ reserved' = ReservedAfter(Most(0, w), current + -1 * q)
  BY DEF Book
<1> QED BY <1>1, <1>2, <1>3 DEF KeepsStock, ReservedAfter, Most

LEMMA UnusedIsWhole ==
  ASSUME line \in [Lines -> Figures], NEW o
  PROVE  /\ Unused(o) \in Nat
         /\ Unused(o) = SumFunctionOnSet(ClaimsOf(line), LinesOf(o))
<1> DEFINE u == [l \in LinesOf(o) |-> Most(0, Held(line[l]))]
<1>1. \A l \in LinesOf(o) : u[l] = ClaimsOf(line)[l] /\ u[l] \in Nat
  BY LinesAreFew, ClaimsAreWhole
<1>2. Unused(o) = SumFunctionOnSet(u, LinesOf(o))
  BY SumOverDomain DEF Unused
<1> HIDE DEF u
<1>3. Whole(u, LinesOf(o))
  BY <1>1 DEF Whole
<1>4. SumFunctionOnSet(u, LinesOf(o)) \in Int /\ SumFunctionOnSet(u, LinesOf(o)) >= 0
  BY <1>1, <1>3, LinesAreFew, SumIsWhole, SumNotNegative
<1>5. SumFunctionOnSet(u, LinesOf(o)) = SumFunctionOnSet(ClaimsOf(line), LinesOf(o))
  BY <1>1, <1>3, LinesAreFew, SumSame
<1> QED BY <1>2, <1>4, <1>5

\* What an order gives back is what its lines claimed, and they claim nothing after.
LEMMA Releasing ==
  ASSUME PlansInv, NEW o, ReleaseUnused(o)
  PROVE  /\ KeepsStock /\ line' \in [Lines -> Figures] /\ Within(line') /\ KeepsClaims
         /\ \A l \in Lines : /\ OrderOf[l] = o => Held(line'[l]) <= 0
                             /\ OrderOf[l] # o => line'[l] = line[l]
                             /\ line'[l].consumed = line[l].consumed
<1> DEFINE u == Unused(o)
           base == [l \in Lines |-> IF l \in LinesOf(o) THEN ClaimsOf(line)[l] ELSE 0]
<1>0. StockInv /\ line \in [Lines -> Figures] /\ Within(line)
  BY DEF PlansInv, LinesHold, ReservationsAddUp, NeverOverReserved, Within
<1>1. u \in Nat /\ u = SumFunctionOnSet(ClaimsOf(line), LinesOf(o))
  BY <1>0, UnusedIsWhole
<1>2. ASSUME NEW l \in Lines
      PROVE  /\ line'[l] \in Figures /\ line'[l].consumed = line[l].consumed
             /\ line'[l].reserved - line'[l].returned <= Required[l]
             /\ OrderOf[l] = o => Held(line'[l]) <= 0
             /\ OrderOf[l] # o => line'[l] = line[l]
             /\ Most(0, Held(line'[l])) = ClaimsOf(line)[l] - base[l]
  <2> DEFINE r == line[l]
             m == Most(0, Held(r))
  <2>1. /\ r \in Figures /\ r.reserved - r.returned <= Required[l] /\ Required[l] \in Nat
        /\ ClaimsOf(line)[l] = m
    BY <1>0, LinesAreFew, ClaimsAreWhole DEF Within
  <2>2. /\ r.reserved \in Nat /\ r.consumed \in Nat /\ r.wasted \in Nat /\ r.returned \in Nat
        /\ Held(r) = r.reserved - r.consumed - r.wasted - r.returned /\ m \in Nat
    BY <2>1, FiguresAreWhole DEF Held
  <2>3. CASE OrderOf[l] = o
    <3>1. line'[l] = [r EXCEPT !.returned = r.returned + m]
      BY <2>3 DEF ReleaseUnused
    <3>2. l \in LinesOf(o)
      BY <2>3 DEF LinesOf
    <3>3. base[l] = m
      BY <2>1, <3>2
    <3>4. /\ line'[l] \in Figures /\ line'[l].reserved = r.reserved
          /\ line'[l].consumed = r.consumed /\ line'[l].wasted = r.wasted
          /\ line'[l].returned = r.returned + m
      <4> HIDE DEF m
      <4> QED BY <2>1, <2>2, <3>1 DEF Figures
    <3>5. Held(line'[l]) = Held(r) - m
      <4> HIDE DEF m
      <4> QED BY <2>2, <3>4 DEF Held
    <3>6. Held(line'[l]) <= 0 /\ Most(0, Held(line'[l])) = 0
      <4> HIDE DEF r
      <4> QED BY <2>2, <3>5 DEF Most
    <3> HIDE DEF m, base
    <3> QED BY <2>1, <2>2, <2>3, <3>3, <3>4, <3>6
  <2>4. CASE OrderOf[l] # o
    <3>1. line'[l] = r
      BY <2>4 DEF ReleaseUnused
    <3>2. l \notin LinesOf(o)
      BY <2>4 DEF LinesOf
    <3>3. base[l] = 0
      BY <3>2
    <3> QED BY <2>1, <2>2, <2>4, <3>1, <3>3
  <2> QED BY <2>3, <2>4
<1>3. line' \in [Lines -> Figures]
  <2>1. line' = [l \in Lines |-> line'[l]]
    BY DEF ReleaseUnused
  <2> QED BY <1>2, <2>1
<1>4. Whole(base, Lines)
  BY <1>0, ClaimsAreWhole DEF Whole
<1>5. SumFunctionOnSet(base, Lines) = u
  <2>1. \A l \in Lines : base[l] = IF l \in LinesOf(o) THEN ClaimsOf(line)[l] ELSE 0
    OBVIOUS
  <2>2. Whole(ClaimsOf(line), LinesOf(o))
    BY <1>0, ClaimsAreWhole, LinesAreFew DEF Whole
  <2> HIDE DEF base, u
  <2> QED BY <1>1, <2>1, <2>2, LinesAreFew, SumPadded
<1> HIDE DEF base
<1>6. ClaimsIn(line') = ClaimsIn(line) - u
  <2>1. \A l \in Lines : ClaimsOf(line')[l] = ClaimsOf(line)[l] - base[l]
    BY <1>2, <1>3, ClaimsAreWhole
  <2> QED BY <1>0, <1>4, <1>5, <2>1, ClaimsAreWhole, LinesAreFew, SumLess DEF ClaimsIn
<1>7. KeepsStock /\ reserved' = reserved - u
  <2>1. /\ current \in Nat /\ reserved \in Nat /\ reserved <= current /\ reserved - u \in Int
        /\ Way(0, Nowhere, Nowhere) /\ Nowhere \in Named /\ 0 \in Int /\ FALSE \in BOOLEAN
    BY <1>0, <1>1, FiguresOfTheItem
  <2>2. CASE u = 0
    BY <2>1, <2>2 DEF ReleaseUnused, KeepsStock, stock
  <2>3. CASE u # 0
    <3>1. Movement(u, 0, reserved - u, Nowhere, Nowhere, FALSE)
      BY <2>3 DEF ReleaseUnused
    <3> HIDE DEF u
    <3>2. Booked
      BY <1>1, <2>1, <3>1, MovementBooks
    <3>3. reserved' = ReservedAfter(reserved - u, current + 0 * u)
      BY <3>1 DEF Movement, Book
    <3> QED BY <1>1, <2>1, <3>2, <3>3 DEF ReservedAfter, KeepsStock
  <2> QED BY <2>2, <2>3
<1>8. KeepsClaims
  <2>1. ClaimsIn(line) \in Int /\ reserved \in Nat
    BY <1>0, ClaimsAreWhole, FiguresOfTheItem
  <2> HIDE DEF u
  <2> QED BY <1>1, <1>6, <1>7, <2>1 DEF KeepsClaims
<1> QED BY <1>2, <1>3, <1>7, <1>8 DEF Within

-----------------------------------------------------------------------------
(* Every step *)

\* What the invariant says, spread out.
LEMMA PlansFacts ==
  ASSUME PlansInv
  PROVE  /\ StockInv /\ line \in [Lines -> Figures] /\ plan \in [Orders -> Statuses]
         /\ Within(line) /\ ClosedPlansHoldNothing /\ ClaimsIn(line) \in Int
         /\ current \in Nat /\ reserved \in Nat
BY ClaimsAreWhole, FiguresOfTheItem
   DEF PlansInv, LinesHold, ReservationsAddUp, NeverOverReserved, Within

\* A step that leaves only one order's lines to look at.
LEMMA StaysAddedUp ==
  ASSUME PlansInv, NEW o \in Orders, NEW s \in Statuses,
         plan' = [plan EXCEPT ![o] = s],
         line' \in [Lines -> Figures], Within(line'),
         \A l \in Lines : OrderOf[l] # o => line'[l] = line[l],
         s \in {"COMPLETED", "CANCELLED"} =>
           \A l \in Lines : OrderOf[l] = o => Held(line'[l]) <= 0
  PROVE  LinesHold' /\ ReservationsAddUp'
<1>1. plan' \in [Orders -> Statuses] /\ plan'[o] = s
  BY PlansFacts
<1>2. ASSUME NEW l \in Lines, plan'[OrderOf[l]] \in {"COMPLETED", "CANCELLED"}
      PROVE  Held(line'[l]) <= 0
  <2>1. CASE OrderOf[l] = o
    BY <1>1, <1>2, <2>1
  <2>2. CASE OrderOf[l] # o
    BY <1>2, <2>2, PlansFacts, LinesAreFew DEF ClosedPlansHoldNothing
  <2> QED BY <2>1, <2>2
<1>3. NeverOverReserved'
  BY DEF Within, NeverOverReserved
<1>4. ClosedPlansHoldNothing'
  BY <1>2 DEF ClosedPlansHoldNothing
<1> QED BY <1>1, <1>3, <1>4 DEF LinesHold, ReservationsAddUp

\* Lines that reserve and nothing more: what they may claim beyond is reserved.
LEMMA ReservedInAll ==
  ASSUME PlansInv, NEW o \in Orders, NEW lines \in [Lines -> Figures], Within(lines),
         ClaimsIn(lines) <= ClaimsIn(line),
         \A l \in Lines : /\ lines[l].consumed <= line[l].consumed
                          /\ OrderOf[l] # o => lines[l] = line[l],
         line' = WithReserved(o, lines), Hold(GotInAll(o, lines)), Status(o, "RESERVED")
  PROVE  Sound
<1>1. /\ line' \in [Lines -> Figures] /\ Within(line')
      /\ \A l \in Lines : /\ line'[l].consumed = lines[l].consumed
                          /\ OrderOf[l] # o => line'[l] = lines[l]
      /\ ClaimsIn(line') <= ClaimsIn(lines) + GotInAll(o, lines)
      /\ GotInAll(o, lines) \in Nat
  BY PlansFacts, Reserving, GotIsWhole
<1>2. KeepsStock /\ reserved' = reserved + GotInAll(o, lines)
  BY <1>1, PlansFacts, Holding
<1>3. KeepsClaims
  <2>1. ClaimsIn(line') \in Int /\ ClaimsIn(lines) \in Int
    BY <1>1, ClaimsAreWhole
  <2> QED BY <1>1, <1>2, <2>1, PlansFacts DEF KeepsClaims
<1>4. LinesHold' /\ ReservationsAddUp'
  <2>1. "RESERVED" \in Statuses /\ "RESERVED" \notin {"COMPLETED", "CANCELLED"}
    BY DEF Statuses
  <2>2. plan' = [plan EXCEPT ![o] = "RESERVED"]
    BY DEF Status
  <2> QED BY <1>1, <2>1, <2>2, StaysAddedUp
<1>5. DrawsOnce
  <2> SUFFICES ASSUME NEW l \in Lines PROVE ~(line'[l].consumed > line[l].consumed)
    BY DEF DrawsOnce
  <2>1. line'[l].consumed \in Nat /\ line[l].consumed \in Nat
    BY <1>1, PlansFacts, FiguresAreWhole
  <2> QED BY <1>1, <2>1
<1> QED BY <1>2, <1>3, <1>4, <1>5 DEF Sound

LEMMA ReservePlanIsSound ==
  ASSUME PlansInv, NEW o \in Orders, NEW partial, ReservePlan(o, partial)
  PROVE  Sound
<1>1. \A l \in Lines : line[l].consumed <= line[l].consumed
  BY PlansFacts, FiguresAreWhole
<1>2. ClaimsIn(line) <= ClaimsIn(line)
  BY PlansFacts
<1>3. line' = WithReserved(o, line) /\ Hold(GotInAll(o, line)) /\ Status(o, "RESERVED")
  BY DEF ReservePlan
<1> QED BY <1>1, <1>2, <1>3, PlansFacts, ReservedInAll

LEMMA ConfirmIsSound ==
  ASSUME PlansInv, NEW o \in Orders, Confirm(o)
  PROVE  Sound
<1> DEFINE lines == Ensured(o)
<1>1. /\ lines \in [Lines -> Figures] /\ Within(lines) /\ ClaimsIn(lines) <= ClaimsIn(line)
      /\ \A l \in Lines : /\ lines[l].consumed <= line[l].consumed
                          /\ OrderOf[l] # o => lines[l] = line[l]
  BY Ensuring
<1>2. line' = WithReserved(o, lines) /\ Hold(GotInAll(o, lines)) /\ Status(o, "RESERVED")
  BY DEF Confirm
<1> HIDE DEF lines
<1> QED BY <1>1, <1>2, ReservedInAll

LEMMA OpenChecklistIsSound ==
  ASSUME PlansInv, NEW o \in Orders, OpenChecklist(o)
  PROVE  Sound
<1>1. /\ line' \in [Lines -> Figures] /\ Within(line') /\ ClaimsIn(line') <= ClaimsIn(line)
      /\ \A l \in Lines : /\ line'[l].consumed <= line[l].consumed
                          /\ OrderOf[l] # o => line'[l] = line[l]
  BY Ensuring DEF OpenChecklist
<1>2. UNCHANGED stock /\ reserved' = reserved /\ UNCHANGED <<stitched, packed>>
  BY DEF OpenChecklist, stock, production
<1>3. "DRAFT" \in Statuses /\ "DRAFT" \notin {"COMPLETED", "CANCELLED"}
  BY DEF Statuses
<1>4. LinesHold' /\ ReservationsAddUp'
  <2>1. plan' = [plan EXCEPT ![o] = "DRAFT"]
    BY DEF OpenChecklist, Status
  <2> QED BY <1>1, <1>3, <2>1, StaysAddedUp
<1>5. KeepsClaims
  BY <1>1, <1>2, ClaimsAreWhole, PlansFacts DEF KeepsClaims
<1> QED BY <1>2, <1>4, <1>5 DEF Sound, KeepsStock

LEMMA ConsumeIsSound ==
  ASSUME PlansInv, NEW l \in Lines, NEW used \in Nat, NEW wasted \in Nat,
         NEW from \in Named, Consume(l, used, wasted, from)
  PROVE  Sound
<1> DEFINE o == OrderOf[l]
           q == used + wasted
           r == line[l]
           b == BackedBy(q, r)
<1>1. /\ r \in Figures /\ o \in Orders /\ q \in Nat /\ b \in Nat
      /\ r.reserved \in Nat /\ r.consumed \in Nat /\ r.wasted \in Nat /\ r.returned \in Nat
  <2>1. r \in Figures
    BY PlansFacts
  <2> HIDE DEF r
  <2> QED BY <2>1, LinesAreFew, FiguresAreWhole
<1>2. line' = [line EXCEPT ![l] = [r EXCEPT !.consumed = r.consumed + used,
                                            !.wasted = r.wasted + wasted]]
  BY <1>1, PlansFacts DEF Consume
<1>3. Drawn(r, line'[l], q)
  <2>1. line'[l] = [r EXCEPT !.consumed = r.consumed + used, !.wasted = r.wasted + wasted]
    BY <1>2, PlansFacts
  <2> HIDE DEF r
  <2>2. line'[l] = [reserved |-> r.reserved, consumed |-> r.consumed + used,
                    wasted |-> r.wasted + wasted, returned |-> r.returned]
    BY <1>1, <2>1 DEF Figures
  <2>3. line'[l] \in Figures
    BY <1>1, <2>2 DEF Figures
  <2>4. /\ line'[l].reserved = r.reserved /\ line'[l].returned = r.returned
        /\ line'[l].consumed = r.consumed + used /\ line'[l].wasted = r.wasted + wasted
    BY <2>2
  <2> QED BY <1>1, <2>3, <2>4 DEF Drawn
<1>4. line' \in [Lines -> Figures] /\ \A k \in Lines \ {l} : line'[k] = line[k]
  <2>1. line'[l] \in Figures
    BY <1>3 DEF Drawn
  <2> QED BY <1>2, <2>1, PlansFacts
<1>5. Within(line') /\ ClaimsIn(line') = ClaimsIn(line) - b
  BY <1>1, <1>3, <1>4, PlansFacts, DrawnByOne
<1>6. KeepsStock /\ \A c \in Int : c <= reserved - b /\ c <= current' => c <= reserved'
  <2>1. Book(q, -1, Most(0, reserved - b), from, Nowhere, FALSE)
    BY DEF Consume
  <2>2. reserved - b \in Int
    BY <1>1, PlansFacts
  <2> HIDE DEF q, b
  <2> QED BY <1>1, <2>1, <2>2, PlansFacts, Using
<1>7. KeepsClaims
  <2>1. ClaimsIn(line') \in Int
    BY <1>4, ClaimsAreWhole
  <2> HIDE DEF b
  <2> QED BY <1>1, <1>5, <1>6, <2>1, PlansFacts DEF KeepsClaims
<1>8. LinesHold' /\ ReservationsAddUp'
  <2>1. plan' = [plan EXCEPT ![o] = "IN_PRODUCTION"]
    BY DEF Consume, Status
  <2>2. "IN_PRODUCTION" \in Statuses /\ "IN_PRODUCTION" \notin {"COMPLETED", "CANCELLED"}
    BY DEF Statuses
  <2>3. \A k \in Lines : OrderOf[k] # o => line'[k] = line[k]
    BY <1>4
  <2> HIDE DEF o
  <2> QED BY <1>1, <1>4, <1>5, <2>1, <2>2, <2>3, StaysAddedUp
<1>9. UNCHANGED <<stitched, packed>>
  BY DEF Consume, production
<1> QED BY <1>6, <1>7, <1>8, <1>9 DEF Sound

\* Giving back what is unused, whatever becomes of the plan.
LEMMA ReleasedInAll ==
  ASSUME PlansInv, NEW o \in Orders, ReleaseUnused(o), NEW s \in Statuses,
         plan' = [plan EXCEPT ![o] = s], UNCHANGED packed
  PROVE  Sound
<1>1. /\ KeepsStock /\ line' \in [Lines -> Figures] /\ Within(line') /\ KeepsClaims
      /\ \A l \in Lines : /\ OrderOf[l] = o => Held(line'[l]) <= 0
                          /\ OrderOf[l] # o => line'[l] = line[l]
                          /\ line'[l].consumed = line[l].consumed
  BY Releasing
<1>2. LinesHold' /\ ReservationsAddUp'
  BY <1>1, StaysAddedUp
<1>3. DrawsOnce
  <2>1. \A l \in Lines : line[l].consumed \in Nat
    BY PlansFacts, FiguresAreWhole
  <2> QED BY <1>1, <2>1 DEF DrawsOnce
<1> QED BY <1>1, <1>2, <1>3 DEF Sound

LEMMA ReturnUnusedIsSound ==
  ASSUME PlansInv, NEW o \in Orders, ReturnUnused(o)
  PROVE  Sound
<1>1. plan' = [plan EXCEPT ![o] = plan[o]] /\ plan[o] \in Statuses
  BY PlansFacts DEF ReturnUnused
<1>2. ReleaseUnused(o) /\ UNCHANGED packed
  BY DEF ReturnUnused
<1> QED BY <1>1, <1>2, ReleasedInAll

\* The lines, the item and what has been made stay as they are.
LEMMA OnlyThePlanIsSound ==
  ASSUME PlansInv, UNCHANGED <<stock, line>>, LinesHold', ClosedPlansHoldNothing'
  PROVE  Sound
<1>1. UNCHANGED <<current, reserved, line>>
  BY DEF stock
<1>2. NeverOverReserved'
  BY <1>1 DEF PlansInv, ReservationsAddUp, NeverOverReserved
<1>3. DrawsOnce
  <2>1. \A l \in Lines : line[l].consumed \in Nat
    BY PlansFacts, FiguresAreWhole
  <2> QED BY <1>1, <2>1 DEF DrawsOnce
<1> QED BY <1>1, <1>2, <1>3 DEF Sound, KeepsStock, KeepsClaims, ReservationsAddUp

LEMMA CloseIsSound ==
  ASSUME PlansInv, NEW o \in Orders, NEW release, Close(o, release)
  PROVE  Sound
<1>1. plan' = [plan EXCEPT ![o] = "COMPLETED"] /\ UNCHANGED packed /\ "COMPLETED" \in Statuses
  BY DEF Close, Status, Statuses
<1>2. CASE release
  <2>1. ReleaseUnused(o)
    BY <1>2 DEF Close
  <2> QED BY <1>1, <2>1, ReleasedInAll
<1>3. CASE ~release
  <2>1. (\A l \in LinesOf(o) : Held(line[l]) <= 0) /\ UNCHANGED <<stock, line>>
    BY <1>3 DEF Close
  <2>2. LinesHold'
    BY <1>1, <2>1, PlansFacts DEF LinesHold
  <2>3. ClosedPlansHoldNothing'
    BY <1>1, <2>1, PlansFacts, LinesAreFew DEF ClosedPlansHoldNothing, LinesOf
  <2> QED BY <2>1, <2>2, <2>3, OnlyThePlanIsSound
<1> QED BY <1>2, <1>3

LEMMA CancelIsSound ==
  ASSUME PlansInv, NEW o \in Orders, Cancel(o)
  PROVE  Sound
<1>1. plan' = [plan EXCEPT ![o] = "CANCELLED"] /\ UNCHANGED packed /\ "CANCELLED" \in Statuses
  BY DEF Cancel, Status, Statuses
<1>2. ReleaseUnused(o)
  BY DEF Cancel
<1> QED BY <1>1, <1>2, ReleasedInAll

LEMMA HandOverIsSound ==
  ASSUME PlansInv, NEW l \in Lines, HandOver(l)
  PROVE  Sound
<1> DEFINE o == OrderOf[l]
<1>1. o \in Orders /\ UNCHANGED packed
  BY LinesAreFew DEF HandOver
<1>2. CASE LinesOf(o) \subseteq given' /\ Live(o)
  <2>1. ReleaseUnused(o) /\ plan' = [plan EXCEPT ![o] = "COMPLETED"]
    BY <1>2 DEF HandOver, Status
  <2>2. "COMPLETED" \in Statuses
    BY DEF Statuses
  <2> HIDE DEF o
  <2> QED BY <1>1, <2>1, <2>2, ReleasedInAll
<1>3. CASE ~(LinesOf(o) \subseteq given' /\ Live(o))
  <2>1. UNCHANGED <<stock, line, plan>>
    BY <1>3 DEF HandOver
  <2> QED BY <2>1, PlansFacts, OnlyThePlanIsSound DEF LinesHold, ClosedPlansHoldNothing
<1> QED BY <1>2, <1>3

LEMMA ReopenIsSound ==
  ASSUME PlansInv, Reopen
  PROVE  Sound
<1>1. UNCHANGED <<stock, plan, line>>
  BY DEF Reopen
<1> QED BY <1>1, PlansFacts, OnlyThePlanIsSound DEF LinesHold, ClosedPlansHoldNothing

LEMMA ScreensAreSound ==
  ASSUME PlansInv, Screens
  PROVE  Sound
<1>1. UNCHANGED <<plan, line, packed, stitched>> /\ Movements
  BY DEF Screens, production, Movements
<1>2. Booked
  BY <1>1, MovementsBook DEF PlansInv, StockInv
<1>3. LinesHold' /\ ReservationsAddUp'
  BY <1>1 DEF PlansInv, LinesHold, ReservationsAddUp, ClosedPlansHoldNothing, NeverOverReserved
<1> QED BY <1>1, <1>2, <1>3 DEF Sound, KeepsStock

LEMMA DeductPackagingIsSound ==
  ASSUME PlansInv, NEW o \in Orders, NEW from \in Named, DeductPackaging(o, from)
  PROVE  Sound
<1> DEFINE draw == [l \in LinesOf(o) |-> IF Packaging THEN Most(0, StillToDraw(l, line[l])) ELSE 0]
           q == SumFunction(draw)
           backed == SumFunction([l \in LinesOf(o) |-> BackedBy(draw[l], line[l])])
<1>0. \A l \in LinesOf(o) : /\ l \in Lines /\ line[l] \in Figures
                            /\ StillToDraw(l, line[l]) \in Int
  BY PlansFacts, LinesAreFew, FiguresAreWhole DEF StillToDraw
<1>1. draw \in [LinesOf(o) -> Nat]
  BY <1>0, MostIsWhole
<1>2. \A l \in LinesOf(o) : draw[l] > 0 => draw[l] = StillToDraw(l, line[l])
  BY <1>0 DEF Most
<1>3. /\ IF q = 0 THEN UNCHANGED stock
         ELSE Book(q, -1, Most(0, reserved - backed), from, Nowhere, FALSE)
      /\ line' = [l \in Lines |-> IF OrderOf[l] = o
                                  THEN [line[l] EXCEPT !.consumed = line[l].consumed + draw[l]]
                                  ELSE line[l]]
      /\ UNCHANGED <<plan, stitched>>
  BY DEF DeductPackaging, production
<1>4. q \in Nat
  <2>1. q = SumFunctionOnSet(draw, LinesOf(o))
    BY <1>1, SumOverDomain
  <2>2. Whole(draw, LinesOf(o))
    BY <1>1 DEF Whole
  <2> HIDE DEF draw
  <2>3. q \in Int /\ q >= 0
    BY <1>1, <2>1, <2>2, LinesAreFew, SumIsWhole, SumNotNegative
  <2> QED BY <2>3
<1> HIDE DEF draw
<1>5. ASSUME NEW l \in Lines
      PROVE  /\ line'[l] \in Figures
             /\ IF OrderOf[l] = o THEN Drawn(line[l], line'[l], draw[l])
                                  ELSE line'[l] = line[l]
             /\ line'[l].consumed > line[l].consumed
                => line'[l].consumed + line'[l].wasted + line'[l].returned <= Required[l]
  <2> DEFINE r == line[l]
  <2>1. /\ r \in Figures /\ r.consumed \in Nat /\ r.wasted \in Nat /\ r.returned \in Nat
        /\ r.reserved \in Nat /\ Required[l] \in Nat
    <3>1. r \in Figures
      BY PlansFacts
    <3> HIDE DEF r
    <3> QED BY <3>1, LinesAreFew, FiguresAreWhole
  <2>2. CASE OrderOf[l] = o
    <3>1. l \in LinesOf(o)
      BY <2>2 DEF LinesOf
    <3>2. /\ draw[l] \in Nat /\ line'[l] = [r EXCEPT !.consumed = r.consumed + draw[l]]
          /\ draw[l] > 0 => draw[l] = Required[l] - r.consumed - r.wasted - r.returned
      BY <1>1, <1>2, <1>3, <2>2, <3>1 DEF StillToDraw
    <3>3. /\ line'[l] \in Figures /\ line'[l].consumed = r.consumed + draw[l]
          /\ line'[l].reserved = r.reserved /\ line'[l].wasted = r.wasted
          /\ line'[l].returned = r.returned
      <4> HIDE DEF r
      <4> QED BY <2>1, <3>2 DEF Figures
    <3>4. Drawn(r, line'[l], draw[l])
      <4> HIDE DEF r
      <4> QED BY <2>1, <3>2, <3>3 DEF Drawn
    <3> QED BY <2>1, <2>2, <3>2, <3>3, <3>4
  <2>3. CASE OrderOf[l] # o
    <3>1. line'[l] = r
      BY <1>3, <2>3
    <3> QED BY <2>1, <2>3, <3>1
  <2> QED BY <2>2, <2>3
<1>6. line' \in [Lines -> Figures]
  <2>1. line' = [l \in Lines |-> line'[l]]
    BY <1>3
  <2> QED BY <1>5, <2>1
<1>7. Within(line') /\ backed \in Nat /\ ClaimsIn(line') = ClaimsIn(line) - backed
  <2>1. backed = SumFunction([l \in LinesOf(o) |-> BackedBy(draw[l], line[l])])
    OBVIOUS
  <2> HIDE DEF backed
  <2> QED BY <1>1, <1>5, <1>6, <2>1, PlansFacts, DrawnInAll
<1> HIDE DEF backed, q
<1>8. ClaimsIn(line') \in Int /\ ClaimsIn(line) \in Int /\ reserved \in Nat
  BY <1>6, ClaimsAreWhole, PlansFacts
<1>9. KeepsStock /\ KeepsClaims
  <2>1. CASE q = 0
    <3>1. UNCHANGED stock /\ reserved' = reserved
      BY <1>3, <2>1 DEF stock
    <3> QED BY <1>7, <1>8, <3>1 DEF KeepsStock, KeepsClaims
  <2>2. CASE q # 0
    <3>1. Book(q, -1, Most(0, reserved - backed), from, Nowhere, FALSE)
      BY <1>3, <2>2
    <3>2. KeepsStock /\ \A c \in Int : c <= reserved - backed /\ c <= current' => c <= reserved'
      <4>1. reserved - backed \in Int
        BY <1>7, <1>8
      <4> QED BY <1>4, <3>1, <4>1, PlansFacts, Using
    <3> QED BY <1>7, <1>8, <3>2 DEF KeepsClaims
  <2> QED BY <2>1, <2>2
<1>10. DrawsOnce
  BY <1>5 DEF DrawsOnce
<1>11. LinesHold' /\ ReservationsAddUp'
  <2>1. plan[o] \in {"RESERVED", "IN_PRODUCTION"}
    BY DEF DeductPackaging
  <2>2. plan' = [plan EXCEPT ![o] = plan[o]] /\ plan[o] \in Statuses
    BY <1>3, PlansFacts
  <2>3. plan[o] \notin {"COMPLETED", "CANCELLED"}
    BY <2>1
  <2>4. \A l \in Lines : OrderOf[l] # o => line'[l] = line[l]
    BY <1>3
  <2> QED BY <1>6, <1>7, <2>2, <2>3, <2>4, StaysAddedUp
<1> QED BY <1>9, <1>10, <1>11 DEF Sound

LEMMA StitchIsSound ==
  ASSUME PlansInv, NEW l \in Lines, Stitch(l)
  PROVE  Sound
<1> DEFINE o == OrderOf[l]
           lines == IF Live(o) THEN line ELSE WithReserved(o, Ensured(o))
           got == IF Live(o) THEN 0 ELSE GotInAll(o, Ensured(o))
           r == lines[l]
           usable == Least(StillToDraw(l, r), current)
           s == IF usable > 0 THEN "IN_PRODUCTION"
                ELSE IF Live(o) THEN plan[o] ELSE "RESERVED"
<1>0. /\ o \in Orders /\ StockInv /\ line \in [Lines -> Figures] /\ Within(line)
      /\ ClaimsIn(line) \in Int /\ current \in Nat /\ reserved \in Nat
  BY PlansFacts, LinesAreFew
<1>1. /\ lines \in [Lines -> Figures] /\ Within(lines) /\ got \in Nat
      /\ ClaimsIn(lines) <= ClaimsIn(line) + got
      /\ \A k \in Lines : /\ lines[k].consumed <= line[k].consumed
                          /\ OrderOf[k] # o => lines[k] = line[k]
  <2>1. CASE Live(o)
    <3>1. lines = line /\ got = 0
      BY <2>1
    <3>2. \A k \in Lines : line[k].consumed <= line[k].consumed
      BY <1>0, FiguresAreWhole
    <3> QED BY <1>0, <3>1, <3>2
  <2>2. CASE ~Live(o)
    <3> DEFINE new == Ensured(o)
    <3>1. /\ new \in [Lines -> Figures] /\ Within(new) /\ ClaimsIn(new) <= ClaimsIn(line)
          /\ \A k \in Lines : /\ new[k].consumed <= line[k].consumed
                              /\ OrderOf[k] # o => new[k] = line[k]
      BY Ensuring
    <3>2. lines = WithReserved(o, new) /\ got = GotInAll(o, new)
      BY <2>2
    <3> HIDE DEF lines, got, new, o
    <3>3. /\ lines \in [Lines -> Figures] /\ Within(lines)
          /\ \A k \in Lines : /\ lines[k].consumed = new[k].consumed
                              /\ OrderOf[k] # o => lines[k] = new[k]
          /\ ClaimsIn(lines) <= ClaimsIn(new) + GotInAll(o, new)
      BY <1>0, <3>1, <3>2, Reserving
    <3>4. got \in Nat
      BY <1>0, <3>1, <3>2, GotIsWhole
    <3>5. ClaimsIn(lines) \in Int /\ ClaimsIn(new) \in Int
      BY <3>1, <3>3, ClaimsAreWhole
    <3>6. ClaimsIn(lines) <= ClaimsIn(line) + got
      BY <1>0, <3>1, <3>2, <3>3, <3>4, <3>5
    <3> QED BY <3>1, <3>3, <3>4, <3>6
  <2> QED BY <2>1, <2>2
<1>2. /\ UNCHANGED taken
      /\ plan' = [plan EXCEPT ![o] = s]
      /\ usable <= 0 => line' = lines /\ Hold(got)
      /\ ~(usable <= 0) =>
           /\ line' = [lines EXCEPT ![l].consumed = lines[l].consumed + usable]
           /\ Book(usable, -1, Most(0, reserved + got - BackedBy(usable, r)),
                   Nowhere, Nowhere, FALSE)
  <2>1. usable > 0 <=> ~(usable <= 0)
    <3>1. r \in Figures /\ Required[l] \in Nat
      BY <1>1, LinesAreFew
    <3>2. StillToDraw(l, r) \in Int
      <4> HIDE DEF r
      <4> QED BY <3>1, FiguresAreWhole DEF StillToDraw
    <3>3. usable \in Int
      <4> HIDE DEF r
      <4> QED BY <1>0, <3>2 DEF Least
    <3> HIDE DEF usable
    <3> QED BY <3>3
  <2> QED BY <2>1 DEF Stitch, Status
<1>3. /\ r \in Figures /\ r.reserved \in Nat /\ r.consumed \in Nat /\ r.wasted \in Nat
      /\ r.returned \in Nat /\ Required[l] \in Nat
  <2>1. r \in Figures
    BY <1>1
  <2> HIDE DEF r
  <2> QED BY <2>1, FiguresAreWhole, LinesAreFew
<1>4. /\ StillToDraw(l, r) = Required[l] - r.consumed - r.wasted - r.returned
      /\ usable \in Int /\ usable <= StillToDraw(l, r)
  <2> HIDE DEF r
  <2>1. StillToDraw(l, r) = Required[l] - r.consumed - r.wasted - r.returned
    BY DEF StillToDraw
  <2>2. StillToDraw(l, r) \in Int
    BY <1>3, <2>1
  <2> QED BY <1>0, <2>1, <2>2 DEF Least
<1>5. s \in Statuses /\ s \notin {"COMPLETED", "CANCELLED"}
  BY PlansFacts DEF Statuses, Live
<1>6. \A k \in Lines : line[k].consumed \in Nat /\ lines[k].consumed \in Nat
  <2> HIDE DEF lines
  <2> QED BY <1>0, <1>1, FiguresAreWhole
<1> HIDE DEF o, lines, got, r, usable, s
<1>7. ClaimsIn(lines) \in Int
  BY <1>1, ClaimsAreWhole
<1>8. CASE usable <= 0
  <2>1. line' = lines /\ Hold(got)
    BY <1>2, <1>8
  <2>2. KeepsStock /\ reserved' = reserved + got
    BY <1>0, <1>1, <2>1, Holding
  <2>3. KeepsClaims
    BY <1>0, <1>1, <1>7, <2>1, <2>2 DEF KeepsClaims
  <2>4. LinesHold' /\ ReservationsAddUp'
    BY <1>0, <1>1, <1>2, <1>5, <2>1, StaysAddedUp
  <2>5. DrawsOnce
    BY <1>1, <1>6, <2>1 DEF DrawsOnce
  <2> QED BY <2>2, <2>3, <2>4, <2>5 DEF Sound
<1>9. CASE ~(usable <= 0)
  <2>0. usable \in Nat
    BY <1>4, <1>9
  <2>1. line' = [lines EXCEPT ![l] = [r EXCEPT !.consumed = r.consumed + usable]]
    <3>1. line' = [lines EXCEPT ![l].consumed = lines[l].consumed + usable] /\ r = lines[l]
      BY <1>2, <1>9 DEF r
    <3> QED BY <3>1
  <2>2. line'[l] = [r EXCEPT !.consumed = r.consumed + usable]
    BY <1>1, <2>1
  <2>3. /\ line'[l] \in Figures /\ line'[l].consumed = r.consumed + usable
        /\ line'[l].reserved = r.reserved /\ line'[l].wasted = r.wasted
        /\ line'[l].returned = r.returned
    BY <1>3, <2>0, <2>2 DEF Figures
  <2>4. Drawn(r, line'[l], usable)
    BY <1>3, <2>0, <2>3 DEF Drawn
  <2>5. line' \in [Lines -> Figures] /\ \A k \in Lines \ {l} : line'[k] = lines[k]
    BY <1>1, <2>1, <2>3
  <2>6. Within(line') /\ ClaimsIn(line') = ClaimsIn(lines) - BackedBy(usable, r)
    <3>1. r = lines[l]
      BY DEF r
    <3> QED BY <1>1, <2>0, <2>4, <2>5, <3>1, DrawnByOne
  <2>7. BackedBy(usable, r) \in Nat
    BY <1>3, <2>0, FiguresAreWhole
  <2> DEFINE b == BackedBy(usable, r)
  <2> HIDE DEF b
  <2>8. KeepsStock /\ \A c \in Int : c <= reserved + got - b /\ c <= current' => c <= reserved'
    <3>1. reserved + got - b \in Int
      BY <1>0, <1>1, <2>7 DEF b
    <3>2. Nowhere \in Named
      BY DEF Named
    <3>3. Book(usable, -1, Most(0, reserved + got - b), Nowhere, Nowhere, FALSE)
      BY <1>2, <1>9 DEF b
    <3> QED BY <1>0, <2>0, <3>1, <3>2, <3>3, Using
  <2>9. KeepsClaims
    <3>1. ClaimsIn(line') = ClaimsIn(lines) - b /\ b \in Nat
      BY <2>6, <2>7 DEF b
    <3> QED BY <1>0, <1>1, <1>7, <2>8, <3>1 DEF KeepsClaims
  <2>10. LinesHold' /\ ReservationsAddUp'
    <3>1. \A k \in Lines : OrderOf[k] # o => line'[k] = line[k]
      BY <1>1, <2>5 DEF o
    <3> QED BY <1>0, <1>2, <1>5, <2>5, <2>6, <3>1, StaysAddedUp
  <2>11. DrawsOnce
    <3>1. line'[l].consumed + line'[l].wasted + line'[l].returned <= Required[l]
      BY <1>3, <1>4, <2>0, <2>3
    <3>2. \A k \in Lines \ {l} : ~(line'[k].consumed > line[k].consumed)
      BY <1>1, <1>6, <2>5
    <3> QED BY <3>1, <3>2 DEF DrawsOnce
  <2> QED BY <2>8, <2>9, <2>10, <2>11 DEF Sound
<1> QED BY <1>8, <1>9

-----------------------------------------------------------------------------
(* The specification *)

LEMMA PlansStepIsSound ==
  ASSUME PlansInv, PlansNext
  PROVE  Sound
<1>1. CASE Production
  BY <1>1, ConfirmIsSound, StitchIsSound, HandOverIsSound, ReopenIsSound DEF Production
<1>2. CASE ByHand
  <2>1. ASSUME NEW l \in Lines, NEW used \in 0..MaxStep, NEW wasted \in 0..MaxStep,
               NEW from \in Named, Consume(l, used, wasted, from)
        PROVE  Sound
    <3>1. used \in Nat /\ wasted \in Nat
      BY StockAssumption
    <3> QED BY <2>1, <3>1, ConsumeIsSound
  <2> QED BY <1>2, <2>1, ReservePlanIsSound, CloseIsSound, OpenChecklistIsSound,
             ReturnUnusedIsSound, CancelIsSound, DeductPackagingIsSound DEF ByHand
<1>3. CASE Screens
  BY <1>3, ScreensAreSound
<1> QED BY <1>1, <1>2, <1>3 DEF PlansNext

LEMMA PlansInductive ==
  ASSUME PlansInv, [PlansNext]_vars
  PROVE  PlansInv'
<1>1. CASE PlansNext
  <2>1. KeepsStock /\ LinesHold' /\ ReservationsAddUp'
    BY <1>1, PlansStepIsSound DEF Sound
  <2>2. StockInv'
    BY <2>1, BookedKeepsRecords, IdleKeepsRecords DEF KeepsStock, PlansInv
  <2> QED BY <2>1, <2>2 DEF PlansInv
<1>2. CASE UNCHANGED vars
  <2>1. UNCHANGED <<stock, line, plan>>
    BY <1>2 DEF vars
  <2>2. StockInv'
    BY <2>1, IdleKeepsRecords DEF PlansInv
  <2> QED BY <2>1, <2>2 DEF PlansInv, LinesHold, ReservationsAddUp, ClosedPlansHoldNothing,
                            NeverOverReserved
<1> QED BY <1>1, <1>2

LEMMA PlansBegin == PlansInit => PlansInv
<1> SUFFICES ASSUME PlansInit PROVE PlansInv
  OBVIOUS
<1>1. StockInv
  <2>1. Init
    BY DEF PlansInit, Init
  <2> QED BY <2>1, RecordsBegin
<1>2. Blank \in Figures /\ Blank.reserved - Blank.returned = 0 /\ Held(Blank) = 0
  BY DEF Blank, Figures, Held
<1>3. LinesHold
  BY <1>2 DEF PlansInit, LinesHold, Statuses
<1>4. ReservationsAddUp
  BY <1>2, LinesAreFew DEF PlansInit, ReservationsAddUp, ClosedPlansHoldNothing, NeverOverReserved
<1> QED BY <1>1, <1>3, <1>4 DEF PlansInv

\* What the lines say of reservations adds up, whatever order plans, stages, screens and
\* reopenings come in: a plan that is over holds nothing ("Complete inventory
\* reconciliation before closing the order"), and no line holds more than it requires.
THEOREM ReservationsAlwaysAddUp == PlansSpec => []ReservationsAddUp
<1>1. PlansInv => ReservationsAddUp
  BY DEF PlansInv
<1> QED BY <1>1, PlansBegin, PlansInductive, PTL DEF PlansSpec

\* The item's figures, its locations and its shelves go on agreeing under everything
\* orders do to it.
THEOREM PlansKeepRecords == PlansSpec => []RecordsAgree
<1>1. PlansInv => RecordsAgree
  BY DEF PlansInv, StockInv
<1> QED BY <1>1, PlansBegin, PlansInductive, PTL DEF PlansSpec

\* What one order reserves, uses or gives back never eats into what the others hold: the
\* item's reserved figure goes on covering all lines' claims, unless the cloth itself has
\* run out (confirm_consumption's reserved_backed, deduct_packaging, release_unused).
THEOREM OthersStayReserved == PlansSpec => PlansKeepReservations
<1>1. ASSUME PlansInv, [PlansNext]_vars, Claims <= reserved, line' # line, Claims' <= current'
      PROVE  Claims' <= reserved'
  <2>1. PlansNext
    BY <1>1 DEF vars
  <2>2. KeepsClaims
    BY <1>1, <2>1, PlansStepIsSound DEF Sound
  <2> QED BY <1>1, <2>2, ClaimsAreTheSum DEF KeepsClaims
<1>2. PlansInv /\ [PlansNext]_vars
      => [Claims <= reserved /\ line' # line /\ Claims' <= current' => Claims' <= reserved']_vars
  BY <1>1
<1> QED BY <1>2, PlansBegin, PlansInductive, PTL DEF PlansSpec, PlansKeepReservations

\* Finishing a garment or packing an order draws what is still missing and no more,
\* though the same may have been used, wasted or given back by hand before.
THEOREM DrawnOnlyOnce == PlansSpec => NothingDrawnTwice
<1>1. ASSUME PlansInv, [PlansNext]_vars, NEW l \in Lines,
             stitched' # stitched \/ packed' # packed, line'[l].consumed > line[l].consumed
      PROVE  line'[l].consumed + line'[l].wasted + line'[l].returned <= Required[l]
  <2>1. PlansNext
    BY <1>1 DEF vars, production
  <2>2. DrawsOnce
    BY <1>1, <2>1, PlansStepIsSound DEF Sound
  <2> QED BY <1>1, <2>2 DEF DrawsOnce
<1>2. PlansInv /\ [PlansNext]_vars
      => [\A l \in Lines :
            (stitched' # stitched \/ packed' # packed) /\ line'[l].consumed > line[l].consumed
            => line'[l].consumed + line'[l].wasted + line'[l].returned <= Required[l]]_vars
  BY <1>1
<1> QED BY <1>2, PlansBegin, PlansInductive, PTL DEF PlansSpec, NothingDrawnTwice
=============================================================================
