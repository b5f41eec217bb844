---------------------------- MODULE Stock_proofs ----------------------------
(***************************************************************************)
(* Proofs about Stock: the item's own two figures, its locations', and the *)
(* sums that tie them together.                                            *)
(*                                                                         *)
(* Every movement goes through Book, so one lemma about it carries each    *)
(* invariant; the screens differ only in what they pass.  What the shelves *)
(* and the locations hold is a sum over a finite set: the first part gives *)
(* the facts about such sums, and the second what emptying shelves one     *)
(* after another leaves on them.                                           *)
(***************************************************************************)
EXTENDS Stock, FiniteSetTheorems, TLAPS

-----------------------------------------------------------------------------
(* Sums over finite sets (SumFunctionOnSet)                                 *)
(*                                                                         *)
(* The library's induction theorems take an operator, so each fact is had   *)
(* from a smallest set it would be false of.                                *)

\* A family of finite sets that is not empty has a smallest member.
LEMMA Smallest ==
  ASSUME NEW S, IsFiniteSet(S), NEW F \in SUBSET (SUBSET S), F # {}
  PROVE  \E T \in F : \A U \in F : ~(U \subseteq T /\ U # T)
<1>1. IsWellFoundedOn(StrictSubsetOrdering(S), FiniteSubsetsOf(S))
  BY FS_StrictSubsetOrderingWellFounded
<1>2. F \subseteq FiniteSubsetsOf(S)
  BY FS_FiniteSubsetsOfFinite
<1>3. PICK T \in F : \A U \in F : ~ (<<U, T>> \in StrictSubsetOrdering(S))
  BY <1>1, <1>2, WFMin
<1>4. ASSUME NEW U \in F, U \subseteq T, U # T
      PROVE  FALSE
  <2>1. <<U, T>> \in StrictSubsetOrdering(S)
    BY <1>4 DEF StrictSubsetOrdering
  <2> QED BY <1>3, <2>1
<1> QED BY <1>4

\* The element a sum sets apart first, and the function the sum is the last value of.
Pick(s) == CHOOSE x \in s : TRUE
Adds(g, f, S) ==
  g = [s \in SUBSET S |-> IF s = {} THEN 0 ELSE f[Pick(s)] + g[s \ {Pick(s)}]]

LEMMA PickIsOne ==
  ASSUME NEW s, s # {}
  PROVE  Pick(s) \in s
BY DEF Pick

\* What it says of each set.
LEMMA AddsAt ==
  ASSUME NEW S, NEW f, NEW g, Adds(g, f, S), NEW s \in SUBSET S
  PROVE  g[s] = IF s = {} THEN 0 ELSE f[Pick(s)] + g[s \ {Pick(s)}]
<1> DEFINE body(t) == IF t = {} THEN 0 ELSE f[Pick(t)] + g[t \ {Pick(t)}]
<1>1. g = [t \in SUBSET S |-> body(t)]
  BY Zenon DEF Adds
<1> HIDE DEF body
<1>2. g[s] = body(s)
  BY <1>1
<1> QED BY <1>2 DEF body

\* There is one such function over each finite set, and they agree.
LEMMA AddsAgree ==
  ASSUME NEW S, IsFiniteSet(S), NEW f, NEW T \in SUBSET S, NEW U \in SUBSET S,
         NEW g, Adds(g, f, T), NEW h, Adds(h, f, U),
         NEW z, z \subseteq T, z \subseteq U
  PROVE  g[z] = h[z]
<1> DEFINE Bad == {s \in SUBSET S : s \subseteq T /\ s \subseteq U /\ g[s] # h[s]}
<1>1. SUFFICES ASSUME Bad # {} PROVE FALSE
  OBVIOUS
<1>2. PICK s \in Bad : \A t \in Bad : ~(t \subseteq s /\ t # s)
  <2> HIDE DEF Bad
  <2>1. Bad \in SUBSET (SUBSET S)
    BY DEF Bad
  <2> QED BY <1>1, <2>1, Smallest
<1>3. /\ g[s] = IF s = {} THEN 0 ELSE f[Pick(s)] + g[s \ {Pick(s)}]
      /\ h[s] = IF s = {} THEN 0 ELSE f[Pick(s)] + h[s \ {Pick(s)}]
  BY AddsAt
<1>4. s # {}
  BY <1>3
<1>5. s \ {Pick(s)} \notin Bad
  BY <1>2, <1>4, PickIsOne
<1>6. g[s \ {Pick(s)}] = h[s \ {Pick(s)}]
  BY <1>5
<1> QED BY <1>3, <1>4, <1>6

LEMMA AddsExists ==
  ASSUME NEW S, IsFiniteSet(S), NEW f
  PROVE  \E g : Adds(g, f, S)
<1> DEFINE Bad == {T \in SUBSET S : ~ \E g : Adds(g, f, T)}
<1>1. SUFFICES ASSUME Bad # {} PROVE FALSE
  OBVIOUS
<1>2. PICK T \in Bad : \A U \in Bad : ~(U \subseteq T /\ U # T)
  <2> HIDE DEF Bad
  <2>1. Bad \in SUBSET (SUBSET S)
    BY DEF Bad
  <2> QED BY <1>1, <2>1, Smallest
<1> DEFINE Of(U) == CHOOSE g : Adds(g, f, U)
           G == [s \in SUBSET T |-> IF s = {} THEN 0 ELSE f[Pick(s)] + Of(s \ {Pick(s)})[s \ {Pick(s)}]]
<1>3. ASSUME NEW U \in SUBSET T, U # T
      PROVE  Adds(Of(U), f, U)
  <2>1. U \notin Bad /\ U \in SUBSET S
    BY <1>2, <1>3
  <2>2. \E g : Adds(g, f, U)
    BY <2>1
  <2> QED BY <2>2
<1> HIDE DEF Of
<1>4. ASSUME NEW s \in SUBSET T, s # {}
      PROVE  G[s \ {Pick(s)}] = Of(s \ {Pick(s)})[s \ {Pick(s)}]
  <2> DEFINE u == s \ {Pick(s)}
             w == u \ {Pick(u)}
  <2>1. u \in SUBSET T /\ u # T
    BY <1>4, PickIsOne
  <2>2. Adds(Of(u), f, u)
    BY <1>3, <2>1
  <2>3. Of(u)[u] = IF u = {} THEN 0 ELSE f[Pick(u)] + Of(u)[w]
    <3> HIDE DEF u
    <3> QED BY <2>2, AddsAt DEF w
  <2>4. CASE u = {}
    BY <2>1, <2>3, <2>4
  <2>5. CASE u # {}
    <3>1. w \in SUBSET T /\ w # T /\ w \subseteq u
      BY <2>1, <2>5, PickIsOne
    <3>2. Adds(Of(w), f, w)
      BY <1>3, <3>1
    <3>3. Of(u)[w] = Of(w)[w]
      <4>1. u \in SUBSET S /\ w \in SUBSET S
        BY <2>1, <3>1, <1>2
      <4> HIDE DEF u, w
      <4> QED BY <2>2, <3>1, <3>2, <4>1, AddsAgree
    <3>4. G[u] = f[Pick(u)] + Of(w)[w]
      BY <2>1, <2>5
    <3> QED BY <2>3, <2>5, <3>3, <3>4
  <2> QED BY <2>4, <2>5
<1>5. Adds(G, f, T)
  <2> DEFINE new(s) == IF s = {} THEN 0 ELSE f[Pick(s)] + G[s \ {Pick(s)}]
             old(s) == IF s = {} THEN 0 ELSE f[Pick(s)] + Of(s \ {Pick(s)})[s \ {Pick(s)}]
  <2>1. \A s \in SUBSET T : new(s) = old(s)
    BY <1>4
  <2>2. G = [s \in SUBSET T |-> old(s)]
    OBVIOUS
  <2> HIDE DEF G, old, new
  <2>3. G = [s \in SUBSET T |-> new(s)]
    BY <2>1, <2>2
  <2> QED BY <2>3, Zenon DEF Adds, new
<1> QED BY <1>2, <1>5

LEMMA SumAdds ==
  ASSUME NEW S, IsFiniteSet(S), NEW f
  PROVE  \E g : Adds(g, f, S) /\ SumFunctionOnSet(f, S) = g[S]
<1> DEFINE g == CHOOSE h : Adds(h, f, S)
<1>1. Adds(g, f, S)
  BY AddsExists
<1>2. SumFunctionOnSet(f, S) = g[S]
  BY DEF SumFunctionOnSet, FoldFunctionOnSet, MapThenFoldSet, Pick, Adds
<1> QED BY <1>1, <1>2

\* A sum is its chosen element and the rest.
LEMMA SumUnfolds ==
  ASSUME NEW S, IsFiniteSet(S), NEW f
  PROVE  SumFunctionOnSet(f, S) = IF S = {} THEN 0
                                  ELSE f[Pick(S)] + SumFunctionOnSet(f, S \ {Pick(S)})
<1>1. PICK g : Adds(g, f, S) /\ SumFunctionOnSet(f, S) = g[S]
  BY SumAdds
<1>2. IsFiniteSet(S \ {Pick(S)})
  BY FS_RemoveElement
<1>3. PICK h : Adds(h, f, S \ {Pick(S)})
               /\ SumFunctionOnSet(f, S \ {Pick(S)}) = h[S \ {Pick(S)}]
  BY <1>2, SumAdds
<1>4. g[S] = IF S = {} THEN 0 ELSE f[Pick(S)] + g[S \ {Pick(S)}]
  BY <1>1, AddsAt
<1>5. g[S \ {Pick(S)}] = h[S \ {Pick(S)}]
  <2> DEFINE U == S \ {Pick(S)}
  <2>1. U \in SUBSET S /\ S \in SUBSET S /\ U \subseteq U
    OBVIOUS
  <2>2. Adds(h, f, U)
    BY <1>3
  <2> HIDE DEF U
  <2>3. g[U] = h[U]
    BY <1>1, <2>1, <2>2, AddsAgree
  <2> QED BY <2>3 DEF U
<1> QED BY <1>1, <1>3, <1>4, <1>5

LEMMA SumOfNone ==
  ASSUME NEW f
  PROVE  SumFunctionOnSet(f, {}) = 0
BY SumUnfolds, FS_EmptySet

Whole(f, S) == \A x \in S : f[x] \in Int

LEMMA SumIsWhole ==
  ASSUME NEW S, IsFiniteSet(S), NEW f, Whole(f, S)
  PROVE  SumFunctionOnSet(f, S) \in Int
<1> DEFINE Bad == {T \in SUBSET S : SumFunctionOnSet(f, T) \notin Int}
<1>1. SUFFICES ASSUME Bad # {} PROVE FALSE
  OBVIOUS
<1>2. PICK T \in Bad : \A U \in Bad : ~(U \subseteq T /\ U # T)
  <2> HIDE DEF Bad
  <2>1. Bad \in SUBSET (SUBSET S)
    BY DEF Bad
  <2> QED BY <1>1, <2>1, Smallest
<1>3. IsFiniteSet(T)
  BY FS_Subset
<1>4. T # {} /\ SumFunctionOnSet(f, T) = f[Pick(T)] + SumFunctionOnSet(f, T \ {Pick(T)})
  <2>1. T # {}
    BY SumOfNone
  <2> QED BY <1>3, <2>1, SumUnfolds
<1>5. Pick(T) \in T /\ f[Pick(T)] \in Int
  BY <1>4, PickIsOne DEF Whole
<1>6. SumFunctionOnSet(f, T \ {Pick(T)}) \in Int
  BY <1>2, <1>5
<1> QED BY <1>4, <1>5, <1>6

\* Any element can be set apart.
LEMMA SumApart ==
  ASSUME NEW S, IsFiniteSet(S), NEW f, Whole(f, S), NEW a \in S
  PROVE  SumFunctionOnSet(f, S) = f[a] + SumFunctionOnSet(f, S \ {a})
<1> DEFINE Bad == {T \in SUBSET S : \E x \in T :
                     SumFunctionOnSet(f, T) # f[x] + SumFunctionOnSet(f, T \ {x})}
<1>1. SUFFICES ASSUME Bad # {} PROVE FALSE
  OBVIOUS
<1>2. PICK T \in Bad : \A U \in Bad : ~(U \subseteq T /\ U # T)
  <2> HIDE DEF Bad
  <2>1. Bad \in SUBSET (SUBSET S)
    BY DEF Bad
  <2> QED BY <1>1, <2>1, Smallest
<1>3. PICK x \in T : SumFunctionOnSet(f, T) # f[x] + SumFunctionOnSet(f, T \ {x})
  OBVIOUS
<1> DEFINE y == Pick(T)
<1>4. IsFiniteSet(T) /\ IsFiniteSet(T \ {x}) /\ IsFiniteSet(T \ {y}) /\ IsFiniteSet((T \ {x}) \ {y})
  BY FS_Subset
<1>5. y \in T /\ SumFunctionOnSet(f, T) = f[y] + SumFunctionOnSet(f, T \ {y})
  BY <1>3, <1>4, SumUnfolds, PickIsOne
<1> HIDE DEF y
<1>6. x # y
  BY <1>3, <1>5
<1>7. T \ {x} \notin Bad /\ T \ {y} \notin Bad
  BY <1>2, <1>3, <1>5
<1>8. SumFunctionOnSet(f, T \ {y}) = f[x] + SumFunctionOnSet(f, (T \ {y}) \ {x})
  BY <1>6, <1>7
<1>9. SumFunctionOnSet(f, T \ {x}) = f[y] + SumFunctionOnSet(f, (T \ {x}) \ {y})
  BY <1>5, <1>6, <1>7
<1>10. (T \ {y}) \ {x} = (T \ {x}) \ {y}
  OBVIOUS
<1>11. f[x] \in Int /\ f[y] \in Int /\ SumFunctionOnSet(f, (T \ {x}) \ {y}) \in Int
  BY <1>4, <1>5, SumIsWhole DEF Whole
<1> DEFINE rest == SumFunctionOnSet(f, (T \ {x}) \ {y})
<1>12. SumFunctionOnSet(f, T) = f[y] + (f[x] + rest)
  BY <1>5, <1>8, <1>10
<1>13. f[x] + SumFunctionOnSet(f, T \ {x}) = f[x] + (f[y] + rest)
  BY <1>9
<1>14. f[x] \in Int /\ f[y] \in Int /\ rest \in Int
  BY <1>11
<1> HIDE DEF rest, Bad
<1> QED BY <1>3, <1>12, <1>13, <1>14

\* No more in any place, no more in all.
LEMMA SumMonotone ==
  ASSUME NEW S, IsFiniteSet(S), NEW f, Whole(f, S), NEW g, Whole(g, S),
         \A x \in S : f[x] <= g[x]
  PROVE  SumFunctionOnSet(f, S) <= SumFunctionOnSet(g, S)
<1> DEFINE Bad == {T \in SUBSET S : ~(SumFunctionOnSet(f, T) <= SumFunctionOnSet(g, T))}
<1>1. SUFFICES ASSUME Bad # {} PROVE FALSE
  OBVIOUS
<1>2. PICK T \in Bad : \A U \in Bad : ~(U \subseteq T /\ U # T)
  <2> HIDE DEF Bad
  <2>1. Bad \in SUBSET (SUBSET S)
    BY DEF Bad
  <2> QED BY <1>1, <2>1, Smallest
<1>3. IsFiniteSet(T)
  BY FS_Subset
<1>4. T # {}
  BY SumOfNone
<1> DEFINE y == Pick(T)
<1>5. y \in T
  BY <1>4, PickIsOne
<1> HIDE DEF y
<1>6. /\ SumFunctionOnSet(f, T) = f[y] + SumFunctionOnSet(f, T \ {y})
      /\ SumFunctionOnSet(g, T) = g[y] + SumFunctionOnSet(g, T \ {y})
  <2>1. Whole(f, T) /\ Whole(g, T)
    BY DEF Whole
  <2> QED BY <1>3, <1>5, <2>1, SumApart
<1>7. SumFunctionOnSet(f, T \ {y}) <= SumFunctionOnSet(g, T \ {y})
  BY <1>2, <1>5
<1>8. /\ f[y] \in Int /\ g[y] \in Int /\ f[y] <= g[y]
      /\ SumFunctionOnSet(f, T \ {y}) \in Int /\ SumFunctionOnSet(g, T \ {y}) \in Int
  <2>1. Whole(f, T \ {y}) /\ Whole(g, T \ {y}) /\ IsFiniteSet(T \ {y})
    BY <1>3, FS_RemoveElement DEF Whole
  <2> QED BY <1>5, <2>1, SumIsWhole DEF Whole
<1> QED BY <1>6, <1>7, <1>8

LEMMA SumSame ==
  ASSUME NEW S, IsFiniteSet(S), NEW f, Whole(f, S), NEW g,
         \A x \in S : f[x] = g[x]
  PROVE  SumFunctionOnSet(f, S) = SumFunctionOnSet(g, S)
<1>1. Whole(g, S) /\ (\A x \in S : f[x] <= g[x] /\ g[x] <= f[x])
  BY DEF Whole
<1>2. SumFunctionOnSet(f, S) <= SumFunctionOnSet(g, S) /\ SumFunctionOnSet(g, S) <= SumFunctionOnSet(f, S)
  BY <1>1, SumMonotone
<1>3. SumFunctionOnSet(f, S) \in Int /\ SumFunctionOnSet(g, S) \in Int
  BY <1>1, SumIsWhole
<1> QED BY <1>2, <1>3

\* One place changed, or added to.
LEMMA SumChanged ==
  ASSUME NEW S, IsFiniteSet(S), NEW f, Whole(f, S), NEW g, NEW a \in S, g[a] \in Int,
         \A x \in S \ {a} : f[x] = g[x]
  PROVE  SumFunctionOnSet(g, S) = SumFunctionOnSet(f, S) + g[a] - f[a]
<1>1. Whole(g, S) /\ Whole(f, S \ {a}) /\ IsFiniteSet(S \ {a})
  BY FS_RemoveElement DEF Whole
<1>2. /\ SumFunctionOnSet(f, S) = f[a] + SumFunctionOnSet(f, S \ {a})
      /\ SumFunctionOnSet(g, S) = g[a] + SumFunctionOnSet(g, S \ {a})
  BY <1>1, SumApart
<1>3. SumFunctionOnSet(f, S \ {a}) = SumFunctionOnSet(g, S \ {a})
  BY <1>1, SumSame
<1>4. SumFunctionOnSet(f, S \ {a}) \in Int /\ f[a] \in Int
  BY <1>1, SumIsWhole DEF Whole
<1> QED BY <1>2, <1>3, <1>4

\* A sum of differences is the difference of the sums.
LEMMA SumLess ==
  ASSUME NEW S, IsFiniteSet(S), NEW f, Whole(f, S), NEW g, Whole(g, S), NEW h,
         \A x \in S : h[x] = f[x] - g[x]
  PROVE  SumFunctionOnSet(h, S) = SumFunctionOnSet(f, S) - SumFunctionOnSet(g, S)
<1> DEFINE Bad == {T \in SUBSET S : SumFunctionOnSet(h, T) #
                     SumFunctionOnSet(f, T) - SumFunctionOnSet(g, T)}
<1>1. SUFFICES ASSUME Bad # {} PROVE FALSE
  OBVIOUS
<1>2. PICK T \in Bad : \A U \in Bad : ~(U \subseteq T /\ U # T)
  <2> HIDE DEF Bad
  <2>1. Bad \in SUBSET (SUBSET S)
    BY DEF Bad
  <2> QED BY <1>1, <2>1, Smallest
<1>3. IsFiniteSet(T)
  BY FS_Subset
<1>4. T # {}
  BY SumOfNone
<1> DEFINE y == Pick(T)
<1>5. y \in T
  BY <1>4, PickIsOne
<1> HIDE DEF y
<1>6. Whole(f, T) /\ Whole(g, T) /\ Whole(h, T)
  BY DEF Whole
<1>7. /\ SumFunctionOnSet(f, T) = f[y] + SumFunctionOnSet(f, T \ {y})
      /\ SumFunctionOnSet(g, T) = g[y] + SumFunctionOnSet(g, T \ {y})
      /\ SumFunctionOnSet(h, T) = h[y] + SumFunctionOnSet(h, T \ {y})
  BY <1>3, <1>5, <1>6, SumApart
<1>8. SumFunctionOnSet(h, T \ {y}) = SumFunctionOnSet(f, T \ {y}) - SumFunctionOnSet(g, T \ {y})
  BY <1>2, <1>5
<1>9. /\ f[y] \in Int /\ g[y] \in Int /\ h[y] = f[y] - g[y]
      /\ SumFunctionOnSet(f, T \ {y}) \in Int /\ SumFunctionOnSet(g, T \ {y}) \in Int
  <2>1. Whole(f, T \ {y}) /\ Whole(g, T \ {y}) /\ IsFiniteSet(T \ {y})
    BY <1>3, <1>6, FS_RemoveElement DEF Whole
  <2> QED BY <1>5, <1>6, <2>1, SumIsWhole DEF Whole
<1> QED BY <1>7, <1>8, <1>9

LEMMA SumNotNegative ==
  ASSUME NEW S, IsFiniteSet(S), NEW f, \A x \in S : f[x] \in Nat
  PROVE  SumFunctionOnSet(f, S) >= 0
<1> DEFINE Bad == {T \in SUBSET S : ~(SumFunctionOnSet(f, T) >= 0)}
<1>1. SUFFICES ASSUME Bad # {} PROVE FALSE
  OBVIOUS
<1>2. PICK T \in Bad : \A U \in Bad : ~(U \subseteq T /\ U # T)
  <2> HIDE DEF Bad
  <2>1. Bad \in SUBSET (SUBSET S)
    BY DEF Bad
  <2> QED BY <1>1, <2>1, Smallest
<1>3. IsFiniteSet(T) /\ IsFiniteSet(T \ {Pick(T)})
  BY FS_Subset
<1>4. T # {}
  BY SumOfNone
<1>5. SumFunctionOnSet(f, T) = f[Pick(T)] + SumFunctionOnSet(f, T \ {Pick(T)})
  BY <1>3, <1>4, SumUnfolds
<1>6. Pick(T) \in T /\ f[Pick(T)] \in Nat
  BY <1>4, PickIsOne
<1>7. SumFunctionOnSet(f, T \ {Pick(T)}) >= 0
  BY <1>2, <1>6
<1>8. SumFunctionOnSet(f, T \ {Pick(T)}) \in Int
  BY <1>3, SumIsWhole DEF Whole
<1> QED BY <1>5, <1>6, <1>7, <1>8

-----------------------------------------------------------------------------
(* Emptying shelves one after another (after_stock_change) *)

\* Either way of going round is an order of the shelves.
LEMMA BeforeOrders ==
  ASSUME NEW counted, NEW s \in Spots, NEW u \in Spots
  PROVE  /\ ~Before(s, s, counted)
         /\ u # s => Before(u, s, counted) \/ Before(s, u, counted)
         /\ \A v \in Spots : Before(u, s, counted) /\ Before(s, v, counted) => Before(u, v, counted)
<1>1. \A v \in Spots : WalkOrder[v] \in Nat
  BY StockAssumption
<1>2. WalkOrder[s] = WalkOrder[u] => s = u
  BY StockAssumption
<1> QED BY <1>1, <1>2 DEF Before

\* So of some shelves one comes last.
LEMMA LastShelf ==
  ASSUME NEW counted, NEW T \in SUBSET Spots, T # {}
  PROVE  \E m \in T : \A u \in T : u # m => Before(u, m, counted)
<1> DEFINE after == [s \in T |-> {u \in T : Before(s, u, counted)}]
           F == {after[s] : s \in T}
<1>1. PICK m \in T : \A s \in T : ~(after[s] \subseteq after[m] /\ after[s] # after[m])
  <2>1. F \in SUBSET (SUBSET Spots) /\ F # {}
    <3>1. \A s \in T : after[s] \in SUBSET Spots
      OBVIOUS
    <3> HIDE DEF after
    <3> QED BY <3>1
  <2>2. PICK A \in F : \A U \in F : ~(U \subseteq A /\ U # A)
    <3> HIDE DEF F
    <3> QED BY <2>1, StockAssumption, Smallest
  <2> HIDE DEF after
  <2> QED BY <2>2
<1>2. ASSUME NEW u \in T, Before(m, u, counted)
      PROVE  FALSE
  <2>1. u \in after[m] /\ u \notin after[u]
    BY <1>2, BeforeOrders
  <2>2. after[u] \subseteq after[m]
    BY <1>2, BeforeOrders
  <2> QED BY <1>1, <2>1, <2>2
<1> QED BY <1>2, BeforeOrders

\* The shelves of S that are emptied before shelf s.
Ahead(S, s, counted) == {u \in S : Before(u, s, counted)}

\* From each shelf is taken what is still too much once those before it are empty, as
\* far as it goes: in all, what is too much as far as all of them go.
LEMMA TakenInAll ==
  ASSUME NEW held \in [Spots -> Nat], NEW S \in SUBSET Spots, NEW excess \in Int, NEW counted,
         NEW take,
         \A s \in S : take[s] =
           Least(held[s], Most(0, excess - SumFunctionOnSet(held, Ahead(S, s, counted))))
  PROVE  /\ \A s \in S : take[s] \in Nat /\ take[s] <= held[s]
         /\ SumFunctionOnSet(take, S) = Least(Most(0, excess), SumFunctionOnSet(held, S))
<1> DEFINE Closed(T) == \A s \in T, u \in S : Before(u, s, counted) => u \in T
           Bad == {T \in SUBSET S : Closed(T) /\ SumFunctionOnSet(take, T) #
                     Least(Most(0, excess), SumFunctionOnSet(held, T))}
<1>1. \A T \in SUBSET S : IsFiniteSet(T) /\ Whole(held, T)
  BY StockAssumption, FS_Subset DEF Whole
<1>2. \A T \in SUBSET S : SumFunctionOnSet(held, T) \in Int
  BY <1>1, SumIsWhole
<1>3. ASSUME NEW s \in S
      PROVE  take[s] \in Nat /\ take[s] <= held[s]
  <2>1. SumFunctionOnSet(held, Ahead(S, s, counted)) \in Int /\ held[s] \in Nat
    BY <1>2 DEF Ahead
  <2> QED BY <2>1 DEF Least, Most
<1>4. SUFFICES ASSUME Bad # {} PROVE FALSE
  <2>1. S \notin Bad => SumFunctionOnSet(take, S) = Least(Most(0, excess), SumFunctionOnSet(held, S))
    OBVIOUS
  <2> HIDE DEF Bad
  <2> QED BY <1>3, <2>1
<1>5. PICK T \in Bad : \A U \in Bad : ~(U \subseteq T /\ U # T)
  <2> HIDE DEF Bad
  <2>1. Bad \in SUBSET (SUBSET S) /\ IsFiniteSet(S)
    BY <1>1 DEF Bad
  <2> QED BY <1>4, <2>1, Smallest
<1>6. T # {}
  BY SumOfNone DEF Least, Most
<1>7. PICK m \in T : \A u \in T : u # m => Before(u, m, counted)
  BY <1>6, LastShelf
<1> DEFINE R == T \ {m}
<1>8. Ahead(S, m, counted) = R
  BY <1>7, BeforeOrders DEF Ahead
<1>9. Closed(R)
  BY <1>7, BeforeOrders
<1>10. SumFunctionOnSet(take, R) = Least(Most(0, excess), SumFunctionOnSet(held, R))
  BY <1>5, <1>9
<1>11. take[m] = Least(held[m], Most(0, excess - SumFunctionOnSet(held, R)))
  BY <1>8
<1>12. /\ SumFunctionOnSet(take, T) = take[m] + SumFunctionOnSet(take, R)
       /\ SumFunctionOnSet(held, T) = held[m] + SumFunctionOnSet(held, R)
  <2>1. IsFiniteSet(T) /\ Whole(held, T) /\ Whole(take, T)
    BY <1>1, <1>3 DEF Whole
  <2> QED BY <2>1, SumApart
<1>13. held[m] \in Nat /\ SumFunctionOnSet(held, R) \in Int
  BY <1>2
<1>14. SumFunctionOnSet(take, T) # Least(Most(0, excess), SumFunctionOnSet(held, T))
  OBVIOUS
<1>15. SumFunctionOnSet(held, R) >= 0
  BY <1>1, SumNotNegative
<1> DEFINE a == SumFunctionOnSet(held, R)
<1>16. Least(held[m], Most(0, excess - a)) + Least(Most(0, excess), a)
         = Least(Most(0, excess), held[m] + a)
  <2>1. a \in Int /\ a >= 0
    BY <1>13, <1>15
  <2> HIDE DEF a
  <2> QED BY <1>13, <2>1 DEF Least, Most
<1> HIDE DEF Bad, R
<1> QED BY <1>10, <1>11, <1>12, <1>14, <1>16

\* A location brought down keeps on its shelves what they held, or all that is left of
\* it if that is less; other locations' shelves keep theirs.
LEMMA ShelvesAfter ==
  ASSUME on \in [Spots -> Nat], NEW p \in Places, NEW left \in Nat, NEW counted,
         NEW new, new = AfterStockChange(p, left, counted)
  PROVE  /\ new \in [Spots -> Nat]
         /\ SumFunctionOnSet(new, SpotsAt(p)) = Least(Shelved(p), left)
         /\ \A r \in Places \ {p} : SumFunctionOnSet(new, SpotsAt(r)) = Shelved(r)
<1> DEFINE S == SpotsAt(p)
           excess == Shelved(p) - Most(0, left)
           take == [s \in S |->
             Least(on[s], Most(0, excess - SumFunctionOnSet(on, Ahead(S, s, counted))))]
<1>1. \A r \in Places : IsFiniteSet(SpotsAt(r)) /\ SpotsAt(r) \in SUBSET Spots /\ Whole(on, SpotsAt(r))
  BY StockAssumption, FS_Subset DEF SpotsAt, Whole
<1>2. Shelved(p) \in Int /\ Shelved(p) >= 0
  BY <1>1, SumIsWhole, SumNotNegative DEF Shelved, SpotsAt
<1>3. excess \in Int
  BY <1>2 DEF Most
<1>4. /\ \A s \in S : take[s] \in Nat /\ take[s] <= on[s]
      /\ SumFunctionOnSet(take, S) = Least(Most(0, excess), Shelved(p))
  <2>1. \A s \in S : take[s] =
          Least(on[s], Most(0, excess - SumFunctionOnSet(on, Ahead(S, s, counted))))
    OBVIOUS
  <2>2. S \in SUBSET Spots
    BY <1>1
  <2>4. on \in [Spots -> Nat]
    OBVIOUS
  <2> HIDE DEF take, excess, S
  <2>5. \A held \in [Spots -> Nat] :
          (\A s \in S : take[s] =
             Least(held[s], Most(0, excess - SumFunctionOnSet(held, Ahead(S, s, counted)))))
          => /\ \A s \in S : take[s] \in Nat /\ take[s] <= held[s]
             /\ SumFunctionOnSet(take, S) = Least(Most(0, excess), SumFunctionOnSet(held, S))
    BY <1>3, <2>2, TakenInAll
  <2>3. /\ \A s \in S : take[s] \in Nat /\ take[s] <= on[s]
        /\ SumFunctionOnSet(take, S) = Least(Most(0, excess), SumFunctionOnSet(on, S))
    BY <2>1, <2>4, <2>5
  <2> QED BY <2>3 DEF Shelved, S
<1>5. new = [s \in Spots |-> IF PlaceOf[s] = p THEN on[s] - take[s] ELSE on[s]]
  BY DEF AfterStockChange, SpotsAt, Ahead
<1> HIDE DEF take
<1>6. new \in [Spots -> Nat]
  <2>1. ASSUME NEW s \in Spots
        PROVE  (IF PlaceOf[s] = p THEN on[s] - take[s] ELSE on[s]) \in Nat
    <3>1. PlaceOf[s] = p => s \in S
      BY DEF SpotsAt
    <3> QED BY <1>4, <3>1
  <2> QED BY <1>5, <2>1
<1>7. SumFunctionOnSet(new, S) = Least(Shelved(p), left)
  <2>1. \A s \in S : new[s] = on[s] - take[s]
    BY <1>5 DEF SpotsAt
  <2>2. Whole(take, S) /\ Whole(on, S) /\ IsFiniteSet(S)
    BY <1>1, <1>4 DEF Whole
  <2>3. SumFunctionOnSet(new, S) = SumFunctionOnSet(on, S) - SumFunctionOnSet(take, S)
    BY <2>1, <2>2, SumLess
  <2>4. SumFunctionOnSet(new, S) = Shelved(p) - Least(Most(0, excess), Shelved(p))
    BY <1>4, <2>3 DEF Shelved
  <2> QED BY <1>2, <2>4 DEF Least, Most
<1>8. ASSUME NEW r \in Places \ {p}
      PROVE  SumFunctionOnSet(new, SpotsAt(r)) = Shelved(r)
  <2>1. \A s \in SpotsAt(r) : on[s] = new[s]
    BY <1>5, <1>8 DEF SpotsAt
  <2> QED BY <1>1, <2>1, SumSame DEF Shelved
<1> QED BY <1>6, <1>7, <1>8

-----------------------------------------------------------------------------
(* The item's figures *)

\* The item's figures are quantities, and no more is reserved than there is.
Covered == current \in Nat /\ reserved \in Nat /\ reserved <= current

\* No location is ever taken below zero: "Cannot take ... only ... is there".
PlacesNotOverdrawn == at \in [Places -> Nat]


\* Quantities are whole numbers from one up.
LEMMA StepsAreWhole == Steps \subseteq Nat
BY StockAssumption DEF Steps

\* Whatever is asked for, the greater of zero and it is a whole number.
LEMMA MostIsWhole ==
  ASSUME NEW x \in Int
  PROVE  Most(0, x) \in Nat
BY DEF Most

\* Book leaves the reservation within the stock, whatever was wanted.
LEMMA BookCovers ==
  ASSUME NEW q \in Nat, NEW delta \in Int, NEW wanted \in Int,
         NEW from, NEW to, NEW counted, Covered, Book(q, delta, wanted, from, to, counted)
  PROVE  Covered'
<1>1. current + delta * q \in Int
  BY DEF Covered
<1>2. current + delta * q >= 0 /\ wanted >= 0
  BY DEF Book
<1>3. current' = current + delta * q /\ reserved' = ReservedAfter(wanted, current + delta * q)
  BY DEF Book
<1> QED BY <1>1, <1>2, <1>3 DEF Covered, ReservedAfter

\* Book leaves every location with a whole number, none below zero.
LEMMA BookLeavesPlaces ==
  ASSUME NEW q \in Nat, NEW delta \in Int, NEW wanted,
         NEW from \in Named, NEW to, NEW counted,
         PlacesNotOverdrawn, Book(q, delta, wanted, from, to, counted)
  PROVE  PlacesNotOverdrawn'
<1> DEFINE f == Source(delta, from)
           t == Target(delta, to)
<1>1. f \in Places \cup {Nowhere}
  BY StockAssumption DEF Source, Named
<1>2. f # Nowhere => at[f] >= q
  BY DEF Book
<1>3. at' = [p \in Places |-> at[p] - (IF p = f THEN q ELSE 0) + (IF p = t THEN q ELSE 0)]
  BY DEF Book
<1>4. ASSUME NEW p \in Places
      PROVE  at[p] - (IF p = f THEN q ELSE 0) + (IF p = t THEN q ELSE 0) \in Nat
  <2>1. at[p] \in Nat
    BY DEF PlacesNotOverdrawn
  <2>2. CASE p = f
    <3>1. at[p] >= q
      BY <1>2, <2>2, StockAssumption
    <3> QED BY <2>1, <2>2, <3>1
  <2>3. CASE p # f
    BY <2>1, <2>3
  <2> QED BY <2>2, <2>3
<1> QED BY <1>3, <1>4 DEF PlacesNotOverdrawn

\* What a movement is: into the stock, out of it, or neither, and then between two
\* locations or none.
Way(delta, from, to) ==
  \/ delta = 1 /\ from = Nowhere /\ to \in Named
  \/ delta = -1 /\ from \in Named /\ to = Nowhere
  \/ delta = 0 /\ from = Nowhere /\ to = Nowhere
  \/ delta = 0 /\ from \in Places /\ to \in Places /\ from # to

\* Some whole quantity is booked in one of these ways.
Booked ==
  \E q \in Nat, delta \in Int, wanted \in Int, from, to \in Named, counted \in BOOLEAN :
    Way(delta, from, to) /\ Book(q, delta, wanted, from, to, counted)

\* A movement is a Book that did not over-reserve.
LEMMA MovementBooks ==
  ASSUME NEW q \in Nat, NEW delta \in Int, NEW wanted \in Int,
         NEW from \in Named, NEW to \in Named, NEW counted \in BOOLEAN,
         Way(delta, from, to), Movement(q, delta, wanted, from, to, counted)
  PROVE  Booked
<1>1. Book(q, delta, wanted, from, to, counted)
  BY DEF Movement
<1> QED BY <1>1, Zenon DEF Booked

-----------------------------------------------------------------------------
(* Every operation *)

\* Each of the stock screens is a movement of a whole quantity, from and to a location
\* or none, that asks for a whole reservation.
LEMMA MovementsBook ==
  ASSUME Covered, Movements
  PROVE  Booked
<1> USE DEF Covered
<1>0. /\ Nowhere \in Named /\ Places \subseteq Named /\ Steps \subseteq Nat
      /\ reserved \in Int /\ 0 \in Int /\ 1 \in Int /\ -1 \in Int
      /\ TRUE \in BOOLEAN /\ FALSE \in BOOLEAN
      /\ Way(0, Nowhere, Nowhere)
      /\ \A p \in Named : Way(1, Nowhere, p) /\ Way(-1, p, Nowhere)
      /\ \A p, r \in Places : p # r => Way(0, p, r)
  BY StepsAreWhole DEF Named, Way
<1>1. CASE Receive
  <2>1. PICK q \in Steps, to \in Named : Movement(q, 1, reserved, Nowhere, to, FALSE)
    BY <1>1 DEF Receive
  <2> QED BY <2>1, <1>0, MovementBooks, Zenon
<1>2. CASE Reserve
  <2>1. PICK q \in Steps : Movement(q, 0, reserved + q, Nowhere, Nowhere, FALSE)
    BY <1>2 DEF Reserve
  <2>2. reserved + q \in Int
    BY StepsAreWhole
  <2> QED BY <2>1, <2>2, <1>0, MovementBooks, Zenon
<1>3. CASE Release
  <2>1. PICK q \in Steps : Movement(q, 0, reserved - q, Nowhere, Nowhere, FALSE)
    BY <1>3 DEF Release
  <2>2. reserved - q \in Int
    BY StepsAreWhole
  <2> QED BY <2>1, <2>2, <1>0, MovementBooks, Zenon
<1>4. CASE Issue
  <2>1. PICK q \in Steps, from \in Named :
          Movement(q, -1, Most(0, reserved - q), from, Nowhere, FALSE)
    BY <1>4 DEF Issue
  <2>2. Most(0, reserved - q) \in Int
    BY StepsAreWhole, MostIsWhole
  <2> QED BY <2>1, <2>2, <1>0, MovementBooks, Zenon
<1>5. CASE WriteOff
  <2>1. PICK q \in Steps, from \in Named : Movement(q, -1, reserved, from, Nowhere, FALSE)
    BY <1>5 DEF WriteOff
  <2> QED BY <2>1, <1>0, MovementBooks, Zenon
<1>6. CASE Transfer
  <2>1. PICK q \in Steps, from \in Places, to \in Places :
          from # to /\ Movement(q, 0, reserved, from, to, FALSE)
    BY <1>6 DEF Transfer
  <2> QED BY <2>1, <1>0, MovementBooks, Zenon
<1>7. CASE Adjust
  <2>1. PICK n \in 0..MaxStock, where \in Named :
          \/ n > current /\ Movement(n - current, 1, reserved, Nowhere, where, TRUE)
          \/ n < current /\ Movement(current - n, -1, reserved, where, Nowhere, TRUE)
    BY <1>7 DEF Adjust
  <2>2. n \in Nat
    BY StockAssumption
  <2>3. CASE n > current /\ Movement(n - current, 1, reserved, Nowhere, where, TRUE)
    <3>1. n - current \in Nat
      BY <2>2, <2>3
    <3> QED BY <2>3, <3>1, <1>0, MovementBooks, Zenon
  <2>4. CASE n < current /\ Movement(current - n, -1, reserved, where, Nowhere, TRUE)
    <3>1. current - n \in Nat
      BY <2>2, <2>4
    <3> QED BY <2>4, <3>1, <1>0, MovementBooks, Zenon
  <2> QED BY <2>1, <2>3, <2>4
<1> QED BY <1>1, <1>2, <1>3, <1>4, <1>5, <1>6, <1>7 DEF Movements

\* The shelves only say where the stock is.
LEMMA ShelvesKeepFigures ==
  ASSUME ShelfMoves
  PROVE  UNCHANGED <<current, reserved, at>>
BY DEF ShelfMoves, PutAway, MoveShelf, TakeOff, CountShelf, Shelve

-----------------------------------------------------------------------------
(* The three records agree *)

ShelvesHold == on \in [Spots -> Nat]

StockInv == Covered /\ PlacesNotOverdrawn /\ ShelvesHold /\ RecordsAgree

\* The locations and their shelves are few enough to be summed.
LEMMA SumsOfPlaces ==
  ASSUME PlacesNotOverdrawn, ShelvesHold
  PROVE  /\ IsFiniteSet(Places) /\ Whole(at, Places)
         /\ \A p \in Places : /\ IsFiniteSet(SpotsAt(p)) /\ Whole(on, SpotsAt(p))
                              /\ Shelved(p) \in Int
<1>1. IsFiniteSet(Places) /\ Whole(at, Places)
  BY StockAssumption DEF PlacesNotOverdrawn, Whole
<1>2. ASSUME NEW p \in Places
      PROVE  IsFiniteSet(SpotsAt(p)) /\ Whole(on, SpotsAt(p))
  <2>1. SpotsAt(p) \in SUBSET Spots /\ IsFiniteSet(Spots)
    BY StockAssumption DEF SpotsAt
  <2> QED BY <2>1, FS_Subset DEF ShelvesHold, Whole
<1> QED BY <1>1, <1>2, SumIsWhole DEF Shelved

\* What a movement does to the locations: q more at t and less at f, if it names one.
LEMMA PlacesAfter ==
  ASSUME PlacesNotOverdrawn, ShelvesHold, NEW q \in Nat, NEW f \in Named, NEW t \in Named,
         f # t \/ f = Nowhere, NEW new,
         new = [p \in Places |-> at[p] - (IF p = f THEN q ELSE 0) + (IF p = t THEN q ELSE 0)]
  PROVE  SumFunctionOnSet(new, Places) = SumFunctionOnSet(at, Places)
           - (IF f = Nowhere THEN 0 ELSE q) + (IF t = Nowhere THEN 0 ELSE q)
<1> DEFINE mid == [p \in Places |-> at[p] - (IF p = f THEN q ELSE 0)]
<1>1. IsFiniteSet(Places) /\ Whole(at, Places) /\ SumFunctionOnSet(at, Places) \in Int
  BY SumsOfPlaces, SumIsWhole
<1>2. Whole(mid, Places)
  BY <1>1 DEF Whole
<1>3. SumFunctionOnSet(mid, Places) = SumFunctionOnSet(at, Places) - (IF f = Nowhere THEN 0 ELSE q)
  <2>1. CASE f = Nowhere
    <3>1. \A p \in Places : at[p] = mid[p]
      BY <1>1, <2>1, StockAssumption DEF Whole
    <3> HIDE DEF mid
    <3>2. SumFunctionOnSet(at, Places) = SumFunctionOnSet(mid, Places)
      BY <1>1, <3>1, SumSame
    <3> QED BY <1>1, <2>1, <3>2
  <2>2. CASE f # Nowhere
    <3>1. f \in Places
      BY <2>2 DEF Named
    <3>2. mid[f] = at[f] - q /\ at[f] \in Int /\ mid[f] \in Int /\ (\A p \in Places \ {f} : at[p] = mid[p])
      BY <1>1, <3>1 DEF Whole
    <3> HIDE DEF mid
    <3>3. SumFunctionOnSet(mid, Places) = SumFunctionOnSet(at, Places) + mid[f] - at[f]
      BY <1>1, <3>1, <3>2, SumChanged
    <3> QED BY <1>1, <2>2, <3>2, <3>3
  <2> QED BY <2>1, <2>2
<1>4. SumFunctionOnSet(mid, Places) \in Int
  BY <1>1, <1>2, SumIsWhole
<1>5. \A p \in Places : new[p] = mid[p] + (IF p = t THEN q ELSE 0)
  OBVIOUS
<1> HIDE DEF mid
<1>6. SumFunctionOnSet(new, Places) = SumFunctionOnSet(mid, Places) + (IF t = Nowhere THEN 0 ELSE q)
  <2>1. CASE t = Nowhere
    <3>1. \A p \in Places : mid[p] = new[p]
      BY <1>2, <1>5, <2>1, StockAssumption DEF Whole
    <3>2. SumFunctionOnSet(mid, Places) = SumFunctionOnSet(new, Places)
      BY <1>1, <1>2, <3>1, SumSame
    <3> QED BY <1>4, <2>1, <3>2
  <2>2. CASE t # Nowhere
    <3>1. t \in Places
      BY <2>2 DEF Named
    <3>2. new[t] = mid[t] + q /\ mid[t] \in Int /\ new[t] \in Int
          /\ (\A p \in Places \ {t} : mid[p] = new[p])
      BY <1>2, <1>5, <3>1 DEF Whole
    <3>3. SumFunctionOnSet(new, Places) = SumFunctionOnSet(mid, Places) + new[t] - mid[t]
      BY <1>1, <1>2, <3>1, <3>2, SumChanged
    <3> QED BY <1>4, <2>2, <3>2, <3>3
  <2> QED BY <2>1, <2>2
<1> QED BY <1>1, <1>3, <1>4, <1>6

\* A movement takes off a location's shelves only what it is down to by then.
ShelvesFollow ==
  \A p \in Places : \/ SumFunctionOnSet(on', SpotsAt(p)) = Shelved(p) /\ at'[p] >= at[p]
                    \/ SumFunctionOnSet(on', SpotsAt(p)) = Least(Shelved(p), at'[p])

LEMMA BookFollows ==
  ASSUME StockInv, NEW q \in Nat, NEW delta \in Int, NEW wanted \in Int,
         NEW from \in Named, NEW to \in Named, NEW counted,
         Way(delta, from, to), Book(q, delta, wanted, from, to, counted)
  PROVE  ShelvesHold' /\ ShelvesFollow /\ SumFunctionOnSet(at', Places) = current'
<1> DEFINE f == Source(delta, from)
           t == Target(delta, to)
<1>1. /\ f \in Named /\ t \in Named /\ (f # t \/ f = Nowhere)
      /\ \/ delta = 1 /\ f = Nowhere /\ t # Nowhere
         \/ delta = -1 /\ f # Nowhere /\ t = Nowhere
         \/ delta = 0 /\ (f = Nowhere <=> t = Nowhere)
  BY StockAssumption DEF Way, Source, Target, Named
<1>2. /\ f # Nowhere => at[f] >= q
      /\ current' = current + delta * q
      /\ at' = [p \in Places |-> at[p] - (IF p = f THEN q ELSE 0) + (IF p = t THEN q ELSE 0)]
      /\ on' = IF f = Nowhere THEN on ELSE AfterStockChange(f, at[f] - q, counted)
  BY DEF Book
<1>3. /\ at \in [Places -> Nat] /\ on \in [Spots -> Nat] /\ current \in Nat
      /\ SumFunctionOnSet(at, Places) = current
  BY DEF StockInv, PlacesNotOverdrawn, ShelvesHold, Covered, RecordsAgree, LocationsHoldTheStock
<1> HIDE DEF f, t
<1>4. SumFunctionOnSet(at', Places) = current'
  <2>1. SumFunctionOnSet(at', Places) = SumFunctionOnSet(at, Places)
           - (IF f = Nowhere THEN 0 ELSE q) + (IF t = Nowhere THEN 0 ELSE q)
    BY <1>1, <1>2, PlacesAfter DEF StockInv
  <2> QED BY <1>1, <1>2, <1>3, <2>1
<1>5. ShelvesHold' /\ ShelvesFollow
  <2>1. CASE f = Nowhere
    <3>1. on' = on /\ \A p \in Places : at'[p] >= at[p]
      BY <1>2, <1>3, <2>1, StockAssumption
    <3> QED BY <1>3, <3>1 DEF ShelvesHold, ShelvesFollow, Shelved
  <2>2. CASE f # Nowhere
    <3>1. f \in Places /\ at[f] - q \in Nat /\ at'[f] = at[f] - q
      BY <1>1, <1>2, <1>3, <2>2 DEF Named
    <3>2. on' = AfterStockChange(f, at[f] - q, counted)
      BY <1>2, <2>2
    <3>3. /\ on' \in [Spots -> Nat]
          /\ SumFunctionOnSet(on', SpotsAt(f)) = Least(Shelved(f), at[f] - q)
          /\ \A r \in Places \ {f} : SumFunctionOnSet(on', SpotsAt(r)) = Shelved(r)
      BY <1>3, <3>1, <3>2, ShelvesAfter
    <3>4. \A r \in Places \ {f} : at'[r] >= at[r]
      BY <1>2, <1>3
    <3> QED BY <3>1, <3>3, <3>4 DEF ShelvesHold, ShelvesFollow
  <2> QED BY <2>1, <2>2
<1> QED BY <1>4, <1>5

\* So the rule of the shelves survives whatever is booked ...
LEMMA BookedKeepsRecords ==
  ASSUME StockInv, Booked
  PROVE  StockInv'
<1>1. PICK q \in Nat, delta \in Int, wanted \in Int, from, to \in Named, counted \in BOOLEAN :
        Way(delta, from, to) /\ Book(q, delta, wanted, from, to, counted)
  BY DEF Booked
<1>2. ShelvesHold' /\ ShelvesFollow /\ SumFunctionOnSet(at', Places) = current'
  BY <1>1, BookFollows
<1>3. Covered' /\ PlacesNotOverdrawn'
  BY <1>1, BookCovers, BookLeavesPlaces DEF StockInv
<1>4. ASSUME NEW p \in Places
      PROVE  Shelved(p)' <= at'[p]
  <2>1. Shelved(p) \in Int /\ Shelved(p) <= at[p] /\ at[p] \in Nat /\ at'[p] \in Nat
    BY <1>3, SumsOfPlaces DEF StockInv, RecordsAgree, TheOneRule, PlacesNotOverdrawn
  <2>2. Shelved(p)' = SumFunctionOnSet(on', SpotsAt(p))
    BY DEF Shelved, SpotsAt
  <2> QED BY <1>2, <2>1, <2>2 DEF ShelvesFollow, Least
<1> QED BY <1>2, <1>3, <1>4 DEF StockInv, RecordsAgree, TheOneRule, LocationsHoldTheStock

\* ... and pieces go up on a shelf only from those on none.
LEMMA ShelveKeepsRecords ==
  ASSUME StockInv, NEW s \in Spots, NEW d \in Int, Shelve(s, d), on[s] + d >= 0,
         Shelved(PlaceOf[s]) + d <= at[PlaceOf[s]]
  PROVE  ShelvesHold' /\ RecordsAgree'
<1>1. /\ on \in [Spots -> Nat] /\ on' = [on EXCEPT ![s] = on[s] + d]
      /\ at' = at /\ current' = current
  BY DEF Shelve, StockInv, ShelvesHold
<1>2. on' \in [Spots -> Nat]
  BY <1>1
<1>3. ASSUME NEW p \in Places
      PROVE  SumFunctionOnSet(on', SpotsAt(p)) <= at[p]
  <2>1. IsFiniteSet(SpotsAt(p)) /\ Whole(on, SpotsAt(p)) /\ Shelved(p) <= at[p] /\ Shelved(p) \in Int
    BY SumsOfPlaces DEF StockInv, RecordsAgree, TheOneRule
  <2>2. CASE PlaceOf[s] = p
    <3>1. s \in SpotsAt(p) /\ on'[s] = on[s] + d /\ on'[s] \in Int /\ on[s] \in Nat
          /\ \A u \in SpotsAt(p) \ {s} : on[u] = on'[u]
      BY <1>1, <1>2, <2>2 DEF SpotsAt
    <3>2. SumFunctionOnSet(on', SpotsAt(p)) = Shelved(p) + on'[s] - on[s]
      BY <2>1, <3>1, SumChanged DEF Shelved
    <3> QED BY <2>1, <2>2, <3>1, <3>2
  <2>3. CASE PlaceOf[s] # p
    <3>1. \A u \in SpotsAt(p) : on[u] = on'[u]
      BY <1>1, <2>3 DEF SpotsAt
    <3>2. SumFunctionOnSet(on, SpotsAt(p)) = SumFunctionOnSet(on', SpotsAt(p))
      BY <2>1, <3>1, SumSame
    <3> QED BY <2>1, <3>2 DEF Shelved
  <2> QED BY <2>2, <2>3
<1> QED BY <1>1, <1>2, <1>3 DEF StockInv, RecordsAgree, TheOneRule, LocationsHoldTheStock,
           ShelvesHold, Shelved, SpotsAt

LEMMA MovingKeepsRecords ==
  ASSUME StockInv, MoveShelf
  PROVE  ShelvesHold' /\ RecordsAgree'
<1>1. PICK s \in Spots, u \in Spots, q \in 1..MaxStock :
        /\ s # u /\ PlaceOf[s] = PlaceOf[u] /\ q <= on[s]
        /\ on' = [on EXCEPT ![s] = on[s] - q, ![u] = on[u] + q]
        /\ UNCHANGED <<current, reserved, at>>
  BY DEF MoveShelf
<1>2. on \in [Spots -> Nat] /\ q \in Nat
  BY StockAssumption DEF StockInv, ShelvesHold
<1> DEFINE mid == [on EXCEPT ![s] = on[s] - q]
<1>3. /\ mid \in [Spots -> Nat] /\ on' \in [Spots -> Nat]
      /\ mid[s] = on[s] - q /\ on'[u] = mid[u] + q
      /\ \A v \in Spots \ {s} : on[v] = mid[v]
      /\ \A v \in Spots \ {u} : mid[v] = on'[v]
  BY <1>1, <1>2
<1> HIDE DEF mid
<1>4. ASSUME NEW p \in Places
      PROVE  SumFunctionOnSet(on', SpotsAt(p)) = Shelved(p)
  <2>1. /\ IsFiniteSet(SpotsAt(p)) /\ Whole(on, SpotsAt(p)) /\ Shelved(p) \in Int
        /\ SpotsAt(p) \subseteq Spots
    BY SumsOfPlaces DEF StockInv, SpotsAt
  <2>2. Whole(mid, SpotsAt(p))
    BY <1>3, <2>1 DEF Whole
  <2>3. CASE PlaceOf[s] = p
    <3>1. s \in SpotsAt(p) /\ u \in SpotsAt(p)
      BY <1>1, <2>3 DEF SpotsAt
    <3>2. mid[s] \in Int /\ on'[u] \in Int
      BY <1>3
    <3>3. SumFunctionOnSet(mid, SpotsAt(p)) = Shelved(p) + mid[s] - on[s]
      <4>1. \A v \in SpotsAt(p) \ {s} : on[v] = mid[v]
        BY <1>3, <2>1
      <4> QED BY <2>1, <3>1, <3>2, <4>1, SumChanged DEF Shelved
    <3>4. SumFunctionOnSet(on', SpotsAt(p)) = SumFunctionOnSet(mid, SpotsAt(p)) + on'[u] - mid[u]
      <4>1. \A v \in SpotsAt(p) \ {u} : mid[v] = on'[v]
        BY <1>3, <2>1
      <4> QED BY <2>1, <2>2, <3>1, <3>2, <4>1, SumChanged
    <3>5. SumFunctionOnSet(mid, SpotsAt(p)) \in Int
      BY <2>1, <2>2, SumIsWhole
    <3> QED BY <1>2, <1>3, <2>1, <3>3, <3>4, <3>5
  <2>4. CASE PlaceOf[s] # p
    <3>1. \A v \in SpotsAt(p) : on[v] = on'[v]
      BY <1>1, <1>3, <2>4 DEF SpotsAt
    <3>2. SumFunctionOnSet(on, SpotsAt(p)) = SumFunctionOnSet(on', SpotsAt(p))
      BY <2>1, <3>1, SumSame
    <3> QED BY <3>2 DEF Shelved
  <2> QED BY <2>3, <2>4
<1>5. \A p \in Places : Shelved(p)' = Shelved(p)
  BY <1>4 DEF Shelved, SpotsAt
<1> QED BY <1>1, <1>3, <1>5 DEF StockInv, RecordsAgree, TheOneRule, LocationsHoldTheStock, ShelvesHold

LEMMA ShelfMovesKeepRecords ==
  ASSUME StockInv, ShelfMoves
  PROVE  ShelvesHold' /\ RecordsAgree'
<1>1. /\ on \in [Spots -> Nat] /\ at \in [Places -> Nat]
      /\ \A s \in Spots : /\ PlaceOf[s] \in Places /\ Shelved(PlaceOf[s]) \in Int
                          /\ Shelved(PlaceOf[s]) <= at[PlaceOf[s]]
  BY StockAssumption, SumsOfPlaces DEF StockInv, ShelvesHold, PlacesNotOverdrawn, RecordsAgree, TheOneRule
<1>2. CASE PutAway
  <2>1. PICK s \in Spots, q \in Steps : q <= NotShelved(PlaceOf[s]) /\ Shelve(s, q)
    BY <1>2 DEF PutAway
  <2>2. q \in Nat /\ q >= 1
    BY StockAssumption DEF Steps
  <2>3. Shelved(PlaceOf[s]) + q <= at[PlaceOf[s]] /\ on[s] + q >= 0
    BY <1>1, <2>1, <2>2 DEF NotShelved, Most
  <2> QED BY <2>1, <2>2, <2>3, ShelveKeepsRecords
<1>3. CASE TakeOff
  <2>1. PICK s \in Spots, q \in Steps : q <= on[s] /\ Shelve(s, -q)
    BY <1>3 DEF TakeOff
  <2>2. q \in Nat /\ -q \in Int
    BY StockAssumption DEF Steps
  <2>3. Shelved(PlaceOf[s]) + (-q) <= at[PlaceOf[s]] /\ on[s] + (-q) >= 0
    BY <1>1, <2>1, <2>2
  <2> QED BY <2>1, <2>2, <2>3, ShelveKeepsRecords
<1>4. CASE CountShelf
  <2>1. PICK s \in Spots, n \in 0..MaxStock :
          Shelve(s, IF n < on[s] THEN n - on[s] ELSE Least(n - on[s], NotShelved(PlaceOf[s])))
    BY <1>4 DEF CountShelf
  <2> DEFINE d == IF n < on[s] THEN n - on[s] ELSE Least(n - on[s], NotShelved(PlaceOf[s]))
  <2>2. n \in Nat
    BY StockAssumption
  <2>3. d \in Int /\ Shelved(PlaceOf[s]) + d <= at[PlaceOf[s]] /\ on[s] + d >= 0
    BY <1>1, <2>2 DEF NotShelved, Most, Least
  <2> HIDE DEF d
  <2>4. Shelve(s, d)
    BY <2>1 DEF d
  <2> QED BY <2>3, <2>4, ShelveKeepsRecords
<1> QED BY <1>2, <1>3, <1>4, MovingKeepsRecords DEF ShelfMoves

LEMMA IdleKeepsRecords ==
  ASSUME StockInv, UNCHANGED stock
  PROVE  StockInv'
BY DEF stock, StockInv, Covered, PlacesNotOverdrawn, ShelvesHold, RecordsAgree, TheOneRule,
       LocationsHoldTheStock, Shelved, SpotsAt

LEMMA RecordsInductive ==
  ASSUME StockInv, [Next]_stock
  PROVE  StockInv'
<1>1. CASE Movements
  BY <1>1, MovementsBook, BookedKeepsRecords DEF StockInv
<1>2. CASE ShelfMoves
  BY <1>2, ShelvesKeepFigures, ShelfMovesKeepRecords DEF StockInv, Covered, PlacesNotOverdrawn
<1> QED BY <1>1, <1>2, IdleKeepsRecords DEF Next

LEMMA RecordsBegin == Init => StockInv
<1> SUFFICES ASSUME Init PROVE StockInv
  OBVIOUS
<1>1. Covered /\ PlacesNotOverdrawn /\ ShelvesHold
  BY DEF Init, Covered, PlacesNotOverdrawn, ShelvesHold
<1> DEFINE zero(S) == [x \in S |-> 0]
<1>2. ASSUME NEW S, NEW T \in SUBSET S, IsFiniteSet(T)
      PROVE  SumFunctionOnSet([x \in S |-> 0], T) = 0
  <2> DEFINE z == [x \in S |-> 0]
  <2>1. Whole(z, T) /\ \A x \in T : z[x] = z[x] - z[x]
    BY DEF Whole
  <2> HIDE DEF z
  <2>2. SumFunctionOnSet(z, T) = SumFunctionOnSet(z, T) - SumFunctionOnSet(z, T)
    BY <1>2, <2>1, SumLess
  <2>3. SumFunctionOnSet(z, T) \in Int
    BY <1>2, <2>1, SumIsWhole
  <2>4. SumFunctionOnSet(z, T) = 0
    BY <2>2, <2>3
  <2> QED BY <2>4 DEF z
<1>3. TheOneRule
  <2>1. ASSUME NEW p \in Places PROVE Shelved(p) <= at[p]
    <3>1. SpotsAt(p) \in SUBSET Spots /\ IsFiniteSet(SpotsAt(p))
      BY StockAssumption, FS_Subset DEF SpotsAt
    <3>2. SumFunctionOnSet([x \in Spots |-> 0], SpotsAt(p)) = 0
      BY <1>2, <3>1
    <3> QED BY <3>2 DEF Init, Shelved
  <2> QED BY <2>1 DEF TheOneRule
<1>4. LocationsHoldTheStock
  <2>1. SumFunctionOnSet([x \in Places |-> 0], Places) = 0
    BY <1>2, StockAssumption
  <2> QED BY <2>1 DEF Init, LocationsHoldTheStock
<1> QED BY <1>1, <1>3, <1>4 DEF StockInv, RecordsAgree

-----------------------------------------------------------------------------
\* No more is ever reserved than is in stock (available_stock is never negative),
\* whatever is issued, written off or counted, for every set of locations and shelves.
THEOREM ReservationsAreCovered == Spec => []ReservedIsInStock
<1>1. StockInv => ReservedIsInStock
  BY DEF StockInv, Covered, ReservedIsInStock
<1> QED BY <1>1, RecordsBegin, RecordsInductive, PTL DEF Spec

\* No movement takes more from a location than it holds, named or default.
THEOREM LocationsAreNeverOverdrawn == Spec => []PlacesNotOverdrawn
<1>1. StockInv => PlacesNotOverdrawn
  BY DEF StockInv
<1> QED BY <1>1, RecordsBegin, RecordsInductive, PTL DEF Spec

\* What the shelves of a location hold is at most what the location has, and the
\* locations hold together exactly the stock there is, whatever is received, issued,
\* moved, counted or put away; for any locations and shelves ("THE ONE RULE", shelves.py).
THEOREM RecordsAlwaysAgree == Spec => []RecordsAgree
<1>1. StockInv => RecordsAgree
  BY DEF StockInv
<1> QED BY <1>1, RecordsBegin, RecordsInductive, PTL DEF Spec

\* A movement takes pieces off a location's shelves only when every piece left there is
\* on one ("'Not shelved' first", after_stock_change), in either order of emptying them.
THEOREM NotShelvedGoesFirst == Spec => NotShelvedFirst
<1>1. ASSUME StockInv, [Next]_stock, NEW p \in Places,
             at'[p] # at[p], Shelved(p)' < Shelved(p)
      PROVE  Shelved(p)' = at'[p]
  <2>1. CASE Movements
    <3>1. PICK q \in Nat, delta \in Int, wanted \in Int, from, to \in Named, counted \in BOOLEAN :
            Way(delta, from, to) /\ Book(q, delta, wanted, from, to, counted)
      BY <1>1, <2>1, MovementsBook DEF Booked, StockInv
    <3>2. ShelvesFollow
      BY <1>1, <3>1, BookFollows
    <3>3. Shelved(p)' = SumFunctionOnSet(on', SpotsAt(p)) /\ Shelved(p) \in Int
      BY <1>1, SumsOfPlaces DEF Shelved, SpotsAt, StockInv
    <3> QED BY <1>1, <3>2, <3>3 DEF ShelvesFollow, Least
  <2>2. CASE ShelfMoves
    BY <1>1, <2>2, ShelvesKeepFigures
  <2>3. CASE UNCHANGED stock
    BY <1>1, <2>3 DEF stock
  <2> QED BY <1>1, <2>1, <2>2, <2>3 DEF Next
<1>2. StockInv /\ [Next]_stock =>
        [\A p \in Places : at'[p] # at[p] /\ Shelved(p)' < Shelved(p) => Shelved(p)' = at'[p]]_stock
  BY <1>1
<1> QED BY <1>2, RecordsBegin, RecordsInductive, PTL DEF Spec, NotShelvedFirst
=============================================================================
