--------------------------- MODULE SettlementProofs ---------------------------
(***************************************************************************)
(* Proofs about Settlement and its Reports, for any orders, zones,         *)
(* commission and amounts, any length of a week and shift between the      *)
(* weeks of API and worker, any grace period, and any bounds on the clock  *)
(* and the ledger.                                                         *)
(*                                                                         *)
(* The invariant is about sums over sets that grow: what a period bills,   *)
(* what was paid to it, and what all periods and the whole ledger come to. *)
(* The first part states, once, how such a sum moves.  A sum is a fold,    *)
(* and a claim about it for every finite set is proved by assuming that it *)
(* fails and taking a smallest set for which it does.                      *)
(*                                                                         *)
(* IInv adds to the stored totals what they depend on: every entry is on   *)
(* one line or belongs to one payment (LedgerInv), and every payment is    *)
(* allocated to the last piastre and taken back at most once (PaymentInv). *)
(* Every step keeps IInv, the worker's because the database checks what    *)
(* its increments leave.  That ledger and settlements agree (Balance)      *)
(* follows from IInv alone, by adding the same entries up once by period   *)
(* and once by payment.                                                    *)
(*                                                                         *)
(* The reports (ReportsAgree) need a little more, ReportInv: an entry is   *)
(* for at most one order, a commission for one and a payment for none, and *)
(* a payment is allocated at most once to a period, a reversal as the      *)
(* payment that it takes back.  Then the rows of each report are the       *)
(* entries or the allocations once more, divided by period, by payment or  *)
(* by zone.  That the largest remainder divides a payment exactly          *)
(* (SharesAreExact) rests on the ranks of a finite order (RanksAre) and on *)
(* the total of the remainders, a multiple of the total due.               *)
(***************************************************************************)
EXTENDS Reports, FiniteSetTheorems, SequenceTheorems, WellFoundedInduction, TLAPS

-----------------------------------------------------------------------------
(* Sums.                                                                   *)

some(s) == CHOOSE x \in s : TRUE

\* g adds up f on the subsets of S, one element after the other.
Sums(g, f, S) ==
    g = [s \in SUBSET S |-> IF s = {} THEN 0 ELSE f[some(s)] + g[s \ {some(s)}]]

Total(f, S) == SumFunctionOnSet(f, S)

\* SumFunctionOnSet is the fold with which the library defines it.
LEMMA TotalIsFold ==
  ASSUME NEW f, NEW S
  PROVE  Total(f, S) = (CHOOSE g : Sums(g, f, S))[S]
BY Zenon DEF Total, SumFunctionOnSet, FoldFunctionOnSet, MapThenFoldSet, Sums, some

\* The element that a fold takes first.
LEMMA SomeIsIn == ASSUME NEW s, s # {} PROVE some(s) \in s
BY DEF some

\* Finite sets: what fails for none smaller fails for none.
LEMMA LeastSet ==
  ASSUME NEW S, IsFiniteSet(S), NEW P \in SUBSET SUBSET S, P # {}
  PROVE  \E s \in P : \A t \in P : Cardinality(t) >= Cardinality(s)
<1> DEFINE sizes == {Cardinality(s) : s \in P}
<1>1. \A s \in P : IsFiniteSet(s) /\ Cardinality(s) \in Nat
  BY FS_Subset, FS_CardinalityType
<1>2. sizes \subseteq Nat /\ sizes # {}
  BY <1>1
<1>3. PICK m \in sizes : \A x \in sizes : ~(<<x, m>> \in OpToRel(<, Nat))
  <2>1. IsWellFoundedOn(OpToRel(<, Nat), Nat)
    BY NatLessThanWellFounded
  <2> HIDE DEF sizes
  <2> QED
    BY <1>2, <2>1, WFMin
<1>4. \A x \in sizes : ~(x < m)
  BY <1>2, <1>3 DEF OpToRel
<1>5. \A x \in sizes : x >= m
  BY <1>2, <1>4
<1> QED
  BY <1>5

\* There is one way to add up, given the order in which elements are taken.
LEMMA SumsUnique ==
  ASSUME NEW S, IsFiniteSet(S), NEW f, NEW g, NEW h, Sums(g, f, S), Sums(h, f, S)
  PROVE  g = h
<1> DEFINE P == {s \in SUBSET S : g[s] # h[s]}
<1>1. CASE P = {}
  <2>1. \A s \in SUBSET S : g[s] = h[s]
    BY <1>1
  <2>2. DOMAIN g = SUBSET S /\ DOMAIN h = SUBSET S
    BY DEF Sums
  <2>3. g = [s \in SUBSET S |-> g[s]] /\ h = [s \in SUBSET S |-> h[s]]
    BY DEF Sums
  <2> QED
    BY <2>1, <2>3
<1>2. ASSUME P # {} PROVE FALSE
  <2>1. PICK s \in P : \A t \in P : Cardinality(t) >= Cardinality(s)
    BY <1>2, LeastSet
  <2>2. CASE s = {}
    <3>1. g[s] = 0 /\ h[s] = 0
      BY <2>2 DEF Sums
    <3> QED
      BY <3>1
  <2>3. CASE s # {}
    <3>1. PICK x : x = some(s)
      OBVIOUS
    <3>2. x \in s
      BY <2>3, <3>1, SomeIsIn
    <3>3. s \in SUBSET S /\ s \ {x} \in SUBSET S
      OBVIOUS
    <3>4. IsFiniteSet(s)
      BY FS_Subset
    <3>5. Cardinality(s \ {x}) = Cardinality(s) - 1 /\ Cardinality(s) \in Nat
      BY <3>2, <3>4, FS_RemoveElement, FS_CardinalityType
    <3>6. s \ {x} \notin P
      BY <2>1, <3>5
    <3>7. g[s \ {x}] = h[s \ {x}]
      BY <3>3, <3>6
    <3>8. g[s] = f[x] + g[s \ {x}] /\ h[s] = f[x] + h[s \ {x}]
      BY <2>3, <3>1, <3>3 DEF Sums
    <3> QED
      BY <3>7, <3>8
  <2> QED
    BY <2>2, <2>3
<1> QED
  BY <1>1, <1>2
\* Adding up over a larger set also adds up over its subsets.
LEMMA SumsRestrict ==
  ASSUME NEW S, NEW f, NEW g, Sums(g, f, S), NEW w \in SUBSET S
  PROVE  Sums([t \in SUBSET w |-> g[t]], f, w)
<1> DEFINE h == [t \in SUBSET w |-> g[t]]
<1>1. ASSUME NEW t \in SUBSET w
      PROVE  h[t] = IF t = {} THEN 0 ELSE f[some(t)] + h[t \ {some(t)}]
  <2>1. t \in SUBSET S /\ t \ {some(t)} \in SUBSET w
    OBVIOUS
  <2>2. g[t] = IF t = {} THEN 0 ELSE f[some(t)] + g[t \ {some(t)}]
    BY <2>1 DEF Sums
  <2> QED
    BY <2>1, <2>2
<1>2. h = [t \in SUBSET w |-> h[t]]
  OBVIOUS
<1> HIDE DEF h
<1>3. h = [t \in SUBSET w |-> IF t = {} THEN 0 ELSE f[some(t)] + h[t \ {some(t)}]]
  BY <1>1, <1>2
<1> QED
  BY <1>3 DEF Sums, h

\* What adds up over S gives the total of S.
LEMMA TotalOf ==
  ASSUME NEW S, IsFiniteSet(S), NEW f, NEW g, Sums(g, f, S)
  PROVE  \A t \in SUBSET S : g[t] = Total(f, t)
<1> SUFFICES ASSUME NEW t \in SUBSET S PROVE g[t] = Total(f, t)
  OBVIOUS
<1>1. PICK h : h = [u \in SUBSET t |-> g[u]]
  OBVIOUS
<1>2. Sums(h, f, t)
  BY <1>1, SumsRestrict
<1>3. PICK k : k = CHOOSE j : Sums(j, f, t)
  OBVIOUS
<1>4. Sums(k, f, t)
  BY <1>2, <1>3
<1>5. IsFiniteSet(t)
  BY FS_Subset
<1>6. h = k
  BY <1>2, <1>4, <1>5, SumsUnique
<1> QED
  BY <1>1, <1>3, <1>6, TotalIsFold

\* Every finite set can be added up.
LEMMA SumsExist ==
  ASSUME NEW S, IsFiniteSet(S), NEW f
  PROVE  \E g : Sums(g, f, S)
<1> DEFINE P == {s \in SUBSET S : ~\E g : Sums(g, f, s)}
<1>1. ASSUME P # {} PROVE FALSE
  <2>1. PICK s \in P : \A t \in P : Cardinality(t) >= Cardinality(s)
    BY <1>1, LeastSet
  <2>2. IsFiniteSet(s) /\ Cardinality(s) \in Nat
    BY FS_Subset, FS_CardinalityType
  <2>3. ASSUME NEW t \in SUBSET s, t # s PROVE \E g : Sums(g, f, t)
    <3>1. IsFiniteSet(t) /\ Cardinality(t) < Cardinality(s)
      <4>1. PICK x \in s : x \notin t
        BY <2>3
      <4>2. IsFiniteSet(s \ {x}) /\ Cardinality(s \ {x}) = Cardinality(s) - 1
        BY <2>2, FS_RemoveElement
      <4>3. t \in SUBSET (s \ {x})
        BY <4>1
      <4>4. /\ IsFiniteSet(t) /\ Cardinality(t) <= Cardinality(s \ {x})
            /\ Cardinality(t) \in Nat
        BY <4>2, <4>3, FS_Subset, FS_CardinalityType
      <4> QED
        BY <2>2, <4>2, <4>4
    <3>2. Cardinality(t) \in Nat
      BY <3>1, FS_CardinalityType
    <3>3. t \notin P
      BY <2>1, <2>2, <3>1, <3>2
    <3> QED
      BY <3>3
  <2>4. ASSUME NEW t \in SUBSET s, t # s
        PROVE  Total(f, t) = IF t = {} THEN 0
                             ELSE f[some(t)] + Total(f, t \ {some(t)})
    <3>1. PICK g : Sums(g, f, t)
      BY <2>3, <2>4
    <3>2. IsFiniteSet(t)
      BY <2>2, FS_Subset
    <3>3. \A u \in SUBSET t : g[u] = Total(f, u)
      BY <3>1, <3>2, TotalOf
    <3>4. t \in SUBSET t /\ t \ {some(t)} \in SUBSET t
      OBVIOUS
    <3>5. g[t] = IF t = {} THEN 0 ELSE f[some(t)] + g[t \ {some(t)}]
      BY <3>1, <3>4 DEF Sums
    <3> QED
      BY <3>3, <3>4, <3>5
  <2> DEFINE G == [t \in SUBSET s |-> IF t = {} THEN 0
                                      ELSE f[some(t)] + Total(f, t \ {some(t)})]
  <2>5. ASSUME NEW t \in SUBSET s
        PROVE  G[t] = IF t = {} THEN 0 ELSE f[some(t)] + G[t \ {some(t)}]
    <3>1. CASE t = {}
      BY <3>1
    <3>2. CASE t # {}
      <4>1. PICK u : u = t \ {some(t)}
        OBVIOUS
      <4>2. u \in SUBSET s /\ u # s
        BY <3>2, <4>1, SomeIsIn
      <4>3. Total(f, u) = IF u = {} THEN 0 ELSE f[some(u)] + Total(f, u \ {some(u)})
        BY <2>4, <4>2
      <4>4. G[u] = Total(f, u)
        BY <4>2, <4>3
      <4>5. G[t] = f[some(t)] + Total(f, u)
        BY <3>2, <4>1
      <4> HIDE DEF G
      <4> QED
        BY <3>2, <4>1, <4>4, <4>5
    <3> QED
      BY <3>1, <3>2
  <2>6. G = [t \in SUBSET s |-> G[t]]
    OBVIOUS
  <2> HIDE DEF G
  <2>7. G = [t \in SUBSET s |-> IF t = {} THEN 0 ELSE f[some(t)] + G[t \ {some(t)}]]
    BY <2>5, <2>6
  <2>8. Sums(G, f, s)
    BY <2>7 DEF Sums
  <2> QED
    BY <2>8
<1>2. S \notin P
  BY <1>1
<1> QED
  BY <1>2

\* The equation that defines a total.
LEMMA TotalEquation ==
  ASSUME NEW S, IsFiniteSet(S), NEW f
  PROVE  Total(f, S) = IF S = {} THEN 0 ELSE f[some(S)] + Total(f, S \ {some(S)})
<1>1. PICK g : Sums(g, f, S)
  BY SumsExist
<1>2. \A u \in SUBSET S : g[u] = Total(f, u)
  BY <1>1, TotalOf
<1>3. S \in SUBSET S /\ S \ {some(S)} \in SUBSET S
  OBVIOUS
<1>4. g[S] = IF S = {} THEN 0 ELSE f[some(S)] + g[S \ {some(S)}]
  BY <1>1, <1>3 DEF Sums
<1> QED
  BY <1>2, <1>3, <1>4

\* Nothing comes to zero.
LEMMA TotalEmpty == ASSUME NEW f PROVE Total(f, {}) = 0
BY FS_EmptySet, TotalEquation

\* Integers come to an integer, naturals to a natural.
LEMMA TotalTyped ==
  ASSUME NEW S, IsFiniteSet(S), NEW f, NEW T, T = Int \/ T = Nat,
         \A x \in S : f[x] \in T
  PROVE  Total(f, S) \in T
<1> DEFINE P == {s \in SUBSET S : Total(f, s) \notin T}
<1>1. ASSUME P # {} PROVE FALSE
  <2>1. PICK s \in P : \A t \in P : Cardinality(t) >= Cardinality(s)
    BY <1>1, LeastSet
  <2>2. IsFiniteSet(s) /\ Cardinality(s) \in Nat
    BY FS_Subset, FS_CardinalityType
  <2>3. s # {}
    BY TotalEmpty
  <2>4. PICK x : x = some(s)
    OBVIOUS
  <2>5. x \in s
    BY <2>3, <2>4, SomeIsIn
  <2>6. Cardinality(s \ {x}) = Cardinality(s) - 1
    BY <2>2, <2>5, FS_RemoveElement
  <2>7. Total(f, s \ {x}) \in T
    BY <2>1, <2>2, <2>6
  <2>8. Total(f, s) = f[x] + Total(f, s \ {x})
    BY <2>2, <2>3, <2>4, TotalEquation
  <2>9. f[x] \in T
    BY <2>5
  <2> QED
    BY <2>7, <2>8, <2>9
<1> QED
  BY <1>1

\* The same amounts come to the same total.
LEMMA TotalSame ==
  ASSUME NEW S, IsFiniteSet(S), NEW f, NEW g, \A x \in S : f[x] = g[x]
  PROVE  Total(f, S) = Total(g, S)
<1> DEFINE P == {s \in SUBSET S : Total(f, s) # Total(g, s)}
<1>1. ASSUME P # {} PROVE FALSE
  <2>1. PICK s \in P : \A t \in P : Cardinality(t) >= Cardinality(s)
    BY <1>1, LeastSet
  <2>2. IsFiniteSet(s) /\ Cardinality(s) \in Nat
    BY FS_Subset, FS_CardinalityType
  <2>3. s # {}
    BY TotalEmpty
  <2>4. PICK x : x = some(s)
    OBVIOUS
  <2>5. x \in s
    BY <2>3, <2>4, SomeIsIn
  <2>6. Cardinality(s \ {x}) = Cardinality(s) - 1
    BY <2>2, <2>5, FS_RemoveElement
  <2>7. Total(f, s \ {x}) = Total(g, s \ {x})
    BY <2>1, <2>2, <2>6
  <2>8. /\ Total(f, s) = f[x] + Total(f, s \ {x})
        /\ Total(g, s) = g[x] + Total(g, s \ {x})
    BY <2>2, <2>3, <2>4, TotalEquation
  <2>9. f[x] = g[x]
    BY <2>5
  <2> QED
    BY <2>7, <2>8, <2>9
<1> QED
  BY <1>1

\* Any element may be taken out first.
LEMMA TotalRemove ==
  ASSUME NEW S, IsFiniteSet(S), NEW f, \A x \in S : f[x] \in Int, NEW y \in S
  PROVE  Total(f, S) = f[y] + Total(f, S \ {y})
<1> DEFINE P == {s \in SUBSET S : \E z \in s : Total(f, s) # f[z] + Total(f, s \ {z})}
<1>1. ASSUME P # {} PROVE FALSE
  <2>1. PICK s \in P : \A t \in P : Cardinality(t) >= Cardinality(s)
    BY <1>1, LeastSet
  <2>2. PICK z \in s : Total(f, s) # f[z] + Total(f, s \ {z})
    BY <2>1
  <2>3. IsFiniteSet(s) /\ Cardinality(s) \in Nat
    BY FS_Subset, FS_CardinalityType
  <2>4. PICK x : x = some(s)
    OBVIOUS
  <2>5. x \in s
    BY <2>2, <2>4, SomeIsIn
  <2>6. Total(f, s) = f[x] + Total(f, s \ {x})
    BY <2>2, <2>3, <2>4, TotalEquation
  <2>7. x # z
    BY <2>2, <2>6
  <2> DEFINE u == (s \ {x}) \ {z}
  <2>8. ASSUME NEW v \in s PROVE s \ {v} \notin P
    <3>1. Cardinality(s \ {v}) = Cardinality(s) - 1
      BY <2>3, FS_RemoveElement
    <3> HIDE DEF P
    <3> QED
      BY <2>1, <2>3, <3>1
  <2>9. Total(f, s \ {x}) = f[z] + Total(f, u)
    <3>1. z \in s \ {x} /\ s \ {x} \in SUBSET S
      BY <2>7
    <3> QED
      BY <2>5, <2>8, <3>1
  <2>10. Total(f, s \ {z}) = f[x] + Total(f, u)
    <3>1. x \in s \ {z} /\ s \ {z} \in SUBSET S
      BY <2>5, <2>7
    <3>2. (s \ {z}) \ {x} = u
      OBVIOUS
    <3>3. Total(f, s \ {z}) = f[x] + Total(f, (s \ {z}) \ {x})
      BY <2>8, <3>1
    <3> QED
      BY <3>2, <3>3
  <2>11. f[x] \in Int /\ f[z] \in Int
    BY <2>5
  <2>12. Total(f, u) \in Int
    <3>1. IsFiniteSet(u) /\ \A w \in u : f[w] \in Int
      BY <2>3, FS_Subset
    <3> HIDE DEF u
    <3> QED
      BY <3>1, TotalTyped
  <2> HIDE DEF u
  <2> QED
    BY <2>2, <2>6, <2>9, <2>10, <2>11, <2>12
<1>2. S \notin P
  BY <1>1
<1> QED
  BY <1>2

\* One more element.
LEMMA TotalAdd ==
  ASSUME NEW S, IsFiniteSet(S), NEW f, NEW y, y \notin S, f[y] \in Int,
         \A x \in S : f[x] \in Int
  PROVE  Total(f, S \cup {y}) = Total(f, S) + f[y]
<1>1. PICK R : R = S \cup {y}
  OBVIOUS
<1>2. IsFiniteSet(R)
  BY <1>1, FS_AddElement
<1>3. \A x \in R : f[x] \in Int
  BY <1>1
<1>4. y \in R /\ R \ {y} = S
  BY <1>1
<1>5. Total(f, R) = f[y] + Total(f, S)
  BY <1>2, <1>3, <1>4, TotalRemove
<1>6. Total(f, S) \in Int
  BY TotalTyped
<1> QED
  BY <1>1, <1>5, <1>6

\* Two parts come to their sum.
LEMMA TotalUnion ==
  ASSUME NEW S, IsFiniteSet(S), NEW T, IsFiniteSet(T), NEW f, S \cap T = {},
         \A x \in S \cup T : f[x] \in Int
  PROVE  Total(f, S \cup T) = Total(f, S) + Total(f, T)
<1> DEFINE P == {t \in SUBSET T : Total(f, S \cup t) # Total(f, S) + Total(f, t)}
<1>1. ASSUME P # {} PROVE FALSE
  <2>1. PICK t \in P : \A r \in P : Cardinality(r) >= Cardinality(t)
    BY <1>1, LeastSet
  <2>2. IsFiniteSet(t) /\ Cardinality(t) \in Nat /\ t \in SUBSET T
    BY FS_Subset, FS_CardinalityType
  <2>3. Total(f, S) \in Int
    BY TotalTyped
  <2>4. t # {}
    <3>1. S \cup {} = S
      OBVIOUS
    <3>2. Total(f, {}) = 0
      BY TotalEmpty
    <3>3. Total(f, S \cup t) # Total(f, S) + Total(f, t)
      BY <2>1
    <3> HIDE DEF P
    <3> QED
      BY <2>3, <3>1, <3>2, <3>3
  <2>5. PICK x \in t : TRUE
    BY <2>4
  <2>6. PICK r : r = t \ {x}
    OBVIOUS
  <2>7. IsFiniteSet(r) /\ Cardinality(r) = Cardinality(t) - 1 /\ r \in SUBSET T
    BY <2>2, <2>6, FS_RemoveElement
  <2>8. Total(f, S \cup r) = Total(f, S) + Total(f, r)
    BY <2>1, <2>2, <2>7
  <2>9. x \notin r /\ x \notin S \cup r /\ f[x] \in Int
    BY <2>2, <2>6
  <2>10. IsFiniteSet(S \cup r)
    BY <2>7, FS_Union
  <2>11. Total(f, (S \cup r) \cup {x}) = Total(f, S \cup r) + f[x]
    BY <2>7, <2>9, <2>10, TotalAdd
  <2>12. Total(f, r \cup {x}) = Total(f, r) + f[x]
    BY <2>7, <2>9, TotalAdd
  <2>13. (S \cup r) \cup {x} = S \cup t /\ r \cup {x} = t
    BY <2>6
  <2>14. Total(f, r) \in Int
    BY <2>7, TotalTyped
  <2>15. Total(f, S \cup t) # Total(f, S) + Total(f, t)
    BY <2>1
  <2>16. Total(f, S \cup t) = Total(f, S \cup r) + f[x]
    BY Zenon, <2>11, <2>13
  <2>17. Total(f, t) = Total(f, r) + f[x]
    BY Zenon, <2>12, <2>13
  <2> HIDE DEF P
  <2> QED
    BY <2>3, <2>8, <2>9, <2>14, <2>15, <2>16, <2>17
<1>2. T \notin P
  BY <1>1
<1> QED
  BY <1>2

\* Zeros come to zero.
LEMMA TotalZero ==
  ASSUME NEW S, IsFiniteSet(S), NEW f, \A x \in S : f[x] = 0
  PROVE  Total(f, S) = 0
<1> DEFINE P == {s \in SUBSET S : Total(f, s) # 0}
<1>1. ASSUME P # {} PROVE FALSE
  <2>1. PICK s \in P : \A t \in P : Cardinality(t) >= Cardinality(s)
    BY <1>1, LeastSet
  <2>2. IsFiniteSet(s) /\ Cardinality(s) \in Nat
    BY FS_Subset, FS_CardinalityType
  <2>3. s # {}
    <3>1. Total(f, {}) = 0 /\ Total(f, s) # 0
      BY <2>1, TotalEmpty
    <3> HIDE DEF P
    <3> QED
      BY <3>1
  <2>4. PICK x \in s : TRUE
    BY <2>3
  <2>5. Cardinality(s \ {x}) = Cardinality(s) - 1
    BY <2>2, FS_RemoveElement
  <2>6. Total(f, s \ {x}) = 0
    BY <2>1, <2>2, <2>5
  <2>7. f[x] = 0 /\ \A y \in s : f[y] \in Int
    OBVIOUS
  <2>8. Total(f, s) = f[x] + Total(f, s \ {x})
    BY <2>2, <2>7, TotalRemove
  <2> QED
    BY <2>6, <2>7, <2>8
<1>2. S \notin P
  BY <1>1
<1> QED
  BY <1>2

AddUp(f, g, h, S) ==
    \A x \in S : g[x] \in Int /\ h[x] \in Int /\ f[x] = g[x] + h[x]

\* Totals of sums are sums of totals.
LEMMA TotalPlus ==
  ASSUME NEW S, IsFiniteSet(S), NEW f, NEW g, NEW h, AddUp(f, g, h, S)
  PROVE  Total(f, S) = Total(g, S) + Total(h, S)
<1>0. \A x \in S : g[x] \in Int /\ h[x] \in Int /\ f[x] = g[x] + h[x]
  BY DEF AddUp
<1> DEFINE P == {s \in SUBSET S : Total(f, s) # Total(g, s) + Total(h, s)}
<1>1. ASSUME P # {} PROVE FALSE
  <2>1. PICK s \in P : \A t \in P : Cardinality(t) >= Cardinality(s)
    BY <1>1, LeastSet
  <2>2. IsFiniteSet(s) /\ Cardinality(s) \in Nat
    BY FS_Subset, FS_CardinalityType
  <2>3. s # {}
    <3>1. Total(f, {}) = 0 /\ Total(g, {}) = 0 /\ Total(h, {}) = 0
      BY TotalEmpty
    <3>2. Total(f, s) # Total(g, s) + Total(h, s)
      BY <2>1
    <3> HIDE DEF P
    <3> QED
      BY <3>1, <3>2
  <2>4. PICK x \in s : TRUE
    BY <2>3
  <2>5. PICK t : t = s \ {x}
    OBVIOUS
  <2>6. IsFiniteSet(t) /\ Cardinality(t) = Cardinality(s) - 1 /\ t \in SUBSET S
    BY <2>2, <2>5, FS_RemoveElement
  <2>7. Total(f, t) = Total(g, t) + Total(h, t)
    BY <2>1, <2>2, <2>6
  <2>8. /\ \A y \in s : f[y] \in Int
        /\ \A y \in s : g[y] \in Int
        /\ \A y \in s : h[y] \in Int
    BY <1>0
  <2>9. Total(f, s) = f[x] + Total(f, t)
    BY <2>2, <2>5, <2>8, TotalRemove
  <2>10. Total(g, s) = g[x] + Total(g, t)
    BY <2>2, <2>5, <2>8, TotalRemove
  <2>11. Total(h, s) = h[x] + Total(h, t)
    BY <2>2, <2>5, <2>8, TotalRemove
  <2>12. Total(g, t) \in Int /\ Total(h, t) \in Int
    <3>1. (\A y \in t : g[y] \in Int) /\ (\A y \in t : h[y] \in Int)
      BY <2>5, <2>8
    <3> QED
      BY <2>6, <3>1, TotalTyped
  <2>13. f[x] = g[x] + h[x] /\ g[x] \in Int /\ h[x] \in Int
    BY <1>0
  <2>14. Total(f, s) # Total(g, s) + Total(h, s)
    BY <2>1
  <2> HIDE DEF P
  <2> QED
    BY <2>7, <2>9, <2>10, <2>11, <2>12, <2>13, <2>14
<1>2. S \notin P
  BY <1>1
<1> QED
  BY <1>2

\* A part of natural amounts comes to no more than the whole.
LEMMA TotalWithin ==
  ASSUME NEW T, IsFiniteSet(T), NEW S \in SUBSET T, NEW f, \A x \in T : f[x] \in Nat
  PROVE  Total(f, S) <= Total(f, T)
<1>1. PICK R : R = T \ S
  OBVIOUS
<1>2. IsFiniteSet(S) /\ IsFiniteSet(R)
  BY <1>1, FS_Subset
<1>3. S \cap R = {} /\ S \cup R = T
  BY <1>1
<1>4. \A x \in S \cup R : f[x] \in Int
  BY <1>3
<1>5. Total(f, S \cup R) = Total(f, S) + Total(f, R)
  BY <1>2, <1>3, <1>4, TotalUnion
<1>6. Total(f, S) \in Nat
  BY <1>2, TotalTyped
<1>7. Total(f, R) \in Nat
  BY <1>1, <1>2, TotalTyped
<1>8. Total(f, T) = Total(f, S) + Total(f, R)
  BY Zenon, <1>3, <1>5
<1> QED
  BY <1>6, <1>7, <1>8

\* The sets L[s] part V, and g has f's total on each.
Parted(D, L, f, g, V) ==
    /\ IsFiniteSet(D)
    /\ \A s \in D : IsFiniteSet(L[s]) /\ (\A x \in L[s] : f[x] \in Int)
    /\ \A s, t \in D : s # t => L[s] \cap L[t] = {}
    /\ \A s \in D : g[s] = Total(f, L[s])
    /\ \A x : x \in V <=> \E s \in D : x \in L[s]

\* Totals by part come to the total of what the parts make up.
LEMMA TotalOfTotals ==
  ASSUME NEW D, NEW L, NEW f, NEW g, NEW V, Parted(D, L, f, g, V)
  PROVE  Total(g, D) = Total(f, V)
<1>0. /\ IsFiniteSet(D)
      /\ \A s \in D : IsFiniteSet(L[s])
      /\ \A s \in D : \A x \in L[s] : f[x] \in Int
      /\ \A s, t \in D : s # t => L[s] \cap L[t] = {}
      /\ \A s \in D : g[s] = Total(f, L[s])
      /\ \A x : x \in V <=> \E s \in D : x \in L[s]
  BY DEF Parted
<1> USE <1>0
<1> DEFINE all(t) == UNION {L[s] : s \in t}
           P == {t \in SUBSET D : ~(IsFiniteSet(all(t)) /\ Total(g, t) = Total(f, all(t)))}
<1>1. ASSUME P # {} PROVE FALSE
  <2>1. PICK t \in P : \A r \in P : Cardinality(r) >= Cardinality(t)
    BY <1>1, LeastSet
  <2>2. IsFiniteSet(t) /\ Cardinality(t) \in Nat /\ t \in SUBSET D
    BY FS_Subset, FS_CardinalityType
  <2>3. t # {}
    <3>1. all({}) = {}
      OBVIOUS
    <3>2. IsFiniteSet(all({})) /\ Total(g, {}) = Total(f, all({}))
      BY <3>1, TotalEmpty, FS_EmptySet
    <3> QED
      BY <3>2
  <2>4. PICK x \in t : TRUE
    BY <2>3
  <2>5. PICK r : r = t \ {x}
    OBVIOUS
  <2>6. IsFiniteSet(r) /\ Cardinality(r) = Cardinality(t) - 1 /\ r \in SUBSET D
    BY <2>2, <2>5, FS_RemoveElement
  <2>7. r \notin P
    <3> HIDE DEF P
    <3> QED
      BY <2>1, <2>2, <2>6
  <2>8. PICK U : U = all(r)
    OBVIOUS
  <2>9. IsFiniteSet(U) /\ Total(g, r) = Total(f, U)
    BY <2>6, <2>7, <2>8
  <2>10. all(t) = U \cup L[x]
    BY <2>5, <2>8
  <2>11. U \cap L[x] = {}
    BY <2>2, <2>5, <2>8
  <2>12. IsFiniteSet(L[x]) /\ x \in D /\ x \notin r
    BY <2>2, <2>5
  <2>13. \A y \in U \cup L[x] : f[y] \in Int
    BY <2>6, <2>8, <2>12
  <2>14. Total(f, U \cup L[x]) = Total(f, U) + Total(f, L[x])
    BY <2>9, <2>11, <2>12, <2>13, TotalUnion
  <2>15. \A s \in D : g[s] \in Int
    <3> SUFFICES ASSUME NEW s \in D PROVE g[s] \in Int
      OBVIOUS
    <3>1. Total(f, L[s]) \in Int
      BY TotalTyped
    <3> QED
      BY <3>1
  <2>16. \A s \in t : g[s] \in Int
    BY <2>2, <2>15
  <2>17. Total(g, t) = g[x] + Total(g, r)
    BY <2>2, <2>5, <2>16, TotalRemove
  <2>18. Total(g, r) \in Int
    BY <2>6, <2>15, TotalTyped
  <2>19. Total(f, L[x]) = g[x] /\ g[x] \in Int
    BY <2>12, <2>15
  <2>20. Total(g, t) = Total(f, U \cup L[x])
    BY <2>9, <2>14, <2>17, <2>18, <2>19
  <2>21. IsFiniteSet(U \cup L[x])
    BY <2>9, <2>12, FS_Union
  <2>22. t \notin P
    BY <2>10, <2>20, <2>21
  <2> HIDE DEF P
  <2> QED
    BY <2>22
<1>2. D \notin P
  BY <1>1
<1>3. Total(g, D) = Total(f, all(D))
  BY <1>2
<1>4. all(D) = V
  OBVIOUS
<1> HIDE DEF all
<1> QED
  BY Zenon, <1>3, <1>4

\* The sum of a table, by rows and by columns.
Table(D, A, row, column, rows, columns) ==
    /\ IsFiniteSet(D) /\ IsFiniteSet(A)
    /\ \A s \in D : \A p \in A : row[s][p] = column[p][s] /\ column[p][s] \in Int
    /\ \A s \in D : rows[s] = Total(row[s], A)
    /\ \A p \in A : columns[p] = Total(column[p], D)

\* A table comes to the same by its rows and by its columns.
LEMMA TotalByColumns ==
  ASSUME NEW D, NEW A, NEW row, NEW column, NEW rows, NEW columns,
         Table(D, A, row, column, rows, columns)
  PROVE  Total(rows, D) = Total(columns, A)
<1>0. /\ IsFiniteSet(D) /\ IsFiniteSet(A)
      /\ \A s \in D : \A p \in A : row[s][p] = column[p][s] /\ column[p][s] \in Int
      /\ \A s \in D : rows[s] = Total(row[s], A)
      /\ \A p \in A : columns[p] = Total(column[p], D)
  BY DEF Table
<1> USE <1>0
<1> DEFINE part(t) == [s \in D |-> Total(row[s], t)]
           P == {t \in SUBSET A : Total(part(t), D) # Total(columns, t)}
<1>1. ASSUME P # {} PROVE FALSE
  <2>1. PICK t \in P : \A r \in P : Cardinality(r) >= Cardinality(t)
    BY <1>1, LeastSet
  <2>2. IsFiniteSet(t) /\ Cardinality(t) \in Nat /\ t \in SUBSET A
    BY FS_Subset, FS_CardinalityType
  <2>3. t # {}
    <3>1. \A s \in D : part({})[s] = 0
      BY TotalEmpty
    <3>2. PICK h : h = part({})
      OBVIOUS
    <3>3. Total(h, D) = 0
      BY <3>1, <3>2, TotalZero
    <3>4. Total(columns, {}) = 0
      BY TotalEmpty
    <3>5. {} \notin P
      BY <3>2, <3>3, <3>4
    <3> HIDE DEF P
    <3> QED
      BY <3>5
  <2>4. PICK x \in t : TRUE
    BY <2>3
  <2>5. PICK r : r = t \ {x}
    OBVIOUS
  <2>6. IsFiniteSet(r) /\ Cardinality(r) = Cardinality(t) - 1 /\ r \in SUBSET A
    BY <2>2, <2>5, FS_RemoveElement
  <2>7. r \notin P
    <3> HIDE DEF P
    <3> QED
      BY <2>1, <2>2, <2>6
  <2>8. PICK f, h : f = part(t) /\ h = part(r)
    OBVIOUS
  <2>9. ASSUME NEW s \in D
        PROVE  column[x][s] \in Int /\ h[s] \in Int /\ f[s] = column[x][s] + h[s]
    <3>1. \A p \in t : row[s][p] \in Int
      BY <2>2
    <3>2. Total(row[s], t) = row[s][x] + Total(row[s], r)
      BY <2>2, <2>5, <3>1, TotalRemove
    <3>3. Total(row[s], r) \in Int
      BY <2>5, <2>6, <3>1, TotalTyped
    <3>4. row[s][x] = column[x][s] /\ column[x][s] \in Int
      BY <2>2
    <3>5. f[s] = Total(row[s], t) /\ h[s] = Total(row[s], r)
      BY <2>8
    <3> QED
      BY <3>2, <3>3, <3>4, <3>5
  <2>10. Total(f, D) = Total(column[x], D) + Total(h, D)
    <3>1. AddUp(f, column[x], h, D)
      BY <2>9 DEF AddUp
    <3> QED
      BY <3>1, TotalPlus
  <2>11. Total(h, D) = Total(columns, r)
    BY <2>6, <2>7, <2>8
  <2>12. \A p \in t : columns[p] \in Int
    <3> SUFFICES ASSUME NEW p \in t PROVE columns[p] \in Int
      OBVIOUS
    <3>1. p \in A /\ \A s \in D : column[p][s] \in Int
      BY <2>2
    <3>2. Total(column[p], D) \in Int
      BY <3>1, TotalTyped
    <3> QED
      BY <3>1, <3>2
  <2>13. Total(columns, t) = columns[x] + Total(columns, r)
    BY <2>2, <2>5, <2>12, TotalRemove
  <2>14. columns[x] = Total(column[x], D)
    BY <2>2
  <2>15. t \notin P
    BY <2>8, <2>10, <2>11, <2>13, <2>14
  <2> HIDE DEF P
  <2> QED
    BY <2>15
<1>2. A \notin P
  BY <1>1
<1>3. PICK f : f = part(A)
  OBVIOUS
<1>4. \A s \in D : rows[s] = f[s]
  BY <1>3
<1>5. Total(rows, D) = Total(f, D)
  BY <1>4, TotalSame
<1> QED
  BY <1>2, <1>3, <1>5

\* The same summands under other names.
LEMMA TotalRenamed ==
  ASSUME NEW S, IsFiniteSet(S), NEW k, NEW f, NEW g,
         \A x \in S : f[x] \in Int /\ g[k[x]] = f[x],
         \A x, y \in S : k[x] = k[y] => x = y
  PROVE  Total(f, S) = Total(g, {k[x] : x \in S})
<1> DEFINE L == [x \in S |-> {k[x]}]
<1>1. \A x \in S : IsFiniteSet(L[x])
  BY FS_Singleton
<1>2. \A x \in S : \A y \in L[x] : g[y] \in Int
  OBVIOUS
<1>3. \A x, y \in S : x # y => L[x] \cap L[y] = {}
  OBVIOUS
<1>4. \A x \in S : f[x] = Total(g, L[x])
  <2> SUFFICES ASSUME NEW x \in S PROVE f[x] = Total(g, {k[x]})
    OBVIOUS
  <2>1. PICK y : y = k[x]
    OBVIOUS
  <2>2. g[y] \in Int /\ g[y] = f[x]
    BY <2>1
  <2>3. IsFiniteSet({y}) /\ {y} # {} /\ \A z \in {y} : g[z] \in Int
    BY <2>2, FS_Singleton
  <2>4. y \in {y} /\ {y} \ {y} = {}
    OBVIOUS
  <2>5. Total(g, {y}) = g[y] + Total(g, {y} \ {y})
    BY <2>3, <2>4, TotalRemove
  <2>6. Total(g, {y} \ {y}) = 0
    BY Zenon, <2>4, TotalEmpty
  <2>7. Total(g, {y}) = g[y]
    BY <2>2, <2>5, <2>6
  <2> QED
    BY Zenon, <2>1, <2>2, <2>7
<1>5. PICK l : l = L
  OBVIOUS
<1> HIDE DEF L
<1>6. /\ \A x \in S : IsFiniteSet(l[x]) /\ (\A y \in l[x] : g[y] \in Int)
      /\ \A x, y \in S : x # y => l[x] \cap l[y] = {}
      /\ \A x \in S : f[x] = Total(g, l[x])
  BY Zenon, <1>1, <1>2, <1>3, <1>4, <1>5
<1>7. \A x \in S : l[x] = {k[x]}
  BY <1>5 DEF L
<1>8. PICK V : V = {k[x] : x \in S}
  OBVIOUS
<1>9. \A y : y \in V <=> \E x \in S : y \in l[x]
  BY <1>7, <1>8
<1>10. Total(f, S) = Total(g, V)
  <2>1. Parted(S, l, g, f, V)
    BY <1>6, <1>9 DEF Parted
  <2> QED
    BY <2>1, TotalOfTotals
<1> QED
  BY <1>8, <1>10
-----------------------------------------------------------------------------
(* What the projection adds up.                                            *)

\* The entries that the lines of a period bill, of the given types.
ids(start, entries, lines, types) ==
    {l.entry : l \in {m \in lines : m.period = start
                                    /\ entries[m.entry].type \in types}}

CommissionTypes == {"COMMISSION_DUE"}
AdjustmentTypes == {"ADJUSTMENT_DEBIT", "ADJUSTMENT_CREDIT", "REVERSAL"}
WaiverTypes == {"WAIVER"}

commissionSum(start, e, l) == sumOf(e, ids(start, e, l, CommissionTypes))
adjustmentSum(start, e, l) == sumOf(e, ids(start, e, l, AdjustmentTypes))
waiverSum(start, e, l) == sumOf(e, ids(start, e, l, WaiverTypes))

\* The projection, total by total.
LEMMA ProjectionFields ==
  ASSUME NEW start, NEW e, NEW l, NEW p
  PROVE  projection(start, e, l, p) =
           [commission |-> commissionSum(start, e, l),
            adjustments |-> adjustmentSum(start, e, l),
            waived |-> -waiverSum(start, e, l),
            payments |-> allocatedTo(start, p),
            remaining |-> clamp(commissionSum(start, e, l)
                                + adjustmentSum(start, e, l)
                                - (-waiverSum(start, e, l))
                                - allocatedTo(start, p))]
BY DEF projection, ids, commissionSum, adjustmentSum, waiverSum,
       CommissionTypes, AdjustmentTypes, WaiverTypes

LinesOver(e, lines) == \A l \in lines : l.entry \in DOMAIN e

\* A ledger has finitely many ids, and so do the lines of a period.
LEMMA EntriesFinite ==
  ASSUME NEW T, NEW e \in Seq(T)
  PROVE  IsFiniteSet(DOMAIN e)
<1>1. DOMAIN e = 1 .. Len(e) /\ Len(e) \in Nat
  OBVIOUS
<1>2. IsFiniteSet(1 .. Len(e))
  BY <1>1, FS_Interval
<1> QED
  BY <1>1, <1>2

\* The entries that a period bills are finitely many entries of the ledger.
LEMMA IdsFinite ==
  ASSUME NEW e \in Seq(Entry), NEW l, LinesOver(e, l), NEW start, NEW types
  PROVE  /\ ids(start, e, l, types) \subseteq DOMAIN e
         /\ IsFiniteSet(ids(start, e, l, types))
<1>1. ids(start, e, l, types) \subseteq DOMAIN e
  BY DEF ids, LinesOver
<1> QED
  BY <1>1, EntriesFinite, FS_Subset

\* Amounts of entries are integers.
LEMMA EntryAmountsTyped ==
  ASSUME NEW e \in Seq(Entry)
  PROVE  \A i \in DOMAIN e : entryAmounts(e)[i] \in Int /\ entryAmounts(e)[i] = e[i].amount
<1> SUFFICES ASSUME NEW i \in DOMAIN e
             PROVE  entryAmounts(e)[i] \in Int /\ entryAmounts(e)[i] = e[i].amount
  OBVIOUS
<1>1. e[i] \in Entry
  OBVIOUS
<1>2. e[i].amount \in Int
  BY <1>1 DEF Entry
<1> QED
  BY <1>2 DEF entryAmounts

\* sumOf is a total, and an integer.
LEMMA SumOfTyped ==
  ASSUME NEW e \in Seq(Entry), NEW s \in SUBSET DOMAIN e
  PROVE  sumOf(e, s) = Total(entryAmounts(e), s) /\ sumOf(e, s) \in Int
<1>1. IsFiniteSet(s)
  BY EntriesFinite, FS_Subset
<1>2. \A i \in s : entryAmounts(e)[i] \in Int
  BY EntryAmountsTyped
<1>3. Total(entryAmounts(e), s) \in Int
  BY <1>1, <1>2, TotalTyped
<1> QED
  BY <1>3 DEF sumOf, Total

\* Sums over old entries do not move when entries are added.
Extends(e2, e) ==
    DOMAIN e \subseteq DOMAIN e2 /\ \A i \in DOMAIN e : e2[i] = e[i]

\* Older entries sum up as before.
LEMMA SumOfSame ==
  ASSUME NEW e \in Seq(Entry), NEW e2 \in Seq(Entry), Extends(e2, e),
         NEW s \in SUBSET DOMAIN e
  PROVE  sumOf(e2, s) = sumOf(e, s)
<1>1. IsFiniteSet(s)
  BY EntriesFinite, FS_Subset
<1>2. PICK f, g : f = entryAmounts(e) /\ g = entryAmounts(e2)
  OBVIOUS
<1>3. \A i \in s : f[i] = g[i]
  BY <1>2 DEF entryAmounts, Extends
<1>4. Total(f, s) = Total(g, s)
  BY <1>1, <1>3, TotalSame
<1> QED
  BY <1>2, <1>4 DEF sumOf, Total

\* One more entry on a line.
LEMMA SumOfAdd ==
  ASSUME NEW e \in Seq(Entry), NEW s \in SUBSET DOMAIN e, NEW i \in DOMAIN e, i \notin s
  PROVE  sumOf(e, s \cup {i}) = sumOf(e, s) + e[i].amount
<1>1. IsFiniteSet(s)
  BY EntriesFinite, FS_Subset
<1>2. PICK f : f = entryAmounts(e)
  OBVIOUS
<1>3. \A j \in DOMAIN e : f[j] \in Int /\ f[j] = e[j].amount
  BY <1>2, EntryAmountsTyped
<1>4. f[i] \in Int /\ \A j \in s : f[j] \in Int
  BY <1>3
<1>5. Total(f, s \cup {i}) = Total(f, s) + f[i]
  BY Zenon, <1>1, <1>4, TotalAdd
<1> QED
  BY <1>2, <1>3, <1>5 DEF sumOf, Total

\* The three sums of the projection; waivers are never positive.
LEMMA ProjectionTyped ==
  ASSUME NEW e \in Seq(Entry), NEW l, LinesOver(e, l), NEW start,
         NEW p, allocatedTo(start, p) \in Nat,
         \A i \in DOMAIN e : e[i].type = "WAIVER" => e[i].amount <= 0
  PROVE  /\ commissionSum(start, e, l) \in Int
         /\ adjustmentSum(start, e, l) \in Int
         /\ waiverSum(start, e, l) \in Int /\ waiverSum(start, e, l) <= 0
<1>1. commissionSum(start, e, l) \in Int /\ adjustmentSum(start, e, l) \in Int
      /\ waiverSum(start, e, l) \in Int
  BY IdsFinite, SumOfTyped DEF commissionSum, adjustmentSum, waiverSum
<1>2. PICK s : s = ids(start, e, l, WaiverTypes)
  OBVIOUS
<1>3. s \subseteq DOMAIN e /\ IsFiniteSet(s)
  BY <1>2, IdsFinite
<1>4. PICK f, g, z : /\ f = entryAmounts(e)
                     /\ g = [i \in DOMAIN e |-> -e[i].amount]
                     /\ z = [i \in DOMAIN e |-> 0]
  OBVIOUS
<1>5. ASSUME NEW i \in s
      PROVE  f[i] \in Int /\ g[i] \in Nat /\ z[i] = 0 /\ z[i] = f[i] + g[i]
  <2>1. i \in DOMAIN e /\ e[i].type = "WAIVER"
    BY <1>2, <1>3 DEF ids, WaiverTypes
  <2>2. e[i].amount <= 0 /\ e[i].amount \in Int /\ f[i] = e[i].amount
    BY <1>4, <2>1, EntryAmountsTyped
  <2>3. g[i] = -e[i].amount /\ z[i] = 0
    BY <1>4, <2>1
  <2> QED
    BY <2>2, <2>3
<1>6. AddUp(z, f, g, s)
  BY <1>5 DEF AddUp
<1>7. Total(z, s) = Total(f, s) + Total(g, s)
  BY <1>3, <1>6, TotalPlus
<1>8. Total(z, s) = 0
  BY <1>3, <1>5, TotalZero
<1>9. Total(g, s) \in Nat
  BY <1>3, <1>5, TotalTyped
<1>10. Total(f, s) = waiverSum(start, e, l)
  BY <1>2, <1>4 DEF waiverSum, sumOf, Total
<1> QED
  BY <1>1, <1>7, <1>8, <1>9, <1>10

\* Nothing that a period bills or was paid has changed.
LEMMA ProjectionSame ==
  ASSUME NEW e \in Seq(Entry), NEW e2 \in Seq(Entry), Extends(e2, e),
         NEW l, NEW l2, LinesOver(e, l), NEW start,
         {m \in l2 : m.period = start} = {m \in l : m.period = start},
         NEW p, NEW p2, allocatedTo(start, p2) = allocatedTo(start, p)
  PROVE  projection(start, e2, l2, p2) = projection(start, e, l, p)
<1>1. ASSUME NEW types
      PROVE  sumOf(e2, ids(start, e2, l2, types)) = sumOf(e, ids(start, e, l, types))
  <2>1. ids(start, e2, l2, types) = ids(start, e, l, types)
    <3>1. \A m : m \in l2 /\ m.period = start <=> m \in l /\ m.period = start
      OBVIOUS
    <3>2. \A m : m \in l /\ m.period = start => e2[m.entry] = e[m.entry]
      BY DEF Extends, LinesOver
    <3>3. \A m : m \in l2 /\ m.period = start /\ e2[m.entry].type \in types
                 <=> m \in l /\ m.period = start /\ e[m.entry].type \in types
      BY <3>1, <3>2
    <3> QED
      BY <3>3 DEF ids
  <2>2. PICK s : s = ids(start, e, l, types)
    OBVIOUS
  <2>3. s \in SUBSET DOMAIN e
    BY <2>2, IdsFinite
  <2>4. sumOf(e2, s) = sumOf(e, s)
    BY <2>3, SumOfSame
  <2> QED
    BY <2>1, <2>2, <2>4
<1>2. /\ commissionSum(start, e2, l2) = commissionSum(start, e, l)
      /\ adjustmentSum(start, e2, l2) = adjustmentSum(start, e, l)
      /\ waiverSum(start, e2, l2) = waiverSum(start, e, l)
  BY <1>1 DEF commissionSum, adjustmentSum, waiverSum
<1> QED
  BY <1>2, ProjectionFields

\* A longer sequence.
LEMMA AppendFacts ==
  ASSUME NEW T, NEW e \in Seq(T), NEW x \in T
  PROVE  /\ Append(e, x) \in Seq(T)
         /\ Len(Append(e, x)) = Len(e) + 1
         /\ DOMAIN Append(e, x) = DOMAIN e \cup {Len(e) + 1}
         /\ Len(e) + 1 \notin DOMAIN e
         /\ Append(e, x)[Len(e) + 1] = x
         /\ Extends(Append(e, x), e)
<1>1. /\ Append(e, x) \in Seq(T)
      /\ Len(Append(e, x)) = Len(e) + 1
      /\ Append(e, x)[Len(e) + 1] = x
      /\ \A i \in DOMAIN e : Append(e, x)[i] = e[i]
  OBVIOUS
<1>2. /\ DOMAIN e = 1 .. Len(e) /\ Len(e) \in Nat
      /\ DOMAIN Append(e, x) = 1 .. Len(Append(e, x))
  OBVIOUS
<1>3. DOMAIN Append(e, x) = DOMAIN e \cup {Len(e) + 1} /\ Len(e) + 1 \notin DOMAIN e
  BY <1>1, <1>2
<1> QED
  BY <1>1, <1>3 DEF Extends

-----------------------------------------------------------------------------
(* Allocations.                                                            *)

FiniteAllocations(payments) ==
    \A i \in DOMAIN payments : IsFiniteSet(payments[i].allocations)

shares(allocations) == [a \in allocations |-> a.amount]

\* totalAllocated is a total.
LEMMA TotalAllocatedIs ==
  ASSUME NEW A
  PROVE  totalAllocated(A) = Total(shares(A), A)
BY DEF totalAllocated, SumFunction, Total, shares

\* What one payment gives a period is a natural number.
LEMMA PaidToTyped ==
  ASSUME NEW start, NEW p \in Payment, IsFiniteSet(p.allocations)
  PROVE  paidTo(start, p) \in Nat
<1>1. PICK A : A = {a \in p.allocations : a.period = start}
  OBVIOUS
<1>2. IsFiniteSet(A)
  BY <1>1, FS_Subset
<1>3. \A a \in A : shares(A)[a] \in Nat
  BY <1>1 DEF shares, Payment
<1>4. Total(shares(A), A) \in Nat
  BY <1>2, <1>3, TotalTyped
<1> QED
  BY <1>1, <1>4, TotalAllocatedIs DEF paidTo

\* A payment gives nothing to a period it does not touch.
LEMMA PaidToOthers ==
  ASSUME NEW start, NEW p, start \notin touched(p.allocations)
  PROVE  paidTo(start, p) = 0
<1>1. {a \in p.allocations : a.period = start} = {}
  BY DEF touched
<1>2. totalAllocated({}) = 0
  BY TotalAllocatedIs, TotalEmpty
<1> QED
  BY Zenon, <1>1, <1>2 DEF paidTo

paidBy(start, payments) == [i \in DOMAIN payments |-> paidTo(start, payments[i])]

\* allocatedTo is a total over the payments that count.
LEMMA AllocatedIs ==
  ASSUME NEW start, NEW payments
  PROVE  allocatedTo(start, payments)
           = Total(paidBy(start, payments), activePayments(payments))
BY DEF allocatedTo, Total, paidBy

\* What the payments give one period.
LEMMA PaidByTyped ==
  ASSUME NEW start, NEW payments \in Seq(Payment), FiniteAllocations(payments)
  PROVE  /\ \A i \in DOMAIN payments : /\ paidBy(start, payments)[i] \in Nat
                                       /\ paidBy(start, payments)[i] = paidTo(start, payments[i])
         /\ activePayments(payments) \subseteq DOMAIN payments
         /\ IsFiniteSet(activePayments(payments))
<1>1. ASSUME NEW i \in DOMAIN payments PROVE paidTo(start, payments[i]) \in Nat
  <2>1. payments[i] \in Payment
    OBVIOUS
  <2> QED
    BY <2>1, PaidToTyped DEF FiniteAllocations
<1>2. activePayments(payments) \subseteq DOMAIN payments
  BY DEF activePayments
<1>3. IsFiniteSet(activePayments(payments))
  BY <1>2, EntriesFinite, FS_Subset
<1> QED
  BY <1>1, <1>2, <1>3 DEF paidBy

\* What was paid to a period is a natural number.
LEMMA AllocatedTyped ==
  ASSUME NEW start, NEW payments \in Seq(Payment), FiniteAllocations(payments)
  PROVE  allocatedTo(start, payments) \in Nat
<1>1. PICK f, A : f = paidBy(start, payments) /\ A = activePayments(payments)
  OBVIOUS
<1>2. IsFiniteSet(A) /\ \A i \in A : f[i] \in Nat
  BY <1>1, PaidByTyped
<1>3. Total(f, A) \in Nat
  BY <1>2, TotalTyped
<1> QED
  BY <1>1, <1>3, AllocatedIs

\* A recorded payment adds what it allocates.
LEMMA AllocatedRecord ==
  ASSUME NEW start, NEW payments \in Seq(Payment), FiniteAllocations(payments),
         NEW new \in Payment, IsFiniteSet(new.allocations), new.reverses = None,
         \A i \in DOMAIN payments : payments[i].reverses \in DOMAIN payments \cup {None}
  PROVE  allocatedTo(start, Append(payments, new))
           = allocatedTo(start, payments) + paidTo(start, new)
<1>1. PICK more, n : more = Append(payments, new) /\ n = Len(payments) + 1
  OBVIOUS
<1>2. /\ DOMAIN more = DOMAIN payments \cup {n} /\ n \notin DOMAIN payments
      /\ more[n] = new /\ \A i \in DOMAIN payments : more[i] = payments[i]
  BY <1>1, AppendFacts DEF Extends
<1>3. PICK A : A = activePayments(payments)
  OBVIOUS
<1>4. n # None
  BY <1>1 DEF None
<1>5. activePayments(more) = A \cup {n}
  BY <1>2, <1>3, <1>4 DEF activePayments
<1>6. PICK f, g : f = paidBy(start, payments) /\ g = paidBy(start, more)
  OBVIOUS
<1>7. /\ IsFiniteSet(A) /\ A \subseteq DOMAIN payments
      /\ \A i \in A : f[i] \in Int /\ f[i] = paidTo(start, payments[i])
  BY <1>3, <1>6, PaidByTyped
<1>8. \A i \in A : g[i] \in Int /\ g[i] = f[i]
  BY <1>2, <1>6, <1>7 DEF paidBy
<1>9. g[n] = paidTo(start, new)
  BY <1>2, <1>6 DEF paidBy
<1>10. g[n] \in Int
  BY <1>9, PaidToTyped
<1>11. n \notin A
  BY <1>2, <1>7
<1>12. Total(g, A \cup {n}) = Total(g, A) + g[n]
  BY <1>7, <1>8, <1>10, <1>11, TotalAdd
<1>13. Total(f, A) = Total(g, A)
  BY <1>7, <1>8, TotalSame
<1>14. allocatedTo(start, more) = Total(g, A \cup {n})
  BY <1>5, <1>6, AllocatedIs
<1>15. allocatedTo(start, payments) = Total(f, A)
  BY <1>3, <1>6, AllocatedIs
<1> QED
  BY <1>1, <1>9, <1>12, <1>13, <1>14, <1>15

\* A reversal takes back what its payment allocated.
LEMMA AllocatedReverse ==
  ASSUME NEW start, NEW payments \in Seq(Payment), FiniteAllocations(payments),
         NEW p \in activePayments(payments),
         NEW new \in Payment, new.reverses = p
  PROVE  allocatedTo(start, Append(payments, new))
           = allocatedTo(start, payments) - paidTo(start, payments[p])
<1>1. PICK more, n : more = Append(payments, new) /\ n = Len(payments) + 1
  OBVIOUS
<1>2. /\ DOMAIN more = DOMAIN payments \cup {n} /\ n \notin DOMAIN payments
      /\ more[n] = new /\ \A i \in DOMAIN payments : more[i] = payments[i]
  BY <1>1, AppendFacts DEF Extends
<1>3. PICK A : A = activePayments(payments)
  OBVIOUS
<1>4. p \in DOMAIN payments /\ p # None /\ p # n
  <2>1. p \in DOMAIN payments
    BY DEF activePayments
  <2>2. DOMAIN payments = 1 .. Len(payments) /\ Len(payments) \in Nat
    OBVIOUS
  <2> QED
    BY <1>2, <2>1, <2>2 DEF None
<1>5. activePayments(more) = A \ {p}
  BY <1>2, <1>3, <1>4 DEF activePayments
<1>6. PICK f, g : f = paidBy(start, payments) /\ g = paidBy(start, more)
  OBVIOUS
<1>7. /\ IsFiniteSet(A) /\ A \subseteq DOMAIN payments
      /\ \A i \in A : f[i] \in Int /\ f[i] = paidTo(start, payments[i])
  BY <1>3, <1>6, PaidByTyped
<1>8. \A i \in A : g[i] \in Int /\ g[i] = f[i]
  BY <1>2, <1>6, <1>7 DEF paidBy
<1>9. p \in A
  BY <1>3
<1>10. Total(f, A) = f[p] + Total(f, A \ {p})
  BY <1>7, <1>9, TotalRemove
<1>11. IsFiniteSet(A \ {p}) /\ \A i \in A \ {p} : f[i] \in Int /\ f[i] = g[i]
  BY <1>7, <1>8, FS_Subset
<1>12. Total(f, A \ {p}) = Total(g, A \ {p})
  BY <1>11, TotalSame
<1>13. Total(f, A \ {p}) \in Int
  BY <1>11, TotalTyped
<1>14. allocatedTo(start, more) = Total(g, A \ {p})
  BY <1>5, <1>6, AllocatedIs
<1>15. allocatedTo(start, payments) = Total(f, A)
  BY <1>3, <1>6, AllocatedIs
<1>16. f[p] = paidTo(start, payments[p]) /\ f[p] \in Int
  BY <1>7, <1>9
<1> QED
  BY <1>1, <1>10, <1>12, <1>13, <1>14, <1>15, <1>16

-----------------------------------------------------------------------------
(* The inductive invariant.                                                *)

onLine(i) == \E l \in line : l.entry = i
paysFor(i) == \E p \in DOMAIN payment : payment[p].entry = i

\* No entry is billed twice, no order has two commissions, and what is on no
\* line is the entry of a payment.
LinesOnce == \A l, m \in line : l.entry = m.entry => l = m

CommissionsOnce ==
    \A i, j \in DOMAIN ledger :
        /\ ledger[i].type = "COMMISSION_DUE"
        /\ ledger[j].type = "COMMISSION_DUE"
        /\ ledger[i].orders \cap ledger[j].orders # {}
        => i = j

WaiversCredit ==
    \A i \in DOMAIN ledger : ledger[i].type = "WAIVER" => ledger[i].amount <= 0

EntriesHavePlace ==
    \A i \in DOMAIN ledger :
        /\ onLine(i) \/ paysFor(i)
        /\ ledger[i].type = "EXTERNAL_PAYMENT" => paysFor(i)

LedgerInv == LinesOnce /\ CommissionsOnce /\ WaiversCredit /\ EntriesHavePlace

\* A payment's ledger entry.
EntryOf(p, e) ==
    /\ p.entry \in DOMAIN e
    /\ p.reverses = None =>
          e[p.entry].type = "EXTERNAL_PAYMENT" /\ e[p.entry].amount = -p.amount
    /\ p.reverses # None =>
          e[p.entry].type = "REVERSAL" /\ e[p.entry].amount = p.amount

PaymentsEntered ==
    /\ \A p \in DOMAIN payment : EntryOf(payment[p], ledger)
    /\ \A p, q \in DOMAIN payment : payment[p].entry = payment[q].entry => p = q

\* A reversal takes back an original payment, and no other does.
ReversalOf(payments, r) ==
    payments[r].reverses # None =>
        /\ payments[r].reverses \in DOMAIN payments
        /\ payments[payments[r].reverses].reverses = None
        /\ payments[payments[r].reverses].amount = payments[r].amount

ReversedOnce ==
    /\ \A r \in DOMAIN payment : ReversalOf(payment, r)
    /\ \A p, q \in DOMAIN payment :
          payment[p].reverses = payment[q].reverses /\ payment[p].reverses # None
              => p = q

\* A payment is allocated to the last piastre, to periods that exist.
AllocatedWhole(p, starts) ==
    /\ IsFiniteSet(p.allocations)
    /\ touched(p.allocations) \subseteq starts
    /\ totalAllocated(p.allocations) = p.amount

AllocationsInv == \A p \in DOMAIN payment : AllocatedWhole(payment[p], DOMAIN period)

PaymentInv == PaymentsEntered /\ ReversedOnce /\ AllocationsInv

IInv ==
    /\ TypeOK
    /\ IsFiniteSet(DOMAIN period)
    /\ ProjectionIsRebuildable
    /\ LedgerInv
    /\ PaymentInv

RowIs(row, start, e, l, p) == row = withStatus(projection(start, e, l, p), row.status)

\* ProjectionIsRebuildable, row by row.
LEMMA RowsAre ==
  ProjectionIsRebuildable <=>
    \A start \in DOMAIN period : RowIs(period[start], start, ledger, line, payment)
BY DEF ProjectionIsRebuildable, RowIs

\* What the invariant says of the shape of the ledger and the payments.
LEMMA StateFacts ==
  ASSUME IInv
  PROVE  /\ ledger \in Seq(Entry) /\ payment \in Seq(Payment)
         /\ DOMAIN ledger = 1 .. Len(ledger) /\ Len(ledger) \in Nat
         /\ DOMAIN payment = 1 .. Len(payment) /\ Len(payment) \in Nat
         /\ LinesOver(ledger, line)
         /\ FiniteAllocations(payment)
<1>1. ledger \in Seq(Entry) /\ payment \in Seq(Payment)
  BY DEF IInv, TypeOK
<1>2. line \subseteq [entry: 1 .. Len(ledger), period: DOMAIN period]
  BY DEF IInv, TypeOK
<1>3. /\ DOMAIN ledger = 1 .. Len(ledger) /\ Len(ledger) \in Nat
      /\ DOMAIN payment = 1 .. Len(payment) /\ Len(payment) \in Nat
  BY <1>1
<1>4. LinesOver(ledger, line)
  BY <1>2, <1>3 DEF LinesOver
<1>5. FiniteAllocations(payment)
  BY DEF IInv, PaymentInv, AllocationsInv, AllocatedWhole, FiniteAllocations
<1> QED
  BY <1>1, <1>3, <1>4, <1>5

\* Nothing owed is negative.
LEMMA ClampTyped == ASSUME NEW n \in Int PROVE clamp(n) \in Nat
BY DEF clamp

\* Rows that hold what the projection computes are rows.
LEMMA RowTyped ==
  ASSUME NEW e \in Seq(Entry), NEW l, LinesOver(e, l), NEW start,
         NEW p \in Seq(Payment), FiniteAllocations(p),
         \A i \in DOMAIN e : e[i].type = "WAIVER" => e[i].amount <= 0,
         NEW status \in Status
  PROVE  withStatus(projection(start, e, l, p), status) \in Row
<1>1. PICK c, a, w, b : /\ c = commissionSum(start, e, l)
                        /\ a = adjustmentSum(start, e, l)
                        /\ w = waiverSum(start, e, l)
                        /\ b = allocatedTo(start, p)
  OBVIOUS
<1>2. b \in Nat
  BY <1>1, AllocatedTyped
<1>3. c \in Int /\ a \in Int /\ w \in Int /\ w <= 0
  BY <1>1, <1>2, ProjectionTyped
<1>4. -w \in Nat
  BY <1>3
<1>5. clamp(c + a - (-w) - b) \in Nat
  BY <1>2, <1>3, ClampTyped
<1>6. PICK r : r = clamp(c + a - (-w) - b)
  OBVIOUS
<1>7. projection(start, e, l, p) = [commission |-> c, adjustments |-> a, waived |-> -w,
                                    payments |-> b, remaining |-> r]
  BY <1>1, <1>6, ProjectionFields
<1>8. withStatus(projection(start, e, l, p), status)
        = [status |-> status, commission |-> c, adjustments |-> a, waived |-> -w,
           payments |-> b, remaining |-> r]
  BY <1>7 DEF withStatus
<1> QED
  BY <1>2, <1>3, <1>4, <1>5, <1>6, <1>8 DEF Row

\* refreshSettlementProjection leaves a row with its projection.
LEMMA RefreshedRow ==
  ASSUME NEW e \in Seq(Entry), NEW l, LinesOver(e, l), NEW start, NEW open,
         NEW p \in Seq(Payment), FiniteAllocations(p),
         \A i \in DOMAIN e : e[i].type = "WAIVER" => e[i].amount <= 0
  PROVE  /\ refreshed(start, open, e, l, p) \in Row
         /\ RowIs(refreshed(start, open, e, l, p), start, e, l, p)
<1>1. PICK t : t = projection(start, e, l, p)
  OBVIOUS
<1>2. PICK status : status = settlementStatus(open, t.remaining, start, now)
  OBVIOUS
<1>3. status \in Status
  BY <1>2 DEF settlementStatus, Status
<1>4. refreshed(start, open, e, l, p) = withStatus(t, status)
  BY <1>1, <1>2 DEF refreshed
<1>5. withStatus(t, status) \in Row
  BY <1>1, <1>3, RowTyped
<1>6. withStatus(t, status).status = status
  BY DEF withStatus
<1> QED
  BY <1>1, <1>4, <1>5, <1>6 DEF RowIs

\* A row that a step leaves alone, and whose lines and payments it leaves alone.
Kept(s) ==
    /\ s \in DOMAIN period
    /\ period'[s] = period[s]
    /\ {m \in line' : m.period = s} = {m \in line : m.period = s}
    /\ allocatedTo(s, payment') = allocatedTo(s, payment)

\* Rows left alone keep their projection when what it depends on is left alone.
LEMMA RowsStep ==
  ASSUME IInv, ledger' \in Seq(Entry), Extends(ledger', ledger),
         \A s \in DOMAIN period' :
            \/ Kept(s)
            \/ /\ period'[s] \in Row
               /\ RowIs(period'[s], s, ledger', line', payment')
  PROVE  /\ ProjectionIsRebuildable'
         /\ \A s \in DOMAIN period' : period'[s] \in Row
<1>1. ASSUME NEW s \in DOMAIN period'
      PROVE  period'[s] \in Row /\ RowIs(period'[s], s, ledger', line', payment')
  <2>1. CASE Kept(s)
    <3>1. period[s] \in Row /\ RowIs(period[s], s, ledger, line, payment)
      BY <2>1, RowsAre DEF IInv, TypeOK, Kept
    <3>2. PICK e, e2, l, l2, p, p2 :
            /\ e = ledger /\ e2 = ledger' /\ l = line /\ l2 = line'
            /\ p = payment /\ p2 = payment'
      OBVIOUS
    <3>3. /\ e \in Seq(Entry) /\ e2 \in Seq(Entry) /\ Extends(e2, e) /\ LinesOver(e, l)
          /\ {m \in l2 : m.period = s} = {m \in l : m.period = s}
          /\ allocatedTo(s, p2) = allocatedTo(s, p)
      BY <2>1, <3>2, StateFacts DEF Kept
    <3>4. projection(s, e2, l2, p2) = projection(s, e, l, p)
      BY <3>3, ProjectionSame
    <3> QED
      BY <2>1, <3>1, <3>2, <3>4 DEF RowIs, Kept
  <2> QED
    BY <1>1, <2>1
<1>2. ProjectionIsRebuildable'
  BY <1>1 DEF ProjectionIsRebuildable, RowIs
<1> QED
  BY <1>1, <1>2

-----------------------------------------------------------------------------
(* An entry and its line: completing an order, and adjusting.              *)

\* The ledger's new entry is none of a payment, and bills no order again.
Fresh(new) ==
    /\ new \in Entry
    /\ new.type # "EXTERNAL_PAYMENT"
    /\ new.type = "WAIVER" => new.amount <= 0
    /\ new.type = "COMMISSION_DUE" =>
          \A i \in DOMAIN ledger :
              ledger[i].type = "COMMISSION_DUE" => ledger[i].orders \cap new.orders = {}

AddsLine(new, start) ==
    /\ Fresh(new)
    /\ start \in Int
    /\ ledger' = Append(ledger, new)
    /\ line' = line \cup {[entry |-> Len(ledger) + 1, period |-> start]}
    /\ payment' = payment
    /\ DOMAIN period' = DOMAIN period \cup {start}
    /\ \A s \in DOMAIN period : s # start => period'[s] = period[s]

\* The ledger is longer by the new entry.
LEMMA AddsLineLedger ==
  ASSUME IInv, NEW new, NEW start, AddsLine(new, start)
  PROVE  /\ ledger' \in Seq(Entry)
         /\ DOMAIN ledger' = DOMAIN ledger \cup {Len(ledger) + 1}
         /\ Len(ledger) + 1 \notin DOMAIN ledger
         /\ ledger'[Len(ledger) + 1] = new
         /\ Extends(ledger', ledger)
         /\ Len(ledger') = Len(ledger) + 1
BY StateFacts, AppendFacts DEF AddsLine, Fresh

\* Only the period of the new line bills more.
LEMMA AddsLineLines ==
  ASSUME IInv, NEW new, NEW start, AddsLine(new, start)
  PROVE  /\ line' \subseteq [entry: 1 .. Len(ledger'), period: DOMAIN period']
         /\ LinesOver(ledger', line')
         /\ \A s \in DOMAIN period : s # start =>
               {m \in line' : m.period = s} = {m \in line : m.period = s}
<1>1. line \subseteq [entry: 1 .. Len(ledger), period: DOMAIN period]
  BY DEF IInv, TypeOK
<1>2. Len(ledger) \in Nat /\ Len(ledger') = Len(ledger) + 1
  BY StateFacts, AddsLineLedger
<1>3. line' = line \cup {[entry |-> Len(ledger) + 1, period |-> start]}
  BY DEF AddsLine
<1>4. DOMAIN period' = DOMAIN period \cup {start}
  BY DEF AddsLine
<1>5. line' \subseteq [entry: 1 .. Len(ledger'), period: DOMAIN period']
  BY <1>1, <1>2, <1>3, <1>4
<1>6. DOMAIN ledger' = 1 .. Len(ledger')
  BY AddsLineLedger
<1>7. LinesOver(ledger', line')
  BY <1>5, <1>6 DEF LinesOver
<1>8. \A s \in DOMAIN period : s # start =>
               {m \in line' : m.period = s} = {m \in line : m.period = s}
  BY <1>3
<1> QED
  BY <1>5, <1>7, <1>8

\* The new entry is on one line, and bills no order again.
LEMMA AddsLineLedgerInv ==
  ASSUME IInv, NEW new, NEW start, AddsLine(new, start)
  PROVE  LedgerInv'
<1>1. PICK n : n = Len(ledger) + 1
  OBVIOUS
<1>2. PICK e, e2 : e = ledger /\ e2 = ledger'
  OBVIOUS
<1>3. /\ DOMAIN e2 = DOMAIN e \cup {n} /\ n \notin DOMAIN e /\ e2[n] = new
      /\ \A i \in DOMAIN e : e2[i] = e[i]
  BY <1>1, <1>2, AddsLineLedger DEF Extends
<1>4. line' = line \cup {[entry |-> n, period |-> start]}
  BY <1>1 DEF AddsLine
<1>5. \A l \in line : l.entry \in DOMAIN e
  BY <1>2, StateFacts DEF LinesOver
<1>6. LinesOnce'
  <2>1. \A l, m \in line : l.entry = m.entry => l = m
    BY DEF IInv, LedgerInv, LinesOnce
  <2>2. \A l, m \in line' : l.entry = m.entry => l = m
    BY <1>3, <1>4, <1>5, <2>1
  <2> QED
    BY <2>2 DEF LinesOnce
<1>7. CommissionsOnce'
  <2> SUFFICES ASSUME NEW i \in DOMAIN e2, NEW j \in DOMAIN e2,
                      e2[i].type = "COMMISSION_DUE", e2[j].type = "COMMISSION_DUE",
                      e2[i].orders \cap e2[j].orders # {}, i # j
               PROVE  FALSE
    BY <1>2 DEF CommissionsOnce
  <2>1. CASE i \in DOMAIN e /\ j \in DOMAIN e
    BY <1>2, <1>3, <2>1 DEF IInv, LedgerInv, CommissionsOnce
  <2>2. CASE i = n /\ j \in DOMAIN e
    <3>1. e[j].orders \cap new.orders = {}
      BY <1>2, <1>3, <2>2 DEF AddsLine, Fresh
    <3> QED
      BY <1>3, <2>2, <3>1
  <2>3. CASE j = n /\ i \in DOMAIN e
    <3>1. e[i].orders \cap new.orders = {}
      BY <1>2, <1>3, <2>3 DEF AddsLine, Fresh
    <3> QED
      BY <1>3, <2>3, <3>1
  <2> QED
    BY <1>3, <2>1, <2>2, <2>3
<1>8. WaiversCredit'
  <2>1. \A i \in DOMAIN e : e[i].type = "WAIVER" => e[i].amount <= 0
    BY <1>2 DEF IInv, LedgerInv, WaiversCredit
  <2>2. \A i \in DOMAIN e2 : e2[i].type = "WAIVER" => e2[i].amount <= 0
    BY <1>3, <2>1 DEF AddsLine, Fresh
  <2> QED
    BY <1>2, <2>2 DEF WaiversCredit
<1>9. EntriesHavePlace'
  <2>1. ASSUME NEW i \in DOMAIN e
        PROVE  /\ onLine(i)' \/ paysFor(i)'
               /\ e2[i].type = "EXTERNAL_PAYMENT" => paysFor(i)'
    <3>1. /\ onLine(i) \/ paysFor(i)
          /\ e[i].type = "EXTERNAL_PAYMENT" => paysFor(i)
      BY <1>2 DEF IInv, LedgerInv, EntriesHavePlace
    <3>2. onLine(i) => onLine(i)'
      BY <1>4 DEF onLine
    <3>3. paysFor(i) => paysFor(i)'
      BY DEF paysFor, AddsLine
    <3> QED
      BY <1>3, <3>1, <3>2, <3>3
  <2>2. onLine(n)'
    <3>1. PICK l : l = [entry |-> n, period |-> start]
      OBVIOUS
    <3>2. l \in line' /\ l.entry = n
      BY <1>4, <3>1
    <3> QED
      BY <3>2 DEF onLine
  <2>3. e2[n].type # "EXTERNAL_PAYMENT"
    BY <1>3 DEF AddsLine, Fresh
  <2>4. \A i \in DOMAIN e2 : /\ onLine(i)' \/ paysFor(i)'
                             /\ e2[i].type = "EXTERNAL_PAYMENT" => paysFor(i)'
    BY <1>3, <2>1, <2>2, <2>3
  <2> QED
    BY <1>2, <2>4 DEF EntriesHavePlace
<1> QED
  BY <1>6, <1>7, <1>8, <1>9 DEF LedgerInv

\* Payments stay as they are while the ledger and the periods grow.
LEMMA PaymentsKept ==
  ASSUME IInv, payment' = payment, Extends(ledger', ledger),
         DOMAIN period \subseteq DOMAIN period'
  PROVE  PaymentInv'
<1>1. PICK e, e2 : e = ledger /\ e2 = ledger'
  OBVIOUS
<1>2. PICK ps : ps = payment
  OBVIOUS
<1>3. \A i \in DOMAIN e : i \in DOMAIN e2 /\ e2[i] = e[i]
  BY <1>1 DEF Extends
<1>4. PaymentsEntered'
  <2>1. ASSUME NEW p \in DOMAIN ps PROVE EntryOf(ps[p], e2)
    <3>1. EntryOf(ps[p], e)
      BY <1>1, <1>2 DEF IInv, PaymentInv, PaymentsEntered
    <3> QED
      BY <1>3, <3>1 DEF EntryOf
  <2>2. \A p, q \in DOMAIN ps : ps[p].entry = ps[q].entry => p = q
    BY <1>2 DEF IInv, PaymentInv, PaymentsEntered
  <2> QED
    BY <1>1, <1>2, <2>1, <2>2 DEF PaymentsEntered
<1>5. ReversedOnce'
  BY DEF IInv, PaymentInv, ReversedOnce
<1>6. AllocationsInv'
  <2>1. ASSUME NEW p \in DOMAIN ps PROVE AllocatedWhole(ps[p], DOMAIN period')
    <3>1. AllocatedWhole(ps[p], DOMAIN period)
      BY <1>2 DEF IInv, PaymentInv, AllocationsInv
    <3> QED
      BY <3>1 DEF AllocatedWhole
  <2> QED
    BY <1>2, <2>1 DEF AllocationsInv
<1> QED
  BY <1>4, <1>5, <1>6 DEF PaymentInv

\* A step that adds an entry and its line, and refreshes that row, keeps IInv.
LEMMA AddsLineInv ==
  ASSUME IInv, NEW new, NEW start, AddsLine(new, start),
         period'[start] \in Row,
         RowIs(period'[start], start, ledger', line', payment'),
         now' \in Nat, job' \in [at: Nat, todo: SUBSET Order]
  PROVE  IInv'
<1>1. ledger' \in Seq(Entry) /\ Extends(ledger', ledger)
  BY AddsLineLedger
<1>2. DOMAIN period' = DOMAIN period \cup {start} /\ start \in Int
  BY DEF AddsLine
<1>3. ASSUME NEW s \in DOMAIN period', s # start PROVE Kept(s)
  <2>1. s \in DOMAIN period /\ period'[s] = period[s]
    BY <1>2, <1>3 DEF AddsLine
  <2>2. {m \in line' : m.period = s} = {m \in line : m.period = s}
    BY <1>3, <2>1, AddsLineLines
  <2>3. allocatedTo(s, payment') = allocatedTo(s, payment)
    BY DEF AddsLine
  <2> QED
    BY <2>1, <2>2, <2>3 DEF Kept
<1>4. \A s \in DOMAIN period' :
         \/ Kept(s)
         \/ period'[s] \in Row /\ RowIs(period'[s], s, ledger', line', payment')
  BY <1>3
<1>5. ProjectionIsRebuildable' /\ \A s \in DOMAIN period' : period'[s] \in Row
  BY <1>1, <1>4, RowsStep
<1>6. LedgerInv'
  BY AddsLineLedgerInv
<1>7. PaymentInv'
  BY <1>1, <1>2, PaymentsKept DEF AddsLine
<1>8. IsFiniteSet(DOMAIN period')
  BY <1>2, FS_AddElement DEF IInv
<1>9. TypeOK'
  <2>1. line' \subseteq [entry: 1 .. Len(ledger'), period: DOMAIN period']
    BY AddsLineLines
  <2>2. DOMAIN period' \subseteq Int
    BY <1>2 DEF IInv, TypeOK
  <2>3. payment' \in Seq(Payment)
    BY StateFacts DEF AddsLine
  <2> QED
    BY <1>1, <1>5, <2>1, <2>2, <2>3 DEF TypeOK
<1> QED
  BY <1>5, <1>6, <1>7, <1>8, <1>9 DEF IInv

\* Both weeks start on some day.
LEMMA WeekTyped ==
  ASSUME NEW t \in Nat
  PROVE  apiWeek(t) \in Int /\ workerWeek(t) \in Int
<1>1. Week \in Nat \ {0} /\ WorkerShift \in Nat
  BY WeekAssumption
<1>2. t % Week \in Int /\ (t + WorkerShift) % Week \in Int
  BY <1>1
<1> QED
  BY <1>2 DEF apiWeek, workerWeek

\* An upsert of one row.
LEMMA StoreOne ==
  ASSUME NEW start, NEW rows, DOMAIN rows = {start}, Store(rows)
  PROVE  /\ DOMAIN period' = DOMAIN period \cup {start}
         /\ period'[start] = rows[start]
         /\ \A s \in DOMAIN period : s # start => period'[s] = period[s]
BY DEF Store

commissionEntry(o, at) ==
    [type |-> "COMMISSION_DUE", amount |-> Commission, at |-> at, orders |-> {o},
     reverses |-> None]

\* Bill enters the first commission of an order.
LEMMA CommissionFresh ==
  ASSUME IInv, NEW o \in Order, NEW at \in Nat, commissionOf(o) = {}
  PROVE  Fresh(commissionEntry(o, at))
<1>1. Commission \in Int
  BY AmountAssumption
<1>2. commissionEntry(o, at) \in Entry
  BY <1>1 DEF commissionEntry, Entry, EntryType, None
<1>3. \A i \in DOMAIN ledger :
         ledger[i].type = "COMMISSION_DUE" => ledger[i].orders \cap {o} = {}
  BY DEF commissionOf
<1> QED
  BY <1>2, <1>3 DEF Fresh, commissionEntry

\* The job and the clock.
LEMMA JobTyped == ASSUME IInv PROVE job \in [at: Nat, todo: SUBSET Order] /\ now \in Nat
BY DEF IInv, TypeOK

\* The job without the order just dealt with.
LEMMA DropTyped ==
  ASSUME IInv, NEW o, Drop(o)
  PROVE  job' \in [at: Nat, todo: SUBSET Order]
<1>1. job \in [at: Nat, todo: SUBSET Order]
  BY JobTyped
<1>2. NoJob \in [at: Nat, todo: SUBSET Order]
  BY DEF NoJob
<1>3. [job EXCEPT !.todo = @ \ {o}] \in [at: Nat, todo: SUBSET Order]
  BY <1>1
<1> QED
  BY <1>2, <1>3 DEF Drop

\* What AddsLine leaves is good enough for a refreshed row.
LEMMA AddsLineRefreshed ==
  ASSUME IInv, NEW new, NEW start, AddsLine(new, start), NEW open
  PROVE  /\ refreshed(start, open, ledger', line', payment) \in Row
         /\ RowIs(refreshed(start, open, ledger', line', payment),
                  start, ledger', line', payment')
<1>1. ledger' \in Seq(Entry) /\ LinesOver(ledger', line')
  BY AddsLineLedger, AddsLineLines
<1>2. payment \in Seq(Payment) /\ FiniteAllocations(payment) /\ payment' = payment
  BY StateFacts DEF AddsLine
<1>3. \A i \in DOMAIN ledger' : ledger'[i].type = "WAIVER" => ledger'[i].amount <= 0
  BY AddsLineLedgerInv DEF LedgerInv, WaiversCredit
<1>4. PICK e, l, p : e = ledger' /\ l = line' /\ p = payment
  OBVIOUS
<1>5. /\ refreshed(start, open, e, l, p) \in Row
      /\ RowIs(refreshed(start, open, e, l, p), start, e, l, p)
  BY <1>1, <1>2, <1>3, <1>4, RefreshedRow
<1> QED
  BY <1>2, <1>4, <1>5

\* The API completes an order (finalizeInTransaction).
LEMMA FinalizeInv == ASSUME IInv, NEW o \in Order, Finalize(o) PROVE IInv'
<1>1. PICK start : start = apiWeek(now)
  OBVIOUS
<1>2. PICK new : new = commissionEntry(o, now)
  OBVIOUS
<1>3. start \in Int /\ Fresh(new)
  BY <1>1, <1>2, WeekTyped, JobTyped, CommissionFresh DEF Finalize, Bill
<1>4. PICK rows : rows = [s \in {start} |-> refreshed(s, isOpen(s), ledger', line', payment)]
  OBVIOUS
<1>5. Store(rows) /\ DOMAIN rows = {start}
      /\ rows[start] = refreshed(start, isOpen(start), ledger', line', payment)
  BY <1>1, <1>4 DEF Finalize
<1>6. /\ DOMAIN period' = DOMAIN period \cup {start}
      /\ period'[start] = rows[start]
      /\ \A s \in DOMAIN period : s # start => period'[s] = period[s]
  BY <1>5, StoreOne
<1>7. /\ ledger' = Append(ledger, new)
      /\ line' = line \cup {[entry |-> Len(ledger) + 1, period |-> start]}
      /\ payment' = payment
      /\ now' = now /\ job' = job
  BY <1>1, <1>2 DEF Finalize, Bill, commissionEntry
<1>8. AddsLine(new, start)
  BY <1>3, <1>6, <1>7 DEF AddsLine
<1>9. PICK open : open = isOpen(start)
  OBVIOUS
<1>10. period'[start] \in Row /\ RowIs(period'[start], start, ledger', line', payment')
  BY <1>5, <1>6, <1>8, <1>9, AddsLineRefreshed
<1> QED
  BY <1>7, <1>8, <1>10, AddsLineInv, JobTyped

\* An adjustment is an entry of its own, and no payment's.
LEMMA AdjustInv ==
  ASSUME IInv, NEW type, NEW amount, NEW reverses, NEW orders, NEW start,
         Adjust(type, amount, reverses, orders, start),
         type \in EntryType, type \notin {"EXTERNAL_PAYMENT", "COMMISSION_DUE"},
         amount \in Int, type = "WAIVER" => amount <= 0, reverses \in Nat,
         orders \in SUBSET Order
  PROVE  IInv'
<1>1. PICK new : new = [type |-> type, amount |-> amount, at |-> now, orders |-> orders,
                        reverses |-> reverses]
  OBVIOUS
<1>2. start \in DOMAIN period /\ start \in Int
  BY DEF Adjust, IInv, TypeOK
<1>3. Fresh(new)
  <2>1. new \in Entry
    BY <1>1, JobTyped DEF Entry
  <2> QED
    BY <1>1, <2>1 DEF Fresh
<1>4. PICK rows : rows = [s \in {start} |-> refreshed(s, isOpen(s), ledger', line', payment)]
  OBVIOUS
<1>5. Store(rows) /\ DOMAIN rows = {start}
      /\ rows[start] = refreshed(start, isOpen(start), ledger', line', payment)
  BY <1>4 DEF Adjust
<1>6. /\ DOMAIN period' = DOMAIN period \cup {start}
      /\ period'[start] = rows[start]
      /\ \A s \in DOMAIN period : s # start => period'[s] = period[s]
  BY <1>5, StoreOne
<1>7. /\ ledger' = Append(ledger, new)
      /\ line' = line \cup {[entry |-> Len(ledger) + 1, period |-> start]}
      /\ payment' = payment
      /\ now' = now /\ job' = job
  BY <1>1 DEF Adjust
<1>8. AddsLine(new, start)
  BY <1>2, <1>3, <1>6, <1>7 DEF AddsLine
<1>9. PICK open : open = isOpen(start)
  OBVIOUS
<1>10. period'[start] \in Row /\ RowIs(period'[start], start, ledger', line', payment')
  BY <1>5, <1>6, <1>8, <1>9, AddsLineRefreshed
<1> QED
  BY <1>7, <1>8, <1>10, AddsLineInv, JobTyped

\* An administrator adjusts a period, or reverses an entry.
LEMMA CreateAdjustmentInv ==
  ASSUME IInv, NEW start, CreateAdjustment(start)
  PROVE  IInv'
<1>0. PICK orders \in {{}} \cup {{o} : o \in Order} :
        \/ \E amount \in Amount :
              \/ Adjust("ADJUSTMENT_DEBIT", amount, None, orders, start)
              \/ Adjust("ADJUSTMENT_CREDIT", -amount, None, orders, start)
              \/ Adjust("WAIVER", -amount, None, orders, start)
        \/ \E i \in DOMAIN ledger :
              notReversed(i) /\ Adjust("REVERSAL", -ledger[i].amount, i, orders, start)
  BY DEF CreateAdjustment
<1>1. orders \in SUBSET Order
  OBVIOUS
<1>2. ASSUME NEW amount \in Amount,
             \/ Adjust("ADJUSTMENT_DEBIT", amount, None, orders, start)
             \/ Adjust("ADJUSTMENT_CREDIT", -amount, None, orders, start)
             \/ Adjust("WAIVER", -amount, None, orders, start)
      PROVE  IInv'
  <2>1. amount \in Nat /\ amount \in Int /\ -amount \in Int /\ -amount <= 0
    BY AmountAssumption
  <2>2. None \in Nat
    BY DEF None
  <2>3. PICK credit : credit = -amount
    OBVIOUS
  <2>4. CASE Adjust("ADJUSTMENT_DEBIT", amount, None, orders, start)
    BY <1>1, <2>1, <2>2, <2>4, AdjustInv DEF EntryType
  <2>5. CASE Adjust("ADJUSTMENT_CREDIT", credit, None, orders, start)
    BY <1>1, <2>1, <2>2, <2>3, <2>5, AdjustInv DEF EntryType
  <2>6. CASE Adjust("WAIVER", credit, None, orders, start)
    BY <1>1, <2>1, <2>2, <2>3, <2>6, AdjustInv DEF EntryType
  <2> QED
    BY <1>2, <2>3, <2>4, <2>5, <2>6
<1>3. ASSUME NEW i \in DOMAIN ledger, Adjust("REVERSAL", -ledger[i].amount, i, orders, start)
      PROVE  IInv'
  <2>1. ledger[i] \in Entry /\ i \in Nat
    BY StateFacts
  <2>2. PICK back : back = -ledger[i].amount
    OBVIOUS
  <2>3. back \in Int
    BY <2>1, <2>2 DEF Entry
  <2> QED
    BY <1>1, <1>3, <2>1, <2>2, <2>3, AdjustInv DEF EntryType
<1> QED
  BY <1>0, <1>2, <1>3

-----------------------------------------------------------------------------
(* The worker's increments.                                                *)

\* An added line adds its entry's amount to the sum of its type.
LEMMA SumsAdded ==
  ASSUME IInv, NEW new, NEW start, AddsLine(new, start), NEW types
  PROVE  sumOf(ledger', ids(start, ledger', line', types))
           = IF new.type \in types
             THEN sumOf(ledger, ids(start, ledger, line, types)) + new.amount
             ELSE sumOf(ledger, ids(start, ledger, line, types))
<1>1. PICK e, e2, l, l2, n : /\ e = ledger /\ e2 = ledger' /\ l = line /\ l2 = line'
                             /\ n = Len(ledger) + 1
  OBVIOUS
<1>2. /\ DOMAIN e2 = DOMAIN e \cup {n} /\ n \notin DOMAIN e /\ e2[n] = new
      /\ \A i \in DOMAIN e : e2[i] = e[i]
  BY <1>1, AddsLineLedger DEF Extends
<1>3. l2 = l \cup {[entry |-> n, period |-> start]}
  BY <1>1 DEF AddsLine
<1>4. /\ e \in Seq(Entry) /\ e2 \in Seq(Entry) /\ Extends(e2, e)
      /\ LinesOver(e, l) /\ \A m \in l : m.entry \in DOMAIN e
  BY <1>1, AddsLineLedger, StateFacts DEF LinesOver
<1>5. PICK old, more : old = ids(start, e, l, types) /\ more = ids(start, e2, l2, types)
  OBVIOUS
<1>6. old \in SUBSET DOMAIN e /\ old \in SUBSET DOMAIN e2 /\ n \notin old /\ n \in DOMAIN e2
  BY <1>2, <1>4, <1>5, IdsFinite
<1>7. sumOf(e2, old) = sumOf(e, old)
  BY <1>4, <1>6, SumOfSame
<1>8. \A i : i \in more <=> i \in old \/ (i = n /\ new.type \in types)
  <2>1. \A i : i \in old <=> \E m \in l : m.period = start /\ e[m.entry].type \in types /\ i = m.entry
    BY <1>5 DEF ids
  <2>2. \A i : i \in more <=> \E m \in l2 : m.period = start /\ e2[m.entry].type \in types /\ i = m.entry
    BY <1>5 DEF ids
  <2>3. \A m \in l : e2[m.entry] = e[m.entry]
    BY <1>2, <1>4
  <2>4. PICK x : x = [entry |-> n, period |-> start]
    OBVIOUS
  <2>5. x.entry = n /\ x.period = start /\ e2[x.entry] = new
    BY <1>2, <2>4
  <2>6. \A m : m \in l2 <=> m \in l \/ m = x
    BY <1>3, <2>4
  <2>7. ASSUME NEW i, i \in more PROVE i \in old \/ (i = n /\ new.type \in types)
    <3>1. PICK m \in l2 : m.period = start /\ e2[m.entry].type \in types /\ i = m.entry
      BY <2>2, <2>7
    <3>2. CASE m \in l
      <4>1. e[m.entry].type \in types
        BY <2>3, <3>1, <3>2
      <4> QED
        BY <2>1, <3>1, <3>2, <4>1
    <3>3. CASE m = x
      BY <2>5, <3>1, <3>3
    <3> QED
      BY <2>6, <3>2, <3>3
  <2>8. ASSUME NEW i \in old PROVE i \in more
    <3>1. PICK m \in l : m.period = start /\ e[m.entry].type \in types /\ i = m.entry
      BY <2>1
    <3>2. m \in l2 /\ e2[m.entry].type \in types
      BY <2>3, <2>6, <3>1
    <3> QED
      BY <2>2, <3>1, <3>2
  <2>9. new.type \in types => n \in more
    BY <2>2, <2>5, <2>6
  <2> QED
    BY <2>7, <2>8, <2>9
<1>9. CASE new.type \in types
  <2>1. more = old \cup {n}
    BY <1>8, <1>9
  <2>2. sumOf(e2, old \cup {n}) = sumOf(e2, old) + e2[n].amount
    BY <1>4, <1>6, SumOfAdd
  <2> QED
    BY <1>1, <1>2, <1>5, <1>7, <1>9, <2>1, <2>2
<1>10. CASE new.type \notin types
  <2>1. \A i : i \in more <=> i \in old
    BY <1>8, <1>10
  <2>2. more = old
    BY Zenon, <2>1
  <2> QED
    BY <1>1, <1>5, <1>7, <1>10, <2>2
<1> QED
  BY <1>9, <1>10

\* A period without a row has no lines and was paid nothing.
LEMMA NoRowNoSums ==
  ASSUME IInv, NEW start, start \notin DOMAIN period
  PROVE  /\ commissionSum(start, ledger, line) = 0
         /\ adjustmentSum(start, ledger, line) = 0
         /\ waiverSum(start, ledger, line) = 0
         /\ allocatedTo(start, payment) = 0
<1>1. ASSUME NEW types PROVE sumOf(ledger, ids(start, ledger, line, types)) = 0
  <2>1. \A l \in line : l.period # start
    BY DEF IInv, TypeOK
  <2>2. ids(start, ledger, line, types) = {}
    BY <2>1 DEF ids
  <2>3. sumOf(ledger, {}) = 0
    BY TotalEmpty DEF sumOf, Total
  <2> QED
    BY Zenon, <2>2, <2>3
<1>2. PICK f, A, ps : /\ f = paidBy(start, payment) /\ A = activePayments(payment)
                      /\ ps = payment
  OBVIOUS
<1>3. ps \in Seq(Payment) /\ FiniteAllocations(ps)
  BY <1>2, StateFacts
<1>4. \A p \in DOMAIN ps : start \notin touched(ps[p].allocations)
  BY <1>2 DEF IInv, PaymentInv, AllocationsInv, AllocatedWhole
<1>5. \A p \in DOMAIN ps : paidTo(start, ps[p]) = 0
  BY <1>4, PaidToOthers
<1>6. IsFiniteSet(A) /\ \A p \in A : f[p] = 0
  BY <1>2, <1>3, <1>5, PaidByTyped
<1>7. Total(f, A) = 0
  BY <1>6, TotalZero
<1> QED
  BY <1>1, <1>2, <1>7, AllocatedIs DEF commissionSum, adjustmentSum, waiverSum

\* The row the worker leaves is the one a refresh would have left.
LEMMA IncrementedRow ==
  ASSUME IInv, NEW o \in Order, NEW at \in Nat, NEW start, NEW row,
         AddsLine(commissionEntry(o, at), start),
         row = incremented(start), projectionCheck(row)
  PROVE  row \in Row /\ RowIs(row, start, ledger', line', payment')
<1>1. PICK c, a, w, b : /\ c = commissionSum(start, ledger, line)
                        /\ a = adjustmentSum(start, ledger, line)
                        /\ w = waiverSum(start, ledger, line)
                        /\ b = allocatedTo(start, payment)
  OBVIOUS
<1>2. Commission \in Int /\ payment' = payment
  BY AmountAssumption DEF AddsLine
<1>3. /\ c \in Int /\ a \in Int /\ w \in Int /\ w <= 0 /\ b \in Nat
  <2>1. PICK e, l, p : e = ledger /\ l = line /\ p = payment
    OBVIOUS
  <2>2. e \in Seq(Entry) /\ LinesOver(e, l) /\ p \in Seq(Payment) /\ FiniteAllocations(p)
    BY <2>1, StateFacts
  <2>3. \A i \in DOMAIN e : e[i].type = "WAIVER" => e[i].amount <= 0
    BY <2>1 DEF IInv, LedgerInv, WaiversCredit
  <2>4. allocatedTo(start, p) \in Nat
    BY <2>2, AllocatedTyped
  <2> QED
    BY <1>1, <2>1, <2>2, <2>3, <2>4, ProjectionTyped
<1>4. /\ commissionSum(start, ledger', line') = c + Commission
      /\ adjustmentSum(start, ledger', line') = a
      /\ waiverSum(start, ledger', line') = w
      /\ allocatedTo(start, payment') = b
  <2>1. PICK new : new = commissionEntry(o, at)
    OBVIOUS
  <2>2. new.type = "COMMISSION_DUE" /\ new.amount = Commission /\ AddsLine(new, start)
    BY <2>1 DEF commissionEntry
  <2>3. /\ new.type \in CommissionTypes /\ new.type \notin AdjustmentTypes
        /\ new.type \notin WaiverTypes
    BY <2>2 DEF CommissionTypes, AdjustmentTypes, WaiverTypes
  <2>4. commissionSum(start, ledger', line') = c + Commission
    BY <1>1, <2>2, <2>3, SumsAdded DEF commissionSum
  <2>5. adjustmentSum(start, ledger', line') = a
    BY <1>1, <2>2, <2>3, SumsAdded DEF adjustmentSum
  <2>6. waiverSum(start, ledger', line') = w
    BY <1>1, <2>2, <2>3, SumsAdded DEF waiverSum
  <2> QED
    BY <1>1, <1>2, <2>4, <2>5, <2>6
<1>5. /\ row.commission = c + Commission /\ row.adjustments = a
      /\ row.waived = -w /\ row.payments = b
      /\ row.status \in Status
      /\ row = [status |-> row.status, commission |-> row.commission,
                adjustments |-> row.adjustments, waived |-> row.waived,
                payments |-> row.payments, remaining |-> row.remaining]
  <2>1. CASE start \in DOMAIN period
    <3>1. PICK r : r = period[start]
      OBVIOUS
    <3>2. r \in Row /\ r = withStatus(projection(start, ledger, line, payment), r.status)
      BY <2>1, <3>1, RowsAre DEF IInv, TypeOK, RowIs
    <3>3. /\ r.commission = c /\ r.adjustments = a /\ r.waived = -w /\ r.payments = b
      BY <1>1, <3>2, ProjectionFields DEF withStatus
    <3>4. row = [r EXCEPT !.commission = r.commission + Commission,
                          !.remaining = r.remaining + Commission]
      BY <2>1, <3>1 DEF incremented
    <3> QED
      BY <3>2, <3>3, <3>4 DEF Row
  <2>2. CASE start \notin DOMAIN period
    <3>1. c = 0 /\ a = 0 /\ w = 0 /\ b = 0
      BY <1>1, <2>2, NoRowNoSums
    <3>2. row = [status |-> "OPEN", commission |-> Commission, adjustments |-> 0,
                 waived |-> 0, payments |-> 0, remaining |-> Commission]
      BY <2>2 DEF incremented
    <3>3. c + Commission = Commission /\ -w = 0
      <4>1. \A x \in Int : x = 0 => x + Commission = Commission
        BY <1>2
      <4>2. PICK v : v = -w
        OBVIOUS
      <4>3. v \in Int /\ v + w = 0
        BY <1>3, <4>2
      <4>4. v = 0
        BY <3>1, <4>3
      <4> QED
        BY <1>3, <3>1, <4>1, <4>2, <4>4
    <3>4. row.commission = c + Commission
      BY <3>2, <3>3
    <3>5. row.adjustments = a /\ row.waived = -w /\ row.payments = b
      BY <3>1, <3>2, <3>3
    <3>6. row.status \in Status
      BY <3>2 DEF Status
    <3> QED
      BY <3>2, <3>4, <3>5, <3>6
  <2> QED
    BY <2>1, <2>2
<1>6. PICK r : r = clamp((c + Commission) + a - (-w) - b)
  OBVIOUS
<1>7. r \in Nat /\ -w \in Nat
  BY <1>2, <1>3, <1>6, ClampTyped
<1>8. row.remaining = r
  BY <1>5, <1>6 DEF projectionCheck
<1>9. row = [status |-> row.status, commission |-> c + Commission, adjustments |-> a,
             waived |-> -w, payments |-> b, remaining |-> r]
  BY Zenon, <1>5, <1>8
<1>10. projection(start, ledger', line', payment')
         = [commission |-> c + Commission, adjustments |-> a, waived |-> -w,
            payments |-> b, remaining |-> r]
  BY <1>4, <1>6, ProjectionFields
<1>11. row.status \in Status
  BY <1>5
<1>12. row \in Row
  BY <1>2, <1>3, <1>7, <1>9, <1>11 DEF Row
<1>13. RowIs(row, start, ledger', line', payment')
  BY <1>9, <1>10 DEF RowIs, withStatus
<1> QED
  BY <1>12, <1>13

\* The worker completes an order: its increments are the projection's, or the
\* database rejects the row (SettlementPeriod_projection_check).
LEMMA WorkerCompleteInv == ASSUME IInv, NEW o \in Order, WorkerComplete(o) PROVE IInv'
<1>1. PICK start, at : start = workerWeek(job.at) /\ at = job.at
  OBVIOUS
<1>2. PICK new : new = commissionEntry(o, at)
  OBVIOUS
<1>3. at \in Nat
  BY <1>1, JobTyped
<1>4. start \in Int /\ Fresh(new)
  BY <1>1, <1>2, <1>3, WeekTyped, CommissionFresh DEF WorkerComplete, Bill
<1>5. PICK row : row = incremented(start)
  OBVIOUS
<1>6. PICK rows : rows = [s \in {start} |-> incremented(s)]
  OBVIOUS
<1>7. Store(rows) /\ DOMAIN rows = {start} /\ rows[start] = row
  BY <1>1, <1>5, <1>6 DEF WorkerComplete
<1>8. /\ DOMAIN period' = DOMAIN period \cup {start}
      /\ period'[start] = row
      /\ \A s \in DOMAIN period : s # start => period'[s] = period[s]
  BY <1>7, StoreOne
<1>9. /\ ledger' = Append(ledger, new)
      /\ line' = line \cup {[entry |-> Len(ledger) + 1, period |-> start]}
      /\ payment' = payment
      /\ now' = now
  BY <1>1, <1>2 DEF WorkerComplete, Bill, commissionEntry
<1>10. AddsLine(new, start)
  BY <1>4, <1>8, <1>9 DEF AddsLine
<1>11. projectionCheck(row)
  BY <1>1, <1>5 DEF WorkerComplete
<1>12. row \in Row /\ RowIs(row, start, ledger', line', payment')
  BY <1>2, <1>3, <1>5, <1>10, <1>11, IncrementedRow
<1>13. job' \in [at: Nat, todo: SUBSET Order]
  BY DropTyped DEF WorkerComplete
<1>14. now' \in Nat
  BY <1>9, JobTyped
<1>15. period'[start] \in Row /\ RowIs(period'[start], start, ledger', line', payment')
  BY <1>8, <1>12
<1> QED
  BY <1>10, <1>13, <1>14, <1>15, AddsLineInv

-----------------------------------------------------------------------------
(* Payments and their reversals.                                           *)

\* A new payment or reversal with its entry; no line is added.
AddsPayment(new, entry) ==
    /\ new \in Payment
    /\ entry \in Entry
    /\ new.entry = Len(ledger) + 1
    /\ \/ /\ new.reverses = None
          /\ entry.type = "EXTERNAL_PAYMENT"
          /\ entry.amount = -new.amount
       \/ /\ new.reverses \in activePayments(payment)
          /\ entry.type = "REVERSAL"
          /\ entry.amount = new.amount
          /\ new.amount = payment[new.reverses].amount
          /\ new.allocations = payment[new.reverses].allocations
    /\ AllocatedWhole(new, DOMAIN period)
    /\ ledger' = Append(ledger, entry)
    /\ payment' = Append(payment, new)
    /\ line' = line /\ now' = now /\ job' = job
    /\ DOMAIN period' = DOMAIN period
    /\ \A s \in DOMAIN period :
          period'[s] = IF s \in touched(new.allocations)
                       THEN refreshed(s, FALSE, ledger', line', payment')
                       ELSE period[s]

\* Ledger and payments are longer by one.
LEMMA AddsPaymentFacts ==
  ASSUME IInv, NEW new, NEW entry, AddsPayment(new, entry)
  PROVE  /\ ledger' \in Seq(Entry)
         /\ DOMAIN ledger' = DOMAIN ledger \cup {Len(ledger) + 1}
         /\ Len(ledger) + 1 \notin DOMAIN ledger
         /\ ledger'[Len(ledger) + 1] = entry
         /\ Extends(ledger', ledger)
         /\ Len(ledger') = Len(ledger) + 1
         /\ payment' \in Seq(Payment)
         /\ DOMAIN payment' = DOMAIN payment \cup {Len(payment) + 1}
         /\ Len(payment) + 1 \notin DOMAIN payment
         /\ payment'[Len(payment) + 1] = new
         /\ \A p \in DOMAIN payment : payment'[p] = payment[p]
<1>1. /\ ledger' \in Seq(Entry)
      /\ DOMAIN ledger' = DOMAIN ledger \cup {Len(ledger) + 1}
      /\ Len(ledger) + 1 \notin DOMAIN ledger
      /\ ledger'[Len(ledger) + 1] = entry
      /\ Extends(ledger', ledger)
      /\ Len(ledger') = Len(ledger) + 1
  BY StateFacts, AppendFacts DEF AddsPayment
<1>2. /\ payment' \in Seq(Payment)
      /\ DOMAIN payment' = DOMAIN payment \cup {Len(payment) + 1}
      /\ Len(payment) + 1 \notin DOMAIN payment
      /\ payment'[Len(payment) + 1] = new
      /\ Extends(payment', payment)
  BY StateFacts, AppendFacts DEF AddsPayment
<1> QED
  BY <1>1, <1>2 DEF Extends

\* The new entry belongs to the new payment.
LEMMA AddsPaymentLedgerInv ==
  ASSUME IInv, NEW new, NEW entry, AddsPayment(new, entry)
  PROVE  LedgerInv'
<1>1. PICK n, m : n = Len(ledger) + 1 /\ m = Len(payment) + 1
  OBVIOUS
<1>2. PICK e, e2, ps, ps2 : e = ledger /\ e2 = ledger' /\ ps = payment /\ ps2 = payment'
  OBVIOUS
<1>3. /\ DOMAIN e2 = DOMAIN e \cup {n} /\ n \notin DOMAIN e /\ e2[n] = entry
      /\ \A i \in DOMAIN e : e2[i] = e[i]
      /\ DOMAIN ps2 = DOMAIN ps \cup {m} /\ ps2[m] = new
      /\ \A p \in DOMAIN ps : ps2[p] = ps[p]
  BY <1>1, <1>2, AddsPaymentFacts DEF Extends
<1>4. entry.type \in {"EXTERNAL_PAYMENT", "REVERSAL"} /\ new.entry = n
  BY <1>1 DEF AddsPayment
<1>5. LinesOnce'
  BY DEF IInv, LedgerInv, LinesOnce, AddsPayment
<1>6. CommissionsOnce'
  <2> SUFFICES ASSUME NEW i \in DOMAIN e2, NEW j \in DOMAIN e2,
                      e2[i].type = "COMMISSION_DUE", e2[j].type = "COMMISSION_DUE",
                      e2[i].orders \cap e2[j].orders # {}
               PROVE  i = j
    BY <1>2 DEF CommissionsOnce
  <2>1. i \in DOMAIN e /\ j \in DOMAIN e
    BY <1>3, <1>4
  <2> QED
    BY <1>2, <1>3, <2>1 DEF IInv, LedgerInv, CommissionsOnce
<1>7. WaiversCredit'
  <2>1. \A i \in DOMAIN e : e[i].type = "WAIVER" => e[i].amount <= 0
    BY <1>2 DEF IInv, LedgerInv, WaiversCredit
  <2>2. \A i \in DOMAIN e2 : e2[i].type = "WAIVER" => e2[i].amount <= 0
    BY <1>3, <1>4, <2>1
  <2> QED
    BY <1>2, <2>2 DEF WaiversCredit
<1>8. EntriesHavePlace'
  <2>1. ASSUME NEW i \in DOMAIN e
        PROVE  /\ onLine(i)' \/ paysFor(i)'
               /\ e2[i].type = "EXTERNAL_PAYMENT" => paysFor(i)'
    <3>1. /\ onLine(i) \/ paysFor(i)
          /\ e[i].type = "EXTERNAL_PAYMENT" => paysFor(i)
      BY <1>2 DEF IInv, LedgerInv, EntriesHavePlace
    <3>2. onLine(i) => onLine(i)'
      BY DEF onLine, AddsPayment
    <3>3. paysFor(i) => paysFor(i)'
      BY <1>2, <1>3 DEF paysFor
    <3> QED
      BY <1>3, <3>1, <3>2, <3>3
  <2>2. paysFor(n)'
    BY <1>2, <1>3, <1>4 DEF paysFor
  <2>3. \A i \in DOMAIN e2 : /\ onLine(i)' \/ paysFor(i)'
                             /\ e2[i].type = "EXTERNAL_PAYMENT" => paysFor(i)'
    BY <1>3, <2>1, <2>2
  <2> QED
    BY <1>2, <2>3 DEF EntriesHavePlace
<1> QED
  BY <1>5, <1>6, <1>7, <1>8 DEF LedgerInv

\* The new payment has an entry of its own, and a reversal is the only one.
LEMMA AddsPaymentPaymentInv ==
  ASSUME IInv, NEW new, NEW entry, AddsPayment(new, entry)
  PROVE  PaymentInv'
<1>1. PICK n, m : n = Len(ledger) + 1 /\ m = Len(payment) + 1
  OBVIOUS
<1>2. PICK e, e2, ps, ps2 : e = ledger /\ e2 = ledger' /\ ps = payment /\ ps2 = payment'
  OBVIOUS
<1>3. /\ DOMAIN e2 = DOMAIN e \cup {n} /\ n \notin DOMAIN e /\ e2[n] = entry
      /\ \A i \in DOMAIN e : e2[i] = e[i]
  BY <1>1, <1>2, AddsPaymentFacts DEF Extends
<1>4. /\ DOMAIN ps2 = DOMAIN ps \cup {m} /\ m \notin DOMAIN ps /\ ps2[m] = new
      /\ \A p \in DOMAIN ps : ps2[p] = ps[p]
  BY <1>1, <1>2, AddsPaymentFacts
<1>5. new.entry = n
  BY <1>1 DEF AddsPayment
<1>6. \A p \in DOMAIN ps : EntryOf(ps[p], e)
  BY <1>2 DEF IInv, PaymentInv, PaymentsEntered
<1>7. PaymentsEntered'
  <2>1. ASSUME NEW p \in DOMAIN ps PROVE EntryOf(ps2[p], e2)
    BY <1>3, <1>4, <1>6 DEF EntryOf
  <2>2. EntryOf(new, e2)
    <3>1. CASE new.reverses = None
      <4>1. entry.type = "EXTERNAL_PAYMENT" /\ entry.amount = -new.amount
        BY <3>1, StateFacts DEF AddsPayment, activePayments, None
      <4> QED
        BY <1>3, <1>5, <3>1, <4>1 DEF EntryOf
    <3>2. CASE new.reverses # None
      <4>1. entry.type = "REVERSAL" /\ entry.amount = new.amount
        BY <3>2 DEF AddsPayment
      <4> QED
        BY <1>3, <1>5, <3>2, <4>1 DEF EntryOf
    <3> QED
      BY <3>1, <3>2
  <2>3. \A p \in DOMAIN ps2 : EntryOf(ps2[p], e2)
    BY <1>4, <2>1, <2>2
  <2>4. \A p, q \in DOMAIN ps : ps[p].entry = ps[q].entry => p = q
    BY <1>2 DEF IInv, PaymentInv, PaymentsEntered
  <2>5. \A p \in DOMAIN ps : ps[p].entry # n
    BY <1>3, <1>6 DEF EntryOf
  <2>6. \A p, q \in DOMAIN ps2 : ps2[p].entry = ps2[q].entry => p = q
    BY <1>4, <1>5, <2>4, <2>5
  <2> QED
    BY <1>2, <2>3, <2>6 DEF PaymentsEntered
<1>8. new.reverses # None => /\ new.reverses \in DOMAIN ps
                             /\ ps[new.reverses].reverses = None
                             /\ ps[new.reverses].amount = new.amount
                             /\ \A q \in DOMAIN ps : ps[q].reverses # new.reverses
  BY <1>2 DEF AddsPayment, activePayments
<1>9. ReversedOnce'
  <2>1. ASSUME NEW r \in DOMAIN ps PROVE ReversalOf(ps2, r)
    <3>1. ReversalOf(ps, r)
      BY <1>2 DEF IInv, PaymentInv, ReversedOnce
    <3> QED
      BY <1>4, <3>1 DEF ReversalOf
  <2>2. ReversalOf(ps2, m)
    BY <1>4, <1>8 DEF ReversalOf
  <2>3. \A r \in DOMAIN ps2 : ReversalOf(ps2, r)
    BY <1>4, <2>1, <2>2
  <2>4. \A p, q \in DOMAIN ps :
          ps[p].reverses = ps[q].reverses /\ ps[p].reverses # None => p = q
    BY <1>2 DEF IInv, PaymentInv, ReversedOnce
  <2>5. \A p, q \in DOMAIN ps2 :
          ps2[p].reverses = ps2[q].reverses /\ ps2[p].reverses # None => p = q
    BY <1>4, <1>8, <2>4
  <2> QED
    BY <1>2, <2>3, <2>5 DEF ReversedOnce
<1>10. AllocationsInv'
  <2>1. \A p \in DOMAIN ps : AllocatedWhole(ps[p], DOMAIN period)
    BY <1>2 DEF IInv, PaymentInv, AllocationsInv
  <2>2. AllocatedWhole(new, DOMAIN period) /\ DOMAIN period' = DOMAIN period
    BY DEF AddsPayment
  <2>3. \A p \in DOMAIN ps2 : AllocatedWhole(ps2[p], DOMAIN period')
    BY <1>4, <2>1, <2>2
  <2> QED
    BY <1>2, <2>3 DEF AllocationsInv
<1> QED
  BY <1>7, <1>9, <1>10 DEF PaymentInv

\* What a period was paid grows or shrinks by what the payment allocates to it.
LEMMA AddsPaymentAllocated ==
  ASSUME IInv, NEW new, NEW entry, AddsPayment(new, entry), NEW s
  PROVE  allocatedTo(s, payment')
           = IF new.reverses = None
             THEN allocatedTo(s, payment) + paidTo(s, new)
             ELSE allocatedTo(s, payment) - paidTo(s, new)
<1>1. PICK ps : ps = payment
  OBVIOUS
<1>2. /\ ps \in Seq(Payment) /\ FiniteAllocations(ps)
      /\ new \in Payment /\ IsFiniteSet(new.allocations)
  BY <1>1, StateFacts DEF AddsPayment, AllocatedWhole
<1>3. payment' = Append(ps, new)
  BY <1>1 DEF AddsPayment
<1>4. CASE new.reverses = None
  <2>1. \A i \in DOMAIN ps : ps[i].reverses \in DOMAIN ps \cup {None}
    BY <1>1 DEF IInv, PaymentInv, ReversedOnce, ReversalOf
  <2>2. allocatedTo(s, Append(ps, new)) = allocatedTo(s, ps) + paidTo(s, new)
    BY <1>2, <1>4, <2>1, AllocatedRecord
  <2> QED
    BY <1>1, <1>3, <1>4, <2>2
<1>5. CASE new.reverses # None
  <2>1. PICK p : p = new.reverses
    OBVIOUS
  <2>2. p \in activePayments(ps) /\ new.allocations = ps[p].allocations
    BY <1>1, <1>5, <2>1 DEF AddsPayment
  <2>3. allocatedTo(s, Append(ps, new)) = allocatedTo(s, ps) - paidTo(s, ps[p])
    BY <1>2, <2>1, <2>2, AllocatedReverse
  <2>4. paidTo(s, ps[p]) = paidTo(s, new)
    BY <2>2 DEF paidTo
  <2> QED
    BY <1>1, <1>3, <1>5, <2>3, <2>4
<1> QED
  BY <1>4, <1>5

\* A step that adds a payment, and refreshes what it touches, keeps IInv.
LEMMA AddsPaymentInv ==
  ASSUME IInv, NEW new, NEW entry, AddsPayment(new, entry)
  PROVE  IInv'
<1>1. ledger' \in Seq(Entry) /\ Extends(ledger', ledger) /\ payment' \in Seq(Payment)
  BY AddsPaymentFacts
<1>2. /\ DOMAIN period' = DOMAIN period
      /\ line' = line /\ now' = now /\ job' = job
  BY DEF AddsPayment
<1>3. LedgerInv' /\ PaymentInv'
  BY AddsPaymentLedgerInv, AddsPaymentPaymentInv
<1>4. line' \subseteq [entry: 1 .. Len(ledger'), period: DOMAIN period']
  <2>1. line \subseteq [entry: 1 .. Len(ledger), period: DOMAIN period]
    BY DEF IInv, TypeOK
  <2>2. Len(ledger) \in Nat /\ Len(ledger') = Len(ledger) + 1
    BY StateFacts, AddsPaymentFacts
  <2> QED
    BY <1>2, <2>1, <2>2
<1>5. LinesOver(ledger', line')
  <2>1. DOMAIN ledger' = 1 .. Len(ledger')
    BY <1>1
  <2> QED
    BY <1>4, <2>1 DEF LinesOver
<1>6. PICK e, l, ps : e = ledger' /\ l = line' /\ ps = payment'
  OBVIOUS
<1>7. /\ e \in Seq(Entry) /\ LinesOver(e, l) /\ ps \in Seq(Payment)
      /\ FiniteAllocations(ps)
      /\ \A i \in DOMAIN e : e[i].type = "WAIVER" => e[i].amount <= 0
  <2>1. FiniteAllocations(ps)
    BY <1>3, <1>6 DEF PaymentInv, AllocationsInv, AllocatedWhole, FiniteAllocations
  <2>2. \A i \in DOMAIN e : e[i].type = "WAIVER" => e[i].amount <= 0
    BY <1>3, <1>6 DEF LedgerInv, WaiversCredit
  <2> QED
    BY <1>1, <1>5, <1>6, <2>1, <2>2
<1>8. ASSUME NEW s \in DOMAIN period'
      PROVE  \/ Kept(s)
             \/ period'[s] \in Row /\ RowIs(period'[s], s, ledger', line', payment')
  <2>1. CASE s \in touched(new.allocations)
    <3>1. period'[s] = refreshed(s, FALSE, e, l, ps)
      BY <1>2, <1>6, <2>1 DEF AddsPayment
    <3>2. /\ refreshed(s, FALSE, e, l, ps) \in Row
          /\ RowIs(refreshed(s, FALSE, e, l, ps), s, e, l, ps)
      BY <1>7, RefreshedRow
    <3> QED
      BY <1>6, <3>1, <3>2
  <2>2. CASE s \notin touched(new.allocations)
    <3>1. s \in DOMAIN period /\ period'[s] = period[s]
      BY <1>2, <2>2 DEF AddsPayment
    <3>2. paidTo(s, new) = 0
      BY <2>2, PaidToOthers
    <3>3. allocatedTo(s, payment) \in Nat
      BY StateFacts, AllocatedTyped
    <3>4. allocatedTo(s, payment') = allocatedTo(s, payment)
      BY <3>2, <3>3, AddsPaymentAllocated
    <3> QED
      BY <1>2, <3>1, <3>4 DEF Kept
  <2> QED
    BY <2>1, <2>2
<1>9. ProjectionIsRebuildable' /\ \A s \in DOMAIN period' : period'[s] \in Row
  BY <1>1, <1>8, RowsStep
<1>10. TypeOK'
  <2>1. DOMAIN period' \subseteq Int /\ now' \in Nat /\ job' \in [at: Nat, todo: SUBSET Order]
    BY <1>2 DEF IInv, TypeOK
  <2> QED
    BY <1>1, <1>4, <1>9, <2>1 DEF TypeOK
<1>11. IsFiniteSet(DOMAIN period')
  BY <1>2 DEF IInv
<1> QED
  BY <1>3, <1>9, <1>10, <1>11 DEF IInv

\* A payment is taken back (reverseExternalPayment).
LEMMA ReversePaymentInv ==
  ASSUME IInv, NEW p \in DOMAIN payment, ReversePayment(p)
  PROVE  IInv'
<1>1. PICK ps, old, n : ps = payment /\ old = payment[p] /\ n = Len(ledger) + 1
  OBVIOUS
<1>2. ps \in Seq(Payment) /\ old \in Payment /\ n \in Nat /\ p \in Nat /\ p # None
  BY <1>1, StateFacts DEF None
<1>3. PICK new : new = [old EXCEPT !.reverses = p, !.entry = n]
  OBVIOUS
<1>4. /\ new \in Payment
      /\ new.amount = old.amount /\ new.allocations = old.allocations
      /\ new.reverses = p /\ new.entry = n
  BY <1>2, <1>3 DEF Payment
<1>5. PICK entry : entry = [type |-> "REVERSAL", amount |-> old.amount, at |-> now,
                            orders |-> {}, reverses |-> old.entry]
  OBVIOUS
<1>6. entry \in Entry
  <2>1. old.amount \in Nat /\ old.entry \in Nat
    BY <1>2 DEF Payment
  <2> QED
    BY <1>5, <2>1, JobTyped DEF Entry, EntryType
<1>7. /\ p \in activePayments(payment)
      /\ payment' = Append(payment, new)
      /\ ledger' = Append(ledger, entry)
      /\ RefreshAllocated(old.allocations)
      /\ line' = line /\ now' = now /\ job' = job
  BY <1>1, <1>3, <1>5 DEF ReversePayment
<1>8. AllocatedWhole(old, DOMAIN period)
  BY <1>1 DEF IInv, PaymentInv, AllocationsInv
<1>9. AllocatedWhole(new, DOMAIN period)
  BY <1>4, <1>8 DEF AllocatedWhole
<1>10. touched(new.allocations) \subseteq DOMAIN period
  BY <1>9 DEF AllocatedWhole
<1>11. /\ DOMAIN period' = DOMAIN period
       /\ \A s \in DOMAIN period :
             period'[s] = IF s \in touched(new.allocations)
                          THEN refreshed(s, FALSE, ledger', line', payment')
                          ELSE period[s]
  BY <1>4, <1>7, <1>10 DEF RefreshAllocated, Store
<1>12. AddsPayment(new, entry)
  BY <1>1, <1>4, <1>5, <1>6, <1>7, <1>9, <1>11 DEF AddsPayment
<1> QED
  BY <1>12, AddsPaymentInv

-----------------------------------------------------------------------------
(* Allocating a payment to the oldest periods.                             *)

\* A finite set of integers has a largest one.
LEMMA LargestOf ==
  ASSUME NEW S \in SUBSET Int, IsFiniteSet(S), S # {}
  PROVE  \E m \in S : \A x \in S : x <= m
<1> DEFINE P == {s \in SUBSET S : s # {} /\ ~\E m \in s : \A x \in s : x <= m}
<1>1. ASSUME P # {} PROVE FALSE
  <2>1. PICK s \in P : \A t \in P : Cardinality(t) >= Cardinality(s)
    BY <1>1, LeastSet
  <2>2. IsFiniteSet(s) /\ Cardinality(s) \in Nat /\ s # {}
    BY FS_Subset, FS_CardinalityType
  <2>3. PICK x \in s : TRUE
    BY <2>2
  <2>4. Cardinality(s \ {x}) = Cardinality(s) - 1
    BY <2>2, FS_RemoveElement
  <2>5. s \ {x} \notin P
    <3> HIDE DEF P
    <3> QED
      BY <2>1, <2>2, <2>4
  <2>6. CASE s \ {x} = {}
    BY <2>6
  <2>7. CASE s \ {x} # {}
    <3>1. PICK y \in s \ {x} : \A z \in s \ {x} : z <= y
      BY <2>5, <2>7
    <3>2. x \in Int /\ y \in Int /\ \A z \in s : z \in Int
      OBVIOUS
    <3>3. CASE x <= y
      <4>1. \A z \in s : z <= y
        BY <3>1, <3>3
      <4> QED
        BY <4>1
    <3>4. CASE y <= x
      <4>1. \A z \in s : z <= x
        BY <3>1, <3>2, <3>4
      <4> QED
        BY <4>1
    <3> QED
      BY <3>2, <3>3, <3>4
  <2> QED
    BY <2>6, <2>7
<1>2. S \notin P
  BY <1>1
<1> QED
  BY <1>2

\* What the rows of the periods say is still owed, and a payment's shares.
dues == [s \in DOMAIN period |-> period[s].remaining]
allocated(amount) == [s \in DOMAIN period |-> allocation(amount, s)]

\* Periods that owe something.
LEMMA OutstandingFacts ==
  ASSUME IInv
  PROVE  /\ outstanding \subseteq DOMAIN period /\ outstanding \subseteq Int
         /\ IsFiniteSet(outstanding)
         /\ \A s \in DOMAIN period : dues[s] = period[s].remaining /\ dues[s] \in Nat
         /\ \A s \in outstanding : dues[s] > 0
<1>1. outstanding \subseteq DOMAIN period
  BY DEF outstanding
<1>2. DOMAIN period \subseteq Int /\ IsFiniteSet(DOMAIN period)
  BY DEF IInv, TypeOK
<1>3. IsFiniteSet(outstanding)
  BY <1>1, <1>2, FS_Subset
<1>4. \A s \in DOMAIN period : period[s].remaining \in Nat
  BY DEF IInv, TypeOK, Row
<1>5. \A s \in outstanding : dues[s] > 0
  BY <1>1 DEF outstanding, dues
<1> QED
  BY <1>1, <1>2, <1>3, <1>4, <1>5 DEF dues

\* What some periods owe together is a total.
LEMMA OwedOnIs ==
  ASSUME IInv, NEW starts \in SUBSET DOMAIN period
  PROVE  owedOn(starts) = Total(dues, starts) /\ owedOn(starts) \in Nat
<1>1. IsFiniteSet(starts)
  BY FS_Subset DEF IInv
<1>2. PICK f, g : f = [s \in starts |-> period[s].remaining] /\ g = dues
  OBVIOUS
<1>3. DOMAIN f = starts
  BY <1>2
<1>4. \A s \in starts : f[s] = g[s] /\ g[s] \in Nat
  BY <1>2, OutstandingFacts
<1>5. Total(f, starts) = Total(g, starts)
  BY <1>1, <1>4, TotalSame
<1>6. Total(g, starts) \in Nat
  BY <1>1, <1>4, TotalTyped
<1>7. owedOn(starts) = SumFunctionOnSet(f, DOMAIN f)
  BY <1>2 DEF owedOn, SumFunction
<1> QED
  BY <1>2, <1>3, <1>5, <1>6, <1>7 DEF Total

\* What one period gets of an amount, when the older ones owe the sum of them.
share(amount, older, due) ==
    IF amount - older <= 0 THEN 0
    ELSE IF amount - older < due THEN amount - older ELSE due

\* allocation, by what the older periods owe.
LEMMA AllocationIs ==
  ASSUME IInv, NEW amount, NEW s \in outstanding
  PROVE  allocation(amount, s)
           = share(amount, Total(dues, {t \in outstanding : t < s}), dues[s])
<1>1. PICK older : older = {t \in outstanding : t < s}
  OBVIOUS
<1>2. older \in SUBSET DOMAIN period /\ s \in DOMAIN period
  BY <1>1, OutstandingFacts
<1>3. owedOn(older) = Total(dues, older)
  BY <1>2, OwedOnIs
<1>4. dues[s] = period[s].remaining
  BY <1>2 DEF dues
<1> QED
  BY <1>1, <1>3, <1>4 DEF allocation, share

lesser(m, n) == IF m < n THEN m ELSE n

\* The oldest periods together get all of the amount, or all they are owed.
LEMMA OldestTogether ==
  ASSUME IInv, NEW amount \in Nat
  PROVE  /\ \A s \in outstanding : allocation(amount, s) \in Nat
         /\ Total(allocated(amount), outstanding) = lesser(amount, Total(dues, outstanding))
<1>1. PICK O, f, d : O = outstanding /\ f = allocated(amount) /\ d = dues
  OBVIOUS
<1>2. /\ O \in SUBSET Int /\ IsFiniteSet(O) /\ \A s \in O : d[s] \in Nat
      /\ O \subseteq DOMAIN period
  BY <1>1, OutstandingFacts
<1>3. ASSUME NEW D \in SUBSET O PROVE IsFiniteSet(D) /\ Total(d, D) \in Nat
  <2>1. IsFiniteSet(D) /\ \A s \in D : d[s] \in Nat
    BY <1>2, FS_Subset
  <2> QED
    BY <2>1, TotalTyped
<1>4. ASSUME NEW s \in O
      PROVE  f[s] = share(amount, Total(d, {t \in O : t < s}), d[s]) /\ f[s] \in Nat
  <2>1. f[s] = allocation(amount, s)
    BY <1>1, <1>2 DEF allocated
  <2>2. f[s] = share(amount, Total(d, {t \in O : t < s}), d[s])
    BY <1>1, <2>1, AllocationIs
  <2>3. PICK older : older = Total(d, {t \in O : t < s})
    OBVIOUS
  <2>4. older \in Nat
    BY <1>3, <2>3
  <2>5. d[s] \in Nat
    BY <1>2
  <2>6. share(amount, older, d[s]) \in Nat
    BY <2>4, <2>5 DEF share
  <2> QED
    BY <2>2, <2>3, <2>6
<1> DEFINE closed(D) == \A s \in D : \A t \in O : t < s => t \in D
           P == {D \in SUBSET O : closed(D) /\ Total(f, D) # lesser(amount, Total(d, D))}
<1>5. ASSUME P # {} PROVE FALSE
  <2>1. PICK D \in P : \A r \in P : Cardinality(r) >= Cardinality(D)
    BY <1>2, <1>5, LeastSet
  <2>2. IsFiniteSet(D) /\ Cardinality(D) \in Nat /\ D \in SUBSET O /\ closed(D)
    BY <1>3, FS_CardinalityType
  <2>3. Total(f, D) # lesser(amount, Total(d, D))
    BY <2>1
  <2>4. D # {}
    <3>1. Total(f, {}) = 0 /\ Total(d, {}) = 0
      BY TotalEmpty
    <3>2. lesser(amount, 0) = 0
      BY DEF lesser
    <3> HIDE DEF P, closed
    <3> QED
      BY <2>3, <3>1, <3>2
  <2>5. PICK m \in D : \A x \in D : x <= m
    BY <1>2, <2>2, <2>4, LargestOf
  <2>6. PICK r : r = D \ {m}
    OBVIOUS
  <2>7. IsFiniteSet(r) /\ Cardinality(r) = Cardinality(D) - 1 /\ r \in SUBSET O
    BY <2>2, <2>6, FS_RemoveElement
  <2>8. \A x \in D : x \in Int
    BY <1>2, <2>2
  <2>9. closed(r)
    <3> SUFFICES ASSUME NEW s \in r, NEW t \in O, t < s PROVE t \in r
      OBVIOUS
    <3>1. t \in D /\ s \in D
      BY <2>2, <2>6
    <3>2. s <= m /\ s \in Int /\ t \in Int /\ m \in Int
      BY <2>5, <2>8, <3>1
    <3>3. t # m
      BY <3>2
    <3> QED
      BY <2>6, <3>1, <3>3
  <2>10. r \notin P
    <3> HIDE DEF P, closed
    <3> QED
      BY <2>1, <2>2, <2>7
  <2>11. Total(f, r) = lesser(amount, Total(d, r))
    BY <2>7, <2>9, <2>10
  <2>12. {t \in O : t < m} = r
    <3>1. ASSUME NEW t \in O, t < m PROVE t \in r
      <4>1. t \in D /\ t \in Int /\ m \in Int
        BY <2>2, <2>8, <3>1
      <4> QED
        BY <2>6, <3>1, <4>1
    <3>2. ASSUME NEW t \in r PROVE t \in O /\ t < m
      <4>1. t \in D /\ t # m /\ t \in O
        BY <2>2, <2>6
      <4>2. t <= m /\ t \in Int /\ m \in Int
        BY <2>5, <2>8, <4>1
      <4> QED
        BY <4>1, <4>2
    <3> HIDE DEF P, closed
    <3> QED
      BY <3>1, <3>2
  <2> HIDE DEF P, closed
  <2>13. PICK older : older = Total(d, r)
    OBVIOUS
  <2>14. m \in O /\ f[m] = share(amount, older, d[m])
    BY Zenon, <1>4, <2>2, <2>5, <2>12, <2>13
  <2>15. Total(f, D) = f[m] + Total(f, r)
    <3>1. \A x \in D : f[x] \in Int
      <4>1. \A x \in O : f[x] \in Nat
        BY Zenon, <1>4
      <4> QED
        BY <2>2, <4>1
    <3> QED
      BY <2>2, <2>6, <3>1, TotalRemove
  <2>16. Total(d, D) = d[m] + older
    <3>1. \A x \in D : d[x] \in Int
      BY <1>2, <2>2
    <3> QED
      BY <2>2, <2>6, <2>13, <3>1, TotalRemove
  <2>17. older \in Nat /\ d[m] \in Nat
    BY <1>2, <1>3, <2>7, <2>13, <2>14
  <2>18. PICK due : due = d[m]
    OBVIOUS
  <2>19. share(amount, older, due) + lesser(amount, older) = lesser(amount, due + older)
    BY <2>17, <2>18 DEF share, lesser
  <2> QED
    BY <2>3, <2>11, <2>13, <2>14, <2>15, <2>16, <2>18, <2>19
<1>6. closed(O)
  OBVIOUS
<1>7. O \notin P
  BY <1>5
<1>8. Total(f, O) = lesser(amount, Total(d, O))
  BY <1>6, <1>7
<1>9. \A s \in O : allocation(amount, s) \in Nat
  BY <1>1, <1>2, <1>4 DEF allocated
<1> QED
  BY <1>1, <1>8, <1>9

\* The allocations of a payment that is not refused add up to it.
LEMMA AllocationsAreWhole ==
  ASSUME IInv, NEW amount \in Nat, amount <= owedOn(outstanding)
  PROVE  /\ totalAllocated(allocateOldestSettlements(amount)) = amount
         /\ IsFiniteSet(allocateOldestSettlements(amount))
         /\ allocateOldestSettlements(amount) \subseteq [period: Int, amount: Nat]
         /\ touched(allocateOldestSettlements(amount)) \subseteq DOMAIN period
<1>1. PICK O, f, A : /\ O = outstanding /\ f = allocated(amount)
                     /\ A = allocateOldestSettlements(amount)
  OBVIOUS
<1>2. IsFiniteSet(O) /\ O \subseteq DOMAIN period /\ O \subseteq Int
  BY <1>1, OutstandingFacts
<1>3. \A s \in O : f[s] = allocation(amount, s) /\ f[s] \in Nat
  BY <1>1, <1>2, OldestTogether DEF allocated
<1>4. PICK B, C : B = {s \in O : f[s] > 0} /\ C = O \ B
  OBVIOUS
<1>5. /\ IsFiniteSet(B) /\ IsFiniteSet(C) /\ B \subseteq O
      /\ B \cap C = {} /\ B \cup C = O
  BY <1>2, <1>4, FS_Subset
<1>6. \A s \in B : f[s] \in Nat /\ f[s] > 0
  BY <1>3, <1>4
<1>7. \A s \in C : f[s] = 0
  <2> SUFFICES ASSUME NEW s \in C PROVE f[s] = 0
    OBVIOUS
  <2>1. s \in O /\ ~(f[s] > 0)
    BY <1>4
  <2>2. f[s] \in Nat
    BY <1>3, <2>1
  <2> QED
    BY <2>1, <2>2
<1>8. Total(f, O) = Total(f, B)
  <2>1. \A s \in B \cup C : f[s] \in Int
    BY <1>6, <1>7
  <2>2. Total(f, B \cup C) = Total(f, B) + Total(f, C)
    BY <1>5, <2>1, TotalUnion
  <2>3. Total(f, C) = 0
    BY <1>5, <1>7, TotalZero
  <2>4. Total(f, B) \in Int
    BY <1>5, <1>6, TotalTyped
  <2>5. Total(f, O) = Total(f, B) + Total(f, C)
    BY Zenon, <1>5, <2>2
  <2> QED
    BY <2>3, <2>4, <2>5
<1>9. Total(f, O) = amount
  <2>1. owedOn(outstanding) = Total(dues, outstanding) /\ owedOn(outstanding) \in Nat
    BY <1>1, <1>2, OwedOnIs
  <2>2. Total(f, O) = lesser(amount, Total(dues, outstanding))
    BY <1>1, OldestTogether
  <2> QED
    BY <2>1, <2>2 DEF lesser
<1>10. PICK k : k = [s \in B |-> [period |-> s, amount |-> f[s]]]
  OBVIOUS
<1>11. A = {k[s] : s \in B}
  <2>1. A = {[period |-> s, amount |-> allocation(amount, s)] :
                s \in {t \in O : allocation(amount, t) > 0}}
    BY <1>1 DEF allocateOldestSettlements
  <2>2. {t \in O : allocation(amount, t) > 0} = B
    BY <1>3, <1>4
  <2>3. \A s \in B : k[s] = [period |-> s, amount |-> allocation(amount, s)]
    BY <1>3, <1>5, <1>10
  <2>4. A = {[period |-> s, amount |-> allocation(amount, s)] : s \in B}
    BY Zenon, <2>1, <2>2
  <2> QED
    BY <2>3, <2>4
<1>12. \A s \in B : k[s].period = s /\ k[s].amount = f[s] /\ k[s] \in A
  BY <1>10, <1>11
<1>13. PICK g : g = shares(A)
  OBVIOUS
<1>14. \A s \in B : f[s] \in Int /\ g[k[s]] = f[s]
  BY <1>6, <1>12, <1>13 DEF shares
<1>15. \A s, t \in B : k[s] = k[t] => s = t
  BY <1>12
<1>16. Total(f, B) = Total(g, {k[s] : s \in B})
  BY <1>5, <1>14, <1>15, TotalRenamed
<1>17. totalAllocated(A) = amount
  BY <1>8, <1>9, <1>11, <1>13, <1>16, TotalAllocatedIs
<1>18. IsFiniteSet(A)
  <2>1. k \in Surjection(B, A)
    BY <1>10, <1>11 DEF Surjection
  <2> QED
    BY <1>5, <2>1, FS_Surjection
<1>19. \A a \in A : a.period \in O /\ a \in [period: Int, amount: Nat]
  <2>1. \A s \in B : k[s] \in [period: Int, amount: Nat] /\ k[s].period \in O
    BY <1>2, <1>5, <1>6, <1>10
  <2> QED
    BY <1>11, <2>1
<1>20. touched(A) \subseteq DOMAIN period
  BY <1>2, <1>19 DEF touched
<1> QED
  BY <1>1, <1>17, <1>18, <1>19, <1>20

\* RecordPayment adds a payment that is allocated to the last piastre.
LEMMA RecordPaymentAdds ==
  ASSUME IInv, NEW amount \in Amount, NEW paidAt \in 0 .. now, RecordPayment(amount, paidAt)
  PROVE  \E new, entry : /\ AddsPayment(new, entry)
                         /\ new.reverses = None /\ new.amount = amount
                         /\ new.allocations = allocateOldestSettlements(amount)
<1>1. PICK A, n : A = allocateOldestSettlements(amount) /\ n = Len(ledger) + 1
  OBVIOUS
<1>2. amount \in Nat /\ -amount \in Int /\ amount \in Int
  BY AmountAssumption
<1>3. amount <= owedOn(outstanding)
  BY DEF RecordPayment
<1>4. /\ totalAllocated(A) = amount
      /\ IsFiniteSet(A)
      /\ A \subseteq [period: Int, amount: Nat]
      /\ touched(A) \subseteq DOMAIN period
  BY <1>1, <1>2, <1>3, AllocationsAreWhole
<1>5. PICK new : new = [amount |-> amount, reverses |-> None, allocations |-> A, entry |-> n]
  OBVIOUS
<1>6. PICK entry : entry = [type |-> "EXTERNAL_PAYMENT", amount |-> -amount, at |-> paidAt,
                            orders |-> {}, reverses |-> None]
  OBVIOUS
<1>7. new \in Payment
  BY <1>1, <1>2, <1>4, <1>5, StateFacts DEF Payment, None
<1>8. entry \in Entry
  BY <1>2, <1>6, JobTyped DEF Entry, EntryType, None
<1>9. /\ payment' = Append(payment, new)
      /\ ledger' = Append(ledger, entry)
      /\ RefreshAllocated(A)
      /\ line' = line /\ now' = now /\ job' = job
  BY <1>1, <1>5, <1>6 DEF RecordPayment
<1>10. /\ DOMAIN period' = DOMAIN period
       /\ \A s \in DOMAIN period :
             period'[s] = IF s \in touched(A)
                          THEN refreshed(s, FALSE, ledger', line', payment')
                          ELSE period[s]
  BY <1>4, <1>9 DEF RefreshAllocated, Store
<1>11. AllocatedWhole(new, DOMAIN period)
  BY <1>4, <1>5 DEF AllocatedWhole
<1>12. AddsPayment(new, entry)
  BY <1>1, <1>5, <1>6, <1>7, <1>8, <1>9, <1>10, <1>11 DEF AddsPayment
<1> QED
  BY <1>1, <1>5, <1>12

\* A payment is recorded (recordExternalPaymentInTransaction).
LEMMA RecordPaymentInv ==
  ASSUME IInv, NEW amount \in Amount, NEW paidAt \in 0 .. now, RecordPayment(amount, paidAt)
  PROVE  IInv'
BY RecordPaymentAdds, AddsPaymentInv

-----------------------------------------------------------------------------
(* The other steps.                                                        *)

\* A period is closed, with the entries of its week that were on no line.
LEMMA CloseInv == ASSUME IInv, NEW start \in DOMAIN period, Close(start) PROVE IInv'
<1>1. PICK added : added = {[entry |-> i, period |-> start] : i \in missing(start)}
  OBVIOUS
<1>2. /\ line' = line \cup added
      /\ ledger' = ledger /\ payment' = payment /\ now' = now /\ job' = job
  BY <1>1 DEF Close
<1>3. PICK rows : rows = [s \in {start} |-> refreshed(s, FALSE, ledger, line', payment)]
  OBVIOUS
<1>4. Store(rows) /\ DOMAIN rows = {start}
      /\ rows[start] = refreshed(start, FALSE, ledger, line', payment)
  BY <1>3 DEF Close
<1>5. /\ DOMAIN period' = DOMAIN period
      /\ period'[start] = refreshed(start, FALSE, ledger, line', payment)
      /\ \A s \in DOMAIN period : s # start => period'[s] = period[s]
  BY <1>4, StoreOne
<1>6. \A x \in added : /\ x.entry \in DOMAIN ledger /\ x.period = start
                       /\ x.entry \in missing(start)
                       /\ x = [entry |-> x.entry, period |-> start]
  BY <1>1 DEF missing
<1>7. line' \subseteq [entry: 1 .. Len(ledger), period: DOMAIN period]
  <2>1. line \subseteq [entry: 1 .. Len(ledger), period: DOMAIN period]
    BY DEF IInv, TypeOK
  <2>2. DOMAIN ledger = 1 .. Len(ledger)
    BY StateFacts
  <2>3. added \subseteq [entry: 1 .. Len(ledger), period: DOMAIN period]
    BY <1>6, <2>2
  <2> QED
    BY <1>2, <2>1, <2>3
<1>8. LinesOver(ledger, line')
  BY <1>7, StateFacts DEF LinesOver
<1>9. LinesOnce'
  <2>1. \A l, m \in line : l.entry = m.entry => l = m
    BY DEF IInv, LedgerInv, LinesOnce
  <2>2. \A x \in added : \A l \in line : l.entry # x.entry
    BY <1>6 DEF missing
  <2>3. \A x, y \in added : x.entry = y.entry => x = y
    BY <1>6
  <2>4. \A l, m \in line' : l.entry = m.entry => l = m
    BY <1>2, <2>1, <2>2, <2>3
  <2> QED
    BY <2>4 DEF LinesOnce
<1>10. EntriesHavePlace'
  <2>1. ASSUME NEW i \in DOMAIN ledger
        PROVE  /\ onLine(i)' \/ paysFor(i)'
               /\ ledger[i].type = "EXTERNAL_PAYMENT" => paysFor(i)'
    <3>1. /\ onLine(i) \/ paysFor(i)
          /\ ledger[i].type = "EXTERNAL_PAYMENT" => paysFor(i)
      BY DEF IInv, LedgerInv, EntriesHavePlace
    <3>2. onLine(i) => onLine(i)'
      BY <1>2 DEF onLine
    <3>3. paysFor(i) => paysFor(i)'
      BY <1>2 DEF paysFor
    <3> QED
      BY <3>1, <3>2, <3>3
  <2> QED
    BY <1>2, <2>1 DEF EntriesHavePlace
<1>11. LedgerInv'
  <2>1. CommissionsOnce' /\ WaiversCredit'
    BY <1>2 DEF IInv, LedgerInv, CommissionsOnce, WaiversCredit
  <2> QED
    BY <1>9, <1>10, <2>1 DEF LedgerInv
<1>12. Extends(ledger', ledger) /\ ledger' \in Seq(Entry)
  BY <1>2, StateFacts DEF Extends
<1>13. PaymentInv'
  BY <1>2, <1>5, <1>12, PaymentsKept
<1>14. ASSUME NEW s \in DOMAIN period'
       PROVE  \/ Kept(s)
              \/ period'[s] \in Row /\ RowIs(period'[s], s, ledger', line', payment')
  <2>1. CASE s = start
    <3>1. PICK e, l, p : e = ledger /\ l = line' /\ p = payment
      OBVIOUS
    <3>2. e \in Seq(Entry) /\ LinesOver(e, l) /\ p \in Seq(Payment) /\ FiniteAllocations(p)
      BY <1>8, <3>1, StateFacts
    <3>3. \A i \in DOMAIN e : e[i].type = "WAIVER" => e[i].amount <= 0
      BY <3>1 DEF IInv, LedgerInv, WaiversCredit
    <3>4. /\ refreshed(start, FALSE, e, l, p) \in Row
          /\ RowIs(refreshed(start, FALSE, e, l, p), start, e, l, p)
      BY <3>2, <3>3, RefreshedRow
    <3> QED
      BY <1>2, <1>5, <2>1, <3>1, <3>4
  <2>2. CASE s # start
    <3>1. s \in DOMAIN period /\ period'[s] = period[s]
      BY <1>5, <2>2
    <3>2. {m \in line' : m.period = s} = {m \in line : m.period = s}
      BY <1>2, <1>6, <2>2
    <3>3. allocatedTo(s, payment') = allocatedTo(s, payment)
      BY <1>2
    <3> QED
      BY <3>1, <3>2, <3>3 DEF Kept
  <2> QED
    BY <2>1, <2>2
<1>15. ProjectionIsRebuildable' /\ \A s \in DOMAIN period' : period'[s] \in Row
  BY <1>12, <1>14, RowsStep
<1>16. TypeOK'
  BY <1>2, <1>5, <1>7, <1>15 DEF IInv, TypeOK
<1>17. IsFiniteSet(DOMAIN period')
  BY <1>5 DEF IInv
<1> QED
  BY <1>11, <1>13, <1>15, <1>16, <1>17 DEF IInv

\* The worker marks rows OVERDUE and leaves their totals.
LEMMA MarkOverdueInv == ASSUME IInv, MarkOverdue PROVE IInv'
<1>1. /\ ledger' = ledger /\ line' = line /\ payment' = payment
      /\ now' = now /\ job' = job /\ DOMAIN period' = DOMAIN period
  BY DEF MarkOverdue
<1>2. ASSUME NEW s \in DOMAIN period
      PROVE  period'[s] \in Row /\ RowIs(period'[s], s, ledger, line, payment)
  <2>1. PICK r, t : r = period[s] /\ t = projection(s, ledger, line, payment)
    OBVIOUS
  <2>2. r \in Row /\ r = withStatus(t, r.status)
    BY <2>1, RowsAre DEF IInv, TypeOK, RowIs
  <2>3. period'[s] = r \/ period'[s] = [r EXCEPT !.status = "OVERDUE"]
    BY <2>1 DEF MarkOverdue
  <2>4. PICK x : x = [r EXCEPT !.status = "OVERDUE"]
    OBVIOUS
  <2>5. x \in Row
    BY <2>2, <2>4 DEF Row, Status
  <2>6. x = withStatus(t, x.status)
    BY <2>2, <2>4 DEF withStatus
  <2> QED
    BY <2>1, <2>2, <2>3, <2>4, <2>5, <2>6 DEF RowIs
<1>3. ProjectionIsRebuildable'
  BY <1>1, <1>2 DEF ProjectionIsRebuildable, RowIs
<1>4. TypeOK'
  BY <1>1, <1>2 DEF IInv, TypeOK
<1>5. LedgerInv'
  BY <1>1 DEF IInv, LedgerInv, LinesOnce, CommissionsOnce, WaiversCredit,
              EntriesHavePlace, onLine, paysFor
<1>6. PaymentInv'
  BY <1>1, PaymentsKept DEF Extends
<1> QED
  BY <1>1, <1>3, <1>4, <1>5, <1>6 DEF IInv

\* Steps that touch neither rows nor payments.
LEMMA RestInv ==
  ASSUME IInv, UNCHANGED <<ledger, line, period, payment>>,
         now' \in Nat, job' \in [at: Nat, todo: SUBSET Order]
  PROVE  IInv'
<1>1. TypeOK'
  BY DEF IInv, TypeOK
<1>2. ProjectionIsRebuildable'
  BY DEF IInv, ProjectionIsRebuildable
<1>3. LedgerInv'
  BY DEF IInv, LedgerInv, LinesOnce, CommissionsOnce, WaiversCredit,
         EntriesHavePlace, onLine, paysFor
<1>4. PaymentInv'
  BY PaymentsKept DEF Extends
<1>5. IsFiniteSet(DOMAIN period')
  BY DEF IInv
<1> QED
  BY <1>1, <1>2, <1>3, <1>4, <1>5 DEF IInv

\* An empty account.
LEMMA InitInv == Init => IInv
<1> SUFFICES ASSUME Init PROVE IInv
  OBVIOUS
<1>1. /\ ledger = <<>> /\ payment = <<>> /\ line = {} /\ now = 0 /\ job = NoJob
      /\ DOMAIN period = {}
  BY DEF Init
<1>2. TypeOK
  <2>1. job \in [at: Nat, todo: SUBSET Order]
    BY <1>1 DEF NoJob
  <2> QED
    BY <1>1, <2>1 DEF TypeOK
<1>3. IsFiniteSet(DOMAIN period)
  BY <1>1, FS_EmptySet
<1>4. ProjectionIsRebuildable
  BY <1>1 DEF ProjectionIsRebuildable
<1>5. LedgerInv
  BY <1>1 DEF LedgerInv, LinesOnce, CommissionsOnce, WaiversCredit, EntriesHavePlace
<1>6. PaymentInv
  BY <1>1 DEF PaymentInv, PaymentsEntered, ReversedOnce, AllocationsInv
<1> QED
  BY <1>2, <1>3, <1>4, <1>5, <1>6 DEF IInv

\* Every step keeps IInv.
LEMMA StepInv == IInv /\ [Next]_vars => IInv'
<1> SUFFICES ASSUME IInv, [Next]_vars PROVE IInv'
  OBVIOUS
<1>1. ASSUME NEW o \in Order, Finalize(o) PROVE IInv'
  BY <1>1, FinalizeInv
<1>2. ASSUME NEW o \in Order, WorkerComplete(o) PROVE IInv'
  BY <1>2, WorkerCompleteInv
<1>3. ASSUME NEW o \in Order, WorkerSkip(o) PROVE IInv'
  <2>1. job' \in [at: Nat, todo: SUBSET Order]
    BY <1>3, DropTyped DEF WorkerSkip
  <2>2. now' \in Nat /\ UNCHANGED <<ledger, line, period, payment>>
    BY <1>3, JobTyped DEF WorkerSkip
  <2> QED
    BY <2>1, <2>2, RestInv
<1>4. ASSUME NEW todo \in SUBSET Order, StartCompletion(todo) PROVE IInv'
  <2>1. job' \in [at: Nat, todo: SUBSET Order]
    BY <1>4, JobTyped DEF StartCompletion
  <2>2. now' \in Nat /\ UNCHANGED <<ledger, line, period, payment>>
    BY <1>4, JobTyped DEF StartCompletion
  <2> QED
    BY <2>1, <2>2, RestInv
<1>5. CASE WorkerFail
  <2>1. job' \in [at: Nat, todo: SUBSET Order]
    BY <1>5 DEF WorkerFail, NoJob
  <2>2. now' \in Nat /\ UNCHANGED <<ledger, line, period, payment>>
    BY <1>5, JobTyped DEF WorkerFail
  <2> QED
    BY <2>1, <2>2, RestInv
<1>6. ASSUME NEW start \in DOMAIN period, Close(start) PROVE IInv'
  BY <1>6, CloseInv
<1>7. ASSUME NEW start \in DOMAIN period, CreateAdjustment(start) PROVE IInv'
  BY <1>7, CreateAdjustmentInv
<1>8. CASE MarkOverdue
  BY <1>8, MarkOverdueInv
<1>9. ASSUME NEW amount \in Amount, NEW paidAt \in 0 .. now, RecordPayment(amount, paidAt)
      PROVE  IInv'
  BY <1>9, RecordPaymentInv
<1>10. ASSUME NEW p \in DOMAIN payment, ReversePayment(p) PROVE IInv'
  BY <1>10, ReversePaymentInv
<1>11. CASE Tick
  <2>1. now' \in Nat /\ job' \in [at: Nat, todo: SUBSET Order]
    BY <1>11, JobTyped DEF Tick
  <2> QED
    BY <1>11, <2>1, RestInv DEF Tick
<1>12. CASE UNCHANGED vars
  <2>1. now' \in Nat /\ job' \in [at: Nat, todo: SUBSET Order]
    BY <1>12, JobTyped DEF vars
  <2> QED
    BY <1>12, <2>1, RestInv DEF vars
<1> QED
  BY <1>1, <1>2, <1>3, <1>4, <1>5, <1>6, <1>7, <1>8, <1>9, <1>10, <1>11, <1>12 DEF Next

\* IInv holds in every reachable state of a courier's account.
THEOREM InvariantHolds == Spec => []IInv
BY InitInv, StepInv, PTL DEF Spec

-----------------------------------------------------------------------------
(* Ledger and settlements.                                                 *)

BilledTypes == CommissionTypes \cup AdjustmentTypes \cup WaiverTypes

\* What the lines of one period bill, and what all of them do.
billedOn(s) == ids(s, ledger, line, BilledTypes)
billedEntries == {i \in DOMAIN ledger : onLine(i) /\ ledger[i].type # "EXTERNAL_PAYMENT"}

\* A row's balance is what it bills, less what was paid.
LEMMA NetIs ==
  ASSUME IInv, NEW s \in DOMAIN period
  PROVE  /\ IsFiniteSet(billedOn(s)) /\ billedOn(s) \subseteq DOMAIN ledger
         /\ allocatedTo(s, payment) \in Nat
         /\ net(period[s]) \in Int
         /\ Total(entryAmounts(ledger), billedOn(s))
              = net(period[s]) + allocatedTo(s, payment)
<1>1. PICK e, l, f : e = ledger /\ l = line /\ f = entryAmounts(ledger)
  OBVIOUS
<1>2. e \in Seq(Entry) /\ LinesOver(e, l)
  BY <1>1, StateFacts
<1>3. PICK C, A, W, B : /\ C = ids(s, e, l, CommissionTypes)
                        /\ A = ids(s, e, l, AdjustmentTypes)
                        /\ W = ids(s, e, l, WaiverTypes)
                        /\ B = ids(s, e, l, BilledTypes)
  OBVIOUS
<1>4. /\ IsFiniteSet(C) /\ IsFiniteSet(A) /\ IsFiniteSet(W) /\ IsFiniteSet(B)
      /\ C \subseteq DOMAIN e /\ A \subseteq DOMAIN e /\ W \subseteq DOMAIN e
      /\ B \subseteq DOMAIN e
  BY <1>2, <1>3, IdsFinite
<1>5. /\ \A i \in C : e[i].type \in CommissionTypes
      /\ \A i \in A : e[i].type \in AdjustmentTypes
      /\ \A i \in W : e[i].type \in WaiverTypes
  BY <1>3 DEF ids
<1>6. C \cap A = {} /\ (C \cup A) \cap W = {}
  BY <1>5 DEF CommissionTypes, AdjustmentTypes, WaiverTypes
<1>7. B = (C \cup A) \cup W
  BY <1>3 DEF ids, BilledTypes
<1>8. \A i \in DOMAIN e : f[i] \in Int
  BY <1>1, <1>2, EntryAmountsTyped
<1>9. IsFiniteSet(C \cup A)
  BY <1>4, FS_Union
<1>10. Total(f, C \cup A) = Total(f, C) + Total(f, A)
  <2>1. \A i \in C \cup A : f[i] \in Int
    BY <1>4, <1>8
  <2> QED
    BY <1>4, <1>6, <2>1, TotalUnion
<1>11. Total(f, (C \cup A) \cup W) = Total(f, C \cup A) + Total(f, W)
  <2>1. \A i \in (C \cup A) \cup W : f[i] \in Int
    BY <1>4, <1>8
  <2> QED
    BY <1>4, <1>6, <1>9, <2>1, TotalUnion
<1>12. Total(f, B) = Total(f, C \cup A) + Total(f, W)
  BY Zenon, <1>7, <1>11
<1>13. PICK c, a, w, b : /\ c = commissionSum(s, e, l) /\ a = adjustmentSum(s, e, l)
                         /\ w = waiverSum(s, e, l) /\ b = allocatedTo(s, payment)
  OBVIOUS
<1>14. c = Total(f, C) /\ a = Total(f, A) /\ w = Total(f, W)
  BY <1>1, <1>3, <1>13 DEF commissionSum, adjustmentSum, waiverSum, sumOf, Total
<1>15. c \in Int /\ a \in Int /\ w \in Int
  <2>1. /\ \A i \in C : f[i] \in Int
        /\ \A i \in A : f[i] \in Int
        /\ \A i \in W : f[i] \in Int
    BY <1>4, <1>8
  <2>2. Total(f, C) \in Int
    BY <1>4, <2>1, TotalTyped
  <2>3. Total(f, A) \in Int
    BY <1>4, <2>1, TotalTyped
  <2>4. Total(f, W) \in Int
    BY <1>4, <2>1, TotalTyped
  <2> QED
    BY <1>14, <2>2, <2>3, <2>4
<1>16. b \in Nat
  BY <1>13, StateFacts, AllocatedTyped
<1>17. PICK r : r = period[s]
  OBVIOUS
<1>18. r.commission = c /\ r.adjustments = a /\ r.waived = -w /\ r.payments = b
  BY <1>1, <1>13, <1>17, RowsAre, ProjectionFields DEF IInv, RowIs, withStatus
<1>19. net(r) = c + a - (-w) - b
  BY <1>18 DEF net
<1>20. c + a - (-w) - b \in Int /\ (c + a) + w = (c + a - (-w) - b) + b
  BY <1>15, <1>16
<1>21. Total(f, B) = (c + a) + w
  BY <1>10, <1>12, <1>14
<1>22. B = billedOn(s)
  BY <1>1, <1>3 DEF billedOn
<1> QED
  BY <1>1, <1>4, <1>13, <1>16, <1>17, <1>19, <1>20, <1>21, <1>22

\* Together the periods bill every entry on a line once.
LEMMA BilledTogether ==
  ASSUME IInv, NEW bills, bills = [s \in DOMAIN period |->
                                     Total(entryAmounts(ledger), billedOn(s))]
  PROVE  Total(bills, DOMAIN period) = Total(entryAmounts(ledger), billedEntries)
<1>1. PICK D, f, L, V : /\ D = DOMAIN period /\ f = entryAmounts(ledger)
                        /\ L = [s \in DOMAIN period |-> billedOn(s)]
                        /\ V = billedEntries
  OBVIOUS
<1>2. IsFiniteSet(D)
  BY <1>1 DEF IInv
<1>3. \A i \in DOMAIN ledger : f[i] \in Int /\ ledger[i] \in Entry
  BY <1>1, StateFacts, EntryAmountsTyped
<1>4. \A s \in D : IsFiniteSet(L[s]) /\ L[s] \subseteq DOMAIN ledger /\ L[s] = billedOn(s)
  BY <1>1, NetIs
<1>5. \A s \in D : IsFiniteSet(L[s]) /\ (\A x \in L[s] : f[x] \in Int)
  BY <1>3, <1>4
<1>6. ASSUME NEW s \in D, NEW t \in D, s # t PROVE L[s] \cap L[t] = {}
  <2>1. ASSUME NEW i \in L[s], i \in L[t] PROVE FALSE
    <3>1. PICK x \in line : x.period = s /\ x.entry = i
      BY <1>4 DEF billedOn, ids
    <3>2. PICK y \in line : y.period = t /\ y.entry = i
      BY <1>4, <2>1 DEF billedOn, ids
    <3>3. x = y
      BY <3>1, <3>2 DEF IInv, LedgerInv, LinesOnce
    <3> QED
      BY <1>6, <3>1, <3>2, <3>3
  <2> QED
    BY <2>1
<1>7. \A s \in D : bills[s] = Total(f, L[s])
  BY <1>1, <1>4
<1>8. ASSUME NEW i, i \in V PROVE \E s \in D : i \in L[s]
  <2>1. i \in DOMAIN ledger /\ onLine(i) /\ ledger[i].type # "EXTERNAL_PAYMENT"
    BY <1>1, <1>8 DEF billedEntries
  <2>2. PICK x \in line : x.entry = i
    BY <2>1 DEF onLine
  <2>3. x.period \in D
    BY <1>1 DEF IInv, TypeOK
  <2>4. ledger[i].type \in EntryType
    BY <1>3, <2>1 DEF Entry
  <2>5. ledger[i].type \in BilledTypes
    BY <2>1, <2>4 DEF EntryType, BilledTypes, CommissionTypes, AdjustmentTypes, WaiverTypes
  <2>6. i \in billedOn(x.period)
    BY <2>2, <2>5 DEF billedOn, ids
  <2> QED
    BY <1>4, <2>3, <2>6
<1>9. ASSUME NEW i, NEW s \in D, i \in L[s] PROVE i \in V
  <2>1. PICK x \in line : x.period = s /\ ledger[x.entry].type \in BilledTypes /\ x.entry = i
    BY <1>4, <1>9 DEF billedOn, ids
  <2>2. i \in DOMAIN ledger
    BY <1>4, <1>9
  <2>3. onLine(i)
    BY <2>1 DEF onLine
  <2>4. ledger[i].type # "EXTERNAL_PAYMENT"
    BY <2>1 DEF BilledTypes, CommissionTypes, AdjustmentTypes, WaiverTypes
  <2> QED
    BY <1>1, <2>2, <2>3, <2>4 DEF billedEntries
<1>10. Parted(D, L, f, bills, V)
  BY <1>2, <1>5, <1>6, <1>7, <1>8, <1>9 DEF Parted
<1>11. Total(bills, D) = Total(f, V)
  BY <1>10, TotalOfTotals
<1> QED
  BY <1>1, <1>11

paidAmounts == [p \in DOMAIN payment |-> payment[p].amount]

\* Together the periods got every payment that counts, once.
LEMMA PaidTogether ==
  ASSUME IInv, NEW paid, paid = [s \in DOMAIN period |-> allocatedTo(s, payment)]
  PROVE  Total(paid, DOMAIN period) = Total(paidAmounts, activePayments(payment))
<1>1. PICK D, A, ps, g : /\ D = DOMAIN period /\ A = activePayments(payment)
                         /\ ps = payment /\ g = paidAmounts
  OBVIOUS
<1>2. /\ IsFiniteSet(D) /\ ps \in Seq(Payment) /\ FiniteAllocations(ps)
      /\ IsFiniteSet(A) /\ A \subseteq DOMAIN ps
  BY <1>1, StateFacts, PaidByTyped DEF IInv
<1>3. PICK row, column :
         /\ row = [s \in D |-> paidBy(s, ps)]
         /\ column = [p \in DOMAIN ps |-> [s \in D |-> paidTo(s, ps[p])]]
  OBVIOUS
<1>4. \A s \in D : \A p \in A : row[s][p] = column[p][s] /\ column[p][s] \in Int
  <2> SUFFICES ASSUME NEW s \in D, NEW p \in A
               PROVE  row[s][p] = column[p][s] /\ column[p][s] \in Int
    OBVIOUS
  <2>1. p \in DOMAIN ps
    BY <1>2
  <2>2. paidBy(s, ps)[p] \in Nat /\ paidBy(s, ps)[p] = paidTo(s, ps[p])
    BY <1>2, <2>1, PaidByTyped
  <2>3. row[s][p] = paidBy(s, ps)[p] /\ column[p][s] = paidTo(s, ps[p])
    BY <1>3, <2>1
  <2> QED
    BY <2>2, <2>3
<1>5. \A s \in D : paid[s] = Total(row[s], A)
  BY <1>1, <1>3, AllocatedIs
<1>6. ASSUME NEW p \in A PROVE g[p] = Total(column[p], D)
  <2>1. PICK all, f, L, h : /\ all = ps[p].allocations /\ f = shares(all)
                            /\ L = [s \in D |-> {a \in all : a.period = s}]
                            /\ h = column[p]
    OBVIOUS
  <2>2. /\ p \in DOMAIN ps /\ ps[p] \in Payment /\ AllocatedWhole(ps[p], D)
    BY <1>1, <1>2 DEF IInv, PaymentInv, AllocationsInv
  <2>3. /\ IsFiniteSet(all) /\ totalAllocated(all) = ps[p].amount
        /\ \A a \in all : a.period \in D /\ a.amount \in Int /\ f[a] = a.amount
    BY <2>1, <2>2 DEF AllocatedWhole, touched, Payment, shares
  <2>4. \A s \in D : L[s] = {a \in all : a.period = s} /\ IsFiniteSet(L[s])
    BY <2>1, <2>3, FS_Subset
  <2>5. \A s \in D : IsFiniteSet(L[s]) /\ (\A x \in L[s] : f[x] \in Int)
    BY <2>3, <2>4
  <2>6. \A s, t \in D : s # t => L[s] \cap L[t] = {}
    BY <2>4
  <2>7. \A x : x \in all <=> \E s \in D : x \in L[s]
    BY <2>3, <2>4
  <2>8. ASSUME NEW s \in D PROVE h[s] = Total(f, L[s])
    <3>1. h[s] = paidTo(s, ps[p])
      BY <1>3, <2>1, <2>2
    <3>2. PICK M : M = L[s]
      OBVIOUS
    <3>3. M = {a \in ps[p].allocations : a.period = s} /\ IsFiniteSet(M) /\ M \subseteq all
      BY <2>1, <2>4, <3>2
    <3>4. paidTo(s, ps[p]) = totalAllocated(M)
      BY <3>3 DEF paidTo
    <3>5. \A a \in M : shares(M)[a] = f[a]
      BY <2>3, <3>3 DEF shares
    <3>6. PICK q : q = shares(M)
      OBVIOUS
    <3>7. Total(q, M) = Total(f, M)
      BY <3>3, <3>5, <3>6, TotalSame
    <3> QED
      BY <3>1, <3>2, <3>4, <3>6, <3>7, TotalAllocatedIs
  <2>9. Parted(D, L, f, h, all)
    BY <1>2, <2>5, <2>6, <2>7, <2>8 DEF Parted
  <2>10. Total(h, D) = Total(f, all)
    BY <2>9, TotalOfTotals
  <2>11. g[p] = ps[p].amount
    BY <1>1, <2>2 DEF paidAmounts
  <2> QED
    BY <2>1, <2>3, <2>10, <2>11, TotalAllocatedIs
<1>7. Total(paid, D) = Total(g, A)
  <2>1. Table(D, A, row, column, paid, g)
    BY <1>2, <1>4, <1>5, <1>6 DEF Table
  <2> QED
    BY <2>1, TotalByColumns
<1> QED
  BY <1>1, <1>7

\* The entries of the original payments, and those of the reversals.
originals == {p \in DOMAIN payment : payment[p].reverses = None}
reversals == {p \in DOMAIN payment : payment[p].reverses # None}
reversed == {payment[p].reverses : p \in reversals}
entriesOfPayments(S) == {payment[p].entry : p \in S}

\* Original payments are those that count and those taken back.
LEMMA PaymentSets ==
  ASSUME IInv
  PROVE  /\ IsFiniteSet(originals) /\ IsFiniteSet(reversals)
         /\ originals \subseteq DOMAIN payment /\ reversals \subseteq DOMAIN payment
         /\ originals = activePayments(payment) \cup reversed
         /\ activePayments(payment) \cap reversed = {}
         /\ IsFiniteSet(activePayments(payment)) /\ IsFiniteSet(reversed)
<1>1. PICK ps : ps = payment
  OBVIOUS
<1>2. ps \in Seq(Payment) /\ IsFiniteSet(DOMAIN ps) /\ \A p \in DOMAIN ps : p # None
  BY <1>1, StateFacts, EntriesFinite DEF None
<1>3. /\ originals = {p \in DOMAIN ps : ps[p].reverses = None}
      /\ reversals = {p \in DOMAIN ps : ps[p].reverses # None}
  BY <1>1 DEF originals, reversals
<1>4. IsFiniteSet(originals) /\ IsFiniteSet(reversals)
  BY <1>2, <1>3, FS_Subset
<1>5. \A r \in reversals : ps[r].reverses \in originals
  BY <1>1, <1>3 DEF IInv, PaymentInv, ReversedOnce, ReversalOf
<1>6. \A p : p \in reversed <=> \E r \in DOMAIN ps : ps[r].reverses # None /\ ps[r].reverses = p
  BY <1>1, <1>3 DEF reversed
<1>7. \A p : p \in activePayments(payment) <=> /\ p \in originals
                                               /\ \A r \in DOMAIN ps : ps[r].reverses # p
  BY <1>1, <1>3 DEF activePayments
<1>8. \A p \in reversed : p \in originals
  BY <1>1, <1>5 DEF reversed
<1>9. \A p \in originals : p # None
  BY <1>2, <1>3
<1>10. originals = activePayments(payment) \cup reversed
  BY <1>6, <1>7, <1>8, <1>9
<1>11. activePayments(payment) \cap reversed = {}
  BY <1>6, <1>7
<1>12. IsFiniteSet(activePayments(payment)) /\ IsFiniteSet(reversed)
  <2>1. activePayments(payment) \subseteq originals /\ reversed \subseteq originals
    BY <1>7, <1>8
  <2> QED
    BY <1>4, <2>1, FS_Subset
<1>13. originals \subseteq DOMAIN payment /\ reversals \subseteq DOMAIN payment
  BY DEF originals, reversals
<1> QED
  BY Zenon, <1>4, <1>10, <1>11, <1>12, <1>13

\* Payments are entered with their amounts, the original ones negated.
LEMMA PaymentAmounts ==
  ASSUME IInv, NEW p \in DOMAIN payment
  PROVE  /\ paidAmounts[p] = payment[p].amount /\ paidAmounts[p] \in Nat
         /\ payment[p].entry \in DOMAIN ledger
         /\ entryAmounts(ledger)[payment[p].entry]
              = IF p \in originals THEN -paidAmounts[p] ELSE paidAmounts[p]
<1>1. PICK ps, e, f : ps = payment /\ e = ledger /\ f = entryAmounts(ledger)
  OBVIOUS
<1>2. ps[p] \in Payment /\ e \in Seq(Entry)
  BY <1>1, StateFacts
<1>3. paidAmounts[p] = ps[p].amount /\ ps[p].amount \in Nat
  BY <1>1, <1>2 DEF paidAmounts, Payment
<1>4. EntryOf(ps[p], e)
  BY <1>1 DEF IInv, PaymentInv, PaymentsEntered
<1>5. ps[p].entry \in DOMAIN e
  BY <1>4 DEF EntryOf
<1>6. f[ps[p].entry] = e[ps[p].entry].amount
  BY <1>1, <1>2, <1>5, EntryAmountsTyped
<1>7. p \in originals <=> ps[p].reverses = None
  BY <1>1 DEF originals
<1>8. f[ps[p].entry] = IF p \in originals THEN -ps[p].amount ELSE ps[p].amount
  BY <1>4, <1>6, <1>7 DEF EntryOf
<1> QED
  BY <1>1, <1>3, <1>5, <1>8

\* The entries of payments cancel what the payments come to.
LEMMA PaymentTotals ==
  ASSUME IInv
  PROVE  /\ Total(entryAmounts(ledger), entriesOfPayments(originals))
              + Total(paidAmounts, originals) = 0
         /\ Total(entryAmounts(ledger), entriesOfPayments(reversals))
              = Total(paidAmounts, reversed)
         /\ Total(paidAmounts, originals)
              = Total(paidAmounts, activePayments(payment)) + Total(paidAmounts, reversed)
         /\ Total(entryAmounts(ledger), entriesOfPayments(originals)) \in Int
         /\ Total(paidAmounts, activePayments(payment)) \in Int
         /\ Total(paidAmounts, reversed) \in Int
<1>1. PICK ps, f, g, O, R, A, X :
         /\ ps = payment /\ f = entryAmounts(ledger) /\ g = paidAmounts
         /\ O = originals /\ R = reversals /\ A = activePayments(payment) /\ X = reversed
  OBVIOUS
<1>2. /\ IsFiniteSet(O) /\ IsFiniteSet(R) /\ O \subseteq DOMAIN ps /\ R \subseteq DOMAIN ps
      /\ O = A \cup X /\ A \cap X = {} /\ IsFiniteSet(A) /\ IsFiniteSet(X)
  BY <1>1, PaymentSets
<1>3. \A p \in DOMAIN ps :
         /\ g[p] = ps[p].amount /\ g[p] \in Nat
         /\ f[ps[p].entry] = IF p \in O THEN -g[p] ELSE g[p]
  BY <1>1, PaymentAmounts
<1>4. \A p, q \in DOMAIN ps : ps[p].entry = ps[q].entry => p = q
  BY <1>1 DEF IInv, PaymentInv, PaymentsEntered
<1>5. PICK k, h, z : /\ k = [p \in DOMAIN ps |-> ps[p].entry]
                     /\ h = [p \in DOMAIN ps |-> -ps[p].amount]
                     /\ z = [p \in DOMAIN ps |-> 0]
  OBVIOUS
<1>6. PICK EO, ER : EO = {k[p] : p \in O} /\ ER = {k[p] : p \in R}
  OBVIOUS
<1>7. EO = entriesOfPayments(originals) /\ ER = entriesOfPayments(reversals)
  BY <1>1, <1>2, <1>5, <1>6 DEF entriesOfPayments
<1>8. \A p \in O : h[p] \in Int /\ f[k[p]] = h[p]
  <2> SUFFICES ASSUME NEW p \in O PROVE h[p] \in Int /\ f[k[p]] = h[p]
    OBVIOUS
  <2>1. p \in DOMAIN ps
    BY <1>2
  <2>2. k[p] = ps[p].entry /\ h[p] = -ps[p].amount
    BY <1>5, <2>1
  <2>3. g[p] = ps[p].amount /\ g[p] \in Nat /\ f[ps[p].entry] = -g[p]
    BY <1>3, <2>1
  <2> QED
    BY <2>2, <2>3
<1>9. \A p, q \in O : k[p] = k[q] => p = q
  BY <1>2, <1>4, <1>5
<1>10. Total(h, O) = Total(f, EO)
  BY <1>2, <1>6, <1>8, <1>9, TotalRenamed
<1>11. AddUp(z, h, g, O)
  <2> SUFFICES ASSUME NEW p \in O PROVE h[p] \in Int /\ g[p] \in Int /\ z[p] = h[p] + g[p]
    BY DEF AddUp
  <2>1. p \in DOMAIN ps
    BY <1>2
  <2>2. h[p] = -ps[p].amount /\ z[p] = 0 /\ g[p] = ps[p].amount /\ g[p] \in Nat
    BY <1>3, <1>5, <2>1
  <2> QED
    BY <2>2
<1>12. Total(z, O) = Total(h, O) + Total(g, O)
  BY <1>2, <1>11, TotalPlus
<1>13. Total(z, O) = 0
  <2>1. \A p \in O : z[p] = 0
    BY <1>2, <1>5
  <2> QED
    BY <1>2, <2>1, TotalZero
<1>14. Total(f, EO) + Total(g, O) = 0
  BY <1>10, <1>12, <1>13
<1>15. Total(h, O) \in Int
  BY <1>2, <1>8, TotalTyped
<1>16. Total(g, R) = Total(f, ER)
  <2>1. \A p \in R : g[p] \in Int /\ f[k[p]] = g[p]
    <3> SUFFICES ASSUME NEW p \in R PROVE g[p] \in Int /\ f[k[p]] = g[p]
      OBVIOUS
    <3>1. p \in DOMAIN ps /\ p \notin O
      BY <1>1, <1>2 DEF originals, reversals
    <3>2. k[p] = ps[p].entry
      BY <1>5, <3>1
    <3> QED
      BY <1>3, <3>1, <3>2
  <2>2. \A p, q \in R : k[p] = k[q] => p = q
    BY <1>2, <1>4, <1>5
  <2> QED
    BY <1>2, <1>6, <2>1, <2>2, TotalRenamed
<1>17. Total(g, R) = Total(g, X)
  <2>1. PICK back : back = [p \in DOMAIN ps |-> ps[p].reverses]
    OBVIOUS
  <2>2. PICK Y : Y = {back[p] : p \in R}
    OBVIOUS
  <2>3. Y = X
    BY <1>1, <1>2, <2>1, <2>2 DEF reversed
  <2>4. \A p \in R : g[p] \in Int /\ g[back[p]] = g[p]
    <3> SUFFICES ASSUME NEW p \in R PROVE g[p] \in Int /\ g[back[p]] = g[p]
      OBVIOUS
    <3>1. p \in DOMAIN ps /\ ps[p].reverses # None
      BY <1>1 DEF reversals
    <3>2. ps[p].reverses \in DOMAIN ps /\ ps[ps[p].reverses].amount = ps[p].amount
      BY <1>1, <3>1 DEF IInv, PaymentInv, ReversedOnce, ReversalOf
    <3>3. back[p] = ps[p].reverses
      BY <2>1, <3>1
    <3>4. g[back[p]] = ps[back[p]].amount /\ g[p] = ps[p].amount /\ g[p] \in Nat
      BY <1>3, <3>1, <3>2, <3>3
    <3> QED
      BY <3>2, <3>3, <3>4
  <2>5. \A p, q \in R : back[p] = back[q] => p = q
    <3>1. \A p \in R : p \in DOMAIN ps /\ ps[p].reverses # None
      BY <1>1 DEF reversals
    <3>2. \A p, q \in DOMAIN ps :
             ps[p].reverses = ps[q].reverses /\ ps[p].reverses # None => p = q
      BY <1>1 DEF IInv, PaymentInv, ReversedOnce
    <3> QED
      BY <2>1, <3>1, <3>2
  <2>6. Total(g, R) = Total(g, Y)
    BY <1>2, <2>2, <2>4, <2>5, TotalRenamed
  <2> QED
    BY <2>3, <2>6
<1>18. \A p \in A \cup X : g[p] \in Int
  BY <1>2, <1>3
<1>19. Total(g, A \cup X) = Total(g, A) + Total(g, X)
  BY <1>2, <1>18, TotalUnion
<1>20. Total(g, O) = Total(g, A) + Total(g, X)
  BY Zenon, <1>2, <1>19
<1>21. Total(g, A) \in Int /\ Total(g, X) \in Int
  <2>1. (\A p \in A : g[p] \in Int) /\ (\A p \in X : g[p] \in Int)
    BY <1>18
  <2> QED
    BY <1>2, <2>1, TotalTyped
<1> QED
  BY <1>1, <1>7, <1>10, <1>14, <1>15, <1>16, <1>17, <1>20, <1>21

\* Entries, by what became of them.
unlinedReversals == {i \in entriesOfPayments(reversals) : ~onLine(i)}

\* Every entry is of an original payment, billed, or a reversal on no line.
LEMMA EntrySets ==
  ASSUME IInv
  PROVE  /\ DOMAIN ledger
              = (entriesOfPayments(originals) \cup billedEntries) \cup unlinedReversals
         /\ entriesOfPayments(originals) \cap billedEntries = {}
         /\ (entriesOfPayments(originals) \cup billedEntries) \cap unlinedReversals = {}
         /\ entriesOfPayments(reversals) = sweptReversals \cup unlinedReversals
         /\ sweptReversals \cap unlinedReversals = {}
         /\ entriesOfPayments(reversals) \subseteq DOMAIN ledger
<1>1. PICK ps, e : ps = payment /\ e = ledger
  OBVIOUS
<1>2. \A p \in DOMAIN ps : EntryOf(ps[p], e)
  BY <1>1 DEF IInv, PaymentInv, PaymentsEntered
<1>3. /\ \A p : p \in originals <=> p \in DOMAIN ps /\ ps[p].reverses = None
      /\ \A p : p \in reversals <=> p \in DOMAIN ps /\ ps[p].reverses # None
  BY <1>1 DEF originals, reversals
<1>4. PICK EO, ER, B, U : /\ EO = entriesOfPayments(originals)
                          /\ ER = entriesOfPayments(reversals)
                          /\ B = billedEntries /\ U = unlinedReversals
  OBVIOUS
<1>5. \A i \in EO : i \in DOMAIN e /\ e[i].type = "EXTERNAL_PAYMENT"
  <2> SUFFICES ASSUME NEW p \in originals
               PROVE  ps[p].entry \in DOMAIN e /\ e[ps[p].entry].type = "EXTERNAL_PAYMENT"
    BY <1>1, <1>4 DEF entriesOfPayments
  <2> QED
    BY <1>2, <1>3 DEF EntryOf
<1>6. \A i \in ER : i \in DOMAIN e /\ e[i].type = "REVERSAL"
  <2> SUFFICES ASSUME NEW p \in reversals
               PROVE  ps[p].entry \in DOMAIN e /\ e[ps[p].entry].type = "REVERSAL"
    BY <1>1, <1>4 DEF entriesOfPayments
  <2> QED
    BY <1>2, <1>3 DEF EntryOf
<1>7. \A i : i \in B <=> i \in DOMAIN e /\ onLine(i) /\ e[i].type # "EXTERNAL_PAYMENT"
  BY <1>1, <1>4 DEF billedEntries
<1>8. \A i : i \in U <=> i \in ER /\ ~onLine(i)
  BY <1>4 DEF unlinedReversals
<1>9. ASSUME NEW i \in DOMAIN e PROVE i \in EO \/ i \in B \/ i \in U
  <2>1. CASE paysFor(i)
    <3>1. PICK p \in DOMAIN ps : ps[p].entry = i
      BY <1>1, <2>1 DEF paysFor
    <3>2. CASE p \in originals
      BY <1>1, <1>4, <3>1, <3>2 DEF entriesOfPayments
    <3>3. CASE p \notin originals
      <4>1. p \in reversals
        BY <1>3, <3>3
      <4>2. i \in ER
        BY <1>1, <1>4, <3>1, <4>1 DEF entriesOfPayments
      <4>3. e[i].type = "REVERSAL"
        BY <1>6, <4>2
      <4> QED
        BY <1>7, <1>8, <4>2, <4>3
    <3> QED
      BY <3>2, <3>3
  <2>2. CASE ~paysFor(i)
    <3>1. onLine(i) /\ e[i].type # "EXTERNAL_PAYMENT"
      BY <1>1, <2>2 DEF IInv, LedgerInv, EntriesHavePlace
    <3> QED
      BY <1>7, <3>1
  <2> QED
    BY <2>1, <2>2
<1>10. DOMAIN e = (EO \cup B) \cup U
  BY <1>5, <1>6, <1>7, <1>8, <1>9
<1>11. EO \cap B = {} /\ (EO \cup B) \cap U = {}
  <2>1. \A i \in U : i \notin B /\ e[i].type = "REVERSAL"
    BY <1>6, <1>7, <1>8
  <2>2. \A i \in EO : i \notin B /\ i \notin U
    BY <1>5, <1>7, <2>1
  <2> QED
    BY <2>1, <2>2
<1>12. \A i : i \in sweptReversals <=> i \in ER /\ onLine(i)
  <2>1. sweptReversals = ER \cap {l.entry : l \in line}
    BY <1>4 DEF sweptReversals, entriesOfPayments, reversals
  <2>2. \A i : i \in {l.entry : l \in line} <=> onLine(i)
    BY DEF onLine
  <2> QED
    BY <2>1, <2>2
<1>13. ER = sweptReversals \cup U /\ sweptReversals \cap U = {}
  BY <1>8, <1>12
<1> QED
  BY <1>1, <1>4, <1>6, <1>10, <1>11, <1>13

\* The ledger's balance in these three parts.
LEMMA LedgerTotals ==
  ASSUME IInv
  PROVE  \E b, u :
           /\ b = Total(entryAmounts(ledger), billedEntries) /\ b \in Int
           /\ u \in Int
           /\ ledgerBalance = (Total(entryAmounts(ledger), entriesOfPayments(originals)) + b) + u
           /\ sumOf(ledger, sweptReversals) \in Int
           /\ Total(entryAmounts(ledger), entriesOfPayments(reversals))
                = sumOf(ledger, sweptReversals) + u
<1>1. PICK f, E, EO, ER, B, U, S :
         /\ f = entryAmounts(ledger) /\ E = DOMAIN ledger
         /\ EO = entriesOfPayments(originals) /\ ER = entriesOfPayments(reversals)
         /\ B = billedEntries /\ U = unlinedReversals /\ S = sweptReversals
  OBVIOUS
<1>2. /\ E = (EO \cup B) \cup U /\ EO \cap B = {} /\ (EO \cup B) \cap U = {}
      /\ ER = S \cup U /\ S \cap U = {} /\ ER \subseteq E
  BY <1>1, EntrySets
<1>3. IsFiniteSet(E) /\ \A i \in E : f[i] \in Int
  BY <1>1, StateFacts, EntriesFinite, EntryAmountsTyped
<1>4. /\ EO \in SUBSET E /\ B \in SUBSET E /\ U \in SUBSET E /\ S \in SUBSET E
      /\ (EO \cup B) \in SUBSET E
  BY <1>2
<1>5. /\ IsFiniteSet(EO) /\ IsFiniteSet(B) /\ IsFiniteSet(U) /\ IsFiniteSet(S)
      /\ IsFiniteSet(EO \cup B)
  BY <1>3, <1>4, FS_Subset
<1>6. Total(f, EO \cup B) = Total(f, EO) + Total(f, B)
  <2>1. \A i \in EO \cup B : f[i] \in Int
    BY <1>3, <1>4
  <2> QED
    BY <1>2, <1>5, <2>1, TotalUnion
<1>7. Total(f, (EO \cup B) \cup U) = Total(f, EO \cup B) + Total(f, U)
  <2>1. \A i \in (EO \cup B) \cup U : f[i] \in Int
    BY <1>3, <1>4
  <2> QED
    BY <1>2, <1>5, <2>1, TotalUnion
<1>8. Total(f, S \cup U) = Total(f, S) + Total(f, U)
  <2>1. \A i \in S \cup U : f[i] \in Int
    BY <1>3, <1>4
  <2> QED
    BY <1>2, <1>5, <2>1, TotalUnion
<1>9. Total(f, E) = Total(f, EO \cup B) + Total(f, U)
  BY Zenon, <1>2, <1>7
<1>10. Total(f, ER) = Total(f, S) + Total(f, U)
  BY Zenon, <1>2, <1>8
<1>11. Total(f, B) \in Int
  <2>1. \A i \in B : f[i] \in Int
    BY <1>3, <1>4
  <2> QED
    BY <1>5, <2>1, TotalTyped
<1>12. Total(f, U) \in Int
  <2>1. \A i \in U : f[i] \in Int
    BY <1>3, <1>4
  <2> QED
    BY <1>5, <2>1, TotalTyped
<1>13. Total(f, S) \in Int
  <2>1. \A i \in S : f[i] \in Int
    BY <1>3, <1>4
  <2> QED
    BY <1>5, <2>1, TotalTyped
<1>14. ledgerBalance = Total(f, E) /\ sumOf(ledger, sweptReversals) = Total(f, S)
  BY <1>1 DEF ledgerBalance, sumOf, Total
<1>15. PICK b, u : b = Total(f, B) /\ u = Total(f, U)
  OBVIOUS
<1>16. ledgerBalance = (Total(f, EO) + b) + u
  BY <1>6, <1>9, <1>14, <1>15
<1>17. Total(f, ER) = sumOf(ledger, sweptReversals) + u
  BY <1>10, <1>14, <1>15
<1> QED
  BY <1>1, <1>11, <1>12, <1>13, <1>14, <1>15, <1>16, <1>17

\* The settlements and the ledger tell one sum, swept reversals apart.
LEMMA Balance ==
  ASSUME IInv
  PROVE  settlementBalance = ledgerBalance + sumOf(ledger, sweptReversals)
<1>1. PICK D, nets, bills, paid :
         /\ D = DOMAIN period
         /\ nets = [s \in DOMAIN period |-> net(period[s])]
         /\ bills = [s \in DOMAIN period |-> Total(entryAmounts(ledger), billedOn(s))]
         /\ paid = [s \in DOMAIN period |-> allocatedTo(s, payment)]
  OBVIOUS
<1>2. IsFiniteSet(D)
  BY <1>1 DEF IInv
<1>3. AddUp(bills, nets, paid, D)
  <2> SUFFICES ASSUME NEW s \in D
               PROVE  nets[s] \in Int /\ paid[s] \in Int /\ bills[s] = nets[s] + paid[s]
    BY DEF AddUp
  <2>1. /\ nets[s] = net(period[s]) /\ paid[s] = allocatedTo(s, payment)
        /\ bills[s] = Total(entryAmounts(ledger), billedOn(s))
    BY <1>1
  <2>2. s \in DOMAIN period
    BY <1>1
  <2>3. /\ net(period[s]) \in Int /\ allocatedTo(s, payment) \in Nat
        /\ Total(entryAmounts(ledger), billedOn(s)) = net(period[s]) + allocatedTo(s, payment)
    BY <2>2, NetIs
  <2> QED
    BY <2>1, <2>3
<1>4. Total(bills, D) = Total(nets, D) + Total(paid, D)
  BY <1>2, <1>3, TotalPlus
<1>5. Total(nets, D) \in Int
  <2>1. \A s \in D : nets[s] \in Int
    BY <1>3 DEF AddUp
  <2> QED
    BY <1>2, <2>1, TotalTyped
<1>6. settlementBalance = Total(nets, D)
  <2>1. DOMAIN nets = D
    BY <1>1
  <2>2. settlementBalance = SumFunctionOnSet(nets, DOMAIN nets)
    BY <1>1 DEF settlementBalance, SumFunction
  <2> QED
    BY <2>1, <2>2 DEF Total
<1>7. Total(bills, D) = Total(entryAmounts(ledger), billedEntries)
  BY <1>1, BilledTogether
<1>8. Total(paid, D) = Total(paidAmounts, activePayments(payment))
  BY <1>1, PaidTogether
<1>9. PICK b, u :
           /\ b = Total(entryAmounts(ledger), billedEntries) /\ b \in Int
           /\ u \in Int
           /\ ledgerBalance = (Total(entryAmounts(ledger), entriesOfPayments(originals)) + b) + u
           /\ sumOf(ledger, sweptReversals) \in Int
           /\ Total(entryAmounts(ledger), entriesOfPayments(reversals))
                = sumOf(ledger, sweptReversals) + u
  BY LedgerTotals
<1>10. PICK eo, er, o, a, x, s, n :
         /\ eo = Total(entryAmounts(ledger), entriesOfPayments(originals))
         /\ er = Total(entryAmounts(ledger), entriesOfPayments(reversals))
         /\ o = Total(paidAmounts, originals)
         /\ a = Total(paidAmounts, activePayments(payment))
         /\ x = Total(paidAmounts, reversed)
         /\ s = sumOf(ledger, sweptReversals)
         /\ n = settlementBalance
  OBVIOUS
<1>11. /\ eo + o = 0 /\ er = x /\ o = a + x /\ eo \in Int /\ a \in Int /\ x \in Int
  BY <1>10, PaymentTotals
<1>12. b = n + a /\ n \in Int
  BY <1>4, <1>5, <1>6, <1>7, <1>8, <1>9, <1>10
<1>13. ledgerBalance = (eo + b) + u /\ er = s + u /\ s \in Int /\ u \in Int
  BY <1>9, <1>10
<1>14. n = ((eo + b) + u) + s
  BY <1>11, <1>12, <1>13
<1> QED
  BY <1>10, <1>13, <1>14

\* A set whose elements are all the same.
LEMMA AtMostOne ==
  ASSUME NEW S, \A x, y \in S : x = y
  PROVE  Cardinality(S) <= 1
<1>1. CASE S = {}
  BY <1>1, FS_EmptySet
<1>2. CASE S # {}
  <2>1. PICK x \in S : TRUE
    BY <1>2
  <2>2. S = {x}
    BY <2>1
  <2>3. Cardinality({x}) = 1
    BY FS_Singleton
  <2> QED
    BY <2>2, <2>3
<1> QED
  BY <1>1, <1>2

\* BilledOnce follows from the invariant.
LEMMA InvImpliesBilledOnce == IInv => BilledOnce
<1> SUFFICES ASSUME IInv PROVE BilledOnce
  OBVIOUS
<1>1. ASSUME NEW o \in Order PROVE Cardinality(commissionOf(o)) <= 1
  <2>1. PICK S : S = commissionOf(o)
    OBVIOUS
  <2>2. \A i, j \in S : i = j
    BY <2>1 DEF commissionOf, IInv, LedgerInv, CommissionsOnce
  <2> QED
    BY <2>1, <2>2, AtMostOne
<1>2. ASSUME NEW i \in DOMAIN ledger
      PROVE  LET lines == {l \in line : l.entry = i} IN
             /\ Cardinality(lines) <= 1
             /\ ledger[i].type = "COMMISSION_DUE" => lines # {}
  <2>1. PICK lines : lines = {l \in line : l.entry = i}
    OBVIOUS
  <2>2. \A l, m \in lines : l = m
    BY <2>1 DEF IInv, LedgerInv, LinesOnce
  <2>3. Cardinality(lines) <= 1
    BY <2>2, AtMostOne
  <2>4. ASSUME ledger[i].type = "COMMISSION_DUE" PROVE lines # {}
    <3>1. ~paysFor(i)
      <4>1. \A p \in DOMAIN payment : EntryOf(payment[p], ledger)
        BY DEF IInv, PaymentInv, PaymentsEntered
      <4>2. \A p \in DOMAIN payment :
               ledger[payment[p].entry].type \in {"EXTERNAL_PAYMENT", "REVERSAL"}
        BY <4>1 DEF EntryOf
      <4> QED
        BY <2>4, <4>2 DEF paysFor
    <3>2. onLine(i)
      BY <3>1 DEF IInv, LedgerInv, EntriesHavePlace
    <3> QED
      BY <2>1, <3>2 DEF onLine
  <2> QED
    BY <2>1, <2>3, <2>4
<1>3. settlementBalance = ledgerBalance + sumOf(ledger, sweptReversals)
  BY Balance
<1> QED
  BY <1>1, <1>2, <1>3 DEF BilledOnce

-----------------------------------------------------------------------------
(* A payment settles the oldest periods first.                             *)

\* The periods an allocation goes to, each with its one share.
LEMMA AllocatedPeriods ==
  ASSUME IInv, NEW amount \in Nat, NEW a \in allocateOldestSettlements(amount)
  PROVE  /\ a.period \in outstanding
         /\ a.amount = allocation(amount, a.period)
         /\ allocation(amount, a.period) > 0
<1>1. PICK s \in outstanding : /\ allocation(amount, s) > 0
                               /\ a = [period |-> s, amount |-> allocation(amount, s)]
  BY DEF allocateOldestSettlements
<1> QED
  BY <1>1

\* A period with a share gets it in one allocation.
LEMMA AllocatedShare ==
  ASSUME IInv, NEW amount \in Nat, NEW s \in outstanding, allocation(amount, s) > 0,
         NEW new, new.allocations = allocateOldestSettlements(amount)
  PROVE  s \in touched(new.allocations) /\ paidTo(s, new) = allocation(amount, s)
<1>1. PICK A, k : /\ A = new.allocations
                  /\ k = [period |-> s, amount |-> allocation(amount, s)]
  OBVIOUS
<1>2. k \in A /\ k.period = s /\ k.amount = allocation(amount, s)
  BY <1>1 DEF allocateOldestSettlements
<1>3. {a \in A : a.period = s} = {k}
  <2>1. ASSUME NEW a \in A, a.period = s PROVE a = k
    <3>1. PICK t \in outstanding : a = [period |-> t, amount |-> allocation(amount, t)]
      BY <1>1, <2>1 DEF allocateOldestSettlements
    <3>2. t = s
      BY <2>1, <3>1
    <3> QED
      BY <1>1, <3>1, <3>2
  <2> QED
    BY <1>2, <2>1
<1>4. totalAllocated({k}) = k.amount
  <2>1. PICK f : f = shares({k})
    OBVIOUS
  <2>2. f[k] = k.amount
    BY <2>1 DEF shares
  <2>3. k.amount \in Int
    BY <1>2, OldestTogether
  <2>4. IsFiniteSet({k}) /\ {k} \ {k} = {}
    BY FS_Singleton
  <2>5. \A x \in {k} : f[x] \in Int
    BY <2>2, <2>3
  <2>6. Total(f, {k}) = f[k] + Total(f, {k} \ {k})
    BY <2>4, <2>5, TotalRemove
  <2>7. Total(f, {k} \ {k}) = 0
    BY Zenon, <2>4, TotalEmpty
  <2>8. Total(f, {k}) = k.amount
    BY <2>2, <2>3, <2>6, <2>7
  <2> QED
    BY <2>1, <2>8, TotalAllocatedIs
<1>5. paidTo(s, new) = totalAllocated({k})
  BY Zenon, <1>1, <1>3 DEF paidTo
<1> QED
  BY <1>1, <1>2, <1>4, <1>5 DEF touched

\* When a payment reaches a period, the older ones get all they are owed.
LEMMA OlderInFull ==
  ASSUME IInv, NEW amount \in Nat, NEW s \in outstanding, NEW u \in outstanding,
         s < u, allocation(amount, u) > 0
  PROVE  allocation(amount, s) = dues[s]
<1>1. PICK O, d : O = outstanding /\ d = dues
  OBVIOUS
<1>2. /\ O \subseteq Int /\ IsFiniteSet(O) /\ \A t \in O : d[t] \in Nat
      /\ s \in O /\ u \in O
  BY <1>1, OutstandingFacts
<1>3. PICK S, U : S = {t \in O : t < s} /\ U = {t \in O : t < u}
  OBVIOUS
<1>4. /\ S \subseteq O /\ U \subseteq O /\ s \notin S
      /\ S \cup {s} \in SUBSET U
  <2>1. \A t \in S : t \in O /\ t < s /\ t \in Int /\ s \in Int /\ u \in Int
    BY <1>2, <1>3
  <2>2. \A t \in S : t < u
    BY <2>1
  <2>3. s \in Int /\ ~(s < s)
    BY <1>2
  <2> QED
    BY <1>2, <1>3, <2>1, <2>2, <2>3
<1>5. IsFiniteSet(S) /\ IsFiniteSet(U)
  BY <1>2, <1>4, FS_Subset
<1>6. \A t \in U : d[t] \in Nat
  BY <1>2, <1>4
<1>7. \A t \in S : d[t] \in Nat
  BY <1>2, <1>4
<1>8. Total(d, S \cup {s}) = Total(d, S) + d[s]
  <2>1. \A t \in S : d[t] \in Int
    BY <1>7
  <2>2. d[s] \in Int
    BY <1>2
  <2> QED
    BY Zenon, <1>4, <1>5, <2>1, <2>2, TotalAdd
<1>9. Total(d, S \cup {s}) <= Total(d, U)
  BY <1>4, <1>5, <1>6, TotalWithin
<1>10. PICK m, n, due : m = Total(d, S) /\ n = Total(d, U) /\ due = d[s]
  OBVIOUS
<1>11. m \in Nat /\ n \in Nat /\ due \in Nat
  BY <1>2, <1>5, <1>6, <1>7, <1>10, TotalTyped
<1>12. m + due <= n
  BY <1>8, <1>9, <1>10
<1>13. share(amount, n, d[u]) > 0
  BY <1>1, <1>3, <1>10, AllocationIs
<1>14. amount - n > 0
  BY <1>11, <1>13 DEF share
<1>15. share(amount, m, due) = due
  BY <1>11, <1>12, <1>14 DEF share
<1>16. allocation(amount, s) = share(amount, m, due)
  BY <1>1, <1>3, <1>10, AllocationIs
<1> QED
  BY <1>1, <1>10, <1>15, <1>16

\* No period gets more than it owes.
LEMMA AllocatedWithinDue ==
  ASSUME IInv, NEW amount \in Nat, NEW s \in outstanding
  PROVE  allocation(amount, s) <= period[s].remaining
<1>1. PICK O, d : O = outstanding /\ d = dues
  OBVIOUS
<1>2. /\ IsFiniteSet(O) /\ (\A t \in O : d[t] \in Nat) /\ s \in O
      /\ d[s] = period[s].remaining
  BY <1>1, OutstandingFacts
<1>3. PICK m, due : m = Total(d, {t \in O : t < s}) /\ due = d[s]
  OBVIOUS
<1>4. m \in Nat /\ due \in Nat
  <2>1. IsFiniteSet({t \in O : t < s}) /\ \A t \in {t \in O : t < s} : d[t] \in Nat
    BY <1>2, FS_Subset
  <2> QED
    BY <1>2, <1>3, <2>1, TotalTyped
<1>5. share(amount, m, due) <= due
  BY <1>4 DEF share
<1> QED
  BY <1>1, <1>2, <1>3, <1>5, AllocationIs

\* What a payment leaves of the periods it touches.
LEMMA PaidRow ==
  ASSUME IInv, NEW new, NEW entry, AddsPayment(new, entry), new.reverses = None,
         NEW s \in touched(new.allocations)
  PROVE  /\ s \in DOMAIN period
         /\ net(period[s]) \in Int
         /\ period[s].remaining = clamp(net(period[s]))
         /\ period'[s].remaining = clamp(net(period[s]) - paidTo(s, new))
<1>1. s \in DOMAIN period
  BY DEF AddsPayment, AllocatedWhole
<1>2. PICK e, e2, l, p, p2 : /\ e = ledger /\ e2 = ledger' /\ l = line
                             /\ p = payment /\ p2 = payment'
  OBVIOUS
<1>3. PICK c, a, w, b, x : /\ c = commissionSum(s, e, l) /\ a = adjustmentSum(s, e, l)
                           /\ w = waiverSum(s, e, l) /\ b = allocatedTo(s, p)
                           /\ x = paidTo(s, new)
  OBVIOUS
<1>4. /\ e \in Seq(Entry) /\ e2 \in Seq(Entry) /\ Extends(e2, e) /\ LinesOver(e, l)
      /\ p \in Seq(Payment) /\ FiniteAllocations(p)
  BY <1>2, StateFacts, AddsPaymentFacts
<1>5. b \in Nat /\ x \in Nat
  <2>1. b \in Nat
    BY <1>3, <1>4, AllocatedTyped
  <2>2. new \in Payment /\ IsFiniteSet(new.allocations)
    BY DEF AddsPayment, AllocatedWhole
  <2> QED
    BY <1>3, <2>1, <2>2, PaidToTyped
<1>6. c \in Int /\ a \in Int /\ w \in Int
  <2>1. \A i \in DOMAIN e : e[i].type = "WAIVER" => e[i].amount <= 0
    BY <1>2 DEF IInv, LedgerInv, WaiversCredit
  <2>2. allocatedTo(s, p) \in Nat
    BY <1>3, <1>5
  <2> QED
    BY <1>3, <1>4, <2>1, <2>2, ProjectionTyped
<1>7. PICK r : r = period[s]
  OBVIOUS
<1>8. /\ r.commission = c /\ r.adjustments = a /\ r.waived = -w /\ r.payments = b
      /\ r.remaining = clamp(c + a - (-w) - b)
  BY <1>1, <1>2, <1>3, <1>7, RowsAre, ProjectionFields DEF IInv, RowIs, withStatus
<1>9. net(r) = c + a - (-w) - b /\ net(r) \in Int
  BY <1>5, <1>6, <1>8 DEF net
<1>10. allocatedTo(s, p2) = b + x
  BY <1>2, <1>3, AddsPaymentAllocated
<1>11. /\ commissionSum(s, e2, l) = c /\ adjustmentSum(s, e2, l) = a
       /\ waiverSum(s, e2, l) = w
  <2>1. projection(s, e2, l, p) = projection(s, e, l, p)
    BY <1>4, ProjectionSame
  <2>2. /\ projection(s, e2, l, p).commission = commissionSum(s, e2, l)
        /\ projection(s, e2, l, p).adjustments = adjustmentSum(s, e2, l)
        /\ projection(s, e, l, p).commission = c
        /\ projection(s, e, l, p).adjustments = a
    BY <1>3, ProjectionFields
  <2>3. waiverSum(s, e2, l) = w
    <3>1. PICK v : v = waiverSum(s, e2, l)
      OBVIOUS
    <3>2. -v = -w
      <4>1. projection(s, e2, l, p).waived = -v /\ projection(s, e, l, p).waived = -w
        BY <1>3, <3>1, ProjectionFields
      <4> QED
        BY <2>1, <4>1
    <3>3. v \in Int
      <4>1. ids(s, e2, l, WaiverTypes) \in SUBSET DOMAIN e2
        <5>1. LinesOver(e2, l)
          BY <1>4 DEF LinesOver, Extends
        <5> QED
          BY <1>4, <5>1, IdsFinite
      <4> QED
        BY <1>4, <3>1, <4>1, SumOfTyped DEF waiverSum
    <3> QED
      BY <1>6, <3>1, <3>2, <3>3
  <2> QED
    BY <2>1, <2>2, <2>3
<1>12. projection(s, e2, l, p2).remaining = clamp(c + a - (-w) - (b + x))
  BY <1>10, <1>11, ProjectionFields
<1>13. period'[s] = refreshed(s, FALSE, e2, l, p2)
  BY <1>1, <1>2 DEF AddsPayment
<1>14. period'[s].remaining = projection(s, e2, l, p2).remaining
  BY <1>13 DEF refreshed, withStatus
<1>15. c + a - (-w) - (b + x) = net(r) - x
  BY <1>5, <1>6, <1>9
<1> QED
  BY <1>1, <1>3, <1>7, <1>8, <1>9, <1>12, <1>14, <1>15

PaysOldestFirst(new) ==
    /\ totalAllocated(new.allocations) = new.amount
    /\ \A a \in new.allocations :
          /\ a.amount <= period[a.period].remaining
          /\ \A s \in DOMAIN period :
                s < a.period /\ period'[s].status # "OPEN" =>
                    period'[s].remaining = 0

\* A recorded payment settles the oldest closed periods first.
LEMMA RecordPaymentOldestFirst ==
  ASSUME IInv, NEW amount \in Amount, NEW paidAt \in 0 .. now, RecordPayment(amount, paidAt)
  PROVE  PaysOldestFirst(payment'[Len(payment')])
<1>1. amount \in Nat
  BY AmountAssumption
<1>2. PICK new, entry : /\ AddsPayment(new, entry)
                        /\ new.reverses = None /\ new.amount = amount
                        /\ new.allocations = allocateOldestSettlements(amount)
  BY RecordPaymentAdds
<1>3. payment'[Len(payment')] = new
  <2>1. PICK ps, n : ps = payment' /\ n = Len(payment)
    OBVIOUS
  <2>2. /\ ps \in Seq(Payment) /\ DOMAIN ps = DOMAIN payment \cup {n + 1}
        /\ ps[n + 1] = new /\ n \in Nat
    BY <1>2, <2>1, AddsPaymentFacts, StateFacts
  <2>3. Len(ps) = n + 1
    BY <1>2, <2>1, StateFacts, AppendFacts DEF AddsPayment
  <2> QED
    BY <2>1, <2>2, <2>3
<1>4. totalAllocated(new.allocations) = new.amount
  BY <1>2 DEF AddsPayment, AllocatedWhole
<1>5. ASSUME NEW a \in new.allocations
      PROVE  /\ a.amount <= period[a.period].remaining
             /\ \A s \in DOMAIN period :
                   s < a.period /\ period'[s].status # "OPEN" =>
                       period'[s].remaining = 0
  <2>1. PICK u : u = a.period
    OBVIOUS
  <2>2. u \in outstanding /\ a.amount = allocation(amount, u) /\ allocation(amount, u) > 0
    BY <1>1, <1>2, <1>5, <2>1, AllocatedPeriods
  <2>3. a.amount <= period[u].remaining
    BY <1>1, <2>2, AllocatedWithinDue
  <2>4. ASSUME NEW s \in DOMAIN period, s < u, period'[s].status # "OPEN"
        PROVE  period'[s].remaining = 0
    <3>1. CASE s \in outstanding
      <4>1. PICK due : due = dues[s]
        OBVIOUS
      <4>2. due = period[s].remaining /\ due \in Nat /\ due > 0
        BY <3>1, <4>1, OutstandingFacts
      <4>3. allocation(amount, s) = due
        BY <1>1, <2>2, <2>4, <3>1, <4>1, OlderInFull
      <4>4. s \in touched(new.allocations) /\ paidTo(s, new) = due
        BY <1>1, <1>2, <3>1, <4>2, <4>3, AllocatedShare
      <4>5. PICK n : n = net(period[s])
        OBVIOUS
      <4>6. /\ n \in Int /\ due = clamp(n)
            /\ period'[s].remaining = clamp(n - due)
        BY <1>2, <4>2, <4>4, <4>5, PaidRow
      <4>7. clamp(n - due) = 0
        BY <4>2, <4>6 DEF clamp
      <4> QED
        BY <4>6, <4>7
    <3>2. CASE s \notin outstanding
      <4>1. s \notin touched(new.allocations)
        BY <1>1, <1>2, <3>2, AllocatedPeriods DEF touched
      <4>2. period'[s] = period[s]
        BY <1>2, <4>1 DEF AddsPayment
      <4>3. ~(period[s].remaining > 0)
        BY <2>4, <3>2, <4>2 DEF outstanding
      <4>4. period[s].remaining \in Nat
        BY OutstandingFacts
      <4> QED
        BY <4>2, <4>3, <4>4
    <3> QED
      BY <3>1, <3>2
  <2> QED
    BY <2>1, <2>3, <2>4
<1> QED
  BY <1>3, <1>4, <1>5 DEF PaysOldestFirst

\* A step that records a payment is RecordPayment: the other steps add none, and
\* ReversePayment adds one that takes another back.
LEMMA StepOldestFirst ==
  ASSUME IInv, [Next]_vars, Len(payment') > Len(payment),
         payment'[Len(payment')].reverses = None
  PROVE  PaysOldestFirst(payment'[Len(payment')])
<1>1. payment' # payment
  BY StateFacts
<1>2. ASSUME NEW p \in DOMAIN payment, ReversePayment(p) PROVE FALSE
  <2>1. PICK ps, old, n : ps = payment /\ old = payment[p] /\ n = Len(ledger) + 1
    OBVIOUS
  <2>2. PICK new : new = [old EXCEPT !.reverses = p, !.entry = n]
    OBVIOUS
  <2>3. payment' = Append(ps, new)
    BY <1>2, <2>1, <2>2 DEF ReversePayment
  <2>4. ps \in Seq(Payment) /\ old \in Payment /\ p \in Nat /\ p # None /\ n \in Nat
    BY <1>2, <2>1, StateFacts DEF None
  <2>5. new.reverses = p /\ new \in Payment
    BY <2>2, <2>4 DEF Payment
  <2>6. Len(Append(ps, new)) = Len(ps) + 1 /\ Append(ps, new)[Len(ps) + 1] = new
    BY <2>4, <2>5, AppendFacts
  <2> QED
    BY <2>3, <2>4, <2>5, <2>6
<1>3. \E amount \in Amount, paidAt \in 0 .. now : RecordPayment(amount, paidAt)
  <2>1. ~UNCHANGED payment
    BY <1>1
  <2>2. \A o \in Order : ~Finalize(o) /\ ~WorkerComplete(o) /\ ~WorkerSkip(o)
    BY <2>1 DEF Finalize, WorkerComplete, WorkerSkip, Bill
  <2>3. /\ \A todo \in SUBSET Order : ~StartCompletion(todo)
        /\ ~WorkerFail /\ ~MarkOverdue /\ ~Tick
    BY <2>1 DEF StartCompletion, WorkerFail, MarkOverdue, Tick
  <2>4. \A start \in DOMAIN period : ~Close(start) /\ ~CreateAdjustment(start)
    BY <2>1 DEF Close, CreateAdjustment, Adjust
  <2>5. \A p \in DOMAIN payment : ~ReversePayment(p)
    BY <1>2
  <2>6. ~UNCHANGED vars
    BY <2>1 DEF vars
  <2> QED
    BY <2>2, <2>3, <2>4, <2>5, <2>6 DEF Next
<1> QED
  BY <1>3, RecordPaymentOldestFirst

-----------------------------------------------------------------------------
(* The theorems.                                                           *)

\* Every stored row of the courier's account, and every id in it, has its type.
THEOREM TypeCorrect == Spec => []TypeOK
<1>1. IInv => TypeOK
  BY DEF IInv
<1> QED
  BY <1>1, InvariantHolds, PTL

\* Whichever of the six pieces of code wrote a period's totals last, they are
\* those refreshSettlementProjection would compute from the append-only rows.
THEOREM ProjectionIsRebuildableHolds == Spec => []ProjectionIsRebuildable
<1>1. IInv => ProjectionIsRebuildable
  BY DEF IInv
<1> QED
  BY <1>1, InvariantHolds, PTL

\* API and worker never bill an order twice, closing bills no entry twice, and
\* settlements and ledger differ by the swept payment reversals alone.
THEOREM BilledOnceHolds == Spec => []BilledOnce
BY InvariantHolds, InvImpliesBilledOnce, PTL

\* allocateOldestSettlements: a recorded payment is allocated to the last
\* piastre, the oldest closed periods first.
THEOREM OldestFirstHolds == Spec => OldestFirst
<1> DEFINE Step == Len(payment') > Len(payment) /\ payment'[Len(payment')].reverses = None
                     => PaysOldestFirst(payment'[Len(payment')])
<1>1. IInv /\ [Next]_vars => Step
  BY StepOldestFirst
<1>2. Spec => [][Step]_vars
  <2> HIDE DEF Step
  <2> QED
    BY <1>1, InvariantHolds, PTL DEF Spec
<1> QED
  BY <1>2 DEF OldestFirst, PaysOldestFirst

-----------------------------------------------------------------------------
(* Totals of functions.                                                    *)

\* SumFunction adds up a whole function.
LEMMA SumIs == ASSUME NEW f PROVE SumFunction(f) = Total(f, DOMAIN f)
BY DEF SumFunction, Total

\* Ones come to their number.
LEMMA TotalOnes ==
  ASSUME NEW S, IsFiniteSet(S), NEW f, \A x \in S : f[x] = 1
  PROVE  Total(f, S) = Cardinality(S)
<1> DEFINE P == {s \in SUBSET S : Total(f, s) # Cardinality(s)}
<1>1. ASSUME P # {} PROVE FALSE
  <2>1. PICK s \in P : \A t \in P : Cardinality(t) >= Cardinality(s)
    BY <1>1, LeastSet
  <2>2. IsFiniteSet(s) /\ Cardinality(s) \in Nat
    BY FS_Subset, FS_CardinalityType
  <2>3. s # {}
    <3>1. Total(f, {}) = Cardinality({}) /\ Total(f, s) # Cardinality(s)
      BY <2>1, TotalEmpty, FS_EmptySet
    <3> HIDE DEF P
    <3> QED
      BY <3>1
  <2>4. PICK x \in s : TRUE
    BY <2>3
  <2>5. Cardinality(s \ {x}) = Cardinality(s) - 1
    BY <2>2, FS_RemoveElement
  <2>6. Total(f, s \ {x}) = Cardinality(s \ {x})
    BY <2>1, <2>2, <2>5
  <2>7. f[x] = 1 /\ \A y \in s : f[y] \in Int
    OBVIOUS
  <2>8. Total(f, s) = f[x] + Total(f, s \ {x})
    BY <2>2, <2>7, TotalRemove
  <2>9. Total(f, s) = Cardinality(s)
    BY <2>2, <2>5, <2>6, <2>7, <2>8
  <2> QED
    BY <2>1, <2>9
<1>2. S \notin P
  BY <1>1
<1> QED
  BY <1>2

\* Amounts of at most m come to at most m each.
LEMMA TotalAtMost ==
  ASSUME NEW S, IsFiniteSet(S), NEW f, NEW m \in Int,
         \A x \in S : f[x] \in Int /\ f[x] <= m
  PROVE  Total(f, S) <= m * Cardinality(S)
<1> DEFINE P == {s \in SUBSET S : ~(Total(f, s) <= m * Cardinality(s))}
<1>1. ASSUME P # {} PROVE FALSE
  <2>1. PICK s \in P : \A t \in P : Cardinality(t) >= Cardinality(s)
    BY <1>1, LeastSet
  <2>2. IsFiniteSet(s) /\ Cardinality(s) \in Nat
    BY FS_Subset, FS_CardinalityType
  <2>3. s # {}
    <3>1. Total(f, {}) = 0 /\ Cardinality({}) = 0
      BY TotalEmpty, FS_EmptySet
    <3>2. m * Cardinality({}) = 0
      BY <3>1
    <3>3. {} \notin P
      BY <3>1, <3>2
    <3> HIDE DEF P
    <3> QED
      BY <2>1, <3>3
  <2>4. PICK x \in s : TRUE
    BY <2>3
  <2>5. PICK t, n : t = s \ {x} /\ n = Cardinality(t)
    OBVIOUS
  <2>6. IsFiniteSet(t) /\ Cardinality(s) = n + 1 /\ t \in SUBSET S /\ n \in Nat
    <3>1. IsFiniteSet(t) /\ Cardinality(t) = Cardinality(s) - 1 /\ t \in SUBSET S
      BY <2>2, <2>5, FS_RemoveElement
    <3>2. Cardinality(t) \in Nat
      BY <3>1, FS_CardinalityType
    <3> QED
      BY <2>2, <2>5, <3>1, <3>2
  <2>7. Total(f, t) <= m * n
    <3>1. t \notin P
      <4> HIDE DEF P
      <4> QED
        BY <2>1, <2>5, <2>6
    <3>2. Total(f, t) <= m * Cardinality(t)
      BY Zenon, <2>6, <3>1
    <3> QED
      BY <2>5, <3>2
  <2>8. f[x] \in Int /\ f[x] <= m /\ (\A y \in s : f[y] \in Int)
    OBVIOUS
  <2>9. Total(f, s) = f[x] + Total(f, t)
    BY <2>2, <2>5, <2>8, TotalRemove
  <2>10. Total(f, t) \in Int
    BY <2>6, TotalTyped
  <2>11. m * (n + 1) = m * n + m /\ m * n \in Int
    BY <2>6
  <2>12. Total(f, s) <= m * (n + 1)
    BY <2>7, <2>8, <2>9, <2>10, <2>11
  <2>13. ~(Total(f, s) <= m * Cardinality(s))
    BY <2>1
  <2> HIDE DEF P
  <2> QED
    BY <2>6, <2>12, <2>13
<1>2. S \notin P
  BY <1>1
<1> QED
  BY <1>2

\* d[x] shared out to m, with what is left over.
Divides(S, n, d, m, q, r) ==
    \A x \in S : /\ d[x] \in Int /\ q[x] \in Int /\ r[x] \in Int
                 /\ n * d[x] = m * q[x] + r[x]

\* What holds of each quotient and its remainder holds of their totals.
LEMMA TotalDivides ==
  ASSUME NEW S, IsFiniteSet(S), NEW d, NEW q, NEW r, NEW m \in Int, NEW n \in Int,
         Divides(S, n, d, m, q, r)
  PROVE  n * Total(d, S) = m * Total(q, S) + Total(r, S)
<1>0. \A x \in S : /\ d[x] \in Int /\ q[x] \in Int /\ r[x] \in Int
                   /\ n * d[x] = m * q[x] + r[x]
  BY DEF Divides
<1> DEFINE P == {s \in SUBSET S :
                   n * Total(d, s) # m * Total(q, s) + Total(r, s)}
<1>1. ASSUME P # {} PROVE FALSE
  <2>1. PICK s \in P : \A t \in P : Cardinality(t) >= Cardinality(s)
    BY <1>1, LeastSet
  <2>2. IsFiniteSet(s) /\ Cardinality(s) \in Nat
    BY FS_Subset, FS_CardinalityType
  <2>3. n * Total(d, s) # m * Total(q, s) + Total(r, s)
    BY <2>1
  <2>4. s # {}
    <3>1. Total(d, {}) = 0 /\ Total(q, {}) = 0 /\ Total(r, {}) = 0
      BY TotalEmpty
    <3>2. n * 0 = m * 0 + 0
      OBVIOUS
    <3> HIDE DEF P
    <3> QED
      BY <2>3, <3>1, <3>2
  <2>5. PICK x \in s : TRUE
    BY <2>4
  <2>6. PICK t : t = s \ {x}
    OBVIOUS
  <2>7. IsFiniteSet(t) /\ Cardinality(t) = Cardinality(s) - 1 /\ t \in SUBSET S
    BY <2>2, <2>6, FS_RemoveElement
  <2>8. n * Total(d, t) = m * Total(q, t) + Total(r, t)
    BY <2>1, <2>2, <2>7
  <2>9. /\ \A y \in s : d[y] \in Int
        /\ \A y \in s : q[y] \in Int
        /\ \A y \in s : r[y] \in Int
    BY <1>0
  <2>10. Total(d, s) = d[x] + Total(d, t)
    BY <2>2, <2>6, <2>9, TotalRemove
  <2>11. Total(q, s) = q[x] + Total(q, t)
    BY <2>2, <2>6, <2>9, TotalRemove
  <2>12. Total(r, s) = r[x] + Total(r, t)
    BY <2>2, <2>6, <2>9, TotalRemove
  <2>13. PICK D, Q, R : D = Total(d, t) /\ Q = Total(q, t) /\ R = Total(r, t)
    OBVIOUS
  <2>14. D \in Int /\ Q \in Int /\ R \in Int
    <3>1. /\ \A y \in t : d[y] \in Int
          /\ \A y \in t : q[y] \in Int
          /\ \A y \in t : r[y] \in Int
      BY <2>6, <2>9
    <3>2. Total(d, t) \in Int
      BY <2>7, <3>1, TotalTyped
    <3>3. Total(q, t) \in Int
      BY <2>7, <3>1, TotalTyped
    <3>4. Total(r, t) \in Int
      BY <2>7, <3>1, TotalTyped
    <3> QED
      BY <2>13, <3>2, <3>3, <3>4
  <2>15. PICK a, b, c : a = d[x] /\ b = q[x] /\ c = r[x]
    OBVIOUS
  <2>16. a \in Int /\ b \in Int /\ c \in Int /\ n * a = m * b + c
    BY <1>0, <2>15
  <2>17. n * D = m * Q + R
    BY <2>8, <2>13
  <2>18. n * (a + D) = n * a + n * D /\ m * (b + Q) = m * b + m * Q
    BY <2>14, <2>16
  <2>19. /\ n * a \in Int /\ n * D \in Int /\ m * b \in Int /\ m * Q \in Int
    BY <2>14, <2>16
  <2>20. n * (a + D) = m * (b + Q) + (c + R)
    BY <2>14, <2>16, <2>17, <2>18, <2>19
  <2> HIDE DEF P
  <2> QED
    BY <2>3, <2>10, <2>11, <2>12, <2>13, <2>15, <2>20
<1>2. S \notin P
  BY <1>1
<1> QED
  BY <1>2

-----------------------------------------------------------------------------
(* Ranks.                                                                  *)

\* B[x] are the elements of S before x, and one of any two is before the other.
Ranked(B, S) ==
    /\ \A x \in S : B[x] \subseteq S /\ x \notin B[x]
    /\ \A x, y \in S : x # y => x \in B[y] \/ y \in B[x]
    /\ \A x, y \in S : x \in B[y] => B[x] \subseteq B[y]

\* One element comes last.
LEMMA LastOf ==
  ASSUME NEW S, IsFiniteSet(S), NEW B, Ranked(B, S), S # {}
  PROVE  \E m \in S : S \ {m} \subseteq B[m]
<1>0. /\ \A x, y \in S : x # y => x \in B[y] \/ y \in B[x]
      /\ \A x, y \in S : x \in B[y] => B[x] \subseteq B[y]
  BY DEF Ranked
<1> DEFINE P == {s \in SUBSET S : s # {} /\ ~\E m \in s : s \ {m} \subseteq B[m]}
<1>1. ASSUME P # {} PROVE FALSE
  <2>1. PICK s \in P : \A t \in P : Cardinality(t) >= Cardinality(s)
    BY <1>1, LeastSet
  <2>2. IsFiniteSet(s) /\ Cardinality(s) \in Nat
    BY FS_Subset, FS_CardinalityType
  <2>3. PICK x \in s : TRUE
    BY <2>1
  <2>4. PICK t : t = s \ {x}
    OBVIOUS
  <2>5. Cardinality(t) = Cardinality(s) - 1 /\ t \in SUBSET S
    BY <2>2, <2>4, FS_RemoveElement
  <2>6. t # {}
    <3>1. CASE t = {}
      <4>1. s \ {x} \subseteq B[x]
        BY <2>4, <3>1
      <4> QED
        BY <2>1, <4>1
    <3> QED
      BY <3>1
  <2>7. PICK m \in t : t \ {m} \subseteq B[m]
    BY <2>1, <2>2, <2>5, <2>6
  <2>8. CASE x \in B[m]
    <3>1. s \ {m} \subseteq B[m] /\ m \in s
      BY <2>4, <2>7, <2>8
    <3> QED
      BY <2>1, <3>1
  <2>9. CASE x \notin B[m]
    <3>1. m \in B[x] /\ B[m] \subseteq B[x]
      BY <1>0, <2>4, <2>5, <2>9
    <3>2. s \ {x} \subseteq B[x]
      BY <2>4, <2>7, <3>1
    <3> QED
      BY <2>1, <3>2
  <2> QED
    BY <2>8, <2>9
<1>2. S \notin P
  BY <1>1
<1> QED
  BY <1>2

\* As many have fewer than n before them.
LEMMA RanksAre ==
  ASSUME NEW S, IsFiniteSet(S), NEW B, Ranked(B, S), NEW n \in 0 .. Cardinality(S)
  PROVE  Cardinality({x \in S : Cardinality(B[x]) < n}) = n
<1>0. /\ \A x \in S : B[x] \subseteq S /\ x \notin B[x]
      /\ \A x, y \in S : x # y => x \in B[y] \/ y \in B[x]
      /\ \A x, y \in S : x \in B[y] => B[x] \subseteq B[y]
  BY DEF Ranked
<1> DEFINE few(s, k) == {x \in s : Cardinality(B[x] \cap s) < k}
           P == {s \in SUBSET S : ~\A k \in 0 .. Cardinality(s) :
                                     Cardinality(few(s, k)) = k}
<1>1. ASSUME P # {} PROVE FALSE
  <2>1. PICK s \in P : \A t \in P : Cardinality(t) >= Cardinality(s)
    BY <1>1, LeastSet
  <2>2. IsFiniteSet(s) /\ Cardinality(s) \in Nat /\ s \in SUBSET S
    BY FS_Subset, FS_CardinalityType
  <2>3. PICK k \in 0 .. Cardinality(s) : Cardinality(few(s, k)) # k
    BY <2>1
  <2>4. s # {}
    <3>1. CASE s = {}
      <4>1. few(s, k) = {} /\ k = 0
        BY <3>1, FS_EmptySet
      <4> QED
        BY <2>3, <4>1, FS_EmptySet
    <3> QED
      BY <3>1
  <2>5. CASE k = Cardinality(s)
    <3>1. ASSUME NEW x \in s PROVE Cardinality(B[x] \cap s) < k
      <4>1. x \notin B[x]
        BY <1>0, <2>2
      <4>2. B[x] \cap s \subseteq s \ {x}
        BY <4>1
      <4>3. IsFiniteSet(s \ {x}) /\ Cardinality(s \ {x}) = Cardinality(s) - 1
        BY <2>2, FS_RemoveElement
      <4>4. /\ Cardinality(B[x] \cap s) <= Cardinality(s \ {x})
            /\ Cardinality(B[x] \cap s) \in Nat
        BY <4>2, <4>3, FS_Subset, FS_CardinalityType
      <4> QED
        BY <2>2, <2>5, <4>3, <4>4
    <3>2. few(s, k) = s
      BY <3>1
    <3> QED
      BY <2>3, <2>5, <3>2
  <2>6. CASE k # Cardinality(s)
    <3>1. Ranked(B, S)
      OBVIOUS
    <3>2. PICK C : C = [x \in s |-> B[x] \cap s]
      OBVIOUS
    <3>3. Ranked(C, s)
      <4>1. \A x \in s : C[x] = B[x] \cap s
        BY <3>2
      <4> QED
        BY <1>0, <2>2, <4>1 DEF Ranked
    <3>4. PICK m \in s : s \ {m} \subseteq C[m]
      BY <2>2, <2>4, <3>3, LastOf
    <3>5. PICK t : t = s \ {m}
      OBVIOUS
    <3>6. Cardinality(t) = Cardinality(s) - 1 /\ t \in SUBSET S /\ m \in S
      BY <2>2, <3>5, FS_RemoveElement
    <3>7. t \notin P
      <4> HIDE DEF P
      <4> QED
        BY <2>1, <2>2, <3>6
    <3>8. k \in 0 .. Cardinality(t)
      BY <2>2, <2>6, <3>6
    <3>9. Cardinality(few(t, k)) = k
      BY <3>6, <3>7, <3>8
    <3>10. ASSUME NEW x \in t PROVE B[x] \cap s = B[x] \cap t
      <4>1. x \in S /\ x \in B[m] /\ m \notin B[m]
        BY <1>0, <3>2, <3>4, <3>5, <3>6
      <4>2. m \notin B[x]
        BY <1>0, <3>6, <4>1
      <4> QED
        BY <3>5, <4>2
    <3>11. B[m] \cap s = t
      <4>1. m \notin B[m]
        BY <1>0, <3>6
      <4> QED
        BY <3>2, <3>4, <3>5, <4>1
    <3>12. ~(Cardinality(B[m] \cap s) < k)
      BY <2>2, <3>6, <3>8, <3>11
    <3>13. few(s, k) = few(t, k)
      BY <3>5, <3>10, <3>12
    <3> QED
      BY <2>3, <3>9, <3>13
  <2> QED
    BY <2>5, <2>6
<1>2. S \notin P
  BY <1>1
<1>3. Cardinality(few(S, n)) = n
  BY <1>2
<1>4. \A x \in S : B[x] \cap S = B[x]
  BY <1>0
<1>5. few(S, n) = {x \in S : Cardinality(B[x]) < n}
  BY <1>4
<1> QED
  BY <1>3, <1>5

-----------------------------------------------------------------------------
(* The largest remainder.                                                  *)

\* What m times makes no less than nothing, and no more than m - 1 times n.
LEMMA SmallProduct ==
  ASSUME NEW m \in Nat \ {0}, NEW x \in Int, NEW n \in Nat \ {0},
         m * x >= 0, m * x <= (m - 1) * n
  PROVE  x \in 0 .. n - 1
<1>1. ASSUME x <= -1 PROVE FALSE
  <2>1. m * x <= m * (-1)
    BY <1>1
  <2>2. m * (-1) = -m
    OBVIOUS
  <2> QED
    BY <2>1, <2>2
<1>2. ASSUME x >= n PROVE FALSE
  <2>1. m * x >= m * n
    BY <1>2
  <2>2. (m - 1) * n = m * n - n
    OBVIOUS
  <2> QED
    BY <2>1, <2>2
<1> QED
  BY <1>1, <1>2

\* What is rounded down, and what remains.
LEMMA Division ==
  ASSUME NEW n \in Int, NEW m \in Nat \ {0}
  PROVE  /\ n \div m \in Int /\ n % m \in 0 .. m - 1
         /\ n = m * (n \div m) + (n % m)
OBVIOUS

\* attributePaymentsToZones: the shares of a payment come to the payment, and each
\* is the exact share rounded down, or a piastre more.
THEOREM SharesAreExact ==
  ASSUME NEW due, IsFiniteSet(DOMAIN due), DOMAIN due \subseteq Int,
         \A z \in DOMAIN due : due[z] \in Int,
         NEW amount \in Nat, positive(due) # {}
  PROVE  /\ Total([z \in positive(due) |-> attributed(amount, due, z)],
                  positive(due)) = amount
         /\ \A z \in positive(due) :
              /\ attributed(amount, due, z) \in Int
              /\ attributed(amount, due, z) - roundedDown(amount, due, z) \in {0, 1}
<1>1. PICK P, T : P = positive(due) /\ T = totalDue(due)
  OBVIOUS
<1>2. /\ P \subseteq DOMAIN due /\ P # {} /\ IsFiniteSet(P)
      /\ \A z \in P : due[z] \in Nat \ {0} /\ z \in Int
  BY <1>1, FS_Subset DEF positive
<1>3. T = Total(due, P)
  BY <1>1 DEF totalDue, Total
<1>4. T \in Nat \ {0}
  <2>1. PICK y \in P : TRUE
    BY <1>2
  <2>2. T = due[y] + Total(due, P \ {y})
    BY <1>2, <1>3, TotalRemove
  <2>3. IsFiniteSet(P \ {y}) /\ \A z \in P \ {y} : due[z] \in Nat
    BY <1>2, FS_Subset
  <2>4. Total(due, P \ {y}) \in Nat
    BY <2>3, TotalTyped
  <2> QED
    BY <1>2, <2>2, <2>4
<1>5. PICK q, r : /\ q = [z \in P |-> roundedDown(amount, due, z)]
                  /\ r = [z \in P |-> remainder(amount, due, z)]
  OBVIOUS
<1>6. ASSUME NEW z \in P
      PROVE  /\ q[z] = roundedDown(amount, due, z) /\ r[z] = remainder(amount, due, z)
             /\ q[z] \in Int /\ r[z] \in 0 .. T - 1
             /\ amount * due[z] = T * q[z] + r[z]
  <2>1. PICK n : n = amount * due[z]
    OBVIOUS
  <2>2. n \in Int
    BY <1>2, <2>1
  <2>3. q[z] = n \div T /\ r[z] = n % T
    BY <1>1, <1>5, <2>1 DEF roundedDown, remainder
  <2>4. q[z] = roundedDown(amount, due, z) /\ r[z] = remainder(amount, due, z)
    BY <1>5
  <2> QED
    BY <1>4, <2>1, <2>2, <2>3, <2>4, Division
<1>7. Divides(P, amount, due, T, q, r)
  BY <1>2, <1>6 DEF Divides
<1>8. amount * T = T * Total(q, P) + Total(r, P)
  BY <1>2, <1>3, <1>4, <1>7, TotalDivides
<1>9. PICK Q, R, n, left : /\ Q = Total(q, P) /\ R = Total(r, P)
                           /\ n = Cardinality(P) /\ left = leftOver(amount, due)
  OBVIOUS
<1>10. Q \in Int
  BY <1>2, <1>6, <1>9, TotalTyped
<1>11. R \in Nat
  <2>1. \A z \in P : r[z] \in Nat
    BY <1>4, <1>6
  <2> QED
    BY <1>2, <1>9, <2>1, TotalTyped
<1>12. n \in Nat \ {0}
  BY <1>2, <1>9, FS_CardinalityType, FS_EmptySet
<1>13. R <= (T - 1) * n
  <2>1. T - 1 \in Int /\ \A z \in P : r[z] \in Int /\ r[z] <= T - 1
    BY <1>4, <1>6
  <2> QED
    BY <1>2, <1>9, <2>1, TotalAtMost
<1>14. left = amount - Q
  <2>1. DOMAIN q = P
    BY <1>5
  <2>2. SumFunction(q) = Total(q, P)
    BY <2>1, SumIs
  <2> QED
    BY <1>1, <1>5, <1>9, <2>2 DEF leftOver
<1>15. T * left = R
  <2>1. T * (amount - Q) = T * amount - T * Q
    BY <1>4, <1>10
  <2>2. amount * T = T * amount /\ T * amount \in Int /\ T * Q \in Int
    BY <1>4, <1>10
  <2> QED
    BY <1>8, <1>9, <1>11, <1>14, <2>1, <2>2
<1>16. left \in 0 .. n - 1
  BY <1>4, <1>10, <1>11, <1>12, <1>13, <1>14, <1>15, SmallProduct
<1>17. PICK B : B = [z \in P |-> before(amount, due, z)]
  OBVIOUS
<1>18. Ranked(B, P)
  <2>1. ASSUME NEW z \in P
        PROVE  /\ B[z] \subseteq P
               /\ \A y \in P : y \in B[z] <=> r[y] > r[z] \/ (r[y] = r[z] /\ y < z)
    <3>1. B[z] = before(amount, due, z)
      BY <1>17
    <3> QED
      BY <1>1, <1>6, <3>1 DEF before
  <2>2. \A z \in P : r[z] \in Int /\ z \in Int
    BY <1>2, <1>6
  <2>3. \A z \in P : B[z] \subseteq P /\ z \notin B[z]
    BY <2>1, <2>2
  <2>4. \A x, y \in P : x # y => x \in B[y] \/ y \in B[x]
    BY <2>1, <2>2
  <2>5. ASSUME NEW x \in P, NEW y \in P, x \in B[y] PROVE B[x] \subseteq B[y]
    BY <2>1, <2>2, <2>5
  <2> QED
    BY <2>3, <2>4, <2>5 DEF Ranked
<1>19. PICK U : U = {z \in P : Cardinality(B[z]) < left}
  OBVIOUS
<1>20. Cardinality(U) = left
  <2>1. left \in 0 .. Cardinality(P)
    BY <1>9, <1>12, <1>16
  <2> QED
    BY <1>2, <1>18, <1>19, <2>1, RanksAre
<1>21. PICK one, s : /\ one = [z \in P |-> IF z \in U THEN 1 ELSE 0]
                     /\ s = [z \in P |-> attributed(amount, due, z)]
  OBVIOUS
<1>22. ASSUME NEW z \in P
       PROVE  /\ s[z] = attributed(amount, due, z) /\ one[z] \in {0, 1}
              /\ s[z] = q[z] + one[z]
  <2>1. s[z] = roundedDown(amount, due, z)
               + (IF Cardinality(before(amount, due, z)) < left THEN 1 ELSE 0)
    BY <1>9, <1>21 DEF attributed
  <2>2. B[z] = before(amount, due, z)
    BY <1>17
  <2>3. one[z] = IF Cardinality(before(amount, due, z)) < left THEN 1 ELSE 0
    BY <1>19, <1>21, <2>2
  <2> QED
    BY <1>6, <1>21, <2>1, <2>3
<1>23. Total(s, P) = Q + Total(one, P)
  <2>1. AddUp(s, q, one, P)
    BY <1>6, <1>22 DEF AddUp
  <2> QED
    BY <1>2, <1>9, <2>1, TotalPlus
<1>24. Total(one, P) = left
  <2>1. PICK V : V = P \ U
    OBVIOUS
  <2>2. IsFiniteSet(U) /\ IsFiniteSet(V) /\ U \cap V = {} /\ U \cup V = P
    BY <1>2, <1>19, <2>1, FS_Subset
  <2>3. (\A z \in U : one[z] = 1) /\ (\A z \in V : one[z] = 0)
    BY <1>19, <1>21, <2>1
  <2>4. Total(one, U) = Cardinality(U)
    BY <2>2, <2>3, TotalOnes
  <2>5. Total(one, V) = 0
    BY <2>2, <2>3, TotalZero
  <2>6. \A z \in U \cup V : one[z] \in Int
    BY <2>3
  <2>7. Total(one, U \cup V) = Total(one, U) + Total(one, V)
    BY <2>2, <2>6, TotalUnion
  <2>8. Total(one, P) = Total(one, U) + Total(one, V)
    BY Zenon, <2>2, <2>7
  <2> QED
    BY <1>16, <1>20, <2>4, <2>5, <2>8
<1>25. Total(s, P) = amount
  BY <1>10, <1>14, <1>16, <1>23, <1>24
<1>26. ASSUME NEW z \in P
       PROVE  /\ attributed(amount, due, z) \in Int
              /\ attributed(amount, due, z) - roundedDown(amount, due, z) \in {0, 1}
  BY <1>6, <1>22
<1> QED
  BY <1>1, <1>21, <1>25, <1>26

\* Every payment of the bounded check is divided exactly.
LEMMA DividesExactlyAlways == DividesExactly
<1> SUFFICES ASSUME NEW due \in [1 .. MaxZones -> -1 .. MaxDue],
                    NEW amount \in 1 .. MaxDue, positive(due) # {}
             PROVE  /\ SumFunction([z \in positive(due) |-> attributed(amount, due, z)])
                         = amount
                    /\ \A z \in positive(due) :
                          attributed(amount, due, z) - roundedDown(amount, due, z)
                            \in {0, 1}
  BY DEF DividesExactly
<1>1. MaxZones \in Nat /\ MaxDue \in Nat
  BY DivisionAssumption
<1>2. DOMAIN due = 1 .. MaxZones /\ \A z \in DOMAIN due : due[z] \in Int
  BY <1>1
<1>3. IsFiniteSet(DOMAIN due) /\ DOMAIN due \subseteq Int /\ amount \in Nat
  BY <1>1, <1>2, FS_Interval
<1>4. PICK s : s = [z \in positive(due) |-> attributed(amount, due, z)]
  OBVIOUS
<1>5. DOMAIN s = positive(due)
  BY <1>4
<1>6. SumFunction(s) = Total(s, positive(due))
  BY <1>5, SumIs
<1> QED
  BY <1>2, <1>3, <1>4, <1>6, SharesAreExact

-----------------------------------------------------------------------------
(* What the reports rest on.                                               *)

\* An entry is for one order or none, a commission for one.
ForOrder(e) ==
    /\ e.orders = {} \/ \E o \in Order : e.orders = {o}
    /\ e.type = "COMMISSION_DUE" => e.orders # {}

EntriesForOrders == \A i \in DOMAIN ledger : ForOrder(ledger[i])

\* No payment is made for an order.
PaymentsForNone == \A p \in DOMAIN payment : ledger[payment[p].entry].orders = {}

\* No two allocations of a payment are to the same period.
Apart(A) == \A a, b \in A : a.period = b.period => a = b

\* A reversal gives back the allocations of the payment that it reverses.
GivesBack(payments, p) ==
    payments[p].reverses # None =>
        payments[p].allocations = payments[payments[p].reverses].allocations

AllocationsApart ==
    \A p \in DOMAIN payment :
        Apart(payment[p].allocations) /\ GivesBack(payment, p)

ReportInv == EntriesForOrders /\ PaymentsForNone /\ AllocationsApart

\* An entry is appended.
LEMMA EntryAppended ==
  ASSUME IInv, ReportInv, NEW new \in Entry, ForOrder(new),
         ledger' = Append(ledger, new)
  PROVE  /\ EntriesForOrders'
         /\ \A p \in DOMAIN payment : ledger'[payment[p].entry].orders = {}
<1>1. ledger \in Seq(Entry)
  BY StateFacts
<1>2. PICK n : n = Len(ledger) + 1
  OBVIOUS
<1>3. /\ DOMAIN ledger' = DOMAIN ledger \cup {n}
      /\ ledger'[n] = new
      /\ \A i \in DOMAIN ledger : ledger'[i] = ledger[i]
  BY <1>1, <1>2, AppendFacts DEF Extends
<1>4. EntriesForOrders /\ PaymentsForNone
  BY DEF ReportInv
<1>5. EntriesForOrders'
  BY Zenon, <1>3, <1>4 DEF EntriesForOrders
<1>6. \A p \in DOMAIN payment : EntryOf(payment[p], ledger)
  BY DEF IInv, PaymentInv, PaymentsEntered
<1>7. ASSUME NEW p \in DOMAIN payment PROVE ledger'[payment[p].entry].orders = {}
  <2>1. payment[p].entry \in DOMAIN ledger
    BY <1>6 DEF EntryOf
  <2>2. ledger[payment[p].entry].orders = {}
    BY <1>4 DEF PaymentsForNone
  <2> QED
    BY <1>3, <2>1, <2>2
<1> QED
  BY <1>5, <1>7

\* Only an entry is appended.
LEMMA EntryReportInv ==
  ASSUME IInv, ReportInv, NEW new \in Entry, ForOrder(new),
         ledger' = Append(ledger, new), payment' = payment
  PROVE  ReportInv'
<1>1. /\ EntriesForOrders'
      /\ \A p \in DOMAIN payment : ledger'[payment[p].entry].orders = {}
  BY EntryAppended
<1>2. PaymentsForNone'
  BY <1>1 DEF PaymentsForNone
<1>3. AllocationsApart'
  BY DEF ReportInv, AllocationsApart
<1> QED
  BY <1>1, <1>2, <1>3 DEF ReportInv

\* A payment is appended with its entry.
LEMMA PaymentReportInv ==
  ASSUME IInv, ReportInv, NEW new \in Payment, Apart(new.allocations),
         new.reverses # None => /\ new.reverses \in DOMAIN payment
                                /\ new.allocations = payment[new.reverses].allocations,
         payment' = Append(payment, new), new.entry = Len(ledger) + 1,
         NEW entry \in Entry, entry.type # "COMMISSION_DUE", entry.orders = {},
         ledger' = Append(ledger, entry)
  PROVE  ReportInv'
<1>1. payment \in Seq(Payment) /\ ledger \in Seq(Entry)
  BY StateFacts
<1>2. PICK n : n = Len(payment) + 1
  OBVIOUS
<1>3. /\ DOMAIN payment' = DOMAIN payment \cup {n}
      /\ payment'[n] = new
      /\ \A p \in DOMAIN payment : payment'[p] = payment[p]
  BY <1>1, <1>2, AppendFacts DEF Extends
<1>4. \A p \in DOMAIN payment : ReversalOf(payment, p)
  BY DEF IInv, PaymentInv, ReversedOnce
<1>5. ASSUME NEW p \in DOMAIN payment
      PROVE  Apart(payment'[p].allocations) /\ GivesBack(payment', p)
  <2>1. Apart(payment[p].allocations) /\ GivesBack(payment, p)
    BY DEF ReportInv, AllocationsApart
  <2>2. payment'[p] = payment[p]
    BY <1>3
  <2>3. payment[p].reverses # None => payment[p].reverses \in DOMAIN payment
    BY <1>4 DEF ReversalOf
  <2> QED
    BY <1>3, <2>1, <2>2, <2>3 DEF GivesBack
<1>6. Apart(payment'[n].allocations)
  BY <1>3
<1>7. GivesBack(payment', n)
  BY <1>3 DEF GivesBack
<1>8. AllocationsApart'
  BY Zenon, <1>3, <1>5, <1>6, <1>7 DEF AllocationsApart
<1>9. ForOrder(entry)
  BY DEF ForOrder
<1>10. /\ EntriesForOrders'
       /\ \A p \in DOMAIN payment : ledger'[payment[p].entry].orders = {}
  BY <1>9, EntryAppended
<1>11. ledger'[new.entry].orders = {}
  <2>1. ledger'[Len(ledger) + 1] = entry
    BY <1>1, AppendFacts
  <2> QED
    BY <2>1
<1>12. \A p \in DOMAIN payment' : ledger'[payment'[p].entry].orders = {}
  BY <1>3, <1>10, <1>11
<1>13. PaymentsForNone'
  BY <1>12 DEF PaymentsForNone
<1> QED
  BY <1>8, <1>10, <1>13 DEF ReportInv

\* An order is billed.
LEMMA BillReportInv ==
  ASSUME IInv, ReportInv, NEW o \in Order, NEW at \in Nat, NEW start, Bill(o, at, start)
  PROVE  ReportInv'
<1>1. PICK new : new = commissionEntry(o, at)
  OBVIOUS
<1>2. new \in Entry
  BY <1>1, CommissionFresh DEF Bill, Fresh
<1>3. ForOrder(new)
  BY <1>1 DEF ForOrder, commissionEntry
<1>4. ledger' = Append(ledger, new) /\ payment' = payment
  BY <1>1 DEF Bill, commissionEntry
<1> QED
  BY <1>2, <1>3, <1>4, EntryReportInv

\* A period is adjusted.
LEMMA AdjustReportInv ==
  ASSUME IInv, ReportInv, NEW type \in EntryType, NEW amount \in Int, NEW reverses \in Nat,
         NEW orders \in {{}} \cup {{o} : o \in Order}, NEW start,
         Adjust(type, amount, reverses, orders, start), type # "COMMISSION_DUE"
  PROVE  ReportInv'
<1>1. PICK new : new = [type |-> type, amount |-> amount, at |-> now, orders |-> orders,
                        reverses |-> reverses]
  OBVIOUS
<1>2. new \in Entry
  <2>1. orders \in SUBSET Order
    OBVIOUS
  <2> QED
    BY <1>1, <2>1, JobTyped DEF Entry
<1>3. ForOrder(new)
  BY <1>1 DEF ForOrder
<1>4. ledger' = Append(ledger, new) /\ payment' = payment
  BY <1>1 DEF Adjust
<1> QED
  BY <1>2, <1>3, <1>4, EntryReportInv

\* An administrator adjusts a period, or reverses an entry.
LEMMA CreateAdjustmentReportInv ==
  ASSUME IInv, ReportInv, NEW start, CreateAdjustment(start)
  PROVE  ReportInv'
<1>0. None \in Nat
  BY DEF None
<1>1. PICK orders \in {{}} \cup {{o} : o \in Order} :
        \/ \E amount \in Amount :
              \/ Adjust("ADJUSTMENT_DEBIT", amount, None, orders, start)
              \/ Adjust("ADJUSTMENT_CREDIT", -amount, None, orders, start)
              \/ Adjust("WAIVER", -amount, None, orders, start)
        \/ \E i \in DOMAIN ledger :
              notReversed(i) /\ Adjust("REVERSAL", -ledger[i].amount, i, orders, start)
  BY DEF CreateAdjustment
<1>2. ASSUME NEW amount \in Amount,
             \/ Adjust("ADJUSTMENT_DEBIT", amount, None, orders, start)
             \/ Adjust("ADJUSTMENT_CREDIT", -amount, None, orders, start)
             \/ Adjust("WAIVER", -amount, None, orders, start)
      PROVE  ReportInv'
  <2>1. PICK credit : credit = -amount
    OBVIOUS
  <2>2. amount \in Int /\ credit \in Int
    BY <2>1, AmountAssumption
  <2>3. CASE Adjust("ADJUSTMENT_DEBIT", amount, None, orders, start)
    BY <1>0, <2>2, <2>3, AdjustReportInv DEF EntryType
  <2>4. CASE Adjust("ADJUSTMENT_CREDIT", credit, None, orders, start)
    BY <1>0, <2>2, <2>4, AdjustReportInv DEF EntryType
  <2>5. CASE Adjust("WAIVER", credit, None, orders, start)
    BY <1>0, <2>2, <2>5, AdjustReportInv DEF EntryType
  <2> QED
    BY <1>2, <2>1, <2>3, <2>4, <2>5
<1>3. ASSUME NEW i \in DOMAIN ledger, Adjust("REVERSAL", -ledger[i].amount, i, orders, start)
      PROVE  ReportInv'
  <2>1. ledger[i] \in Entry /\ i \in Nat
    BY StateFacts
  <2>2. PICK back : back = -ledger[i].amount
    OBVIOUS
  <2>3. back \in Int
    BY <2>1, <2>2 DEF Entry
  <2> QED
    BY <1>3, <2>1, <2>2, <2>3, AdjustReportInv DEF EntryType
<1> QED
  BY <1>1, <1>2, <1>3

\* A payment is recorded: allocateOldestSettlements takes every period once.
LEMMA RecordPaymentReportInv ==
  ASSUME IInv, ReportInv, NEW amount \in Amount, NEW paidAt \in 0 .. now,
         RecordPayment(amount, paidAt)
  PROVE  ReportInv'
<1>1. PICK new, entry : /\ AddsPayment(new, entry)
                        /\ new.reverses = None
                        /\ new.allocations = allocateOldestSettlements(amount)
  BY RecordPaymentAdds
<1>2. Apart(new.allocations)
  <2>1. PICK A : A = allocateOldestSettlements(amount)
    OBVIOUS
  <2>2. Apart(A)
    BY <2>1 DEF Apart, allocateOldestSettlements
  <2> QED
    BY <1>1, <2>1, <2>2
<1>3. /\ new \in Payment /\ entry \in Entry /\ payment' = Append(payment, new)
      /\ new.entry = Len(ledger) + 1
      /\ ledger' = Append(ledger, entry)
  BY <1>1 DEF AddsPayment
<1>4. entry.type = "EXTERNAL_PAYMENT" /\ entry.orders = {}
  <2>1. entry = ledger'[Len(ledger) + 1]
    BY <1>1, AddsPaymentFacts
  <2>2. PICK e : e = [type |-> "EXTERNAL_PAYMENT", amount |-> -amount,
                      at |-> paidAt, orders |-> {}, reverses |-> None]
    OBVIOUS
  <2>3. ledger' = Append(ledger, e) /\ ledger \in Seq(Entry)
    BY <2>2, StateFacts DEF RecordPayment
  <2>4. ledger'[Len(ledger) + 1] = e
    BY <2>3
  <2>5. entry = e
    BY <2>1, <2>4
  <2> QED
    BY <2>2, <2>5
<1> QED
  BY <1>1, <1>2, <1>3, <1>4, PaymentReportInv

\* A payment is reversed.
LEMMA ReversePaymentReportInv ==
  ASSUME IInv, ReportInv, NEW p \in DOMAIN payment, ReversePayment(p)
  PROVE  ReportInv'
<1>1. PICK ps, old, n : ps = payment /\ old = payment[p] /\ n = Len(ledger) + 1
  OBVIOUS
<1>2. ps \in Seq(Payment) /\ old \in Payment /\ n \in Nat /\ p \in Nat
  BY <1>1, StateFacts
<1>3. PICK new : new = [old EXCEPT !.reverses = p, !.entry = n]
  OBVIOUS
<1>4. /\ new \in Payment
      /\ new.allocations = old.allocations
      /\ new.reverses = p /\ new.entry = n
  BY <1>2, <1>3 DEF Payment
<1>5. PICK entry : entry = [type |-> "REVERSAL", amount |-> old.amount, at |-> now,
                            orders |-> {}, reverses |-> old.entry]
  OBVIOUS
<1>6. entry \in Entry
  <2>1. old.amount \in Nat /\ old.entry \in Nat
    BY <1>2 DEF Payment
  <2> QED
    BY <1>5, <2>1, JobTyped DEF Entry, EntryType
<1>7. entry.type # "COMMISSION_DUE" /\ entry.orders = {}
  BY <1>5
<1>8. payment' = Append(payment, new) /\ ledger' = Append(ledger, entry)
  BY <1>1, <1>3, <1>5 DEF ReversePayment
<1>9. Apart(new.allocations)
  BY <1>1, <1>4 DEF ReportInv, AllocationsApart
<1> QED
  BY <1>1, <1>4, <1>6, <1>7, <1>8, <1>9, PaymentReportInv

\* What the reports rest on holds at first.
LEMMA ReportInit == Init => ReportInv
BY DEF Init, ReportInv, EntriesForOrders, PaymentsForNone, AllocationsApart

\* Every step keeps what the reports rest on.
LEMMA ReportStep == IInv /\ ReportInv /\ [Next]_vars => ReportInv'
<1> SUFFICES ASSUME IInv, ReportInv, [Next]_vars PROVE ReportInv'
  OBVIOUS
<1>0. ASSUME ledger' = ledger, payment' = payment PROVE ReportInv'
  BY <1>0 DEF ReportInv, EntriesForOrders, PaymentsForNone, AllocationsApart
<1>1. ASSUME NEW o \in Order, Finalize(o) PROVE ReportInv'
  <2>1. PICK at, start : at = now /\ start = apiWeek(now)
    OBVIOUS
  <2>2. Bill(o, at, start) /\ at \in Nat
    BY <1>1, <2>1, JobTyped DEF Finalize
  <2> QED
    BY <2>2, BillReportInv
<1>2. ASSUME NEW o \in Order, WorkerComplete(o) PROVE ReportInv'
  <2>1. PICK at, start : at = job.at /\ start = workerWeek(job.at)
    OBVIOUS
  <2>2. Bill(o, at, start) /\ at \in Nat
    BY <1>2, <2>1, JobTyped DEF WorkerComplete
  <2> QED
    BY <2>2, BillReportInv
<1>3. ASSUME NEW o \in Order, WorkerSkip(o) PROVE ReportInv'
  BY <1>0, <1>3 DEF WorkerSkip
<1>4. ASSUME NEW todo \in SUBSET Order, StartCompletion(todo) PROVE ReportInv'
  BY <1>0, <1>4 DEF StartCompletion
<1>5. CASE WorkerFail
  BY <1>0, <1>5 DEF WorkerFail
<1>6. ASSUME NEW start \in DOMAIN period, Close(start) PROVE ReportInv'
  BY <1>0, <1>6 DEF Close
<1>7. ASSUME NEW start \in DOMAIN period, CreateAdjustment(start) PROVE ReportInv'
  BY <1>7, CreateAdjustmentReportInv
<1>8. CASE MarkOverdue
  BY <1>0, <1>8 DEF MarkOverdue
<1>9. ASSUME NEW amount \in Amount, NEW paidAt \in 0 .. now, RecordPayment(amount, paidAt)
      PROVE  ReportInv'
  BY <1>9, RecordPaymentReportInv
<1>10. ASSUME NEW p \in DOMAIN payment, ReversePayment(p) PROVE ReportInv'
  BY <1>10, ReversePaymentReportInv
<1>11. CASE Tick
  BY <1>0, <1>11 DEF Tick
<1>12. CASE UNCHANGED vars
  BY <1>0, <1>12 DEF vars
<1> QED
  BY <1>1, <1>2, <1>3, <1>4, <1>5, <1>6, <1>7, <1>8, <1>9, <1>10, <1>11, <1>12 DEF Next

\* What the reports rest on holds in every reachable state.
THEOREM ReportInvHolds == Spec => [](IInv /\ ReportInv)
<1>1. Init => IInv /\ ReportInv
  BY InitInv, ReportInit
<1>2. IInv /\ ReportInv /\ [Next]_vars => (IInv /\ ReportInv)'
  BY StepInv, ReportStep
<1> QED
  BY <1>1, <1>2, PTL DEF Spec

-----------------------------------------------------------------------------
(* The summary.                                                            *)

\* The entries by what the summary makes of them: commissions, adjustments,
\* waivers, payments and reversals of payments.
LEMMA EntryKinds ==
  ASSUME IInv, NEW C, NEW A, NEW W, NEW O, NEW R,
         C = entriesOf({"COMMISSION_DUE"}),
         A = entriesOf({"ADJUSTMENT_DEBIT", "ADJUSTMENT_CREDIT"}) \cup adminReversals,
         W = entriesOf({"WAIVER"}),
         O = entriesOfPayments(originals), R = entriesOfPayments(reversals)
  PROVE  /\ DOMAIN ledger = C \cup (A \cup (W \cup (O \cup R)))
         /\ C \cap (A \cup (W \cup (O \cup R))) = {}
         /\ A \cap (W \cup (O \cup R)) = {}
         /\ W \cap (O \cup R) = {}
         /\ O \cap R = {}
<1>1. ledger \in Seq(Entry)
  BY StateFacts
<1>2. \A i \in DOMAIN ledger : ledger[i].type \in EntryType
  <2>1. \A i \in DOMAIN ledger : ledger[i] \in Entry
    BY <1>1
  <2> QED
    BY <2>1 DEF Entry
<1>3. /\ \A p \in DOMAIN payment : EntryOf(payment[p], ledger)
      /\ \A i \in DOMAIN ledger : ledger[i].type = "EXTERNAL_PAYMENT" => paysFor(i)
  <2>1. PaymentsEntered /\ EntriesHavePlace
    BY DEF IInv, PaymentInv, LedgerInv
  <2> QED
    BY Zenon, <2>1 DEF PaymentsEntered, EntriesHavePlace
<1>4. O = entriesOf({"EXTERNAL_PAYMENT"})
  <2>1. ASSUME NEW i \in O PROVE i \in entriesOf({"EXTERNAL_PAYMENT"})
    <3>1. PICK p \in originals : i = payment[p].entry
      BY DEF entriesOfPayments
    <3>2. EntryOf(payment[p], ledger) /\ payment[p].reverses = None
      BY <1>3 DEF originals
    <3> QED
      BY <3>1, <3>2 DEF EntryOf, entriesOf
  <2>2. ASSUME NEW i \in entriesOf({"EXTERNAL_PAYMENT"}) PROVE i \in O
    <3>1. i \in DOMAIN ledger /\ ledger[i].type = "EXTERNAL_PAYMENT"
      BY DEF entriesOf
    <3>2. PICK p \in DOMAIN payment : payment[p].entry = i
      BY <1>3, <3>1 DEF paysFor
    <3>3. payment[p].reverses = None
      BY <1>3, <3>1, <3>2 DEF EntryOf
    <3> QED
      BY <3>2, <3>3 DEF originals, entriesOfPayments
  <2> QED
    BY <2>1, <2>2
<1>5. \A i \in R : i \in DOMAIN ledger /\ ledger[i].type = "REVERSAL"
  <2>1. ASSUME NEW i \in R PROVE i \in DOMAIN ledger /\ ledger[i].type = "REVERSAL"
    <3>1. PICK p \in reversals : i = payment[p].entry
      BY DEF entriesOfPayments
    <3>2. EntryOf(payment[p], ledger) /\ payment[p].reverses # None
      BY <1>3 DEF reversals
    <3> QED
      BY <3>1, <3>2 DEF EntryOf
  <2> QED
    BY <2>1
<1>6. {payment[p].entry : p \in DOMAIN payment} = O \cup R
  BY DEF entriesOfPayments, originals, reversals
<1>7. adminReversals = entriesOf({"REVERSAL"}) \ R
  BY <1>4, <1>6 DEF adminReversals, entriesOf
<1>8. /\ \A i : i \in C <=> i \in DOMAIN ledger /\ ledger[i].type = "COMMISSION_DUE"
      /\ \A i : i \in W <=> i \in DOMAIN ledger /\ ledger[i].type = "WAIVER"
      /\ \A i : i \in O <=> i \in DOMAIN ledger /\ ledger[i].type = "EXTERNAL_PAYMENT"
  BY <1>4 DEF entriesOf
<1>9. \A i : i \in A <=>
        /\ i \in DOMAIN ledger
        /\ \/ ledger[i].type \in {"ADJUSTMENT_DEBIT", "ADJUSTMENT_CREDIT"}
           \/ ledger[i].type = "REVERSAL" /\ i \notin R
  BY <1>7 DEF entriesOf
<1>10. ASSUME NEW i \in DOMAIN ledger PROVE i \in C \cup (A \cup (W \cup (O \cup R)))
  BY <1>2, <1>8, <1>9 DEF EntryType
<1>11. DOMAIN ledger = C \cup (A \cup (W \cup (O \cup R)))
  BY Zenon, <1>5, <1>8, <1>9, <1>10
<1>12. /\ C \cap (A \cup (W \cup (O \cup R))) = {}
       /\ A \cap (W \cup (O \cup R)) = {}
       /\ W \cap (O \cup R) = {}
       /\ O \cap R = {}
  BY <1>5, <1>8, <1>9
<1> QED
  BY <1>11, <1>12

\* The account's summary adds up.
LEMMA InvImpliesSummary == IInv => SummaryAddsUp
<1> SUFFICES ASSUME IInv PROVE SummaryAddsUp
  OBVIOUS
<1>1. PICK C, A, W, O, R :
        /\ C = entriesOf({"COMMISSION_DUE"})
        /\ A = entriesOf({"ADJUSTMENT_DEBIT", "ADJUSTMENT_CREDIT"}) \cup adminReversals
        /\ W = entriesOf({"WAIVER"})
        /\ O = entriesOfPayments(originals) /\ R = entriesOfPayments(reversals)
  OBVIOUS
<1>2. /\ DOMAIN ledger = C \cup (A \cup (W \cup (O \cup R)))
      /\ C \cap (A \cup (W \cup (O \cup R))) = {}
      /\ A \cap (W \cup (O \cup R)) = {}
      /\ W \cap (O \cup R) = {}
      /\ O \cap R = {}
  BY <1>1, EntryKinds
<1>3. ledger \in Seq(Entry)
  BY StateFacts
<1>4. PICK f : f = entryAmounts(ledger)
  OBVIOUS
<1>5. IsFiniteSet(DOMAIN ledger) /\ \A i \in DOMAIN ledger : f[i] \in Int
  BY <1>3, <1>4, EntriesFinite, EntryAmountsTyped
<1>6. PICK X, Y, Z : Z = O \cup R /\ Y = W \cup Z /\ X = A \cup Y
  OBVIOUS
<1>7. /\ DOMAIN ledger = C \cup X /\ C \cap X = {} /\ A \cap Y = {} /\ W \cap Z = {}
      /\ O \cap R = {}
  BY <1>2, <1>6
<1>8. /\ IsFiniteSet(C) /\ IsFiniteSet(A) /\ IsFiniteSet(W) /\ IsFiniteSet(O)
      /\ IsFiniteSet(R) /\ IsFiniteSet(X) /\ IsFiniteSet(Y) /\ IsFiniteSet(Z)
  <2>1. /\ C \subseteq DOMAIN ledger /\ A \subseteq DOMAIN ledger
        /\ W \subseteq DOMAIN ledger /\ O \subseteq DOMAIN ledger
        /\ R \subseteq DOMAIN ledger /\ X \subseteq DOMAIN ledger
        /\ Y \subseteq DOMAIN ledger /\ Z \subseteq DOMAIN ledger
    BY <1>6, <1>7
  <2> QED
    BY <1>5, <2>1, FS_Subset
<1>9. Total(f, C \cup X) = Total(f, C) + Total(f, X)
  <2>1. \A i \in C \cup X : f[i] \in Int
    BY <1>5, <1>7
  <2> QED
    BY <1>7, <1>8, <2>1, TotalUnion
<1>10. Total(f, X) = Total(f, A) + Total(f, Y)
  <2>1. \A i \in A \cup Y : f[i] \in Int
    BY <1>5, <1>6, <1>7
  <2> QED
    BY <1>6, <1>7, <1>8, <2>1, TotalUnion
<1>11. Total(f, Y) = Total(f, W) + Total(f, Z)
  <2>1. \A i \in W \cup Z : f[i] \in Int
    BY <1>5, <1>6, <1>7
  <2> QED
    BY <1>6, <1>7, <1>8, <2>1, TotalUnion
<1>12. Total(f, Z) = Total(f, O) + Total(f, R)
  <2>1. \A i \in O \cup R : f[i] \in Int
    BY <1>5, <1>6, <1>7
  <2> QED
    BY <1>6, <1>7, <1>8, <2>1, TotalUnion
<1>13. PICK paid, back : /\ paid = Total(paidAmounts, activePayments(payment))
                         /\ back = Total(paidAmounts, reversed)
  OBVIOUS
<1>14. /\ paid \in Int /\ back \in Int
       /\ Total(f, R) = back /\ Total(f, O) \in Int
       /\ Total(f, O) + (paid + back) = 0
  BY <1>1, <1>4, <1>13, PaymentTotals
<1>15. /\ C \in SUBSET DOMAIN ledger /\ A \in SUBSET DOMAIN ledger
       /\ W \in SUBSET DOMAIN ledger
  BY <1>6, <1>7
<1>16. PICK c, a, w : c = sumOf(ledger, C) /\ a = sumOf(ledger, A) /\ w = sumOf(ledger, W)
  OBVIOUS
<1>17. /\ c = Total(f, C) /\ c \in Int
       /\ a = Total(f, A) /\ a \in Int
       /\ w = Total(f, W) /\ w \in Int
  BY <1>3, <1>4, <1>15, <1>16, SumOfTyped
<1>18. ledgerBalance = c + a + w - paid
  <2>1. ledgerBalance = Total(f, DOMAIN ledger)
    BY <1>3, <1>4, SumOfTyped DEF ledgerBalance
  <2>2. Total(f, DOMAIN ledger) = Total(f, C \cup X)
    BY <1>7
  <2> QED
    BY <1>9, <1>10, <1>11, <1>12, <1>14, <1>17, <2>1, <2>2
<1>19. SumFunction([p \in activePayments(payment) |-> payment[p].amount]) = paid
  <2>1. PICK g : g = [p \in activePayments(payment) |-> payment[p].amount]
    OBVIOUS
  <2>2. /\ IsFiniteSet(activePayments(payment))
        /\ activePayments(payment) \subseteq DOMAIN payment
    BY PaymentSets
  <2>3. \A p \in activePayments(payment) : g[p] = paidAmounts[p]
    BY <2>1, <2>2, PaymentAmounts
  <2>4. Total(g, activePayments(payment)) = paid
    BY <1>13, <2>2, <2>3, TotalSame
  <2>5. DOMAIN g = activePayments(payment)
    BY <2>1
  <2> QED
    BY <2>1, <2>4, <2>5, SumIs
<1>20. PICK s : s = accountSummary
  OBVIOUS
<1>21. /\ s.totalCommissionDue = c
       /\ s.totalRecordedPayments = paid
       /\ s.totalAdjustments = a
       /\ s.totalWaived = -w
       /\ s.remainingAmount = clamp(ledgerBalance)
  <2>1. adjusted = a
    BY <1>1, <1>16 DEF adjusted
  <2> QED
    BY <1>1, <1>16, <1>19, <1>20, <2>1 DEF accountSummary
<1>22. s.totalCommissionDue + s.totalAdjustments - s.totalWaived - s.totalRecordedPayments
         = ledgerBalance
  BY <1>14, <1>17, <1>18, <1>21
<1> QED
  BY <1>20, <1>21, <1>22 DEF SummaryAddsUp

-----------------------------------------------------------------------------
(* A period's sheet.                                                       *)

\* What rows come to.
LEMMA AmountsAre == ASSUME NEW X PROVE amounts(X) = Total(shares(X), X)
<1>1. PICK f : f = shares(X)
  OBVIOUS
<1>2. DOMAIN f = X
  BY <1>1 DEF shares
<1> QED
  BY <1>1, <1>2, SumIs DEF amounts, shares

\* The row of a ledger entry.
ledgerRow(i) == [type |-> ledger[i].type, id |-> i, amount |-> ledger[i].amount]

\* The sheet's rows for entries are those of the entries billed.
LEMMA RowsOfEntries ==
  ASSUME IInv, NEW s \in DOMAIN period
  PROVE  amounts({r \in ledgerRows(s) : r.type # "EXTERNAL_PAYMENT"})
           = Total(entryAmounts(ledger), billedOn(s))
<1>1. PICK f, B, k : /\ f = entryAmounts(ledger) /\ B = billedOn(s)
                     /\ k = [i \in DOMAIN ledger |-> ledgerRow(i)]
  OBVIOUS
<1>2. ledger \in Seq(Entry) /\ LinesOver(ledger, line)
  BY StateFacts
<1>3. \A i \in DOMAIN ledger : f[i] \in Int /\ f[i] = ledger[i].amount
  BY <1>1, <1>2, EntryAmountsTyped
<1>4. IsFiniteSet(B) /\ B \subseteq DOMAIN ledger
  BY <1>1, NetIs
<1>5. \A i \in DOMAIN ledger : ledger[i].type \in EntryType
  <2>1. \A i \in DOMAIN ledger : ledger[i] \in Entry
    BY <1>2
  <2> QED
    BY <2>1 DEF Entry
<1>6. \A i \in DOMAIN ledger : k[i] = ledgerRow(i)
  BY <1>1
<1>7. \A i \in DOMAIN ledger : /\ k[i].type = ledger[i].type /\ k[i].id = i
                               /\ k[i].amount = ledger[i].amount
  <2>1. ASSUME NEW i \in DOMAIN ledger
        PROVE  k[i].type = ledger[i].type /\ k[i].id = i /\ k[i].amount = ledger[i].amount
    <3>1. PICK t, a : t = ledger[i].type /\ a = ledger[i].amount
      OBVIOUS
    <3>2. k[i] = [type |-> t, id |-> i, amount |-> a]
      BY <1>6, <3>1 DEF ledgerRow
    <3> QED
      BY <3>1, <3>2
  <2> QED
    BY <2>1
<1>8. PICK X : X = {r \in ledgerRows(s) : r.type # "EXTERNAL_PAYMENT"}
  OBVIOUS
<1>9. X = {k[i] : i \in B}
  <2>1. ASSUME NEW i \in B PROVE k[i] \in X
    <3>1. i \in ids(s, ledger, line, BilledTypes)
      BY <1>1 DEF billedOn
    <3>2. PICK l \in line : l.period = s /\ l.entry = i /\ ledger[l.entry].type \in BilledTypes
      BY <3>1 DEF ids
    <3>3. ledgerRow(i) \in ledgerRows(s)
      BY <3>2 DEF ledgerRow, ledgerRows, linesOf
    <3>4. ledger[i].type # "EXTERNAL_PAYMENT"
      BY <3>2 DEF BilledTypes, CommissionTypes, AdjustmentTypes, WaiverTypes
    <3>5. i \in DOMAIN ledger
      BY <1>4
    <3> QED
      BY <1>6, <1>7, <1>8, <3>3, <3>4, <3>5
  <2>2. ASSUME NEW x \in X PROVE x \in {k[i] : i \in B}
    <3>1. x \in ledgerRows(s) /\ x.type # "EXTERNAL_PAYMENT"
      BY <1>8
    <3>2. PICK l \in line : l.period = s /\ x = ledgerRow(l.entry)
      BY <3>1 DEF ledgerRows, linesOf, ledgerRow
    <3>3. l.entry \in DOMAIN ledger
      BY <1>2 DEF LinesOver
    <3>4. x = k[l.entry] /\ ledger[l.entry].type \in BilledTypes
      BY <1>5, <1>6, <1>7, <3>1, <3>2, <3>3
         DEF BilledTypes, CommissionTypes, AdjustmentTypes, WaiverTypes, EntryType
    <3>5. l.entry \in B
      BY <1>1, <3>2, <3>4 DEF billedOn, ids
    <3> QED
      BY <3>4, <3>5
  <2> QED
    BY <2>1, <2>2
<1>10. PICK g : g = shares(X)
  OBVIOUS
<1>11. \A i \in B : f[i] \in Int /\ g[k[i]] = f[i]
  <2>1. \A x \in X : g[x] = x.amount
    BY <1>10 DEF shares
  <2> QED
    BY <1>3, <1>4, <1>7, <1>9, <2>1
<1>12. \A i, j \in B : k[i] = k[j] => i = j
  BY <1>4, <1>7
<1>13. Total(f, B) = Total(g, {k[i] : i \in B})
  BY <1>4, <1>11, <1>12, TotalRenamed
<1> QED
  BY <1>1, <1>8, <1>9, <1>10, <1>13, AmountsAre

\* The rows of a payment.
rowOfPayment(p, a) ==
    [type |-> IF payment[p].reverses = None THEN "PAYMENT" ELSE "REVERSAL",
     id |-> p, amount |-> a.amount]

rowsOfPayment(p, s) == {rowOfPayment(p, a) : a \in allocationsOf(p, s)}

\* A payment's rows on a sheet come to what was paid to the period.
LEMMA RowsOfPayment ==
  ASSUME IInv, ReportInv, NEW s, NEW p \in DOMAIN payment, NEW f,
         \A x \in rowsOfPayment(p, s) : f[x] = x.amount
  PROVE  /\ IsFiniteSet(rowsOfPayment(p, s))
         /\ \A x \in rowsOfPayment(p, s) : f[x] \in Int
         /\ Total(f, rowsOfPayment(p, s)) = paidTo(s, payment[p])
<1>1. PICK A, k, h, R : /\ A = allocationsOf(p, s)
                        /\ k = [a \in A |-> rowOfPayment(p, a)]
                        /\ h = shares(A)
                        /\ R = rowsOfPayment(p, s)
  OBVIOUS
<1>2. AllocatedWhole(payment[p], DOMAIN period) /\ payment[p] \in Payment
  <2>1. AllocatedWhole(payment[p], DOMAIN period)
    BY DEF IInv, PaymentInv, AllocationsInv
  <2>2. payment \in Seq(Payment)
    BY StateFacts
  <2> QED
    BY <2>1, <2>2
<1>3. IsFiniteSet(A) /\ \A a \in A : a.amount \in Int /\ a.period = s
  <2>1. A \subseteq payment[p].allocations /\ \A a \in A : a.period = s
    BY <1>1 DEF allocationsOf
  <2>2. IsFiniteSet(A)
    BY <1>2, <2>1, FS_Subset DEF AllocatedWhole
  <2>3. \A a \in payment[p].allocations : a.amount \in Nat
    BY <1>2 DEF Payment
  <2> QED
    BY <2>1, <2>2, <2>3
<1>4. \A a, b \in A : a = b
  <2>1. Apart(payment[p].allocations)
    BY DEF ReportInv, AllocationsApart
  <2>2. A \subseteq payment[p].allocations
    BY <1>1 DEF allocationsOf
  <2> QED
    BY <1>3, <2>1, <2>2 DEF Apart
<1>5. R = {k[a] : a \in A}
  BY <1>1 DEF rowsOfPayment
<1>6. \A a \in A : k[a].amount = a.amount
  BY <1>1 DEF rowOfPayment
<1>7. \A a \in A : h[a] \in Int /\ f[k[a]] = h[a]
  <2>1. \A a \in A : h[a] = a.amount
    BY <1>1 DEF shares
  <2>2. \A x \in R : f[x] = x.amount
    BY <1>1
  <2> QED
    BY <1>3, <1>5, <1>6, <2>1, <2>2
<1>8. \A a, b \in A : k[a] = k[b] => a = b
  BY <1>4
<1>9. Total(h, A) = Total(f, {k[a] : a \in A})
  BY <1>3, <1>7, <1>8, TotalRenamed
<1>10. paidTo(s, payment[p]) = Total(h, A)
  BY <1>1, TotalAllocatedIs DEF paidTo, allocationsOf
<1>11. IsFiniteSet(R)
  <2>1. k \in Surjection(A, R)
    BY <1>1, <1>5 DEF Surjection
  <2> QED
    BY <1>3, <2>1, FS_Surjection
<1>12. \A x \in R : f[x] \in Int
  BY <1>5, <1>7
<1> QED
  BY <1>1, <1>5, <1>9, <1>10, <1>11, <1>12

\* So do those of any payments.
LEMMA RowsOfPayments ==
  ASSUME IInv, ReportInv, NEW s, NEW S \in SUBSET DOMAIN payment,
         NEW V, V = UNION {rowsOfPayment(p, s) : p \in S}
  PROVE  amounts(V) = Total(paidBy(s, payment), S)
<1>1. PICK f, g, L : /\ f = shares(V) /\ g = paidBy(s, payment)
                     /\ L = [p \in S |-> rowsOfPayment(p, s)]
  OBVIOUS
<1>2. \A p \in S : L[p] = rowsOfPayment(p, s)
  BY <1>1
<1>3. \A x \in V : f[x] = x.amount
  BY <1>1 DEF shares
<1>4. ASSUME NEW p \in S
      PROVE  /\ IsFiniteSet(L[p]) /\ \A x \in L[p] : f[x] \in Int
             /\ g[p] = Total(f, L[p])
             /\ \A x \in L[p] : x.id = p
  <2>1. \A x \in rowsOfPayment(p, s) : f[x] = x.amount
    BY <1>3
  <2>2. p \in DOMAIN payment
    OBVIOUS
  <2>3. /\ IsFiniteSet(rowsOfPayment(p, s))
        /\ \A x \in rowsOfPayment(p, s) : f[x] \in Int
        /\ Total(f, rowsOfPayment(p, s)) = paidTo(s, payment[p])
    BY <2>1, <2>2, RowsOfPayment
  <2>4. g[p] = paidTo(s, payment[p])
    BY <1>1, <2>2 DEF paidBy
  <2>5. \A x \in rowsOfPayment(p, s) : x.id = p
    BY DEF rowsOfPayment, rowOfPayment
  <2> QED
    BY <1>2, <2>3, <2>4, <2>5
<1>5. IsFiniteSet(S)
  <2>1. payment \in Seq(Payment)
    BY StateFacts
  <2> QED
    BY <2>1, EntriesFinite, FS_Subset
<1>6. \A p, q \in S : p # q => L[p] \cap L[q] = {}
  BY <1>4
<1>7. \A x : x \in V <=> \E p \in S : x \in L[p]
  BY <1>2
<1>8. Parted(S, L, f, g, V)
  BY <1>4, <1>5, <1>6, <1>7 DEF Parted
<1>9. Total(g, S) = Total(f, V)
  BY <1>8, TotalOfTotals
<1> QED
  BY <1>1, <1>9, AmountsAre

\* The rows for payments, and those for reversals.
LEMMA PaymentRowsAre ==
  ASSUME NEW s
  PROVE  /\ {r \in paymentRows(s) : r.type = "PAYMENT"}
              = UNION {rowsOfPayment(p, s) : p \in originals}
         /\ {r \in paymentRows(s) : r.type = "REVERSAL"}
              = UNION {rowsOfPayment(p, s) : p \in reversals}
<1>1. paymentRows(s) = UNION {rowsOfPayment(p, s) : p \in DOMAIN payment}
  BY DEF paymentRows, rowsOfPayment, rowOfPayment
<1>2. ASSUME NEW p, NEW x \in rowsOfPayment(p, s)
      PROVE  x.type = IF payment[p].reverses = None THEN "PAYMENT" ELSE "REVERSAL"
  BY DEF rowsOfPayment, rowOfPayment
<1>3. \A r : r \in paymentRows(s) <=>
               \E p \in DOMAIN payment : r \in rowsOfPayment(p, s)
  BY <1>1
<1>4. /\ \A p : p \in originals <=> p \in DOMAIN payment /\ payment[p].reverses = None
      /\ \A p : p \in reversals <=> p \in DOMAIN payment /\ payment[p].reverses # None
  BY DEF originals, reversals
<1> QED
  BY <1>2, <1>3, <1>4

\* What the reversals give back is what the reversed payments paid.
LEMMA GivenBack ==
  ASSUME IInv, ReportInv, NEW s
  PROVE  Total(paidBy(s, payment), reversals) = Total(paidBy(s, payment), reversed)
<1>1. PICK f, k : /\ f = paidBy(s, payment)
                  /\ k = [r \in reversals |-> payment[r].reverses]
  OBVIOUS
<1>2. /\ IsFiniteSet(reversals) /\ reversals \subseteq DOMAIN payment
      /\ originals = activePayments(payment) \cup reversed
      /\ originals \subseteq DOMAIN payment
  BY PaymentSets
<1>3. payment \in Seq(Payment) /\ FiniteAllocations(payment)
  BY StateFacts
<1>4. \A p \in DOMAIN payment : f[p] \in Nat /\ f[p] = paidTo(s, payment[p])
  BY <1>1, <1>3, PaidByTyped
<1>5. \A r \in reversals : k[r] = payment[r].reverses /\ payment[r].reverses # None
  BY <1>1 DEF reversals
<1>6. reversed = {k[r] : r \in reversals}
  BY <1>5 DEF reversed
<1>7. ASSUME NEW r \in reversals PROVE f[r] \in Int /\ f[k[r]] = f[r]
  <2>1. GivesBack(payment, r)
    BY <1>2 DEF ReportInv, AllocationsApart
  <2>2. payment[r].allocations = payment[k[r]].allocations
    BY <1>5, <2>1 DEF GivesBack
  <2>3. paidTo(s, payment[r]) = paidTo(s, payment[k[r]])
    BY <2>2 DEF paidTo
  <2>4. r \in DOMAIN payment /\ k[r] \in DOMAIN payment
    BY <1>2, <1>6
  <2> QED
    BY <1>4, <2>3, <2>4
<1>8. \A p, q \in reversals : k[p] = k[q] => p = q
  <2>1. \A p, q \in DOMAIN payment :
          payment[p].reverses = payment[q].reverses /\ payment[p].reverses # None => p = q
    BY DEF IInv, PaymentInv, ReversedOnce
  <2> QED
    BY <1>2, <1>5, <2>1
<1>9. Total(f, reversals) = Total(f, {k[r] : r \in reversals})
  BY <1>2, <1>7, <1>8, TotalRenamed
<1> QED
  BY <1>1, <1>6, <1>9

\* Every sheet adds up.
LEMMA InvImpliesSheets == IInv /\ ReportInv => SheetsAddUp
<1> SUFFICES ASSUME IInv, ReportInv, NEW s \in DOMAIN period
             PROVE  sheetBalance(s) = net(period[s])
  BY DEF SheetsAddUp
<1>1. PICK f : f = paidBy(s, payment)
  OBVIOUS
<1>2. /\ IsFiniteSet(activePayments(payment)) /\ IsFiniteSet(reversed)
      /\ originals = activePayments(payment) \cup reversed
      /\ activePayments(payment) \cap reversed = {}
      /\ originals \subseteq DOMAIN payment /\ reversals \subseteq DOMAIN payment
  BY PaymentSets
<1>3. payment \in Seq(Payment) /\ FiniteAllocations(payment)
  BY StateFacts
<1>4. \A p \in DOMAIN payment : f[p] \in Int
  BY <1>1, <1>3, PaidByTyped
<1>5. amounts({r \in paymentRows(s) : r.type = "PAYMENT"}) = Total(f, originals)
  <2>1. PICK V : V = {r \in paymentRows(s) : r.type = "PAYMENT"}
    OBVIOUS
  <2>2. V = UNION {rowsOfPayment(p, s) : p \in originals}
    BY <2>1, PaymentRowsAre
  <2> QED
    BY <1>1, <1>2, <2>1, <2>2, RowsOfPayments
<1>6. amounts({r \in paymentRows(s) : r.type = "REVERSAL"}) = Total(f, reversed)
  <2>1. PICK V : V = {r \in paymentRows(s) : r.type = "REVERSAL"}
    OBVIOUS
  <2>2. V = UNION {rowsOfPayment(p, s) : p \in reversals}
    BY <2>1, PaymentRowsAre
  <2>3. amounts(V) = Total(f, reversals)
    BY <1>1, <1>2, <2>2, RowsOfPayments
  <2> QED
    BY <1>1, <2>1, <2>3, GivenBack
<1>7. Total(f, originals) = Total(f, activePayments(payment)) + Total(f, reversed)
  <2>1. PICK A, R : A = activePayments(payment) /\ R = reversed
    OBVIOUS
  <2>2. IsFiniteSet(A) /\ IsFiniteSet(R) /\ A \cap R = {} /\ \A p \in A \cup R : f[p] \in Int
    BY <1>2, <1>4, <2>1
  <2>3. Total(f, A \cup R) = Total(f, A) + Total(f, R)
    BY <2>2, TotalUnion
  <2>4. originals = A \cup R
    BY <1>2, <2>1
  <2> QED
    BY <2>1, <2>3, <2>4
<1>8. PICK paid, back : paid = Total(f, activePayments(payment)) /\ back = Total(f, reversed)
  OBVIOUS
<1>9. paid \in Int /\ back \in Int
  <2>1. /\ \A p \in activePayments(payment) : f[p] \in Int
        /\ \A p \in reversed : f[p] \in Int
    BY <1>2, <1>4
  <2>2. Total(f, activePayments(payment)) \in Int
    BY <1>2, <2>1, TotalTyped
  <2>3. Total(f, reversed) \in Int
    BY <1>2, <2>1, TotalTyped
  <2> QED
    BY <1>8, <2>2, <2>3
<1>10. paid = allocatedTo(s, payment)
  BY <1>1, <1>8, AllocatedIs
<1>11. PICK b, n : b = Total(entryAmounts(ledger), billedOn(s)) /\ n = net(period[s])
  OBVIOUS
<1>12. n \in Int /\ b = n + paid
  BY <1>10, <1>11, NetIs
<1>13. sheetBalance(s) = b - (paid + back) + back
  BY <1>5, <1>6, <1>7, <1>8, <1>11, RowsOfEntries DEF sheetBalance
<1> QED
  BY <1>9, <1>11, <1>12, <1>13

-----------------------------------------------------------------------------
(* The zones' dues.                                                        *)

\* What is divided into finitely many finite sets is finite.
LEMMA PartedFinite ==
  ASSUME NEW D, NEW L, NEW f, NEW g, NEW V, Parted(D, L, f, g, V)
  PROVE  IsFiniteSet(V)
<1>1. /\ IsFiniteSet(D) /\ \A s \in D : IsFiniteSet(L[s])
      /\ \A x : x \in V <=> \E s \in D : x \in L[s]
  BY DEF Parted
<1>2. PICK C, k : C = {L[s] : s \in D} /\ k = [s \in D |-> L[s]]
  OBVIOUS
<1>3. k \in Surjection(D, C)
  BY <1>2 DEF Surjection
<1>4. IsFiniteSet(C)
  BY <1>1, <1>3, FS_Surjection
<1>5. \A T \in C : IsFiniteSet(T)
  BY <1>1, <1>2
<1>6. IsFiniteSet(UNION C)
  BY <1>4, <1>5, FS_UNION
<1>7. V = UNION C
  BY <1>1, <1>2
<1> QED
  BY <1>6, <1>7

\* The entries that a period bills for an order, and those of them that are
\* adjustments.
onLinesOf(s) == {l.entry : l \in linesOf(s)}
orderEntries(s) == {i \in onLinesOf(s) : ledger[i].orders # {}}
namedOn(s) == onLinesOf(s) \cap named

\* The entries that a period bills for a zone's orders.
zoneEntries(s, z, zoneOf) ==
    {l.entry : l \in {m \in linesOf(s) : \E o \in ledger[m.entry].orders : zoneOf[o] = z}}

\* V are those of all zones, each in the zone of its order.
EntriesByZone(V, s, zoneOf) ==
    /\ \A z, i : i \in zoneEntries(s, z, zoneOf) =>
          /\ i \in V
          /\ \E o \in Order : ledger[i].orders = {o} /\ zoneOf[o] = z
    /\ \A i \in V : \E z \in Zone : i \in zoneEntries(s, z, zoneOf)

\* What is on a period's lines.
LEMMA OnLines ==
  ASSUME NEW s, NEW i
  PROVE  i \in onLinesOf(s) <=> \E l \in line : l.period = s /\ l.entry = i
BY DEF onLinesOf, linesOf

\* An entry billed for an order is in the zone of its order.
LEMMA ZoneEntriesAre ==
  ASSUME IInv, ReportInv, NEW s, NEW zoneOf \in [Order -> Zone]
  PROVE  EntriesByZone(orderEntries(s), s, zoneOf)
<1>1. LinesOver(ledger, line)
  BY StateFacts
<1>2. \A i \in DOMAIN ledger : ForOrder(ledger[i])
  BY DEF ReportInv, EntriesForOrders
<1>3. ASSUME NEW z, NEW i \in zoneEntries(s, z, zoneOf)
      PROVE  /\ i \in orderEntries(s)
             /\ \E o \in Order : ledger[i].orders = {o} /\ zoneOf[o] = z
  <2>1. PICK l \in line : /\ l.period = s /\ l.entry = i
                          /\ \E o \in ledger[l.entry].orders : zoneOf[o] = z
    BY DEF zoneEntries, linesOf
  <2>2. i \in DOMAIN ledger
    BY <1>1, <2>1 DEF LinesOver
  <2>3. ForOrder(ledger[i]) /\ ledger[i].orders # {}
    BY <1>2, <2>1, <2>2
  <2>4. \E o \in Order : ledger[i].orders = {o}
    BY <2>3 DEF ForOrder
  <2>5. i \in orderEntries(s)
    BY <2>1, <2>3, OnLines DEF orderEntries
  <2> QED
    BY <2>1, <2>4, <2>5
<1>4. ASSUME NEW i \in orderEntries(s)
      PROVE  \E z \in Zone : i \in zoneEntries(s, z, zoneOf)
  <2>1. PICK l \in line : l.period = s /\ l.entry = i
    BY OnLines DEF orderEntries
  <2>2. i \in DOMAIN ledger
    BY <1>1, <2>1 DEF LinesOver
  <2>3. ForOrder(ledger[i]) /\ ledger[i].orders # {}
    BY <1>2, <2>2 DEF orderEntries
  <2>4. PICK o \in Order : ledger[i].orders = {o}
    BY <2>3 DEF ForOrder
  <2>5. zoneOf[o] \in Zone /\ i \in zoneEntries(s, zoneOf[o], zoneOf)
    BY <2>1, <2>4 DEF zoneEntries, linesOf
  <2> QED
    BY <2>5
<1> QED
  BY Zenon, <1>3, <1>4 DEF EntriesByZone

\* They are its commissions and the adjustments that name an order.
LEMMA OrderEntriesAre ==
  ASSUME IInv, ReportInv, NEW s
  PROVE  /\ orderEntries(s) = ids(s, ledger, line, CommissionTypes) \cup namedOn(s)
         /\ ids(s, ledger, line, CommissionTypes) \cap namedOn(s) = {}
         /\ onLinesOf(s) \subseteq DOMAIN ledger
<1>1. onLinesOf(s) \subseteq DOMAIN ledger
  BY StateFacts, OnLines DEF LinesOver
<1>2. \A i \in DOMAIN ledger : ForOrder(ledger[i])
  BY DEF ReportInv, EntriesForOrders
<1>3. ASSUME NEW i
      PROVE  i \in ids(s, ledger, line, CommissionTypes)
               <=> i \in onLinesOf(s) /\ ledger[i].type = "COMMISSION_DUE"
  BY OnLines DEF ids, CommissionTypes
<1>4. ASSUME NEW i
      PROVE  i \in namedOn(s) <=> /\ i \in onLinesOf(s)
                                  /\ ledger[i].type # "COMMISSION_DUE"
                                  /\ ledger[i].orders # {}
  BY <1>1 DEF namedOn, named
<1>5. ASSUME NEW i \in onLinesOf(s), ledger[i].type = "COMMISSION_DUE"
      PROVE  ledger[i].orders # {}
  BY <1>1, <1>2, <1>5 DEF ForOrder
<1>6. ASSUME NEW i
      PROVE  i \in orderEntries(s) <=> i \in onLinesOf(s) /\ ledger[i].orders # {}
  BY DEF orderEntries
<1>7. PICK C, N, V : /\ C = ids(s, ledger, line, CommissionTypes)
                     /\ N = namedOn(s) /\ V = orderEntries(s)
  OBVIOUS
<1>8. V = C \cup N
  <2>1. \A i : i \in V <=> i \in C \/ i \in N
    BY <1>3, <1>4, <1>5, <1>6, <1>7
  <2> QED
    BY <2>1
<1>9. C \cap N = {}
  <2>1. \A i : ~(i \in C /\ i \in N)
    BY <1>3, <1>4, <1>7
  <2> QED
    BY <2>1
<1> QED
  BY <1>1, <1>7, <1>8, <1>9

\* What the adjustments that name an order ask in a period.
namedSum(s) == Total(entryAmounts(ledger), namedOn(s))

\* The zones' dues come to the period's commissions and those adjustments.
LEMMA ZoneDues ==
  ASSUME IInv, ReportInv, NEW s \in DOMAIN period, NEW zoneOf \in [Order -> Zone]
  PROVE  /\ \A z \in Zone : duesOf(s, zoneOf)[z] \in Int
         /\ Total(duesOf(s, zoneOf), Zone) = period[s].commission + namedSum(s)
         /\ period[s].commission \in Int /\ namedSum(s) \in Int
<1>1. PICK C, N, V, f, L, g : /\ C = ids(s, ledger, line, CommissionTypes)
                              /\ N = namedOn(s)
                              /\ V = orderEntries(s)
                              /\ f = entryAmounts(ledger)
                              /\ L = [z \in Zone |-> zoneEntries(s, z, zoneOf)]
                              /\ g = duesOf(s, zoneOf)
  OBVIOUS
<1>2. ledger \in Seq(Entry) /\ LinesOver(ledger, line)
  BY StateFacts
<1>3. V = C \cup N /\ C \cap N = {} /\ V \subseteq DOMAIN ledger
  <2>1. orderEntries(s) \subseteq onLinesOf(s)
    BY DEF orderEntries
  <2> QED
    BY <1>1, <2>1, OrderEntriesAre
<1>4. IsFiniteSet(V) /\ IsFiniteSet(C) /\ IsFiniteSet(N)
  <2>1. IsFiniteSet(V)
    BY <1>2, <1>3, EntriesFinite, FS_Subset
  <2> QED
    BY <1>3, <2>1, FS_Subset
<1>5. \A i \in DOMAIN ledger : f[i] \in Int
  BY <1>1, <1>2, EntryAmountsTyped
<1>6. /\ \A z, i : i \in zoneEntries(s, z, zoneOf) =>
             /\ i \in V
             /\ \E o \in Order : ledger[i].orders = {o} /\ zoneOf[o] = z
      /\ \A i \in V : \E z \in Zone : i \in zoneEntries(s, z, zoneOf)
  <2>1. EntriesByZone(V, s, zoneOf)
    BY <1>1, ZoneEntriesAre
  <2> QED
    BY Zenon, <2>1 DEF EntriesByZone
<1>7. ASSUME NEW z \in Zone
      PROVE  /\ IsFiniteSet(L[z]) /\ L[z] \subseteq V /\ L[z] \in SUBSET DOMAIN ledger
             /\ \A i \in L[z] : f[i] \in Int
             /\ g[z] = Total(f, L[z])
  <2>1. L[z] = zoneEntries(s, z, zoneOf)
    BY <1>1
  <2>2. L[z] \subseteq V
    BY <1>6, <2>1
  <2>3. IsFiniteSet(L[z])
    BY <1>4, <2>2, FS_Subset
  <2>4. \A i \in L[z] : f[i] \in Int
    BY <1>3, <1>5, <2>2
  <2>5. g[z] = sumOf(ledger, L[z])
    BY <1>1, <2>1 DEF duesOf, dueOf, zoneEntries
  <2>6. L[z] \in SUBSET DOMAIN ledger
    BY <1>3, <2>2
  <2>7. sumOf(ledger, L[z]) = Total(f, L[z])
    BY <1>1, <1>2, <2>6, SumOfTyped
  <2> QED
    BY <2>2, <2>3, <2>4, <2>5, <2>6, <2>7
<1>8. ASSUME NEW y \in Zone, NEW z \in Zone, y # z PROVE L[y] \cap L[z] = {}
  <2>1. ASSUME NEW i \in L[y], i \in L[z] PROVE FALSE
    <3>1. i \in zoneEntries(s, y, zoneOf) /\ i \in zoneEntries(s, z, zoneOf)
      BY <1>1, <2>1
    <3>2. PICK o \in Order : ledger[i].orders = {o} /\ zoneOf[o] = y
      BY <1>6, <3>1
    <3>3. PICK q \in Order : ledger[i].orders = {q} /\ zoneOf[q] = z
      BY <1>6, <3>1
    <3>4. o = q
      BY <3>2, <3>3
    <3> QED
      BY <1>8, <3>2, <3>3, <3>4
  <2> QED
    BY <2>1
<1>9. \A i : i \in V <=> \E z \in Zone : i \in L[z]
  <2>1. \A z \in Zone : L[z] = zoneEntries(s, z, zoneOf)
    BY <1>1
  <2> QED
    BY <1>6, <2>1
<1>10. Parted(Zone, L, f, g, V)
  <2>1. \A z \in Zone : IsFiniteSet(L[z]) /\ (\A i \in L[z] : f[i] \in Int)
    BY <1>7
  <2>2. IsFiniteSet(Zone)
    BY ZoneAssumption
  <2>3. \A z \in Zone : g[z] = Total(f, L[z])
    BY <1>7
  <2>4. \A y, z \in Zone : y # z => L[y] \cap L[z] = {}
    BY <1>8
  <2> QED
    BY <1>9, <2>1, <2>2, <2>3, <2>4 DEF Parted
<1>11. Total(g, Zone) = Total(f, V)
  BY <1>10, TotalOfTotals
<1>12. Total(f, C) = commissionSum(s, ledger, line) /\ Total(f, C) \in Int
  <2>1. C \in SUBSET DOMAIN ledger
    BY <1>3
  <2> QED
    BY <1>1, <1>2, <2>1, SumOfTyped DEF commissionSum
<1>13. period[s].commission = commissionSum(s, ledger, line)
  <2>1. RowIs(period[s], s, ledger, line, payment)
    BY RowsAre DEF IInv
  <2>2. PICK c, a, w, p, r : /\ c = commissionSum(s, ledger, line)
                             /\ a = adjustmentSum(s, ledger, line)
                             /\ w = -waiverSum(s, ledger, line)
                             /\ p = allocatedTo(s, payment)
                             /\ r = clamp(commissionSum(s, ledger, line)
                                      + adjustmentSum(s, ledger, line)
                                      - (-waiverSum(s, ledger, line))
                                      - allocatedTo(s, payment))
    OBVIOUS
  <2>3. projection(s, ledger, line, payment)
          = [commission |-> c, adjustments |-> a, waived |-> w, payments |-> p,
             remaining |-> r]
    BY <2>2, ProjectionFields
  <2>4. projection(s, ledger, line, payment).commission = c
    BY <2>3
  <2> QED
    BY <2>1, <2>2, <2>4 DEF RowIs, withStatus
<1>14. ASSUME NEW z \in Zone PROVE g[z] \in Int
  <2>1. IsFiniteSet(L[z]) /\ \A i \in L[z] : f[i] \in Int
    BY <1>7
  <2>2. Total(f, L[z]) \in Int
    BY <2>1, TotalTyped
  <2> QED
    BY <1>7, <2>2
<1>15. Total(f, V) = Total(f, C) + Total(f, N)
  <2>1. \A i \in C \cup N : f[i] \in Int
    BY <1>3, <1>5
  <2> QED
    BY <1>3, <1>4, <2>1, TotalUnion
<1>16. Total(f, N) = namedSum(s) /\ Total(f, N) \in Int
  <2>1. \A i \in N : f[i] \in Int
    BY <1>3, <1>5
  <2>2. Total(f, N) \in Int
    BY <1>4, <2>1, TotalTyped
  <2> QED
    BY <1>1, <2>2 DEF namedSum
<1> QED
  BY <1>1, <1>11, <1>12, <1>13, <1>14, <1>15, <1>16

\* Every adjustment that names an order is on a line of one period.
LEMMA NamedParted ==
  ASSUME IInv, ReportInv,
         NEW L, L = [s \in DOMAIN period |-> namedOn(s)],
         NEW g, g = [s \in DOMAIN period |-> namedSum(s)]
  PROVE  Parted(DOMAIN period, L, entryAmounts(ledger), g, named)
<1>1. ledger \in Seq(Entry) /\ LinesOver(ledger, line)
  BY StateFacts
<1>2. PICK f : f = entryAmounts(ledger)
  OBVIOUS
<1>3. \A i \in DOMAIN ledger : f[i] \in Int
  BY <1>1, <1>2, EntryAmountsTyped
<1>4. IsFiniteSet(named) /\ named \subseteq DOMAIN ledger
  <2>1. named \subseteq DOMAIN ledger
    BY DEF named
  <2> QED
    BY <1>1, <2>1, EntriesFinite, FS_Subset
<1>5. ASSUME NEW s \in DOMAIN period
      PROVE  /\ IsFiniteSet(L[s]) /\ \A i \in L[s] : f[i] \in Int
             /\ g[s] = Total(f, L[s])
             /\ L[s] = namedOn(s)
  <2>1. L[s] = namedOn(s) /\ g[s] = namedSum(s)
    OBVIOUS
  <2>2. L[s] \subseteq named
    BY <2>1 DEF namedOn
  <2>3. IsFiniteSet(L[s])
    BY <1>4, <2>2, FS_Subset
  <2>4. \A i \in L[s] : f[i] \in Int
    BY <1>3, <1>4, <2>2
  <2> QED
    BY <1>2, <2>1, <2>3, <2>4 DEF namedSum
<1>6. ASSUME NEW s \in DOMAIN period, NEW t \in DOMAIN period, s # t
      PROVE  L[s] \cap L[t] = {}
  <2>1. ASSUME NEW i \in L[s], i \in L[t] PROVE FALSE
    <3>1. i \in onLinesOf(s) /\ i \in onLinesOf(t)
      BY <1>5, <2>1 DEF namedOn
    <3>2. PICK l \in line : l.period = s /\ l.entry = i
      BY <3>1, OnLines
    <3>3. PICK m \in line : m.period = t /\ m.entry = i
      BY <3>1, OnLines
    <3>4. l = m
      BY <3>2, <3>3 DEF IInv, LedgerInv, LinesOnce
    <3> QED
      BY <1>6, <3>2, <3>3, <3>4
  <2> QED
    BY <2>1
<1>7. ASSUME NEW i \in named PROVE \E s \in DOMAIN period : i \in L[s]
  <2>1. i \in DOMAIN ledger /\ ledger[i].orders # {}
    BY DEF named
  <2>2. ~paysFor(i)
    BY <2>1 DEF ReportInv, PaymentsForNone, paysFor
  <2>3. onLine(i)
    <3>1. onLine(i) \/ paysFor(i)
      BY <2>1 DEF IInv, LedgerInv, EntriesHavePlace
    <3> QED
      BY <2>2, <3>1
  <2>4. PICK l \in line : l.entry = i
    BY <2>3 DEF onLine
  <2>5. PICK s : s = l.period
    OBVIOUS
  <2>6. s \in DOMAIN period
    <3>1. line \subseteq [entry: 1 .. Len(ledger), period: DOMAIN period]
      BY DEF IInv, TypeOK
    <3> QED
      BY <2>5, <3>1
  <2>7. i \in namedOn(s)
    BY <2>4, <2>5, OnLines DEF namedOn
  <2> QED
    BY <1>5, <2>6, <2>7
<1>8. \A i : i \in named <=> \E s \in DOMAIN period : i \in L[s]
  <2>1. \A s \in DOMAIN period : L[s] \subseteq named
    BY <1>5 DEF namedOn
  <2> QED
    BY <1>7, <2>1
<1>9. IsFiniteSet(DOMAIN period)
  BY DEF IInv
<1>10. \A s \in DOMAIN period : IsFiniteSet(L[s]) /\ (\A i \in L[s] : f[i] \in Int)
  BY <1>5
<1>11. \A s \in DOMAIN period : g[s] = Total(f, L[s])
  BY <1>5
<1>12. \A s, t \in DOMAIN period : s # t => L[s] \cap L[t] = {}
  BY <1>6
<1> QED
  BY <1>2, <1>8, <1>9, <1>10, <1>11, <1>12 DEF Parted

\* The payments of a period are what was allocated to it.
LEMMA PaymentsAre ==
  ASSUME IInv, NEW s \in DOMAIN period
  PROVE  period[s].payments = allocatedTo(s, payment)
<1>1. RowIs(period[s], s, ledger, line, payment)
  BY RowsAre DEF IInv
<1>2. PICK c, a, w, p, r : /\ c = commissionSum(s, ledger, line)
                           /\ a = adjustmentSum(s, ledger, line)
                           /\ w = -waiverSum(s, ledger, line)
                           /\ p = allocatedTo(s, payment)
                           /\ r = clamp(commissionSum(s, ledger, line)
                                    + adjustmentSum(s, ledger, line)
                                    - (-waiverSum(s, ledger, line))
                                    - allocatedTo(s, payment))
  OBVIOUS
<1>3. projection(s, ledger, line, payment)
        = [commission |-> c, adjustments |-> a, waived |-> w, payments |-> p,
           remaining |-> r]
  BY <1>2, ProjectionFields
<1>4. projection(s, ledger, line, payment).payments = p
  BY <1>3
<1> QED
  BY <1>1, <1>2, <1>4 DEF RowIs, withStatus

\* A zone's due is the sum over all periods, as the others ask nothing of it.
LEMMA ZoneDueIs ==
  ASSUME IInv, ReportInv, NEW zoneOf \in [Order -> Zone], NEW z \in Zone,
         NEW c, c = [s \in DOMAIN period |-> dueOf(s, z, zoneOf)]
  PROVE  zoneDue(z, zoneOf) = Total(c, DOMAIN period)
<1>1. PICK B, R, b : /\ B = billed(z, zoneOf) /\ R = DOMAIN period \ B
                     /\ b = [s \in B |-> dueOf(s, z, zoneOf)]
  OBVIOUS
<1>2. B \subseteq DOMAIN period
  BY <1>1 DEF billed
<1>3. IsFiniteSet(DOMAIN period)
  BY DEF IInv
<1>4. IsFiniteSet(B) /\ IsFiniteSet(R) /\ B \cap R = {} /\ B \cup R = DOMAIN period
  BY <1>1, <1>2, <1>3, FS_Subset
<1>5. zoneDue(z, zoneOf) = Total(b, B)
  <2>1. DOMAIN b = B
    BY <1>1
  <2> QED
    BY <1>1, <2>1, SumIs DEF zoneDue
<1>6. \A s \in B : b[s] = c[s]
  BY <1>1, <1>2
<1>7. Total(b, B) = Total(c, B)
  BY <1>4, <1>6, TotalSame
<1>8. ASSUME NEW s \in R PROVE c[s] = 0
  <2>1. s \in DOMAIN period /\ s \notin billed(z, zoneOf)
    BY <1>1
  <2>2. zoneEntries(s, z, zoneOf) = {}
    BY <2>1 DEF billed, zoneEntries
  <2>3. dueOf(s, z, zoneOf) = Total(entryAmounts(ledger), {})
    BY <2>2 DEF dueOf, zoneEntries, sumOf, Total
  <2> QED
    BY <2>1, <2>3, TotalEmpty
<1>9. Total(c, R) = 0
  BY <1>4, <1>8, TotalZero
<1>10. ASSUME NEW s \in DOMAIN period PROVE c[s] \in Int
  <2>1. duesOf(s, zoneOf)[z] \in Int
    BY ZoneDues
  <2> QED
    BY <2>1 DEF duesOf
<1>11. Total(c, B \cup R) = Total(c, B) + Total(c, R)
  BY <1>4, <1>10, TotalUnion
<1>12. Total(c, B) \in Int
  <2>1. \A s \in B : c[s] \in Int
    BY <1>2, <1>10
  <2> QED
    BY <1>4, <2>1, TotalTyped
<1> QED
  BY <1>4, <1>5, <1>7, <1>9, <1>11, <1>12

\* The zones' dues come to the commissions of all periods and the adjustments that
\* name an order.
LEMMA ZonesDue ==
  ASSUME IInv, ReportInv, NEW zoneOf \in [Order -> Zone]
  PROVE  SumFunction([z \in Zone |-> zoneDue(z, zoneOf)])
           = SumFunction([s \in DOMAIN period |-> period[s].commission])
             + sumOf(ledger, named)
<1>1. PICK D, row, column, rows, columns, c, n :
        /\ D = DOMAIN period
        /\ row = [s \in D |-> duesOf(s, zoneOf)]
        /\ column = [z \in Zone |-> [s \in DOMAIN period |-> dueOf(s, z, zoneOf)]]
        /\ rows = [s \in DOMAIN period |-> period[s].commission + namedSum(s)]
        /\ c = [s \in DOMAIN period |-> period[s].commission]
        /\ n = [s \in DOMAIN period |-> namedSum(s)]
        /\ columns = [z \in Zone |-> zoneDue(z, zoneOf)]
  OBVIOUS
<1>2. IsFiniteSet(D) /\ IsFiniteSet(Zone)
  BY <1>1, ZoneAssumption DEF IInv
<1>3. ASSUME NEW s \in D, NEW z \in Zone
      PROVE  row[s][z] = column[z][s] /\ column[z][s] \in Int
  <2>1. duesOf(s, zoneOf)[z] \in Int
    BY <1>1, ZoneDues
  <2>2. duesOf(s, zoneOf)[z] = dueOf(s, z, zoneOf)
    BY DEF duesOf
  <2>3. row[s][z] = duesOf(s, zoneOf)[z] /\ column[z][s] = dueOf(s, z, zoneOf)
    BY <1>1
  <2> QED
    BY <2>1, <2>2, <2>3
<1>4. \A s \in D : rows[s] = Total(row[s], Zone)
  <2>1. ASSUME NEW s \in D PROVE rows[s] = Total(row[s], Zone)
    <3>1. Total(duesOf(s, zoneOf), Zone) = period[s].commission + namedSum(s)
      BY <1>1, ZoneDues
    <3>2. row[s] = duesOf(s, zoneOf) /\ rows[s] = period[s].commission + namedSum(s)
      BY <1>1
    <3> QED
      BY <3>1, <3>2
  <2> QED
    BY <2>1
<1>5. \A z \in Zone : columns[z] = Total(column[z], D)
  <2>1. ASSUME NEW z \in Zone PROVE columns[z] = Total(column[z], D)
    <3>1. PICK k : k = [s \in DOMAIN period |-> dueOf(s, z, zoneOf)]
      OBVIOUS
    <3>2. zoneDue(z, zoneOf) = Total(k, DOMAIN period)
      BY <3>1, ZoneDueIs
    <3>3. column[z] = k /\ columns[z] = zoneDue(z, zoneOf)
      BY <1>1, <3>1
    <3> QED
      BY <1>1, <3>2, <3>3
  <2> QED
    BY <2>1
<1>6. Table(D, Zone, row, column, rows, columns)
  BY <1>2, <1>3, <1>4, <1>5 DEF Table
<1>7. Total(rows, D) = Total(columns, Zone)
  BY <1>6, TotalByColumns
<1>8. Total(rows, D) = Total(c, D) + Total(n, D)
  <2>1. ASSUME NEW s \in D
        PROVE  c[s] \in Int /\ n[s] \in Int /\ rows[s] = c[s] + n[s]
    <3>1. period[s].commission \in Int /\ namedSum(s) \in Int
      BY <1>1, ZoneDues
    <3> QED
      BY <1>1, <3>1
  <2>2. AddUp(rows, c, n, D)
    BY <2>1 DEF AddUp
  <2> QED
    BY <1>2, <2>2, TotalPlus
<1>9. Total(n, D) = sumOf(ledger, named)
  <2>1. PICK L : L = [s \in DOMAIN period |-> namedOn(s)]
    OBVIOUS
  <2>2. Parted(D, L, entryAmounts(ledger), n, named)
    BY <1>1, <2>1, NamedParted
  <2>3. Total(n, D) = Total(entryAmounts(ledger), named)
    BY <2>2, TotalOfTotals
  <2> QED
    BY <2>3 DEF sumOf, Total
<1>10. SumFunction(c) = Total(c, D) /\ SumFunction(columns) = Total(columns, Zone)
  <2>1. DOMAIN c = D /\ DOMAIN columns = Zone
    BY <1>1
  <2> QED
    BY <2>1, SumIs
<1> QED
  BY <1>1, <1>7, <1>8, <1>9, <1>10

-----------------------------------------------------------------------------
(* The zones' payments.                                                    *)

\* A zone's share of an allocation.
shareOf(p, a, due, z) ==
    [payment |-> p, period |-> a.period, zone |-> z,
     amount |-> attributed(a.amount, due, z)]

\* The shares of the payments, one for each allocation and zone.
SharesIn(X, zoneOf) ==
    \A x : x \in X <=>
        \E p \in activePayments(payment) : \E a \in payment[p].allocations :
            \E z \in positive(duesOf(a.period, zoneOf)) :
                x = shareOf(p, a, duesOf(a.period, zoneOf), z)

\* attributePaymentsToZones makes these shares.
LEMMA SharesAre ==
  ASSUME NEW zoneOf
  PROVE  SharesIn(attributePaymentsToZones(zoneOf), zoneOf)
<1>1. ASSUME NEW p, NEW a, NEW due, NEW x
      PROVE  x \in zoneShares(p, a, due) <=>
               \E z \in positive(due) : x = shareOf(p, a, due, z)
  BY Zenon DEF zoneShares, shareOf
<1>2. ASSUME NEW x
      PROVE  x \in attributePaymentsToZones(zoneOf) <=>
               \E p \in activePayments(payment) : x \in sharesOf(p, zoneOf)
  BY DEF attributePaymentsToZones
<1>3. ASSUME NEW p, NEW x
      PROVE  x \in sharesOf(p, zoneOf) <=>
               \E a \in payment[p].allocations :
                   x \in zoneShares(p, a, duesOf(a.period, zoneOf))
  BY DEF sharesOf
<1>4. ASSUME NEW x \in attributePaymentsToZones(zoneOf)
      PROVE  \E p \in activePayments(payment) : \E a \in payment[p].allocations :
                 \E z \in positive(duesOf(a.period, zoneOf)) :
                     x = shareOf(p, a, duesOf(a.period, zoneOf), z)
  <2>1. PICK p \in activePayments(payment) : x \in sharesOf(p, zoneOf)
    BY <1>2
  <2>2. PICK a \in payment[p].allocations :
             x \in zoneShares(p, a, duesOf(a.period, zoneOf))
    BY <1>3, <2>1
  <2>3. PICK z \in positive(duesOf(a.period, zoneOf)) :
             x = shareOf(p, a, duesOf(a.period, zoneOf), z)
    BY <1>1, <2>2
  <2> QED
    BY Zenon, <2>3
<1>5. ASSUME NEW p \in activePayments(payment), NEW a \in payment[p].allocations,
             NEW z \in positive(duesOf(a.period, zoneOf)),
             NEW x, x = shareOf(p, a, duesOf(a.period, zoneOf), z)
      PROVE  x \in attributePaymentsToZones(zoneOf)
  <2>1. x \in zoneShares(p, a, duesOf(a.period, zoneOf))
    BY <1>1, <1>5
  <2>2. x \in sharesOf(p, zoneOf)
    BY <1>3, <2>1
  <2> QED
    BY <1>2, <2>2
<1> QED
  BY Zenon, <1>4, <1>5 DEF SharesIn

\* The shares of one payment to one period.
cell(X, p, s) == {x \in X : x.payment = p /\ x.period = s}
periodShares(X, s) == {x \in X : x.period = s}
zoneSharesIn(X, z) == {x \in X : x.zone = z}

\* Where a zone owes anything, they come to what the payment paid to the period.
LEMMA CellTotal ==
  ASSUME IInv, ReportInv, NEW zoneOf \in [Order -> Zone], NEW X, SharesIn(X, zoneOf),
         NEW p \in activePayments(payment), NEW s \in DOMAIN period,
         positive(duesOf(s, zoneOf)) # {}
  PROVE  /\ IsFiniteSet(cell(X, p, s))
         /\ \A x \in cell(X, p, s) : shares(X)[x] \in Int
         /\ Total(shares(X), cell(X, p, s)) = paidTo(s, payment[p])
<1>0. PICK due, P : due = duesOf(s, zoneOf) /\ P = positive(due)
  OBVIOUS
<1>1. p \in DOMAIN payment
  BY DEF activePayments
<1>2. payment[p] \in Payment /\ AllocatedWhole(payment[p], DOMAIN period)
  <2>1. payment \in Seq(Payment)
    BY StateFacts
  <2>2. AllocatedWhole(payment[p], DOMAIN period)
    BY <1>1 DEF IInv, PaymentInv, AllocationsInv
  <2> QED
    BY <1>1, <2>1, <2>2
<1>3. PICK A : A = payment[p].allocations
  OBVIOUS
<1>4. Apart(A) /\ \A a \in A : a.amount \in Nat
  <2>1. Apart(A)
    BY <1>1, <1>3 DEF ReportInv, AllocationsApart
  <2>2. \A a \in A : a.amount \in Nat
    BY <1>2, <1>3 DEF Payment
  <2> QED
    BY <2>1, <2>2
<1>5. ASSUME NEW x \in cell(X, p, s)
      PROVE  \E a \in A : a.period = s /\ \E z \in P : x = shareOf(p, a, due, z)
  <2>1. x \in X /\ x.payment = p /\ x.period = s
    BY DEF cell
  <2>2. PICK q \in activePayments(payment) : \E a \in payment[q].allocations :
            \E z \in positive(duesOf(a.period, zoneOf)) :
                x = shareOf(q, a, duesOf(a.period, zoneOf), z)
    BY <2>1 DEF SharesIn
  <2>3. PICK a \in payment[q].allocations :
            \E z \in positive(duesOf(a.period, zoneOf)) :
                x = shareOf(q, a, duesOf(a.period, zoneOf), z)
    BY <2>2
  <2>4. PICK z \in positive(duesOf(a.period, zoneOf)) :
                x = shareOf(q, a, duesOf(a.period, zoneOf), z)
    BY <2>3
  <2>5. q = p /\ a.period = s
    BY <2>1, <2>4 DEF shareOf
  <2> QED
    BY <1>0, <1>3, <2>3, <2>4, <2>5
<1>6. CASE s \notin touched(payment[p].allocations)
  <2>1. \A a \in A : a.period # s
    BY <1>3, <1>6 DEF touched
  <2>2. cell(X, p, s) = {}
    BY <1>5, <2>1
  <2>3. paidTo(s, payment[p]) = 0
    BY <1>6, PaidToOthers
  <2>4. Total(shares(X), {}) = 0 /\ IsFiniteSet({})
    BY TotalEmpty, FS_EmptySet
  <2> QED
    BY <2>2, <2>3, <2>4
<1>7. CASE s \in touched(payment[p].allocations)
  <2>1. PICK a \in A : a.period = s
    BY <1>3, <1>7 DEF touched
  <2>2. \A b \in A : b.period = s => b = a
    BY <1>4, <2>1 DEF Apart
  <2>3. PICK k, f : /\ k = [z \in P |-> shareOf(p, a, due, z)]
                    /\ f = [z \in P |-> attributed(a.amount, due, z)]
    OBVIOUS
  <2>4. ASSUME NEW z \in P
        PROVE  /\ k[z] \in cell(X, p, s) /\ k[z].zone = z /\ k[z].amount = f[z]
    <3>1. k[z] = shareOf(p, a, due, z) /\ f[z] = attributed(a.amount, due, z)
      BY <2>3
    <3>2. /\ k[z].payment = p /\ k[z].period = s /\ k[z].zone = z
          /\ k[z].amount = f[z]
      BY <2>1, <3>1 DEF shareOf
    <3>3. k[z] \in X
      <4>1. /\ a \in payment[p].allocations
            /\ z \in positive(duesOf(a.period, zoneOf))
            /\ k[z] = shareOf(p, a, duesOf(a.period, zoneOf), z)
        BY <1>0, <1>3, <2>1, <3>1
      <4> QED
        BY Zenon, <4>1 DEF SharesIn
    <3> QED
      BY <3>2, <3>3 DEF cell
  <2>5. cell(X, p, s) = {k[z] : z \in P}
    <3>1. ASSUME NEW x \in cell(X, p, s) PROVE x \in {k[z] : z \in P}
      <4>1. PICK b \in A : b.period = s /\ \E z \in P : x = shareOf(p, b, due, z)
        BY <1>5
      <4>2. b = a
        BY <2>2, <4>1
      <4>3. PICK z \in P : x = shareOf(p, a, due, z)
        BY <4>1, <4>2
      <4>4. x = k[z]
        BY <2>3, <4>3
      <4> QED
        BY <4>4
    <3> QED
      BY <2>4, <3>1
  <2>6. /\ DOMAIN due = Zone /\ IsFiniteSet(DOMAIN due) /\ DOMAIN due \subseteq Int
        /\ \A z \in DOMAIN due : due[z] \in Int
    <3>1. DOMAIN due = Zone
      BY <1>0 DEF duesOf
    <3>2. \A z \in Zone : due[z] \in Int
      BY <1>0, ZoneDues
    <3>3. IsFiniteSet(Zone) /\ Zone \subseteq Int
      BY ZoneAssumption
    <3> QED
      BY Zenon, <3>1, <3>2, <3>3
  <2>7. P # {}
    BY <1>0
  <2>8. PICK m : m = a.amount
    OBVIOUS
  <2>9. m \in Nat
    BY <1>4, <2>8
  <2>10. /\ Total([z \in positive(due) |-> attributed(m, due, z)], positive(due)) = m
         /\ \A z \in positive(due) : attributed(m, due, z) \in Int
    BY <1>0, <2>6, <2>7, <2>9, SharesAreExact
  <2>11. Total(f, P) = m /\ \A z \in P : f[z] \in Int
    BY <1>0, <2>3, <2>8, <2>10
  <2>12. IsFiniteSet(P)
    <3>1. P \subseteq DOMAIN due
      BY <1>0 DEF positive
    <3> QED
      BY <2>6, <3>1, FS_Subset
  <2>13. PICK h : h = shares(X)
    OBVIOUS
  <2>14. \A z \in P : f[z] \in Int /\ h[k[z]] = f[z]
    <3>1. \A x \in X : h[x] = x.amount
      BY <2>13 DEF shares
    <3>2. \A z \in P : k[z] \in X
      BY <2>4 DEF cell
    <3> QED
      BY <2>4, <2>11, <3>1, <3>2
  <2>15. \A y, z \in P : k[y] = k[z] => y = z
    BY <2>4
  <2>16. Total(f, P) = Total(h, {k[z] : z \in P})
    BY <2>12, <2>14, <2>15, TotalRenamed
  <2>17. IsFiniteSet(cell(X, p, s))
    <3>1. PICK C : C = cell(X, p, s)
      OBVIOUS
    <3>2. k \in Surjection(P, C)
      BY <2>3, <2>5, <3>1 DEF Surjection
    <3> QED
      BY <2>12, <3>1, <3>2, FS_Surjection
  <2>18. \A x \in cell(X, p, s) : h[x] \in Int
    BY <2>5, <2>14
  <2>19. paidTo(s, payment[p]) = m
    <3>1. {b \in payment[p].allocations : b.period = s} = {a}
      BY <1>3, <2>1, <2>2
    <3>2. paidTo(s, payment[p]) = totalAllocated({a})
      BY <3>1 DEF paidTo
    <3>3. PICK w, S : w = shares({a}) /\ S = {}
      OBVIOUS
    <3>4. w[a] = m
      BY <2>8, <3>3 DEF shares
    <3>5. Total(w, {a}) = Total(w, S) + w[a]
      <4>1. IsFiniteSet(S) /\ a \notin S /\ w[a] \in Int /\ \A x \in S : w[x] \in Int
        BY <2>9, <3>3, <3>4, FS_EmptySet
      <4>2. Total(w, S \cup {a}) = Total(w, S) + w[a]
        BY <4>1, TotalAdd
      <4>3. S \cup {a} = {a}
        BY <3>3
      <4> QED
        BY <4>2, <4>3
    <3>6. Total(w, S) = 0
      BY <3>3, TotalEmpty
    <3>7. totalAllocated({a}) = Total(w, {a})
      BY <3>3, TotalAllocatedIs
    <3> QED
      BY <2>9, <3>2, <3>4, <3>5, <3>6, <3>7
  <2> QED
    BY <2>5, <2>11, <2>13, <2>16, <2>17, <2>18, <2>19
<1> QED
  BY <1>6, <1>7

\* The shares of all payments to one period come to what it was paid.
LEMMA PeriodTotal ==
  ASSUME IInv, ReportInv, NEW zoneOf \in [Order -> Zone], NEW X, SharesIn(X, zoneOf),
         NEW s \in DOMAIN period, positive(duesOf(s, zoneOf)) # {}
  PROVE  /\ IsFiniteSet(periodShares(X, s))
         /\ \A x \in periodShares(X, s) : shares(X)[x] \in Int
         /\ Total(shares(X), periodShares(X, s)) = period[s].payments
<1>1. PICK A, L, f, g, V : /\ A = activePayments(payment)
                           /\ L = [p \in A |-> cell(X, p, s)]
                           /\ f = shares(X)
                           /\ g = paidBy(s, payment)
                           /\ V = periodShares(X, s)
  OBVIOUS
<1>2. IsFiniteSet(A) /\ A \subseteq DOMAIN payment
  <2>1. activePayments(payment) \subseteq originals /\ originals \subseteq DOMAIN payment
    BY PaymentSets
  <2>2. IsFiniteSet(activePayments(payment))
    BY PaymentSets
  <2> QED
    BY <1>1, <2>1, <2>2
<1>3. ASSUME NEW p \in A
      PROVE  /\ IsFiniteSet(L[p]) /\ \A x \in L[p] : f[x] \in Int
             /\ g[p] = Total(f, L[p])
             /\ \A x \in L[p] : x.payment = p
  <2>1. /\ IsFiniteSet(cell(X, p, s))
        /\ \A x \in cell(X, p, s) : shares(X)[x] \in Int
        /\ Total(shares(X), cell(X, p, s)) = paidTo(s, payment[p])
    BY <1>1, CellTotal
  <2>2. L[p] = cell(X, p, s) /\ p \in DOMAIN payment
    BY <1>1, <1>2
  <2>3. g[p] = paidTo(s, payment[p])
    BY <1>1, <2>2 DEF paidBy
  <2>4. \A x \in cell(X, p, s) : x.payment = p
    BY DEF cell
  <2> QED
    BY <1>1, <2>1, <2>2, <2>3, <2>4
<1>4. \A p, q \in A : p # q => L[p] \cap L[q] = {}
  BY <1>3
<1>5. \A x : x \in V <=> \E p \in A : x \in L[p]
  <2>1. ASSUME NEW x \in V PROVE \E p \in A : x \in L[p]
    <3>1. x \in X /\ x.period = s
      BY <1>1 DEF periodShares
    <3>2. PICK p \in A : \E a \in payment[p].allocations :
              \E z \in positive(duesOf(a.period, zoneOf)) :
                  x = shareOf(p, a, duesOf(a.period, zoneOf), z)
      BY <1>1, <3>1 DEF SharesIn
    <3>3. x.payment = p
      BY <3>2 DEF shareOf
    <3> QED
      BY <1>1, <3>1, <3>3 DEF cell
  <2>2. ASSUME NEW p \in A, NEW x \in L[p] PROVE x \in V
    BY <1>1 DEF cell, periodShares
  <2> QED
    BY <2>1, <2>2
<1>6. Parted(A, L, f, g, V)
  BY <1>2, <1>3, <1>4, <1>5 DEF Parted
<1>7. Total(g, A) = Total(f, V) /\ IsFiniteSet(V)
  BY <1>6, TotalOfTotals, PartedFinite
<1>8. Total(g, A) = period[s].payments
  BY <1>1, AllocatedIs, PaymentsAre
<1>9. \A x \in V : f[x] \in Int
  BY <1>3, <1>5
<1> QED
  BY <1>1, <1>7, <1>8, <1>9

\* The periods in which a zone owes something.
owing(zoneOf) == {t \in DOMAIN period : \E z \in Zone : dueOf(t, z, zoneOf) > 0}

\* They are those of which a payment is divided.
LEMMA Owing ==
  ASSUME NEW zoneOf, NEW s
  PROVE  s \in owing(zoneOf) <=> s \in DOMAIN period /\ positive(duesOf(s, zoneOf)) # {}
<1>1. \A z \in Zone : duesOf(s, zoneOf)[z] = dueOf(s, z, zoneOf)
  BY DEF duesOf
<1>2. DOMAIN duesOf(s, zoneOf) = Zone
  BY DEF duesOf
<1> QED
  BY <1>1, <1>2 DEF owing, positive

\* All shares come to what those periods were paid.
LEMMA SharesTotal ==
  ASSUME IInv, ReportInv, NEW zoneOf \in [Order -> Zone], NEW X, SharesIn(X, zoneOf)
  PROVE  /\ IsFiniteSet(X)
         /\ \A x \in X : shares(X)[x] \in Int /\ x.zone \in Zone
         /\ Total(shares(X), X)
              = SumFunction([s \in owing(zoneOf) |-> period[s].payments])
<1>1. PICK D, L, f, g : /\ D = owing(zoneOf)
                        /\ L = [s \in D |-> periodShares(X, s)]
                        /\ f = shares(X)
                        /\ g = [s \in D |-> period[s].payments]
  OBVIOUS
<1>2. IsFiniteSet(D)
  <2>1. IsFiniteSet(DOMAIN period) /\ D \subseteq DOMAIN period
    BY <1>1 DEF IInv, owing
  <2> QED
    BY <2>1, FS_Subset
<1>3. ASSUME NEW s \in D
      PROVE  /\ IsFiniteSet(L[s]) /\ \A x \in L[s] : f[x] \in Int
             /\ g[s] = Total(f, L[s])
             /\ \A x \in L[s] : x.period = s
  <2>1. s \in DOMAIN period /\ positive(duesOf(s, zoneOf)) # {}
    BY <1>1, Owing
  <2>2. /\ IsFiniteSet(periodShares(X, s))
        /\ \A x \in periodShares(X, s) : shares(X)[x] \in Int
        /\ Total(shares(X), periodShares(X, s)) = period[s].payments
    BY <2>1, PeriodTotal
  <2>3. L[s] = periodShares(X, s) /\ g[s] = period[s].payments
    BY <1>1
  <2>4. \A x \in periodShares(X, s) : x.period = s
    BY DEF periodShares
  <2> QED
    BY <1>1, <2>2, <2>3, <2>4
<1>4. \A s, t \in D : s # t => L[s] \cap L[t] = {}
  BY <1>3
<1>5. ASSUME NEW x \in X PROVE x.zone \in Zone /\ \E s \in D : x \in L[s]
  <2>1. PICK p \in activePayments(payment) : \E a \in payment[p].allocations :
            \E z \in positive(duesOf(a.period, zoneOf)) :
                x = shareOf(p, a, duesOf(a.period, zoneOf), z)
    BY DEF SharesIn
  <2>2. PICK a \in payment[p].allocations :
            \E z \in positive(duesOf(a.period, zoneOf)) :
                x = shareOf(p, a, duesOf(a.period, zoneOf), z)
    BY <2>1
  <2>3. PICK s : s = a.period
    OBVIOUS
  <2>4. PICK z \in positive(duesOf(s, zoneOf)) : x = shareOf(p, a, duesOf(s, zoneOf), z)
    BY <2>2, <2>3
  <2>5. x.period = s /\ x.zone = z
    BY <2>3, <2>4 DEF shareOf
  <2>6. s \in DOMAIN period
    <3>1. p \in DOMAIN payment
      BY DEF activePayments
    <3>2. AllocatedWhole(payment[p], DOMAIN period)
      BY <3>1 DEF IInv, PaymentInv, AllocationsInv
    <3>3. s \in touched(payment[p].allocations)
      BY <2>3 DEF touched
    <3> QED
      BY <3>2, <3>3 DEF AllocatedWhole
  <2>7. s \in owing(zoneOf)
    BY <2>4, <2>6, Owing
  <2>8. z \in Zone
    BY <2>4 DEF positive, duesOf
  <2>9. s \in D /\ x \in L[s]
    BY <1>1, <2>5, <2>6, <2>7 DEF periodShares
  <2> QED
    BY <2>5, <2>8, <2>9
<1>6. \A x : x \in X <=> \E s \in D : x \in L[s]
  <2>1. \A s \in D : L[s] \subseteq X
    BY <1>1 DEF periodShares
  <2> QED
    BY <1>5, <2>1
<1>7. Parted(D, L, f, g, X)
  BY <1>2, <1>3, <1>4, <1>6 DEF Parted
<1>8. Total(g, D) = Total(f, X) /\ IsFiniteSet(X)
  BY <1>7, TotalOfTotals, PartedFinite
<1>9. SumFunction(g) = Total(g, D)
  <2>1. DOMAIN g = D
    BY <1>1
  <2> QED
    BY <2>1, SumIs
<1>10. \A x \in X : f[x] \in Int
  BY <1>3, <1>6
<1> QED
  BY <1>1, <1>5, <1>8, <1>9, <1>10

\* The zones are credited with all shares.
LEMMA ZonesPaid ==
  ASSUME IInv, ReportInv, NEW zoneOf \in [Order -> Zone], NEW X, SharesIn(X, zoneOf),
         NEW g, g = [z \in Zone |-> amounts(zoneSharesIn(X, z))]
  PROVE  Total(g, Zone)
           = SumFunction([s \in owing(zoneOf) |-> period[s].payments])
<1>1. PICK L, f : /\ L = [z \in Zone |-> zoneSharesIn(X, z)]
                  /\ f = shares(X)
  OBVIOUS
<1>2. /\ IsFiniteSet(X)
      /\ \A x \in X : f[x] \in Int /\ x.zone \in Zone
      /\ Total(f, X)
           = SumFunction([s \in owing(zoneOf) |-> period[s].payments])
  BY <1>1, SharesTotal
<1>3. ASSUME NEW z \in Zone
      PROVE  /\ IsFiniteSet(L[z]) /\ \A x \in L[z] : f[x] \in Int
             /\ g[z] = Total(f, L[z])
             /\ \A x \in L[z] : x \in X /\ x.zone = z
  <2>1. PICK Y : Y = zoneSharesIn(X, z)
    OBVIOUS
  <2>2. Y \subseteq X /\ \A x \in Y : x.zone = z
    BY <2>1 DEF zoneSharesIn
  <2>3. IsFiniteSet(Y)
    BY <1>2, <2>2, FS_Subset
  <2>4. g[z] = Total(shares(Y), Y)
    BY <2>1, AmountsAre
  <2>5. PICK h : h = shares(Y)
    OBVIOUS
  <2>6. \A x \in Y : h[x] = f[x]
    BY <1>1, <2>2, <2>5 DEF shares
  <2>7. Total(h, Y) = Total(f, Y)
    BY <2>3, <2>6, TotalSame
  <2>8. L[z] = Y
    BY <1>1, <2>1
  <2> QED
    BY <1>2, <2>2, <2>3, <2>4, <2>5, <2>7, <2>8
<1>4. \A y, z \in Zone : y # z => L[y] \cap L[z] = {}
  BY <1>3
<1>5. \A x : x \in X <=> \E z \in Zone : x \in L[z]
  <2>1. ASSUME NEW x \in X PROVE \E z \in Zone : x \in L[z]
    <3>1. x.zone \in Zone /\ x \in L[x.zone]
      BY <1>1, <1>2 DEF zoneSharesIn
    <3> QED
      BY <3>1
  <2> QED
    BY <1>3, <2>1
<1>6. Parted(Zone, L, f, g, X)
  BY <1>3, <1>4, <1>5, ZoneAssumption DEF Parted
<1>7. Total(g, Zone) = Total(f, X)
  BY <1>6, TotalOfTotals
<1> QED
  BY <1>2, <1>7

\* The zones add up.
LEMMA InvImpliesZones == IInv /\ ReportInv => ZonesAddUp
<1> SUFFICES ASSUME IInv, ReportInv, NEW zoneOf \in [Order -> Zone],
                    NEW f, f = zoneFinance(zoneOf)
             PROVE  /\ SumFunction([z \in Zone |-> f[z].due])
                         = SumFunction([s \in DOMAIN period |-> period[s].commission])
                           + sumOf(ledger, named)
                    /\ SumFunction([z \in Zone |-> f[z].paid])
                         = SumFunction([s \in owing(zoneOf) |-> period[s].payments])
  BY DEF ZonesAddUp, owing
<1>1. PICK X : X = attributePaymentsToZones(zoneOf)
  OBVIOUS
<1>2. SharesIn(X, zoneOf)
  BY <1>1, SharesAre
<1>3. PICK d, g : /\ d = [z \in Zone |-> zoneDue(z, zoneOf)]
                  /\ g = [z \in Zone |-> amounts(zoneSharesIn(X, z))]
  OBVIOUS
<1>4. ASSUME NEW z \in Zone PROVE f[z].due = d[z] /\ f[z].paid = g[z]
  <2>1. PICK e, p, o, u, v :
          /\ e = zoneDue(z, zoneOf)
          /\ p = amounts({x \in X : x.zone = z})
          /\ o = clamp(zoneDue(z, zoneOf) - amounts({x \in X : x.zone = z}))
          /\ u = {s \in billed(z, zoneOf) : period[s].status = "OPEN"}
          /\ v = {s \in billed(z, zoneOf) : period[s].status = "OVERDUE"}
    OBVIOUS
  <2>2. f[z] = [due |-> e, paid |-> p, outstanding |-> o, open |-> u, overdue |-> v]
    BY <1>1, <2>1 DEF zoneFinance
  <2>3. f[z].due = e /\ f[z].paid = p
    BY <2>2
  <2>4. d[z] = e
    BY <1>3, <2>1
  <2>5. g[z] = p
    BY <1>3, <2>1 DEF zoneSharesIn
  <2> QED
    BY <2>3, <2>4, <2>5
<1>5. [z \in Zone |-> f[z].due] = d
  BY <1>3, <1>4
<1>6. [z \in Zone |-> f[z].paid] = g
  BY <1>3, <1>4
<1>7. SumFunction(g) = Total(g, Zone)
  <2>1. DOMAIN g = Zone
    BY <1>3
  <2> QED
    BY <2>1, SumIs
<1>8. SumFunction(g)
        = SumFunction([s \in owing(zoneOf) |-> period[s].payments])
  BY <1>2, <1>3, <1>7, ZonesPaid
<1>9. SumFunction(d) = SumFunction([s \in DOMAIN period |-> period[s].commission])
                       + sumOf(ledger, named)
  BY <1>3, ZonesDue
<1> QED
  BY <1>5, <1>6, <1>8, <1>9

-----------------------------------------------------------------------------

\* Summary, sheets and zones tell one story in every reachable state.
THEOREM ReportsAgreeHolds == Spec => []ReportsAgree
<1>1. IInv /\ ReportInv => ReportsAgree
  BY DividesExactlyAlways, InvImpliesSummary, InvImpliesSheets, InvImpliesZones
     DEF ReportsAgree
<1> QED
  BY <1>1, ReportInvHolds, PTL
=============================================================================
