------------------------ MODULE ItchMarketStateProofs ------------------------
(* The market state for every set of instruments and orders, every size of *)
(* its stores and of the event queue, and every sequence of messages.      *)
EXTENDS ItchMarketState, FiniteSetTheorems, SequenceTheorems, NaturalsInduction, WellFoundedInduction, TLAPS

(* A set of naturals with 0 and the successors of its members has them all.*)
LEMMA SetInduction ==
  ASSUME NEW T \in SUBSET Nat, 0 \in T, \A n \in T : n + 1 \in T
  PROVE  \A n \in Nat : n \in T
<1> DEFINE Less == {p \in Nat \X Nat : p[1] < p[2]}
           U == Nat \ T
<1>1. IsWellFoundedOn(Less, Nat)
  BY NatLessThanWellFounded DEF OpToRel
<1>2. U \subseteq Nat
  OBVIOUS
<1>3. SUFFICES ASSUME U # {} PROVE FALSE
  OBVIOUS
<1>4. \E u \in U : \A v \in U : ~(<<v, u>> \in Less)
  <2> HIDE DEF Less, U
  <2>1. QED
    BY <1>1, <1>2, <1>3, WFMin
<1>5. PICK u \in U : \A v \in U : ~(<<v, u>> \in Less)
  BY <1>4
<1>6. u \in Nat /\ u \notin T /\ u # 0
  OBVIOUS
<1>7. u - 1 \in Nat /\ u - 1 < u /\ (u - 1) + 1 = u
  BY <1>6
<1>8. <<u - 1, u>> \in Less
  BY <1>6, <1>7
<1>9. u - 1 \in T
  BY <1>5, <1>7, <1>8
<1>10. QED
  BY <1>6, <1>7, <1>9
-----------------------------------------------------------------------------
(* Sums of quantities *)

Chosen(s) == CHOOSE x \in s : TRUE

(* The function that the sum over K is taken from. *)
IsSum(F, held, K) ==
  F = [s \in SUBSET K |->
        IF s = {} THEN 0 ELSE held[Chosen(s)].quantity + F[s \ {Chosen(s)}]]

LEMMA ChosenType == ASSUME NEW s, s # {} PROVE Chosen(s) \in s
BY Zenon DEF Chosen

LEMMA TotalIsOfSum ==
  ASSUME NEW held, NEW K
  PROVE  Total(held, K) = (CHOOSE F : IsSum(F, held, K))[K]
BY DEF Total, MapThenSumSet, MapThenFoldSet, IsSum, Chosen

(* One element less in a subset of a finite set. *)
LEMMA OneLess ==
  ASSUME NEW K, IsFiniteSet(K), NEW s \in SUBSET K, NEW x \in s
  PROVE  /\ IsFiniteSet(s) /\ Cardinality(s) \in Nat
         /\ s \ {x} \in SUBSET K /\ Cardinality(s \ {x}) = Cardinality(s) - 1
         /\ Cardinality(s) # 0
<1>1. IsFiniteSet(s)
  BY FS_Subset
<1>2. Cardinality(s) \in Nat /\ Cardinality(s \ {x}) = Cardinality(s) - 1
  BY <1>1, FS_RemoveElement, FS_CardinalityType
<1>3. Cardinality(s) # 0
  BY <1>1, FS_EmptySet
<1>4. QED
  BY <1>1, <1>2, <1>3

(* There is such a function: it is built one cardinality after the other.  *)
LEMMA SumExists ==
  ASSUME NEW held, NEW K, IsFiniteSet(K)
  PROVE  \E F : IsSum(F, held, K)
<1> DEFINE Small(n) == {s \in SUBSET K : Cardinality(s) <= n}
           Next1(f, s) == IF s = {} THEN 0 ELSE held[Chosen(s)].quantity + f[s \ {Chosen(s)}]
           T == {n \in Nat : \E f : f = [s \in Small(n) |-> Next1(f, s)]}
<1>1. \A s \in SUBSET K : Cardinality(s) \in Nat
  BY FS_Subset, FS_CardinalityType
<1>2. 0 \in T
  <2> DEFINE f == [s \in Small(0) |-> 0]
  <2>1. ASSUME NEW s \in Small(0) PROVE s = {}
    BY FS_Subset, FS_EmptySet, <1>1
  <2>2. f = [s \in Small(0) |-> Next1(f, s)]
    BY <2>1
  <2>3. QED
    BY <2>2
<1>3. ASSUME NEW n \in T PROVE n + 1 \in T
  <2>1. PICK f : f = [s \in Small(n) |-> Next1(f, s)]
    OBVIOUS
  <2> DEFINE g == [s \in Small(n + 1) |-> Next1(f, s)]
  <2>2. ASSUME NEW s \in Small(n + 1), s # {}
        PROVE  s \ {Chosen(s)} \in Small(n) /\ s \ {Chosen(s)} \in Small(n + 1)
    BY <2>2, <1>1, ChosenType, OneLess
  <2>3. ASSUME NEW s \in Small(n) PROVE s \in Small(n + 1) /\ g[s] = f[s]
    <3>1. n \in Nat /\ Cardinality(s) \in Nat /\ Cardinality(s) <= n
      BY <1>1
    <3>2. s \in Small(n + 1)
      BY <3>1
    <3>3. f[s] = Next1(f, s)
      <4> HIDE DEF Next1, Small
      <4>1. QED
        BY <2>1
    <3>4. g[s] = Next1(f, s)
      <4> HIDE DEF Next1, Small
      <4>1. QED
        BY <3>2
    <3>5. QED
      BY <3>2, <3>3, <3>4
  <2>4. ASSUME NEW s \in Small(n + 1) PROVE Next1(f, s) = Next1(g, s)
    BY <2>2, <2>3
  <2>5. g = [s \in Small(n + 1) |-> Next1(g, s)]
    <3> HIDE DEF Next1, Small
    <3>1. QED
      BY <2>4
  <2>6. n + 1 \in Nat
    OBVIOUS
  <2>7. QED
    <3> HIDE DEF Next1, Small, g
    <3>1. QED
      BY <2>5, <2>6
<1>4. \A n \in Nat : n \in T
  <2>1. T \in SUBSET Nat
    OBVIOUS
  <2> HIDE DEF T
  <2>2. QED
    BY <1>2, <1>3, <2>1, SetInduction
<1>5. Cardinality(K) \in Nat
  BY FS_CardinalityType
<1>6. PICK f : f = [s \in Small(Cardinality(K)) |-> Next1(f, s)]
  BY <1>4, <1>5
<1>7. Small(Cardinality(K)) = SUBSET K
  BY FS_Subset
<1>8. QED
  BY <1>6, <1>7 DEF IsSum

(* Any two agree where both are defined. *)
LEMMA SumsAgree ==
  ASSUME NEW held, NEW K, IsFiniteSet(K), NEW L \in SUBSET K,
         NEW F, IsSum(F, held, K), NEW G, IsSum(G, held, L)
  PROVE  \A s \in SUBSET L : F[s] = G[s]
<1> DEFINE T == {n \in Nat : \A s \in SUBSET L : Cardinality(s) = n => F[s] = G[s]}
<1>1. ASSUME NEW s \in SUBSET L
      PROVE  /\ s = {} => F[s] = 0 /\ G[s] = 0
             /\ s # {} => /\ F[s] = held[Chosen(s)].quantity + F[s \ {Chosen(s)}]
                          /\ G[s] = held[Chosen(s)].quantity + G[s \ {Chosen(s)}]
  <2>1. s \in SUBSET K
    OBVIOUS
  <2>2. QED
    BY <2>1 DEF IsSum
<1>2. 0 \in T
  <2>1. \A s \in SUBSET L : Cardinality(s) = 0 => s = {}
    BY FS_Subset, FS_EmptySet
  <2>2. QED
    BY <1>1, <2>1
<1>3. ASSUME NEW n \in T PROVE n + 1 \in T
  <2>1. ASSUME NEW s \in SUBSET L, Cardinality(s) = n + 1 PROVE F[s] = G[s]
    <3>1. s # {}
      <4>1. n \in Nat /\ n + 1 # 0
        OBVIOUS
      <4>2. Cardinality(s) # 0
        BY <2>1, <4>1
      <4>3. QED
        BY <4>2, FS_EmptySet
    <3>2. Chosen(s) \in s /\ IsFiniteSet(L)
      BY <3>1, ChosenType, FS_Subset
    <3>3. s \ {Chosen(s)} \in SUBSET L /\ Cardinality(s \ {Chosen(s)}) = n
      BY <2>1, <3>2, OneLess
    <3>4. F[s \ {Chosen(s)}] = G[s \ {Chosen(s)}]
      BY <3>3
    <3>5. QED
      BY <1>1, <3>1, <3>4
  <2>2. QED
    BY <2>1
<1>4. \A n \in Nat : n \in T
  <2>1. T \in SUBSET Nat
    OBVIOUS
  <2> HIDE DEF T
  <2>2. QED
    BY <1>2, <1>3, <2>1, SetInduction
<1>5. \A s \in SUBSET L : Cardinality(s) \in Nat
  BY FS_Subset, FS_CardinalityType
<1>6. QED
  BY <1>4, <1>5

LEMMA TotalIs ==
  ASSUME NEW held, NEW K, IsFiniteSet(K), NEW F, IsSum(F, held, K)
  PROVE  Total(held, K) = F[K]
<1> DEFINE G == CHOOSE H : IsSum(H, held, K)
<1>1. IsSum(G, held, K)
  BY SumExists, Zenon
<1>2. K \in SUBSET K
  OBVIOUS
<1> HIDE DEF G
<1>3. F[K] = G[K]
  BY <1>1, <1>2, SumsAgree
<1>4. Total(held, K) = G[K]
  BY TotalIsOfSum DEF G
<1>5. QED
  BY <1>3, <1>4

(* The sum over nothing, and with any one element set apart. *)
LEMMA TotalUnfolds ==
  ASSUME NEW held, NEW K, IsFiniteSet(K)
  PROVE  /\ K = {} => Total(held, K) = 0
         /\ K # {} => Total(held, K) = held[Chosen(K)].quantity + Total(held, K \ {Chosen(K)})
<1>1. PICK F : IsSum(F, held, K)
  BY SumExists
<1>2. Total(held, K) = F[K]
  BY <1>1, TotalIs
<1>3. CASE K = {}
  BY <1>1, <1>2, <1>3 DEF IsSum
<1>4. CASE K # {}
  <2> DEFINE L == K \ {Chosen(K)}
  <2>1. F[K] = held[Chosen(K)].quantity + F[L]
    BY <1>1, <1>4 DEF IsSum
  <2>2. L \in SUBSET K /\ IsFiniteSet(L)
    BY FS_Subset
  <2>3. PICK G : IsSum(G, held, L)
    BY <2>2, SumExists
  <2>4. F[L] = G[L]
    BY <1>1, <2>2, <2>3, SumsAgree
  <2>5. Total(held, L) = G[L]
    BY <2>2, <2>3, TotalIs
  <2>6. QED
    BY <1>2, <1>4, <2>1, <2>4, <2>5
<1>5. QED
  BY <1>3, <1>4

LEMMA TotalType ==
  ASSUME NEW held, NEW K, IsFiniteSet(K), \A k \in K : held[k].quantity \in Nat
  PROVE  Total(held, K) \in Nat
<1> DEFINE T == {n \in Nat : \A s \in SUBSET K : Cardinality(s) = n => Total(held, s) \in Nat}
<1>1. \A s \in SUBSET K : IsFiniteSet(s) /\ Cardinality(s) \in Nat
  BY FS_Subset, FS_CardinalityType
<1>2. 0 \in T
  <2>1. \A s \in SUBSET K : Cardinality(s) = 0 => s = {}
    BY <1>1, FS_EmptySet
  <2>2. Total(held, {}) = 0
    BY FS_EmptySet, TotalUnfolds
  <2>3. QED
    BY <2>1, <2>2
<1>3. ASSUME NEW n \in T PROVE n + 1 \in T
  <2>1. ASSUME NEW s \in SUBSET K, Cardinality(s) = n + 1 PROVE Total(held, s) \in Nat
    <3>1. s # {} /\ IsFiniteSet(s)
      BY <1>1, <2>1, FS_EmptySet
    <3> DEFINE c == Chosen(s)
    <3>2. c \in s /\ held[c].quantity \in Nat
      BY <3>1, ChosenType
    <3>3. Total(held, s) = held[c].quantity + Total(held, s \ {c})
      BY <3>1, TotalUnfolds
    <3> HIDE DEF c
    <3>4. s \ {c} \in SUBSET K /\ Cardinality(s \ {c}) = n
      BY <2>1, <3>2, OneLess
    <3>5. Total(held, s \ {c}) \in Nat
      BY <3>4
    <3>6. QED
      BY <3>2, <3>3, <3>5
  <2>2. QED
    BY <2>1
<1>4. \A n \in Nat : n \in T
  <2>1. T \in SUBSET Nat
    OBVIOUS
  <2> HIDE DEF T
  <2>2. QED
    BY <1>2, <1>3, <2>1, SetInduction
<1>5. Cardinality(K) \in T
  BY <1>1, <1>4
<1>6. QED
  BY <1>5

LEMMA TotalOfAny ==
  ASSUME NEW held, NEW K, IsFiniteSet(K), \A k \in K : held[k].quantity \in Nat, NEW x \in K
  PROVE  Total(held, K) = held[x].quantity + Total(held, K \ {x})
<1> DEFINE G == [s \in SUBSET K |-> Total(held, s)]
           q == [k \in K |-> held[k].quantity]
           T == {n \in Nat : \A s \in SUBSET K : Cardinality(s) = n =>
                               \A y \in s : G[s] = q[y] + G[s \ {y}]}
<1>1. \A s \in SUBSET K : IsFiniteSet(s) /\ Cardinality(s) \in Nat
  BY FS_Subset, FS_CardinalityType
<1>2. G \in [SUBSET K -> Nat]
  BY <1>1, TotalType
<1>3. ASSUME NEW s \in SUBSET K, s # {}
      PROVE  \E c \in s : G[s] = q[c] + G[s \ {c}]
  BY <1>1, <1>3, TotalUnfolds, ChosenType
<1>4. q \in [K -> Nat]
  OBVIOUS
<1>5. G[K] = Total(held, K) /\ G[K \ {x}] = Total(held, K \ {x}) /\ q[x] = held[x].quantity
  OBVIOUS
<1> HIDE DEF G, q
<1>6. 0 \in T
  BY <1>1, FS_EmptySet
<1>7. ASSUME NEW n \in T PROVE n + 1 \in T
  <2>1. ASSUME NEW s \in SUBSET K, Cardinality(s) = n + 1, NEW y \in s
        PROVE  G[s] = q[y] + G[s \ {y}]
    <3>1. PICK c \in s : G[s] = q[c] + G[s \ {c}]
      BY <1>3
    <3>2. CASE y = c
      BY <3>1, <3>2
    <3>3. CASE y # c
      <4>1. ASSUME NEW z \in s PROVE s \ {z} \in SUBSET K /\ Cardinality(s \ {z}) = n
        BY <2>1, OneLess
      <4>2. G[s \ {c}] = q[y] + G[(s \ {c}) \ {y}]
        BY <3>3, <4>1
      <4>3. G[s \ {y}] = q[c] + G[(s \ {y}) \ {c}]
        BY <3>3, <4>1
      <4>4. (s \ {c}) \ {y} = (s \ {y}) \ {c}
        OBVIOUS
      <4>5. G[(s \ {c}) \ {y}] \in Nat /\ q[c] \in Nat /\ q[y] \in Nat
        BY <1>2, <1>4
      <4>6. G[s] = q[y] + (q[c] + G[(s \ {c}) \ {y}])
        BY <3>1, <4>2, <4>5
      <4>7. G[s] = q[y] + G[s \ {y}]
        BY <4>3, <4>4, <4>6
      <4>8. QED
        BY <4>7
    <3>4. QED
      BY <3>2, <3>3
  <2>2. QED
    BY <2>1
<1>8. \A n \in Nat : n \in T
  <2>1. T \in SUBSET Nat
    OBVIOUS
  <2> HIDE DEF T
  <2>2. QED
    BY <1>6, <1>7, <2>1, SetInduction
<1>9. Cardinality(K) \in T
  BY <1>1, <1>8
<1>10. QED
  BY <1>5, <1>9

(* The sum depends on the quantities alone. *)
LEMMA TotalsAgree ==
  ASSUME NEW held, NEW other, NEW K, IsFiniteSet(K),
         \A k \in K : held[k].quantity = other[k].quantity
  PROVE  Total(held, K) = Total(other, K)
<1>1. PICK F : IsSum(F, held, K)
  BY SumExists
<1>2. \A s \in SUBSET K : s # {} => held[Chosen(s)].quantity = other[Chosen(s)].quantity
  BY ChosenType
<1>3. IsSum(F, other, K)
  BY <1>1, <1>2 DEF IsSum
<1>4. QED
  BY <1>1, <1>3, TotalIs
-----------------------------------------------------------------------------
(* Orders under their ids, or one after the other *)

IsHeld(h) ==
  /\ h = [k \in DOMAIN h |-> h[k]]
  /\ IsFiniteSet(DOMAIN h)
  /\ \A k \in DOMAIN h : h[k] \in Order

LEMMA OrderType ==
  ASSUME NEW o \in Order
  PROVE  /\ o.quantity \in Nat /\ KeyOf(o) \in Instrument \X Side \X Price
         /\ KeyOf(o)[1] = o.instrument
BY DEF Order, KeyOf

LEMMA HeldAt ==
  ASSUME NEW h, IsHeld(h), NEW key
  PROVE  /\ IsFiniteSet(At(h, key)) /\ Cardinality(At(h, key)) \in Nat
         /\ Total(h, At(h, key)) \in Nat
         /\ key \in Keys(h) <=> Cardinality(At(h, key)) # 0
         /\ key \notin Keys(h) => Total(h, At(h, key)) = 0
<1>1. IsFiniteSet(At(h, key)) /\ Cardinality(At(h, key)) \in Nat
  BY FS_Subset, FS_CardinalityType DEF At, IsHeld
<1>2. \A k \in At(h, key) : h[k].quantity \in Nat
  BY OrderType DEF At, IsHeld
<1>3. Total(h, At(h, key)) \in Nat
  BY <1>1, <1>2, TotalType
<1>4. key \in Keys(h) <=> At(h, key) # {}
  BY DEF Keys, At
<1>5. At(h, key) = {} => Total(h, At(h, key)) = 0
  BY <1>1, TotalUnfolds
<1>6. At(h, key) = {} <=> Cardinality(At(h, key)) = 0
  BY <1>1, FS_EmptySet
<1>7. QED
  BY <1>1, <1>3, <1>4, <1>5, <1>6

LEMMA HeldType ==
  ASSUME NEW h, IsHeld(h), NEW k, NEW o \in Order
  PROVE  IsHeld(With(h, k, o)) /\ IsHeld(Without(h, k))
<1>1. IsFiniteSet(DOMAIN h \cup {k}) /\ IsFiniteSet(DOMAIN h \ {k})
  BY FS_AddElement, FS_RemoveElement DEF IsHeld
<1>2. QED
  BY <1>1 DEF IsHeld, With, Without

(* One order more, at the level it names. *)
LEMMA HeldGains ==
  ASSUME NEW h, IsHeld(h), NEW k, k \notin DOMAIN h, NEW o \in Order, NEW key
  PROVE  LET g == With(h, k, o)
             one == IF key = KeyOf(o) THEN 1 ELSE 0
             more == IF key = KeyOf(o) THEN o.quantity ELSE 0
         IN  /\ Keys(g) = Keys(h) \cup {KeyOf(o)}
             /\ Cardinality(At(g, key)) = Cardinality(At(h, key)) + one
             /\ Total(g, At(g, key)) = Total(h, At(h, key)) + more
<1> DEFINE g == With(h, k, o)
<1>1. /\ DOMAIN g = DOMAIN h \cup {k} /\ g[k] = o
      /\ \A x \in DOMAIN h : g[x] = h[x]
  BY DEF With
<1>2. IsHeld(g)
  BY HeldType
<1> HIDE DEF g
<1>3. Keys(g) = Keys(h) \cup {KeyOf(o)}
  BY <1>1 DEF Keys
<1>4. /\ IsFiniteSet(At(h, key)) /\ Cardinality(At(h, key)) \in Nat
      /\ Total(h, At(h, key)) \in Nat /\ o.quantity \in Nat
  BY HeldAt, OrderType
<1>5. Total(g, At(h, key)) = Total(h, At(h, key))
  <2>1. \A x \in At(h, key) : g[x].quantity = h[x].quantity
    BY <1>1 DEF At
  <2>2. QED
    BY <1>4, <2>1, TotalsAgree
<1>6. CASE key # KeyOf(o)
  <2>1. At(g, key) = At(h, key)
    BY <1>1, <1>6 DEF At
  <2>2. QED
    BY <1>3, <1>4, <1>5, <1>6, <2>1 DEF g
<1>7. CASE key = KeyOf(o)
  <2>1. At(g, key) = At(h, key) \cup {k} /\ k \notin At(h, key)
    BY <1>1, <1>7 DEF At
  <2>2. Cardinality(At(g, key)) = Cardinality(At(h, key)) + 1
    BY <1>4, <2>1, FS_AddElement
  <2>3. Total(g, At(g, key)) = o.quantity + Total(h, At(h, key))
    <3>1. IsFiniteSet(At(g, key)) /\ \A x \in At(g, key) : g[x].quantity \in Nat
      <4>1. \A x \in At(g, key) : g[x] \in Order
        BY <1>2 DEF At, IsHeld
      <4>2. QED
        BY <1>2, <4>1, HeldAt, OrderType
    <3>2. At(g, key) \ {k} = At(h, key) /\ k \in At(g, key)
      BY <2>1
    <3>3. Total(g, At(g, key)) = g[k].quantity + Total(g, At(g, key) \ {k})
      BY <3>1, <3>2, TotalOfAny
    <3>4. QED
      BY <1>1, <1>5, <3>2, <3>3
  <2>4. QED
    BY <1>3, <1>4, <1>7, <2>2, <2>3 DEF g
<1>8. QED
  BY <1>6, <1>7
-----------------------------------------------------------------------------
(* Levels *)

Level == [quantity : Nat, orderCount : Nat \ {0}]

IsLevels(lv) ==
  /\ lv = [key \in DOMAIN lv |-> lv[key]]
  /\ \A key \in DOMAIN lv : lv[key] \in Level

(* An order that joined a level can leave it again, and be reduced.        *)
LEMMA AddThenRemove ==
  ASSUME NEW lv, IsLevels(lv), NEW key, NEW q \in Nat
  PROVE  LET added == LevelAdd(lv, key, q)
         IN  CanRemove(added, key, q) /\ RemoveOrder(added, key, q) = lv
<1>1. CASE key \in DOMAIN lv
  <2>1. PICK a \in Nat, n \in Nat \ {0} : lv[key] = [quantity |-> a, orderCount |-> n]
    BY <1>1 DEF IsLevels, Level
  <2> DEFINE added == LevelAdd(lv, key, q)
  <2>2. /\ added[key] = [quantity |-> a + q, orderCount |-> n + 1]
        /\ DOMAIN added = DOMAIN lv
        /\ \A x \in DOMAIN lv : x # key => added[x] = lv[x]
    BY <1>1, <2>1 DEF LevelAdd, With
  <2> HIDE DEF added
  <2>3. CanRemove(added, key, q) /\ n + 1 # 1
    BY <2>2 DEF CanRemove
  <2>4. (a + q) - q = a /\ (n + 1) - 1 = n
    OBVIOUS
  <2>5. RemoveOrder(added, key, q) = [x \in DOMAIN lv |-> lv[x]]
    BY <1>1, <2>1, <2>2, <2>3, <2>4 DEF RemoveOrder, With
  <2>6. QED
    BY <2>3, <2>5 DEF IsLevels, added
<1>2. CASE key \notin DOMAIN lv
  <2> DEFINE added == LevelAdd(lv, key, q)
  <2>1. /\ added[key] = [quantity |-> q, orderCount |-> 1]
        /\ DOMAIN added = DOMAIN lv \cup {key}
        /\ \A x \in DOMAIN lv : added[x] = lv[x]
    BY <1>2 DEF LevelAdd, With
  <2> HIDE DEF added
  <2>2. CanRemove(added, key, q)
    BY <2>1 DEF CanRemove
  <2>3. RemoveOrder(added, key, q) = [x \in DOMAIN lv |-> lv[x]]
    BY <1>2, <2>1 DEF RemoveOrder, Without
  <2>4. QED
    BY <2>2, <2>3 DEF IsLevels, added
<1>3. QED
  BY <1>1, <1>2

LEMMA AddThenReduce ==
  ASSUME NEW lv, IsLevels(lv), NEW key, NEW q \in Nat, NEW d \in Nat, d <= q
  PROVE  LET added == LevelAdd(lv, key, q)
         IN  CanReduce(added, key, d) /\ LevelReduce(added, key, d) = LevelAdd(lv, key, q - d)
<1> DEFINE added == LevelAdd(lv, key, q)
           less == LevelAdd(lv, key, q - d)
<1>1. PICK a \in Nat, n \in Nat :
        /\ added[key] = [quantity |-> a + q, orderCount |-> n]
        /\ less[key] = [quantity |-> a + (q - d), orderCount |-> n]
  <2>1. CASE key \in DOMAIN lv
    <3>1. PICK a \in Nat, n \in Nat : lv[key] = [quantity |-> a, orderCount |-> n]
      BY <2>1 DEF IsLevels, Level
    <3>2. n + 1 \in Nat
      OBVIOUS
    <3>3. QED
      BY <2>1, <3>1, <3>2 DEF LevelAdd, With
  <2>2. CASE key \notin DOMAIN lv
    BY <2>2 DEF LevelAdd, With
  <2>3. QED
    BY <2>1, <2>2
<1>2. /\ DOMAIN added = DOMAIN lv \cup {key} /\ DOMAIN less = DOMAIN lv \cup {key}
      /\ added = [x \in DOMAIN added |-> added[x]] /\ less = [x \in DOMAIN less |-> less[x]]
      /\ \A x \in DOMAIN lv : x # key => added[x] = less[x]
  BY DEF LevelAdd, With
<1> HIDE DEF added, less
<1>3. d <= a + q /\ (a + q) - d = a + (q - d)
  OBVIOUS
<1>4. CanReduce(added, key, d)
  BY <1>1, <1>3 DEF CanReduce
<1>5. LevelReduce(added, key, d) = less
  BY <1>1, <1>2, <1>3 DEF LevelReduce
<1>6. QED
  BY <1>4, <1>5 DEF added, less

(* What the levels of some orders are. *)
LEMMA LevelsType ==
  ASSUME NEW os, IsHeld(os), NEW rs, IsHeld(rs)
  PROVE  /\ IsLevels(LevelsOf(os, rs))
         /\ DOMAIN LevelsOf(os, rs) = Keys(os) \cup Keys(rs)
         /\ LevelsOf(os, rs) = LevelsOf(rs, os)
<1> DEFINE lv == LevelsOf(os, rs)
<1>1. DOMAIN lv = Keys(os) \cup Keys(rs) /\ lv = [key \in DOMAIN lv |-> lv[key]]
  BY DEF LevelsOf
<1>2. ASSUME NEW key \in Keys(os) \cup Keys(rs)
      PROVE  lv[key] \in Level /\ lv[key] = LevelsOf(rs, os)[key]
  <2> DEFINE a == Total(os, At(os, key))
             b == Total(rs, At(rs, key))
             m == Cardinality(At(os, key))
             n == Cardinality(At(rs, key))
  <2>1. /\ lv[key] = [quantity |-> a + b, orderCount |-> m + n]
        /\ LevelsOf(rs, os)[key] = [quantity |-> b + a, orderCount |-> n + m]
    BY DEF LevelsOf
  <2>2. a \in Nat /\ b \in Nat /\ m \in Nat /\ n \in Nat /\ (m # 0 \/ n # 0)
    BY HeldAt
  <2> HIDE DEF a, b, m, n
  <2>3. a + b = b + a /\ m + n = n + m /\ a + b \in Nat /\ m + n \in Nat \ {0}
    BY <2>2
  <2>4. QED
    BY <2>1, <2>3 DEF Level
<1>3. lv = LevelsOf(rs, os)
  <2>1. DOMAIN LevelsOf(rs, os) = DOMAIN lv
        /\ LevelsOf(rs, os) = [key \in DOMAIN lv |-> LevelsOf(rs, os)[key]]
    BY DEF LevelsOf
  <2> HIDE DEF lv
  <2>2. QED
    BY <1>1, <1>2, <2>1
<1>4. QED
  BY <1>1, <1>2, <1>3 DEF IsLevels

(* LevelAdd() does to the levels what one order more does to the orders.   *)
LEMMA LevelsGain ==
  ASSUME NEW os, IsHeld(os), NEW rs, IsHeld(rs), NEW k, k \notin DOMAIN os, NEW o \in Order
  PROVE  LevelsOf(With(os, k, o), rs) = LevelAdd(LevelsOf(os, rs), KeyOf(o), o.quantity)
<1> DEFINE lv == LevelsOf(os, rs)
           os1 == With(os, k, o)
           lv1 == LevelsOf(os1, rs)
           added == LevelAdd(lv, KeyOf(o), o.quantity)
<1>1. IsHeld(os1) /\ Keys(os1) = Keys(os) \cup {KeyOf(o)}
  BY HeldType, HeldGains
<1>2. DOMAIN lv1 = DOMAIN lv \cup {KeyOf(o)} /\ DOMAIN added = DOMAIN lv \cup {KeyOf(o)}
  BY <1>1 DEF LevelsOf, LevelAdd, With
<1>3. lv1 = [key \in DOMAIN lv1 |-> lv1[key]] /\ added = [key \in DOMAIN added |-> added[key]]
  BY DEF LevelsOf, LevelAdd, With
<1>4. ASSUME NEW key \in DOMAIN lv1 PROVE lv1[key] = added[key]
  <2> DEFINE a == Total(os, At(os, key))
             b == Total(rs, At(rs, key))
             m == Cardinality(At(os, key))
             n == Cardinality(At(rs, key))
             a1 == Total(os1, At(os1, key))
             m1 == Cardinality(At(os1, key))
  <2>1. /\ lv1[key] = [quantity |-> a1 + b, orderCount |-> m1 + n]
        /\ key \in DOMAIN lv => lv[key] = [quantity |-> a + b, orderCount |-> m + n]
        /\ key \in DOMAIN lv <=> key \in Keys(os) \/ key \in Keys(rs)
    BY DEF LevelsOf
  <2>2. /\ a \in Nat /\ b \in Nat /\ m \in Nat /\ n \in Nat /\ o.quantity \in Nat
        /\ (key \notin Keys(os) => a = 0 /\ m = 0)
        /\ (key \notin Keys(rs) => b = 0 /\ n = 0)
    BY HeldAt, OrderType
  <2>3. /\ key = KeyOf(o) => m1 = m + 1 /\ a1 = a + o.quantity
        /\ key # KeyOf(o) => m1 = m /\ a1 = a
    <3>1. /\ m1 = m + (IF key = KeyOf(o) THEN 1 ELSE 0)
          /\ a1 = a + (IF key = KeyOf(o) THEN o.quantity ELSE 0)
      BY HeldGains
    <3> HIDE DEF a, m, a1, m1
    <3>2. QED
      BY <2>2, <3>1
  <2> HIDE DEF a, b, m, n, a1, m1, lv1, lv, os1
  <2>4. CASE key # KeyOf(o)
    BY <1>2, <2>1, <2>3, <2>4 DEF LevelAdd, With
  <2>5. CASE key = KeyOf(o) /\ key \in DOMAIN lv
    <3>1. added[key] = [quantity |-> (a + b) + o.quantity, orderCount |-> (m + n) + 1]
      BY <2>1, <2>5 DEF LevelAdd, With
    <3>2. (a + b) + o.quantity = a1 + b /\ (m + n) + 1 = m1 + n
      BY <2>2, <2>3, <2>5
    <3>3. QED
      BY <2>1, <3>1, <3>2
  <2>6. CASE key = KeyOf(o) /\ key \notin DOMAIN lv
    <3>1. added[key] = [quantity |-> 0 + o.quantity, orderCount |-> 0 + 1]
      BY <2>6 DEF LevelAdd, With
    <3>2. a1 + b = 0 + o.quantity /\ m1 + n = 0 + 1
      BY <2>1, <2>2, <2>3, <2>6
    <3>3. QED
      BY <2>1, <3>1, <3>2
  <2>7. QED
    BY <2>4, <2>5, <2>6
<1> HIDE DEF lv, lv1, added
<1>5. lv1 = added
  BY <1>2, <1>3, <1>4
<1>6. QED
  BY <1>5 DEF lv, lv1, added

LEMMA Restored ==
  ASSUME NEW os, IsHeld(os), NEW k \in DOMAIN os
  PROVE  /\ IsHeld(Without(os, k)) /\ k \notin DOMAIN Without(os, k)
         /\ os = With(Without(os, k), k, os[k]) /\ os[k] \in Order
<1> DEFINE rest == Without(os, k)
           whole == With(rest, k, os[k])
<1>1. os[k] \in Order /\ os = [x \in DOMAIN os |-> os[x]]
  BY DEF IsHeld
<1>2. IsHeld(rest) /\ DOMAIN rest = DOMAIN os \ {k} /\ \A x \in DOMAIN rest : rest[x] = os[x]
  BY <1>1, HeldType DEF Without
<1>3. whole = [x \in DOMAIN os |-> os[x]]
  <2> HIDE DEF rest
  <2>1. DOMAIN rest \cup {k} = DOMAIN os
    BY <1>2
  <2>2. QED
    BY <1>2, <2>1 DEF With
<1> HIDE DEF rest
<1>4. QED
  BY <1>1, <1>2, <1>3 DEF rest

(* Removing an order from its level never fails, and leaves the levels of  *)
(* the orders that are left.                                               *)
LEMMA LevelsLose ==
  ASSUME NEW os, IsHeld(os), NEW rs, IsHeld(rs), NEW k \in DOMAIN os,
         NEW lv, lv = LevelsOf(os, rs)
  PROVE  /\ CanRemove(lv, KeyOf(os[k]), os[k].quantity)
         /\ RemoveOrder(lv, KeyOf(os[k]), os[k].quantity) = LevelsOf(Without(os, k), rs)
<1> DEFINE rest == Without(os, k)
           o == os[k]
<1>1. IsHeld(rest) /\ k \notin DOMAIN rest /\ os = With(rest, k, o) /\ o \in Order
  BY Restored
<1>2. o.quantity \in Nat
  BY <1>1, OrderType
<1> HIDE DEF rest, o
<1>3. lv = LevelAdd(LevelsOf(rest, rs), KeyOf(o), o.quantity)
  BY <1>1, LevelsGain
<1>4. IsLevels(LevelsOf(rest, rs))
  BY <1>1, LevelsType
<1>5. CanRemove(lv, KeyOf(o), o.quantity)
      /\ RemoveOrder(lv, KeyOf(o), o.quantity) = LevelsOf(rest, rs)
  BY <1>2, <1>3, <1>4, AddThenRemove
<1>6. QED
  BY <1>5 DEF rest, o

Lessened(os, k, d) == [os EXCEPT ![k].quantity = @ - d]

(* Nor does reducing one by no more than is left of it. *)
LEMMA LevelsShrink ==
  ASSUME NEW os, IsHeld(os), NEW rs, IsHeld(rs), NEW k \in DOMAIN os,
         NEW d \in Nat, d <= os[k].quantity, NEW lv, lv = LevelsOf(os, rs)
  PROVE  LET less == Lessened(os, k, d)
         IN  /\ IsHeld(less) /\ DOMAIN less = DOMAIN os
             /\ less[k].id = os[k].id /\ \A x \in DOMAIN os : x # k => less[x] = os[x]
             /\ KeyOf(less[k]) = KeyOf(os[k]) /\ less[k].quantity = os[k].quantity - d
             /\ Without(less, k) = Without(os, k)
             /\ CanReduce(lv, KeyOf(os[k]), d)
             /\ LevelReduce(lv, KeyOf(os[k]), d) = LevelsOf(less, rs)
<1> DEFINE rest == Without(os, k)
           o == os[k]
           p == [o EXCEPT !.quantity = @ - d]
           less == Lessened(os, k, d)
<1>1. IsHeld(rest) /\ k \notin DOMAIN rest /\ os = With(rest, k, o) /\ o \in Order
  BY Restored
<1>2. o.quantity \in Nat /\ o.quantity - d \in Nat
  BY <1>1, OrderType
<1>3. /\ p \in Order /\ KeyOf(p) = KeyOf(o) /\ p.quantity = o.quantity - d
      /\ p.id = o.id
  BY <1>1, <1>2 DEF Order, KeyOf
<1>4. less = With(rest, k, p) /\ DOMAIN less = DOMAIN os /\ less[k] = p
      /\ Without(less, k) = rest /\ \A x \in DOMAIN os : x # k => less[x] = os[x]
  BY DEF With, Without, IsHeld, Lessened
<1> HIDE DEF rest, o, p, less
<1>5. IsHeld(less)
  BY <1>1, <1>3, <1>4, HeldType
<1>6. IsLevels(LevelsOf(rest, rs))
  BY <1>1, LevelsType
<1>7. /\ lv = LevelAdd(LevelsOf(rest, rs), KeyOf(o), o.quantity)
      /\ LevelsOf(less, rs) = LevelAdd(LevelsOf(rest, rs), KeyOf(o), o.quantity - d)
  BY <1>1, <1>3, <1>4, LevelsGain
<1>8. d <= o.quantity
  BY DEF o
<1>9. CanReduce(lv, KeyOf(o), d) /\ LevelReduce(lv, KeyOf(o), d) = LevelsOf(less, rs)
  BY <1>2, <1>6, <1>7, <1>8, AddThenReduce
<1>10. QED
  BY <1>3, <1>4, <1>5, <1>9 DEF rest, o, p, less

(* An order that was used up leaves its level as one of no shares.         *)
LEMMA LevelsLoseUsedUp ==
  ASSUME NEW os, IsHeld(os), NEW rs, IsHeld(rs), NEW k \in DOMAIN os,
         NEW lv, lv = LevelsOf(os, rs)
  PROVE  LET reduced == LevelReduce(lv, KeyOf(os[k]), os[k].quantity)
         IN  /\ CanReduce(lv, KeyOf(os[k]), os[k].quantity)
             /\ DOMAIN reduced = DOMAIN lv
             /\ CanRemove(reduced, KeyOf(os[k]), 0)
             /\ RemoveOrder(reduced, KeyOf(os[k]), 0) = LevelsOf(Without(os, k), rs)
<1>1. PICK d \in Nat : d = os[k].quantity /\ d <= os[k].quantity
  BY OrderType DEF IsHeld
<1> DEFINE less == Lessened(os, k, d)
           reduced == LevelReduce(lv, KeyOf(os[k]), d)
<1>2. /\ IsHeld(less) /\ DOMAIN less = DOMAIN os
      /\ KeyOf(less[k]) = KeyOf(os[k]) /\ less[k].quantity = d - d
      /\ Without(less, k) = Without(os, k)
      /\ CanReduce(lv, KeyOf(os[k]), d) /\ reduced = LevelsOf(less, rs)
  <2>1. /\ IsHeld(less) /\ DOMAIN less = DOMAIN os
        /\ KeyOf(less[k]) = KeyOf(os[k]) /\ less[k].quantity = os[k].quantity - d
        /\ Without(less, k) = Without(os, k)
        /\ CanReduce(lv, KeyOf(os[k]), d) /\ reduced = LevelsOf(less, rs)
    BY <1>1, LevelsShrink
  <2>2. QED
    BY <1>1, <2>1
<1>3. d - d = 0
  BY <1>1
<1>4. DOMAIN reduced = DOMAIN lv
  BY DEF LevelReduce
<1> HIDE DEF less, reduced
<1>5. /\ CanRemove(reduced, KeyOf(less[k]), less[k].quantity)
      /\ RemoveOrder(reduced, KeyOf(less[k]), less[k].quantity) = LevelsOf(Without(less, k), rs)
  BY <1>2, LevelsLose
<1>6. QED
  BY <1>1, <1>2, <1>3, <1>4, <1>5 DEF reduced
-----------------------------------------------------------------------------
(* The events *)

(* What a step does to the queue: nothing, the consumer takes an event, or *)
(* a publisher pushes one, drops one, or counts one it will not publish.   *)
Pushes(kind, own, own1) ==
  /\ own1 = [own EXCEPT !.next = @ + 1, !.published = @ + 1]
  /\ HasRoom /\ events' = Append(events, [publisher |-> kind, sequence |-> own.next])

Drops(own, own1) ==
  /\ own1 = [own EXCEPT !.next = @ + 1, !.dropped = @ + 1]
  /\ UNCHANGED events

Withholds(own, own1) ==
  /\ own1 = [own EXCEPT !.unknown = @ + 1]
  /\ UNCHANGED events

QuoteStep ==
  /\ trades' = trades /\ DOMAIN lastQuote' = DOMAIN lastQuote
  /\ \/ quotes' = quotes /\ UNCHANGED events
     \/ Pushes("quote", quotes, quotes') \/ Drops(quotes, quotes') \/ Withholds(quotes, quotes')
     \/ quotes' = [quotes EXCEPT !.dropped = @ + 1] /\ UNCHANGED events

TradeStep ==
  /\ quotes' = quotes /\ lastQuote' = lastQuote
  /\ \/ Pushes("trade", trades, trades') \/ Drops(trades, trades') \/ Withholds(trades, trades')

TakeStep == /\ UNCHANGED <<quotes, trades, lastQuote>>
            /\ events # <<>> /\ events' = Tail(events)

LEMMA QuoteSteps ==
  ASSUME NEW i, NEW lv, NotifyBboChange(i, lv)
  PROVE  QuoteStep
<1>1. CASE UNCHANGED <<quotes, events, lastQuote, unquoted>>
  BY <1>1 DEF NotifyBboChange, QuoteStep
<1>2. CASE OnBboChange(i, Bbo(lv, i))
  <2>1. trades' = trades
    BY DEF NotifyBboChange
  <2>2. CASE PublishQuote(i, Bbo(lv, i))
    BY <2>1, <2>2 DEF PublishQuote, Push, QuoteStep, Pushes, Drops
  <2>3. QED
    BY <1>2, <2>1, <2>2 DEF OnBboChange, QuoteStep, Withholds
<1>3. QED
  BY <1>1, <1>2 DEF NotifyBboChange

LEMMA TradeSteps ==
  ASSUME NEW i, NotifyTrade(i)
  PROVE  TradeStep
BY DEF NotifyTrade, Push, TradeStep, Pushes, Drops, Withholds

LEMMA EventSteps ==
  ASSUME [StateNext]_stateVars
  PROVE  QuoteStep \/ TradeStep \/ TakeStep
<1> USE DEF Silently, publishers
<1>1. ASSUME Silently PROVE QuoteStep
  BY <1>1 DEF QuoteStep
<1>2. ASSUME NEW c, Reject(c) PROVE QuoteStep
  BY <1>1, <1>2 DEF Reject
<1>3. ASSUME NEW i, StockDirectory(i) \/ Trade(i) PROVE QuoteStep \/ TradeStep
  BY <1>1, <1>3, TradeSteps DEF StockDirectory, Trade
<1>4. ASSUME NEW i, NEW s, StockTradingAction(i, s) \/ RegShoRestriction(i, s) PROVE QuoteStep
  BY <1>1, <1>2, <1>4 DEF StockTradingAction, RegShoRestriction, Update
<1>5. ASSUME NEW o, AddOrder(o) PROVE QuoteStep
  <2>1. CASE UNCHANGED publishers
    BY <2>1 DEF QuoteStep
  <2>2. QED
    BY <1>2, <1>5, <2>1, QuoteSteps DEF AddOrder
<1>6. ASSUME NEW k, NEW before, NEW after, NEW remaining, Remove(k, before, after, remaining)
      PROVE  QuoteStep
  BY <1>1, <1>6, QuoteSteps DEF Remove
<1>7. ASSUME NEW c, NEW lv, FailBook(c, lv) PROVE QuoteStep
  BY <1>1, <1>7 DEF FailBook
<1>8. ASSUME NEW k, NEW q, ReduceOrder(k, q) PROVE QuoteStep
  BY <1>6, <1>7, <1>8, QuoteSteps DEF ReduceOrder
<1>9. ASSUME NEW k, NEW q, OrderExecuted(k, q) \/ OrderExecutedWithPrice(k, q)
      PROVE  QuoteStep \/ TradeStep
  BY <1>2, <1>9, TradeSteps DEF OrderExecuted, OrderExecutedWithPrice, Execute
<1>10. ASSUME NEW k, NEW q, OrderCancel(k, q) PROVE QuoteStep
  BY <1>2, <1>8, <1>10 DEF OrderCancel
<1>11. CASE FinishExecution
  BY <1>8, <1>11 DEF FinishExecution
<1>12. ASSUME NEW k, OrderDelete(k) PROVE QuoteStep
  BY <1>2, <1>6, <1>7, <1>12 DEF OrderDelete
<1>13. ASSUME NEW k, NEW n, NEW p, NEW q, OrderReplace(k, n, p, q) PROVE QuoteStep
  BY <1>2, <1>6, <1>7, <1>13 DEF OrderReplace
<1>14. CASE ConsumeEvent
  BY <1>14 DEF ConsumeEvent, TakeStep
<1>15. CASE UNCHANGED stateVars
  BY <1>1, <1>15 DEF stateVars
<1> HIDE DEF Silently, publishers
<1>16. QED
  BY <1>3, <1>4, <1>5, <1>9, <1>10, <1>11, <1>12, <1>13, <1>14, <1>15 DEF StateNext

EventsInv == PublishersOK /\ GapsShowDrops

(* A publisher that counts one more of something. *)
LEMMA PublisherType ==
  ASSUME NEW own \in Publisher, NEW own1,
         \/ own1 = own
         \/ own1 = [own EXCEPT !.next = @ + 1, !.published = @ + 1]
         \/ own1 = [own EXCEPT !.next = @ + 1, !.dropped = @ + 1]
         \/ own1 = [own EXCEPT !.dropped = @ + 1]
         \/ own1 = [own EXCEPT !.unknown = @ + 1]
  PROVE  /\ own1 \in Publisher
         /\ own.next \in Nat /\ own1.next \in Nat /\ own.next <= own1.next
         /\ own.next <= own.published + own.dropped
              => own1.next <= own1.published + own1.dropped
         /\ (/\ own.next = own.published + own.dropped
             /\ own1 # [own EXCEPT !.dropped = @ + 1])
              => own1.next = own1.published + own1.dropped
<1>1. PICK a \in Nat, b \in Nat, c \in Nat, d \in Nat :
        own = [next |-> a, published |-> b, dropped |-> c, unknown |-> d]
  BY DEF Publisher
<1>2. \/ own1 = own
      \/ own1 = [next |-> a + 1, published |-> b + 1, dropped |-> c, unknown |-> d]
      \/ own1 = [next |-> a + 1, published |-> b, dropped |-> c + 1, unknown |-> d]
      \/ /\ own1 = [next |-> a, published |-> b, dropped |-> c + 1, unknown |-> d]
         /\ own1 = [own EXCEPT !.dropped = @ + 1]
      \/ own1 = [next |-> a, published |-> b, dropped |-> c, unknown |-> d + 1]
  BY <1>1
<1>3. PICK a1 \in Nat, b1 \in Nat, c1 \in Nat, d1 \in Nat :
        /\ own1 = [next |-> a1, published |-> b1, dropped |-> c1, unknown |-> d1]
        /\ \/ a1 = a /\ b1 = b /\ c1 = c
           \/ a1 = a + 1 /\ b1 = b + 1 /\ c1 = c
           \/ a1 = a + 1 /\ b1 = b /\ c1 = c + 1
           \/ a1 = a /\ b1 = b /\ c1 = c + 1 /\ own1 = [own EXCEPT !.dropped = @ + 1]
  <2>1. a + 1 \in Nat /\ b + 1 \in Nat /\ c + 1 \in Nat /\ d + 1 \in Nat
    OBVIOUS
  <2>2. QED
    BY <1>1, <1>2, <2>1
<1>4. own1 \in Publisher
  BY <1>3 DEF Publisher
<1>5. QED
  BY <1>1, <1>3, <1>4

LEMMA EventType ==
  ASSUME NEW es \in Seq(Event)
  PROVE  \A n \in DOMAIN es : es[n] \in Event /\ es[n].sequence \in Nat
<1>1. \A e \in Event : e.sequence \in Nat
  BY DEF Event
<1>2. \A n \in DOMAIN es : es[n] \in Event
  OBVIOUS
<1>3. QED
  BY <1>1, <1>2

(* The numbers of the events in the queue, after one was pushed.           *)
LEMMA PushKeepsOrder ==
  ASSUME EventsInv, NEW kind \in {"quote", "trade"}, HasRoom,
         NEW own \in Publisher, own = IF kind = "quote" THEN quotes ELSE trades,
         events' = Append(events, [publisher |-> kind, sequence |-> own.next])
  PROVE  /\ events' \in Seq(Event) /\ Len(events') <= EventLimit
         /\ \A m, n \in DOMAIN events' :
              (m < n /\ events'[m].publisher = events'[n].publisher)
                => events'[m].sequence < events'[n].sequence
         /\ \A n \in DOMAIN events' :
              \/ n \in DOMAIN events /\ events'[n] = events[n]
              \/ events'[n].publisher = kind /\ events'[n].sequence = own.next
<1> DEFINE e == [publisher |-> kind, sequence |-> own.next]
<1>1. e \in Event /\ e.publisher = kind /\ e.sequence = own.next /\ own.next \in Nat
  BY DEF Event, Publisher
<1>2. events \in Seq(Event) /\ Len(events) \in Nat /\ Len(events) <= EventLimit
  BY DEF EventsInv, PublishersOK
<1>3. \A n \in DOMAIN events : events[n] \in Event /\ events[n].sequence \in Nat
  BY <1>2, EventType
<1> HIDE DEF e
<1>4. PICK l \in Nat : l = Len(events) /\ l < EventLimit /\ DOMAIN events = 1 .. l
  BY <1>2, SizeAssumption DEF HasRoom
<1>5. /\ events' \in Seq(Event) /\ Len(events') = l + 1 /\ DOMAIN events' = 1 .. l + 1
      /\ events'[l + 1] = e /\ \A n \in 1 .. l : events'[n] = events[n]
  BY <1>1, <1>2, <1>4 DEF e
<1>6. Len(events') <= EventLimit
  BY <1>4, <1>5, SizeAssumption
<1>7. \A n \in DOMAIN events' : n \in DOMAIN events \/ n = l + 1
  BY <1>4, <1>5
<1>8. ASSUME NEW m \in DOMAIN events', NEW n \in DOMAIN events', m < n,
             events'[m].publisher = events'[n].publisher
      PROVE  events'[m].sequence < events'[n].sequence
  <2>1. m \in DOMAIN events /\ events'[m] = events[m]
    BY <1>4, <1>5, <1>8
  <2>2. CASE n \in DOMAIN events
    BY <1>4, <1>5, <1>8, <2>1, <2>2 DEF EventsInv, GapsShowDrops
  <2>3. CASE n = l + 1
    <3>1. events[m].publisher = kind
      BY <1>1, <1>5, <1>8, <2>1, <2>3
    <3>2. events[m].sequence < own.next
      BY <2>1, <3>1 DEF EventsInv, GapsShowDrops, NextOf
    <3>3. QED
      BY <1>1, <1>5, <2>1, <2>3, <3>2
  <2>4. QED
    BY <1>7, <2>2, <2>3
<1>9. QED
  BY <1>1, <1>4, <1>5, <1>6, <1>7, <1>8

(* Whether or not a number is given to an event, later ones are greater.   *)
LEMMA NumbersGrow ==
  ASSUME EventsInv, QuoteStep \/ TradeStep \/ TakeStep
  PROVE  EventsInv'
<1>1. quotes \in Publisher /\ trades \in Publisher /\ DOMAIN lastQuote' = Instrument
  BY DEF EventsInv, PublishersOK, QuoteStep, TradeStep, TakeStep
<1>2. /\ \/ quotes' = quotes
         \/ quotes' = [quotes EXCEPT !.next = @ + 1, !.published = @ + 1]
         \/ quotes' = [quotes EXCEPT !.next = @ + 1, !.dropped = @ + 1]
         \/ quotes' = [quotes EXCEPT !.dropped = @ + 1]
         \/ quotes' = [quotes EXCEPT !.unknown = @ + 1]
      /\ \/ trades' = trades
         \/ trades' = [trades EXCEPT !.next = @ + 1, !.published = @ + 1]
         \/ trades' = [trades EXCEPT !.next = @ + 1, !.dropped = @ + 1]
         \/ trades' = [trades EXCEPT !.unknown = @ + 1]
  BY DEF QuoteStep, TradeStep, TakeStep, Pushes, Drops, Withholds
<1>3. /\ quotes' \in Publisher /\ quotes.next \in Nat /\ quotes'.next \in Nat
      /\ quotes.next <= quotes'.next
      /\ quotes'.next <= quotes'.published + quotes'.dropped
  BY <1>1, <1>2, PublisherType DEF EventsInv, GapsShowDrops
<1>4. trades' # [trades EXCEPT !.dropped = @ + 1] \/ trades' = trades
  <2>1. PICK a \in Nat, b \in Nat, c \in Nat, d \in Nat :
          trades = [next |-> a, published |-> b, dropped |-> c, unknown |-> d]
    BY <1>1 DEF Publisher
  <2>2. a + 1 # a /\ d + 1 # d
    OBVIOUS
  <2>3. QED
    BY <1>2, <2>1, <2>2
<1>5. /\ trades' \in Publisher /\ trades.next \in Nat /\ trades'.next \in Nat
      /\ trades.next <= trades'.next
      /\ trades'.next = trades'.published + trades'.dropped
  BY <1>1, <1>2, <1>4, PublisherType DEF EventsInv, GapsShowDrops
<1> DEFINE Next0(e) == IF e.publisher = "quote" THEN quotes.next ELSE trades.next
           Next1(e) == IF e.publisher = "quote" THEN quotes'.next ELSE trades'.next
<1>6. /\ events \in Seq(Event) /\ Len(events) \in Nat /\ Len(events) <= EventLimit
      /\ \A n \in DOMAIN events : /\ events[n].sequence \in Nat
                                  /\ events[n].sequence < Next0(events[n])
  <2>1. events \in Seq(Event) /\ Len(events) \in Nat /\ Len(events) <= EventLimit
    BY DEF EventsInv, PublishersOK
  <2>2. \A n \in DOMAIN events : events[n].sequence \in Nat
    BY <2>1, EventType
  <2>3. QED
    BY <2>1, <2>2 DEF EventsInv, GapsShowDrops, NextOf
<1>7. \A n \in DOMAIN events : events[n].sequence < Next1(events[n])
  <2>1. \A e : Next0(e) \in Nat /\ Next1(e) \in Nat /\ Next0(e) <= Next1(e)
    BY <1>3, <1>5
  <2> HIDE DEF Next0, Next1
  <2>2. QED
    BY <1>6, <2>1
<1>8. /\ events' \in Seq(Event) /\ Len(events') <= EventLimit
      /\ \A m, n \in DOMAIN events' :
           (m < n /\ events'[m].publisher = events'[n].publisher)
             => events'[m].sequence < events'[n].sequence
      /\ \A n \in DOMAIN events' : events'[n].sequence < Next1(events'[n])
  <2>1. CASE UNCHANGED events
    BY <1>6, <1>7, <2>1 DEF EventsInv, GapsShowDrops
  <2>2. CASE TakeStep
    <3>1. PICK l \in Nat : l + 1 = Len(events) /\ DOMAIN events = 1 .. l + 1
      <4>1. events # <<>>
        BY <2>2 DEF TakeStep
      <4>2. PICK c \in Nat : c = Len(events) /\ c # 0 /\ DOMAIN events = 1 .. c
        BY <1>6, <4>1
      <4>3. c - 1 \in Nat /\ (c - 1) + 1 = c
        BY <4>2
      <4>4. QED
        BY <4>2, <4>3
    <3>2. /\ events' \in Seq(Event) /\ Len(events') = l /\ DOMAIN events' = 1 .. l
          /\ \A n \in 1 .. l : n + 1 \in DOMAIN events /\ events'[n] = events[n + 1]
      BY <1>6, <2>2, <3>1 DEF TakeStep
    <3>3. \A m, n \in 1 .. l : m < n => m + 1 < n + 1
      OBVIOUS
    <3>4. Len(events') <= EventLimit
      BY <1>6, <3>1, <3>2, SizeAssumption
    <3>5. QED
      BY <1>7, <3>2, <3>3, <3>4 DEF EventsInv, GapsShowDrops
  <2>3. CASE Pushes("quote", quotes, quotes')
    <3>1. /\ HasRoom
          /\ events' = Append(events, [publisher |-> "quote", sequence |-> quotes.next])
          /\ quotes'.next = quotes.next + 1
      BY <1>1, <2>3 DEF Pushes, Publisher
    <3>2. /\ events' \in Seq(Event) /\ Len(events') <= EventLimit
          /\ \A m, n \in DOMAIN events' :
               (m < n /\ events'[m].publisher = events'[n].publisher)
                 => events'[m].sequence < events'[n].sequence
          /\ \A n \in DOMAIN events' :
               \/ n \in DOMAIN events /\ events'[n] = events[n]
               \/ events'[n].publisher = "quote" /\ events'[n].sequence = quotes.next
      BY <1>1, <3>1, PushKeepsOrder
    <3>3. quotes.next < quotes'.next
      BY <1>3, <3>1
    <3>4. QED
      BY <1>7, <3>2, <3>3
  <2>4. CASE Pushes("trade", trades, trades')
    <3>1. /\ HasRoom
          /\ events' = Append(events, [publisher |-> "trade", sequence |-> trades.next])
          /\ trades'.next = trades.next + 1
      BY <1>1, <2>4 DEF Pushes, Publisher
    <3>2. /\ events' \in Seq(Event) /\ Len(events') <= EventLimit
          /\ \A m, n \in DOMAIN events' :
               (m < n /\ events'[m].publisher = events'[n].publisher)
                 => events'[m].sequence < events'[n].sequence
          /\ \A n \in DOMAIN events' :
               \/ n \in DOMAIN events /\ events'[n] = events[n]
               \/ events'[n].publisher = "trade" /\ events'[n].sequence = trades.next
      BY <1>1, <3>1, PushKeepsOrder
    <3>3. trades.next < trades'.next
      BY <1>5, <3>1
    <3>4. QED
      BY <1>7, <3>2, <3>3
  <2>5. QED
    BY <2>1, <2>2, <2>3, <2>4 DEF QuoteStep, TradeStep, Drops, Withholds
<1>9. \A n \in DOMAIN events' : events'[n].sequence < NextOf(events[n])'
  BY <1>8 DEF NextOf
<1>10. QED
  BY <1>1, <1>3, <1>5, <1>8, <1>9 DEF EventsInv, PublishersOK, GapsShowDrops

LEMMA EventsBegin == StateInit => EventsInv
BY SizeAssumption DEF StateInit, EventsInv, PublishersOK, Publisher, GapsShowDrops

(* The sequence numbers show what the full queue cost, for every number of *)
(* instruments and orders, every size of the queue and every order of the  *)
(* feed thread and the consumer.                                           *)
THEOREM DropsLeaveGaps == StateSpec => []GapsShowDrops
<1>1. EventsInv /\ [StateNext]_stateVars => EventsInv'
  BY EventSteps, NumbersGrow
<1>2. EventsInv => GapsShowDrops
  BY DEF EventsInv
<1>3. QED
  BY EventsBegin, <1>1, <1>2, PTL DEF StateSpec
-----------------------------------------------------------------------------
(* The stores *)

StoresInv == StoresOK /\ BooksMatchOrders /\ ReductionFits /\ NoInconsistency

Trouble == {"missingBooks", "failedBookReductions", "failedBookRemovals"}

LEMMA RefusedAsHeld ==
  ASSUME NEW rs \in Seq(Order), NEW o \in Order
  PROVE  /\ IsHeld(rs) /\ Append(rs, o) \in Seq(Order)
         /\ Len(rs) + 1 \notin DOMAIN rs /\ Append(rs, o) = With(rs, Len(rs) + 1, o)
<1>1. PICK l \in Nat : l = Len(rs) /\ DOMAIN rs = 1 .. l
  OBVIOUS
<1>2. IsFiniteSet(1 .. l)
  BY FS_Interval
<1>3. IsHeld(rs)
  BY <1>1, <1>2 DEF IsHeld
<1>4. Append(rs, o) \in Seq(Order) /\ l + 1 \notin 1 .. l
  OBVIOUS
<1>5. Append(rs, o) = With(rs, l + 1, o)
  <2>1. /\ DOMAIN Append(rs, o) = 1 .. l + 1 /\ 1 .. l + 1 = (1 .. l) \cup {l + 1}
        /\ Append(rs, o) = [n \in DOMAIN Append(rs, o) |-> Append(rs, o)[n]]
        /\ \A n \in 1 .. l : Append(rs, o)[n] = rs[n] /\ n # l + 1
        /\ Append(rs, o)[l + 1] = o
    <3>1. 1 .. l + 1 = (1 .. l) \cup {l + 1} /\ \A n \in 1 .. l : n # l + 1
      OBVIOUS
    <3>2. Len(Append(rs, o)) = l + 1 /\ DOMAIN Append(rs, o) = 1 .. l + 1
      BY <1>1
    <3>3. Append(rs, o) = [n \in DOMAIN Append(rs, o) |-> Append(rs, o)[n]]
      <4>1. Append(rs, o) \in [1 .. Len(Append(rs, o)) -> Order]
        BY <1>4, LenProperties
      <4>2. QED
        BY <4>1
    <3>4. Append(rs, o)[l + 1] = o /\ \A n \in 1 .. l : Append(rs, o)[n] = rs[n]
      BY <1>1
    <3>5. QED
      BY <3>1, <3>2, <3>3, <3>4
  <2> DEFINE app == Append(rs, o)
  <2>2. \A n \in DOMAIN app : app[n] = IF n = l + 1 THEN o ELSE rs[n]
    BY <2>1
  <2>3. DOMAIN app = DOMAIN rs \cup {l + 1} /\ app = [n \in DOMAIN app |-> app[n]]
    BY <1>1, <2>1
  <2> HIDE DEF app
  <2>4. app = With(rs, l + 1, o)
    BY <2>2, <2>3 DEF With
  <2>5. QED
    BY <2>4 DEF app
<1>6. QED
  BY <1>1, <1>3, <1>4, <1>5

(* Between messages, and while a trade is published.                       *)
LEMMA InPlace ==
  ASSUME StoresInv, pending.kind # "hung"
  PROVE  /\ IsHeld(orders) /\ IsHeld(refused) /\ levels = LevelsOf(orders, refused)
         /\ DOMAIN levels = Keys(orders) \cup Keys(refused)
         /\ Keys(orders) \subseteq books \X Side \X Price
         /\ Keys(refused) \subseteq books \X Side \X Price
         /\ \A k \in DOMAIN orders :
              /\ orders[k] \in Order /\ orders[k].id = k /\ orders[k].quantity \in Nat
              /\ orders[k].instrument \in books
              /\ KeyOf(orders[k]) \in DOMAIN levels
         /\ \A n \in DOMAIN refused : refused[n].instrument \in books
<1>1. IsHeld(orders)
  BY DEF StoresInv, StoresOK, IsHeld
<1>2. IsHeld(refused)
  <2>1. refused \in Seq(Order)
    BY DEF StoresInv, StoresOK
  <2>2. IsFiniteSet(DOMAIN refused)
    <3>1. IsFiniteSet(1 .. Len(refused))
      BY <2>1, FS_Interval
    <3>2. QED
      BY <2>1, <3>1
  <2>3. QED
    BY <2>1, <2>2 DEF IsHeld
<1>3. levels = LevelsOf(orders, refused) /\ DOMAIN levels \subseteq books \X Side \X Price
  BY DEF StoresInv, StoresOK, BooksMatchOrders
<1>4. DOMAIN levels = Keys(orders) \cup Keys(refused)
  BY <1>1, <1>2, <1>3, LevelsType
<1>5. ASSUME NEW k \in DOMAIN orders
      PROVE  /\ orders[k] \in Order /\ orders[k].id = k /\ orders[k].quantity \in Nat
             /\ orders[k].instrument \in books
             /\ KeyOf(orders[k]) \in DOMAIN levels
  <2>1. orders[k] \in Order /\ orders[k].id = k
    BY DEF StoresInv, StoresOK
  <2>2. KeyOf(orders[k]) \in DOMAIN levels
    BY <1>4 DEF Keys
  <2>3. KeyOf(orders[k])[1] = orders[k].instrument
    BY DEF KeyOf
  <2>4. QED
    BY <1>3, <2>1, <2>2, <2>3, OrderType
<1>6. ASSUME NEW n \in DOMAIN refused PROVE refused[n].instrument \in books
  <2>1. KeyOf(refused[n]) \in DOMAIN levels
    BY <1>4 DEF Keys
  <2>2. KeyOf(refused[n])[1] = refused[n].instrument
    BY DEF KeyOf
  <2>3. QED
    BY <1>3, <2>1, <2>2
<1>7. QED
  BY <1>1, <1>2, <1>3, <1>4, <1>5, <1>6

(* A handler never returns because a book is missing. *)
LEMMA RefusalType ==
  ASSUME StoresInv, pending.kind # "hung", NEW k, NEW q \in Nat,
         NEW unknown, unknown # "none", NEW over, over # "none" \/ q = 0
  PROVE  \/ Refusal(k, q, unknown, over) = unknown
         \/ Refusal(k, q, unknown, over) = over /\ q # 0
         \/ /\ Refusal(k, q, unknown, over) = "none"
            /\ k \in DOMAIN orders /\ q <= orders[k].quantity
<1>1. CASE k \notin DOMAIN orders
  BY <1>1 DEF Refusal
<1>2. CASE k \in DOMAIN orders
  <2>1. orders[k].quantity \in Nat /\ orders[k].instrument \in books
    BY <1>2, InPlace
  <2>2. QED
    BY <1>2, <2>1 DEF Refusal
<1>3. QED
  BY <1>1, <1>2

LEMMA OneMore ==
  ASSUME counters \in [StateCounters -> Nat], NEW c \in StateCounters \ Trouble, NoInconsistency, Count(c)
  PROVE  counters' \in [StateCounters -> Nat] /\ NoInconsistency'
BY DEF Count, NoInconsistency, Trouble, StateCounters

(* The stores stay as they are. *)
LEMMA StoresStay ==
  ASSUME StoresInv, UNCHANGED <<orders, books, levels, refused, pending>>,
         DOMAIN instruments' \subseteq Instrument,
         counters' \in [StateCounters -> Nat] /\ NoInconsistency'
  PROVE  StoresInv'
BY DEF StoresInv, StoresOK, BooksMatchOrders, ReductionFits

LEMMA RejectSteps ==
  ASSUME StoresInv, NEW c \in StateCounters \ Trouble, Reject(c)
  PROVE  StoresInv'
<1>1. /\ counters \in [StateCounters -> Nat] /\ NoInconsistency
      /\ DOMAIN instruments \subseteq Instrument
  BY DEF StoresInv, StoresOK
<1>2. UNCHANGED stores /\ UNCHANGED <<pending, refused>> /\ Count(c)
  BY DEF Reject
<1>3. counters' \in [StateCounters -> Nat] /\ NoInconsistency'
  BY <1>1, <1>2, OneMore
<1>4. QED
  BY <1>1, <1>2, <1>3, StoresStay DEF stores

(* The orders change, and the levels with them. *)
LEMMA OrdersChange ==
  ASSUME StoresInv, UNCHANGED instruments, pending'.kind = "idle",
         counters' \in [StateCounters -> Nat] /\ NoInconsistency',
         orders' \in [DOMAIN orders' -> Order],
         \A k \in DOMAIN orders' : orders'[k].id = k /\ orders'[k].instrument \in books',
         IsFiniteSet(DOMAIN orders'), Cardinality(DOMAIN orders') <= StoreCapacity,
         refused' \in Seq(Order),
         \A n \in DOMAIN refused' : refused'[n].instrument \in books',
         levels' = LevelsOf(orders', refused')
  PROVE  StoresInv'
<1>1. DOMAIN levels' = Keys(orders') \cup Keys(refused')
  BY DEF LevelsOf
<1>2. \A k \in DOMAIN orders' : KeyOf(orders'[k]) \in books' \X Side \X Price
  BY DEF KeyOf, Order
<1>3. \A n \in DOMAIN refused' : refused'[n] \in Order
  OBVIOUS
<1>4. \A n \in DOMAIN refused' : KeyOf(refused'[n]) \in books' \X Side \X Price
  BY <1>3 DEF KeyOf, Order
<1>5. DOMAIN levels' \subseteq books' \X Side \X Price
  BY <1>1, <1>2, <1>4 DEF Keys
<1>6. DOMAIN instruments' \subseteq Instrument
  BY DEF StoresInv, StoresOK
<1>7. StoresOK'
  BY <1>5, <1>6 DEF StoresOK
<1>8. QED
  BY <1>6, <1>7 DEF StoresInv, BooksMatchOrders, ReductionFits

LEMMA CountersStay ==
  ASSUME StoresInv
  PROVE  /\ counters \in [StateCounters -> Nat] /\ NoInconsistency
         /\ UNCHANGED counters => counters' \in [StateCounters -> Nat] /\ NoInconsistency'
BY DEF StoresInv, StoresOK, NoInconsistency

LEMMA StoreSize ==
  ASSUME StoresInv
  PROVE  /\ IsFiniteSet(DOMAIN orders) /\ Cardinality(DOMAIN orders) \in Nat
         /\ Cardinality(DOMAIN orders) <= StoreCapacity
BY FS_CardinalityType DEF StoresInv, StoresOK

LEMMA AddSteps ==
  ASSUME StoresInv, NEW o \in Adds, AddOrder(o)
  PROVE  StoresInv'
<1> DEFINE added == LevelAdd(levels, KeyOf(o), o.quantity)
<1>1. o \in Order /\ o.id = o.id /\ pending = Idle /\ pending.kind = "idle"
  BY AddsAssumption DEF AddOrder, Message, Idle
<1>2. CASE o.id \in DOMAIN orders
  <2>1. Reject("duplicateAddOrders")
    BY <1>2 DEF AddOrder
  <2>2. QED
    BY <2>1, RejectSteps DEF StateCounters, Trouble
<1>3. CASE o.id \notin DOMAIN orders
  <2>1. /\ IsHeld(orders) /\ IsHeld(refused) /\ levels = LevelsOf(orders, refused)
        /\ \A k \in DOMAIN orders : /\ orders[k] \in Order /\ orders[k].id = k
                                    /\ orders[k].instrument \in books
        /\ refused \in Seq(Order) /\ \A n \in DOMAIN refused : refused[n].instrument \in books
    <3>1. refused \in Seq(Order)
      BY DEF StoresInv, StoresOK
    <3>2. QED
      BY <1>1, <3>1, InPlace
  <2>3. /\ books' = books \cup {o.instrument} /\ levels' = added
        /\ UNCHANGED <<instruments, pending>> /\ pending'.kind = "idle"
    BY <1>1, <1>3 DEF AddOrder
  <2>4. CASE ~StoreIsFull
    <3>1. orders' = With(orders, o.id, o) /\ UNCHANGED <<counters, refused>>
      BY <1>3, <2>4 DEF AddOrder
    <3>2. levels' = LevelsOf(orders', refused')
      BY <1>1, <1>3, <2>1, <2>3, <3>1, LevelsGain
    <3>3. /\ IsFiniteSet(DOMAIN orders') /\ DOMAIN orders' = DOMAIN orders \cup {o.id}
          /\ Cardinality(DOMAIN orders') <= StoreCapacity
      <4>1. DOMAIN orders' = DOMAIN orders \cup {o.id}
        BY <3>1 DEF With
      <4>2. Cardinality(DOMAIN orders \cup {o.id}) = Cardinality(DOMAIN orders) + 1
            /\ IsFiniteSet(DOMAIN orders \cup {o.id})
        BY <1>3, StoreSize, FS_AddElement
      <4>3. Cardinality(DOMAIN orders) + 1 <= StoreCapacity
        BY <2>4, StoreSize, SizeAssumption DEF StoreIsFull
      <4>4. QED
        BY <4>1, <4>2, <4>3
    <3>4. /\ orders' \in [DOMAIN orders' -> Order]
          /\ \A k \in DOMAIN orders' : orders'[k].id = k /\ orders'[k].instrument \in books'
      BY <1>1, <2>1, <2>3, <3>1 DEF With
    <3>5. /\ refused' \in Seq(Order) /\ \A n \in DOMAIN refused' : refused'[n].instrument \in books'
      BY <2>1, <2>3, <3>1
    <3>6. QED
      BY <2>3, <3>1, <3>2, <3>3, <3>4, <3>5, CountersStay, OrdersChange
  <2>5. CASE StoreIsFull
    <3>1. /\ Count("duplicateAddOrders") /\ refused' = Append(refused, o)
          /\ UNCHANGED orders
      BY <1>3, <2>5 DEF AddOrder
    <3>2. levels' = LevelsOf(orders', refused')
      <4> DEFINE n == Len(refused) + 1
      <4>1. refused' = With(refused, n, o) /\ n \notin DOMAIN refused
        BY <1>1, <2>1, <3>1, RefusedAsHeld
      <4> HIDE DEF n
      <4>2. levels = LevelsOf(refused, orders)
        BY <2>1, LevelsType
      <4>3. LevelsOf(With(refused, n, o), orders) = added
        BY <1>1, <2>1, <4>1, <4>2, LevelsGain
      <4>4. LevelsOf(With(refused, n, o), orders) = LevelsOf(orders, With(refused, n, o))
        BY <1>1, <2>1, HeldType, LevelsType
      <4>5. QED
        BY <2>3, <3>1, <4>1, <4>3, <4>4
    <3>3. refused' \in Seq(Order)
      BY <1>1, <2>1, <3>1
    <3>4. \A n \in DOMAIN refused' : refused'[n].instrument \in books'
      <4>1. refused' = With(refused, Len(refused) + 1, o)
        BY <1>1, <2>1, <3>1, RefusedAsHeld
      <4>2. QED
        BY <2>1, <2>3, <4>1 DEF With
    <3>5. orders' \in [DOMAIN orders' -> Order]
      BY <3>1 DEF StoresInv, StoresOK
    <3>6. \A k \in DOMAIN orders' : orders'[k].id = k /\ orders'[k].instrument \in books'
      BY <2>1, <2>3, <3>1
    <3>7. IsFiniteSet(DOMAIN orders') /\ Cardinality(DOMAIN orders') <= StoreCapacity
      BY <3>1, StoreSize
    <3>8. counters' \in [StateCounters -> Nat] /\ NoInconsistency'
      BY <3>1, CountersStay, OneMore DEF StateCounters, Trouble
    <3>9. QED
      BY <2>3, <3>2, <3>3, <3>4, <3>5, <3>6, <3>7, <3>8, OrdersChange
  <2>6. QED
    BY <2>4, <2>5
<1>4. QED
  BY <1>2, <1>3

(* removeAt() that does not return leaves the feed thread with a book that *)
(* has lost the order and an order store that has not.                     *)
LEMMA HangSteps ==
  ASSUME StoresInv, pending' = [kind |-> "hung"], DOMAIN levels' \subseteq DOMAIN levels,
         UNCHANGED <<instruments, orders, books, refused, counters>>
  PROVE  StoresInv'
BY DEF StoresInv, StoresOK, BooksMatchOrders, ReductionFits, NoInconsistency

LEMMA RemoveSteps ==
  ASSUME StoresInv, pending.kind # "hung",
         NEW k, NEW before, NEW after, NEW remaining, Remove(k, before, after, remaining),
         UNCHANGED <<instruments, books, refused, counters>>,
         DOMAIN before \subseteq DOMAIN levels, after = LevelsOf(remaining, refused),
         remaining \in [DOMAIN remaining -> Order],
         \A x \in DOMAIN remaining : remaining[x].id = x /\ remaining[x].instrument \in books,
         IsFiniteSet(DOMAIN remaining), Cardinality(DOMAIN remaining) <= StoreCapacity
  PROVE  StoresInv'
<1>1. CASE StoreIsFull
  BY <1>1, HangSteps DEF Remove
<1>2. CASE ~StoreIsFull
  <2>1. levels' = after /\ orders' = remaining /\ pending'.kind = "idle"
    BY <1>2 DEF Remove, Idle
  <2>2. refused' \in Seq(Order) /\ \A n \in DOMAIN refused' : refused'[n].instrument \in books'
    <3>1. refused \in Seq(Order)
      BY DEF StoresInv, StoresOK
    <3>2. QED
      BY <3>1, InPlace
  <2>3. QED
    BY <2>1, <2>2, CountersStay, OrdersChange
<1>3. QED
  BY <1>1, <1>2

LEMMA WithoutOne ==
  ASSUME StoresInv, pending.kind # "hung", NEW k \in DOMAIN orders
  PROVE  LET rest == Without(orders, k)
         IN  /\ IsHeld(rest) /\ rest \in [DOMAIN rest -> Order]
             /\ DOMAIN rest = DOMAIN orders \ {k}
             /\ \A x \in DOMAIN rest : rest[x].id = x /\ rest[x].instrument \in books
             /\ IsFiniteSet(DOMAIN rest) /\ Cardinality(DOMAIN rest) = Cardinality(DOMAIN orders) - 1
             /\ Cardinality(DOMAIN rest) <= StoreCapacity
<1> DEFINE rest == Without(orders, k)
<1>1. IsHeld(rest)
  BY InPlace, Restored
<1>2. DOMAIN rest = DOMAIN orders \ {k} /\ \A x \in DOMAIN rest : rest[x] = orders[x]
  BY DEF Without
<1>3. rest = [x \in DOMAIN rest |-> rest[x]]
  BY <1>1 DEF IsHeld
<1> HIDE DEF rest
<1>4. rest \in [DOMAIN rest -> Order]
  BY <1>2, <1>3, InPlace
<1>5. IsFiniteSet(DOMAIN rest) /\ Cardinality(DOMAIN rest) = Cardinality(DOMAIN orders) - 1
  BY <1>2, StoreSize, FS_RemoveElement
<1>6. Cardinality(DOMAIN rest) <= StoreCapacity
  BY <1>5, StoreSize, SizeAssumption
<1>7. \A x \in DOMAIN rest : rest[x].id = x /\ rest[x].instrument \in books
  BY <1>2, InPlace
<1>8. QED
  BY <1>1, <1>2, <1>4, <1>5, <1>6, <1>7 DEF rest

(* The second half of an execution, and a cancellation.                    *)
LEMMA ReduceSteps ==
  ASSUME StoresInv, pending.kind # "hung", NEW k \in DOMAIN orders,
         NEW q \in Nat, q <= orders[k].quantity, ReduceOrder(k, q),
         UNCHANGED <<instruments, books, refused>>
  PROVE  StoresInv'
<1> DEFINE o == orders[k]
           reduced == LevelReduce(levels, KeyOf(o), q)
           removed == RemoveOrder(reduced, KeyOf(o), 0)
           less == Lessened(orders, k, q)
<1>1. /\ IsHeld(orders) /\ IsHeld(refused) /\ levels = LevelsOf(orders, refused)
      /\ orders[k] \in Order /\ orders[k].id = k /\ orders[k].quantity \in Nat
      /\ refused \in Seq(Order)
  BY InPlace DEF StoresInv, StoresOK
<1>2. /\ IsHeld(less) /\ DOMAIN less = DOMAIN orders
      /\ less[k].id = k /\ KeyOf(less[k]) = KeyOf(o)
      /\ \A x \in DOMAIN orders : x # k => less[x] = orders[x]
      /\ CanReduce(levels, KeyOf(o), q) /\ reduced = LevelsOf(less, refused)
  BY <1>1, LevelsShrink
<1>3. CASE q = o.quantity
  <2>1. /\ DOMAIN reduced = DOMAIN levels /\ CanRemove(reduced, KeyOf(o), 0)
        /\ removed = LevelsOf(Without(orders, k), refused)
    BY <1>1, <1>3, LevelsLoseUsedUp
  <2>2. Remove(k, removed, removed, Without(orders, k)) /\ UNCHANGED counters
    BY <1>2, <1>3, <2>1 DEF ReduceOrder
  <2>3. DOMAIN removed \subseteq DOMAIN levels
    <3>1. KeyOf(o) \in DOMAIN levels
      BY InPlace
    <3> HIDE DEF reduced
    <3>2. QED
      BY <2>1, <3>1 DEF RemoveOrder, With, Without
  <2> HIDE DEF removed
  <2>4. QED
    BY <2>1, <2>2, <2>3, WithoutOne, RemoveSteps
<1>4. CASE q # o.quantity
  <2>1. /\ levels' = reduced /\ orders' = less /\ pending'.kind = "idle" /\ UNCHANGED counters
    BY <1>2, <1>4 DEF ReduceOrder, Idle, Lessened
  <2> HIDE DEF reduced, less, o
  <2>2. levels' = LevelsOf(orders', refused')
    BY <1>2, <2>1
  <2>3. orders' \in [DOMAIN orders' -> Order]
    BY <1>2, <2>1 DEF IsHeld
  <2>4. \A x \in DOMAIN orders' : orders'[x].id = x /\ orders'[x].instrument \in books'
    <3>1. less[k].instrument = orders[k].instrument
      BY <1>2 DEF KeyOf, o
    <3>2. \A x \in DOMAIN orders : orders[x].id = x /\ orders[x].instrument \in books
      BY InPlace
    <3>3. QED
      BY <1>2, <2>1, <3>1, <3>2
  <2>5. IsFiniteSet(DOMAIN orders') /\ Cardinality(DOMAIN orders') <= StoreCapacity
    BY <1>2, <2>1, StoreSize
  <2>6. refused' \in Seq(Order) /\ \A n \in DOMAIN refused' : refused'[n].instrument \in books'
    BY <1>1, InPlace
  <2>7. QED
    BY <2>1, <2>2, <2>3, <2>4, <2>5, <2>6, CountersStay, OrdersChange
<1>5. QED
  BY <1>3, <1>4

LEMMA FinishSteps == ASSUME StoresInv, FinishExecution PROVE StoresInv'
<1>1. /\ pending.kind # "hung" /\ pending.id \in DOMAIN orders
      /\ pending.quantity \in 0 .. orders[pending.id].quantity
  BY DEF FinishExecution, StoresInv, ReductionFits
<1>2. orders[pending.id].quantity \in Nat
  BY <1>1, InPlace
<1>3. pending.quantity \in Nat /\ pending.quantity <= orders[pending.id].quantity
  BY <1>1, <1>2
<1>4. QED
  BY <1>1, <1>3, ReduceSteps DEF FinishExecution

LEMMA CancelSteps ==
  ASSUME StoresInv, NEW k, NEW q \in Nat, OrderCancel(k, q)
  PROVE  StoresInv'
<1> DEFINE refusal == Refusal(k, q, "unknownOrderCancels", "overCancelledOrders")
<1>1. pending.kind # "hung"
  BY DEF OrderCancel, Message, Idle
<1>2. \/ refusal = "unknownOrderCancels" \/ refusal = "overCancelledOrders"
      \/ (refusal = "none" /\ k \in DOMAIN orders /\ q <= orders[k].quantity)
  BY <1>1, RefusalType
<1>3. CASE refusal = "none"
  BY <1>1, <1>2, <1>3, ReduceSteps DEF OrderCancel
<1>4. CASE refusal # "none"
  BY <1>2, <1>4, RejectSteps DEF OrderCancel, StateCounters, Trouble
<1>5. QED
  BY <1>3, <1>4

LEMMA DeleteSteps == ASSUME StoresInv, NEW k, OrderDelete(k) PROVE StoresInv'
<1> DEFINE o == orders[k]
           refusal == Refusal(k, 0, "unknownOrderDeletes", "none")
           removed == RemoveOrder(levels, KeyOf(o), o.quantity)
<1>1. pending.kind # "hung"
  BY DEF OrderDelete, Message, Idle
<1>2. refusal = "unknownOrderDeletes" \/ (refusal = "none" /\ k \in DOMAIN orders)
  BY <1>1, RefusalType
<1>3. CASE refusal = "none"
  <2>1. /\ IsHeld(orders) /\ IsHeld(refused) /\ levels = LevelsOf(orders, refused)
        /\ KeyOf(o) \in DOMAIN levels
    BY <1>1, <1>2, <1>3, InPlace
  <2>2. CanRemove(levels, KeyOf(o), o.quantity)
        /\ removed = LevelsOf(Without(orders, k), refused)
    BY <1>2, <1>3, <2>1, LevelsLose
  <2>3. /\ Remove(k, removed, removed, Without(orders, k))
        /\ UNCHANGED <<instruments, books, refused, counters>>
    BY <1>3, <2>2 DEF OrderDelete
  <2>4. DOMAIN removed \subseteq DOMAIN levels
    BY <2>1 DEF RemoveOrder, With, Without
  <2> HIDE DEF removed
  <2>5. QED
    BY <1>1, <1>2, <1>3, <2>2, <2>3, <2>4, WithoutOne, RemoveSteps
<1>4. CASE refusal # "none"
  BY <1>2, <1>4, RejectSteps DEF OrderDelete, StateCounters, Trouble
<1>5. QED
  BY <1>3, <1>4

(* The replacement may take the id of the order it replaces, and its level.*)
LEMMA ReplaceSteps ==
  ASSUME StoresInv, NEW k, NEW new \in OrderId, NEW price \in Price, NEW shares \in Nat,
         OrderReplace(k, new, price, shares)
  PROVE  StoresInv'
<1> DEFINE o == orders[k]
           r == [o EXCEPT !.id = new, !.price = price, !.quantity = shares]
           refusal == Refusal(k, 0, "unknownOrderReplaces", "none")
           removed == RemoveOrder(levels, KeyOf(o), o.quantity)
           rest == Without(orders, k)
           remaining == With(rest, new, r)
           after == LevelAdd(removed, KeyOf(r), shares)
<1>1. pending.kind # "hung"
  BY DEF OrderReplace, Message, Idle
<1>2. CASE k \notin DOMAIN orders
  BY <1>2, RejectSteps DEF OrderReplace, StateCounters, Trouble
<1>3. CASE k \in DOMAIN orders /\ new # k /\ new \in DOMAIN orders
  BY <1>3, RejectSteps DEF OrderReplace, StateCounters, Trouble
<1>4. CASE k \in DOMAIN orders /\ ~(new # k /\ new \in DOMAIN orders)
  <2>1. /\ IsHeld(orders) /\ IsHeld(refused) /\ levels = LevelsOf(orders, refused)
        /\ KeyOf(o) \in DOMAIN levels /\ o \in Order /\ o.instrument \in books
    BY <1>1, <1>4, InPlace
  <2>2. CanRemove(levels, KeyOf(o), o.quantity) /\ removed = LevelsOf(rest, refused)
    BY <1>4, <2>1, LevelsLose
  <2>3. refusal = "none" \/ refusal = "unknownOrderReplaces"
    BY <1>1, RefusalType
  <2>4. CASE refusal # "none"
    <3>1. Reject("unknownOrderReplaces")
      BY <1>4, <2>3, <2>4 DEF OrderReplace
    <3>2. QED
      BY <3>1, RejectSteps DEF StateCounters, Trouble
  <2>5. CASE refusal = "none"
    <3>1. /\ Remove(k, removed, after, remaining)
          /\ UNCHANGED <<instruments, books, counters, refused>>
      BY <1>4, <2>2, <2>5 DEF OrderReplace
    <3>2. DOMAIN removed \subseteq DOMAIN levels
      BY <2>1 DEF RemoveOrder, With, Without
    <3>3. r \in Order /\ r.id = new /\ r.instrument = o.instrument /\ r.quantity = shares
      BY <2>1 DEF Order
    <3>4. /\ IsHeld(rest) /\ rest \in [DOMAIN rest -> Order]
          /\ DOMAIN rest = DOMAIN orders \ {k}
          /\ \A x \in DOMAIN rest : rest[x].id = x /\ rest[x].instrument \in books
          /\ IsFiniteSet(DOMAIN rest) /\ Cardinality(DOMAIN rest) = Cardinality(DOMAIN orders) - 1
      BY <1>1, <1>4, WithoutOne
    <3>5. new \notin DOMAIN rest
      BY <1>4, <3>4
    <3> HIDE DEF o, r, removed, rest
    <3>6. after = LevelsOf(remaining, refused)
      BY <2>1, <2>2, <3>3, <3>4, <3>5, LevelsGain
    <3>7. DOMAIN remaining = DOMAIN rest \cup {new} /\ remaining \in [DOMAIN remaining -> Order]
      BY <3>3, <3>4 DEF With
    <3>8. \A x \in DOMAIN remaining : remaining[x].id = x /\ remaining[x].instrument \in books
      BY <2>1, <3>3, <3>4 DEF With
    <3>9. IsFiniteSet(DOMAIN remaining) /\ Cardinality(DOMAIN remaining) <= StoreCapacity
      <4>1. IsFiniteSet(DOMAIN rest \cup {new})
            /\ Cardinality(DOMAIN rest \cup {new}) = Cardinality(DOMAIN rest) + 1
        BY <3>4, <3>5, FS_AddElement
      <4>2. (Cardinality(DOMAIN orders) - 1) + 1 <= StoreCapacity
        BY StoreSize, SizeAssumption
      <4>3. QED
        BY <3>4, <3>7, <4>1, <4>2
    <3> HIDE DEF after, remaining
    <3>10. QED
      BY <1>1, <3>1, <3>2, <3>6, <3>7, <3>8, <3>9, RemoveSteps
  <2>6. QED
    BY <2>4, <2>5
<1>5. QED
  BY <1>2, <1>3, <1>4

(* An execution whose trade is published: the order can still give it.     *)
LEMMA ExecuteSteps ==
  ASSUME StoresInv, NEW k, NEW q \in Nat,
         NEW unknown \in StateCounters \ Trouble, NEW over \in StateCounters \ Trouble,
         Execute(k, q, unknown, over)
  PROVE  StoresInv'
<1> DEFINE refusal == Refusal(k, q, unknown, over)
<1>1. pending.kind # "hung"
  BY DEF Execute, Message, Idle
<1>2. unknown # "none" /\ over # "none"
  BY DEF StateCounters
<1>3. \/ refusal = unknown \/ refusal = over
      \/ (refusal = "none" /\ k \in DOMAIN orders /\ q <= orders[k].quantity)
  BY <1>1, <1>2, RefusalType
<1>4. CASE refusal # "none"
  BY <1>3, <1>4, RejectSteps DEF Execute
<1>5. CASE refusal = "none"
  <2>1. /\ UNCHANGED stores /\ UNCHANGED <<counters, refused>>
        /\ pending' = [kind |-> "reduce", id |-> k, quantity |-> q]
    BY <1>5 DEF Execute
  <2>2. UNCHANGED <<instruments, orders, books, levels>>
    BY <2>1 DEF stores
  <2>3. q \in 0 .. orders[k].quantity
    BY <1>1, <1>2, <1>3, <1>5, InPlace
  <2>4. ReductionFits'
    BY <1>2, <1>3, <1>5, <2>1, <2>2, <2>3 DEF ReductionFits
  <2>5. StoresOK' /\ BooksMatchOrders' /\ NoInconsistency'
    BY <1>1, <2>1, <2>2 DEF StoresInv, StoresOK, BooksMatchOrders, NoInconsistency
  <2>6. QED
    BY <2>4, <2>5 DEF StoresInv
<1>6. QED
  BY <1>4, <1>5

LEMMA InstrumentSteps ==
  ASSUME StoresInv, NEW i \in Instrument,
         \/ StockDirectory(i) \/ Trade(i)
         \/ \E s : StockTradingAction(i, s) \/ RegShoRestriction(i, s)
  PROVE  StoresInv'
<1>1. DOMAIN instruments \subseteq Instrument
  BY DEF StoresInv, StoresOK
<1>2. CASE StockDirectory(i)
  <2>1. /\ UNCHANGED <<orders, books, levels, counters, pending, refused>>
        /\ instruments' = instruments \/ DOMAIN instruments' = DOMAIN instruments \cup {i}
    BY <1>2 DEF StockDirectory, With
  <2>2. DOMAIN instruments' \subseteq Instrument
    BY <1>1, <2>1
  <2>3. QED
    BY <2>1, <2>2, CountersStay, StoresStay
<1>3. CASE Trade(i)
  <2>1. UNCHANGED <<orders, books, levels, counters, pending, refused, instruments>>
    BY <1>3 DEF Trade, stores
  <2>2. QED
    BY <1>1, <2>1, CountersStay, StoresStay
<1>4. ASSUME NEW c \in StateCounters \ Trouble, NEW instrument, Update(i, c, instrument)
      PROVE  StoresInv'
  <2>1. CASE Reject(c)
    BY <2>1, RejectSteps
  <2>2. CASE /\ instruments' = [instruments EXCEPT ![i] = instrument]
             /\ UNCHANGED <<orders, books, levels, counters, pending, refused>>
    <3>1. DOMAIN instruments' = DOMAIN instruments
      BY <2>2
    <3>2. QED
      BY <1>1, <2>2, <3>1, CountersStay, StoresStay
  <2>3. QED
    BY <1>4, <2>1, <2>2 DEF Update
<1>5. ASSUME NEW s, StockTradingAction(i, s) \/ RegShoRestriction(i, s) PROVE StoresInv'
  <2>1. /\ "unknownTradingActionInstruments" \in StateCounters \ Trouble
        /\ "unknownRegShoInstruments" \in StateCounters \ Trouble
    BY DEF StateCounters, Trouble
  <2>2. CASE StockTradingAction(i, s)
    BY <1>4, <2>1, <2>2 DEF StockTradingAction
  <2>3. CASE RegShoRestriction(i, s)
    BY <1>4, <2>1, <2>3 DEF RegShoRestriction
  <2>4. QED
    BY <1>5, <2>2, <2>3
<1>6. QED
  BY <1>2, <1>3, <1>5

LEMMA StoresBegin == StateInit => StoresInv
<1> SUFFICES ASSUME StateInit PROVE StoresInv
  OBVIOUS
<1>1. orders = [k \in {} |-> 0] /\ levels = [k \in {} |-> 0] /\ refused = <<>>
      /\ instruments = [i \in {} |-> 0] /\ pending.kind = "idle"
      /\ counters = [c \in StateCounters |-> 0]
  BY DEF StateInit, Idle
<1>2. IsFiniteSet(DOMAIN orders) /\ Cardinality(DOMAIN orders) <= StoreCapacity
  BY <1>1, FS_EmptySet, SizeAssumption
<1>3. StoresOK
  BY <1>1, <1>2 DEF StoresOK
<1>4. BooksMatchOrders
  <2>1. Keys(orders) = {} /\ Keys(refused) = {}
    BY <1>1 DEF Keys
  <2>2. QED
    BY <1>1, <2>1 DEF BooksMatchOrders, LevelsOf
<1>5. ReductionFits /\ NoInconsistency
  BY <1>1 DEF ReductionFits, NoInconsistency, StateCounters
<1>6. QED
  BY <1>3, <1>4, <1>5 DEF StoresInv

LEMMA StoresSteps == ASSUME StoresInv, [StateNext]_stateVars PROVE StoresInv'
<1>1. ASSUME NEW q \in Quantity PROVE q \in Nat
  BY MaxOrderAssumption DEF Quantity
<1>2. ASSUME NEW k \in OrderId, NEW q \in Quantity,
             OrderExecuted(k, q) \/ OrderExecutedWithPrice(k, q) \/ OrderCancel(k, q)
      PROVE  StoresInv'
  <2>1. /\ {"unknownOrderExecutions", "overExecutedOrders"} \subseteq StateCounters \ Trouble
        /\ {"unknownOrderExecutionsWithPrice", "overExecutedOrdersWithPrice"}
             \subseteq StateCounters \ Trouble
    BY DEF StateCounters, Trouble
  <2>2. CASE OrderExecuted(k, q)
    BY <1>1, <2>1, <2>2, ExecuteSteps DEF OrderExecuted
  <2>3. CASE OrderExecutedWithPrice(k, q)
    BY <1>1, <2>1, <2>3, ExecuteSteps DEF OrderExecutedWithPrice
  <2>4. CASE OrderCancel(k, q)
    BY <1>1, <2>4, CancelSteps
  <2>5. QED
    BY <1>2, <2>2, <2>3, <2>4
<1>3. ASSUME NEW k \in OrderId, NEW r \in Replacements, OrderReplace(k, r[1], r[2], r[3])
      PROVE  StoresInv'
  <2>1. r[1] \in OrderId /\ r[2] \in Price /\ r[3] \in Nat
    BY ReplacementsAssumption
  <2>2. QED
    BY <1>3, <2>1, ReplaceSteps
<1>4. CASE ConsumeEvent \/ UNCHANGED stateVars
  <2>1. UNCHANGED <<orders, books, levels, counters, pending, refused, instruments>>
    BY <1>4 DEF ConsumeEvent, stateVars, stores
  <2>2. DOMAIN instruments \subseteq Instrument
    BY DEF StoresInv, StoresOK
  <2>3. QED
    BY <2>1, <2>2, CountersStay, StoresStay
<1>5. QED
  BY <1>2, <1>3, <1>4, AddSteps, DeleteSteps, FinishSteps, InstrumentSteps DEF StateNext

(* The price levels are those of the orders, whatever was added, executed, *)
(* cancelled, deleted and replaced: no order keeps a handle to a level     *)
(* that is gone, and no handler meets an inconsistency.                    *)
THEOREM BooksMatch == StateSpec => []StateInv
<1>1. StoresInv /\ [StateNext]_stateVars => StoresInv'
  BY StoresSteps
<1>2. EventsInv /\ [StateNext]_stateVars => EventsInv'
  BY EventSteps, NumbersGrow
<1>3. StoresInv /\ EventsInv => StateInv
  BY DEF StoresInv, EventsInv, StateInv, StateTypeOK
<1>4. QED
  BY EventsBegin, StoresBegin, <1>1, <1>2, <1>3, PTL DEF StateSpec
-----------------------------------------------------------------------------
(* Best bid and offer *)

(* A finite set of prices has a highest and a lowest. *)
LEMMA HighestExists ==
  ASSUME NEW S \in SUBSET Nat, IsFiniteSet(S), S # {}
  PROVE  \E x \in S : \A y \in S : y <= x
<1> DEFINE T == {n \in Nat : \A K \in SUBSET S : Cardinality(K) = n + 1 =>
                               \E x \in K : \A y \in K : y <= x}
<1>1. \A K \in SUBSET S : IsFiniteSet(K) /\ Cardinality(K) \in Nat
  BY FS_Subset, FS_CardinalityType
<1>2. 0 \in T
  <2>1. ASSUME NEW K \in SUBSET S, Cardinality(K) = 0 + 1
        PROVE  \E x \in K : \A y \in K : y <= x
    <3>1. PICK x : K = {x}
      BY <1>1, <2>1, FS_Singleton
    <3>2. QED
      BY <3>1
  <2>2. QED
    BY <2>1
<1>3. ASSUME NEW n \in T PROVE n + 1 \in T
  <2>1. ASSUME NEW K \in SUBSET S, Cardinality(K) = (n + 1) + 1
        PROVE  \E x \in K : \A y \in K : y <= x
    <3>0. n \in Nat
      OBVIOUS
    <3>1. K # {}
      BY <2>1, <3>0, FS_EmptySet
    <3>2. PICK z \in K : TRUE
      BY <3>1
    <3>3. K \ {z} \in SUBSET S /\ Cardinality(K \ {z}) = n + 1
      <4>1. K \ {z} \in SUBSET S /\ Cardinality(K \ {z}) = Cardinality(K) - 1
        <5> HIDE DEF T
        <5>1. QED
          BY OneLess
      <4>2. ((n + 1) + 1) - 1 = n + 1
        BY <3>0
      <4>3. QED
        BY <2>1, <4>1, <4>2
    <3>4. PICK x \in K \ {z} : \A y \in K \ {z} : y <= x
      BY <3>3
    <3>5. x \in Nat /\ z \in Nat /\ \A y \in K : y = z \/ y <= x
      BY <3>4
    <3>6. CASE z <= x
      BY <3>5, <3>6
    <3>7. CASE x <= z
      <4>1. \A y \in K : y \in Nat
        OBVIOUS
      <4>2. \A y \in K : y <= z
        BY <3>5, <3>7, <4>1
      <4>3. QED
        BY <4>2
    <3>8. QED
      BY <3>5, <3>6, <3>7
  <2>2. n + 1 \in Nat
    OBVIOUS
  <2>3. QED
    BY <2>1, <2>2
<1>4. \A n \in Nat : n \in T
  <2>1. T \in SUBSET Nat
    OBVIOUS
  <2> HIDE DEF T
  <2>2. QED
    BY <1>2, <1>3, <2>1, SetInduction
<1>5. PICK n \in Nat : Cardinality(S) = n + 1
  <2>1. Cardinality(S) \in Nat /\ Cardinality(S) # 0
    BY <1>1, FS_EmptySet
  <2>2. Cardinality(S) - 1 \in Nat /\ Cardinality(S) = (Cardinality(S) - 1) + 1
    BY <2>1
  <2>3. QED
    BY <2>2
<1>6. n \in T
  BY <1>4
<1>7. QED
  BY <1>5, <1>6

LEMMA LowestExists ==
  ASSUME NEW S \in SUBSET Nat, S # {}
  PROVE  \E x \in S : \A y \in S : x <= y
<1> DEFINE Less == {p \in Nat \X Nat : p[1] < p[2]}
<1>1. IsWellFoundedOn(Less, Nat)
  BY NatLessThanWellFounded DEF OpToRel
<1>2. \E x \in S : \A y \in S : ~(<<y, x>> \in Less)
  <2> HIDE DEF Less
  <2>1. QED
    BY <1>1, WFMin
<1>3. PICK x \in S : \A y \in S : ~(<<y, x>> \in Less)
  BY <1>2
<1>4. ASSUME NEW y \in S PROVE x <= y
  <2>1. y \in Nat /\ x \in Nat
    OBVIOUS
  <2>2. y < x => <<y, x>> \in Less
    BY <2>1
  <2>3. ~(y < x)
    BY <1>3, <2>2
  <2>4. QED
    BY <2>1, <2>3
<1>5. \A y \in S : x <= y
  BY <1>4
<1>6. QED
  BY <1>5

LEMMA MaxMinType ==
  ASSUME NEW S \in SUBSET Nat, IsFiniteSet(S), S # {}
  PROVE  /\ Max(S) \in S /\ \A y \in S : y <= Max(S)
         /\ Min(S) \in S /\ \A y \in S : Min(S) <= y
<1>1. \E x \in S : \A y \in S : x >= y
  <2>1. PICK x \in S : \A y \in S : y <= x
    BY HighestExists
  <2>2. \A y \in S : x >= y
    BY <2>1
  <2>3. QED
    BY <2>2
<1>2. \E x \in S : \A y \in S : x <= y
  BY LowestExists
<1>3. Max(S) \in S /\ \A y \in S : Max(S) >= y
  BY <1>1, Zenon DEF Max
<1>4. Min(S) \in S /\ \A y \in S : Min(S) <= y
  BY <1>2, Zenon DEF Min
<1>5. \A y \in S : Max(S) >= y => y <= Max(S)
  BY <1>3
<1>6. QED
  BY <1>3, <1>4, <1>5

Prices(lv, i, s) == {p \in Price : <<i, s, p>> \in DOMAIN lv}
BestPrice(lv, i, s) == IF s = "Buy" THEN Max(Prices(lv, i, s)) ELSE Min(Prices(lv, i, s))

LEMMA BestType ==
  ASSUME NEW lv, IsFiniteSet(DOMAIN lv), NEW i, NEW s
  PROVE  /\ Best(lv, i, s) = IF Prices(lv, i, s) = {} THEN <<>>
                             ELSE <<BestPrice(lv, i, s), lv[<<i, s, BestPrice(lv, i, s)>>].quantity>>
         /\ Prices(lv, i, s) \in SUBSET Nat
         /\ Prices(lv, i, s) # {} =>
              /\ BestPrice(lv, i, s) \in Prices(lv, i, s)
              /\ s = "Buy" => \A p \in Prices(lv, i, s) : p <= BestPrice(lv, i, s)
              /\ s # "Buy" => \A p \in Prices(lv, i, s) : BestPrice(lv, i, s) <= p
<1> DEFINE P == Prices(lv, i, s)
<1>1. P \in SUBSET Nat
  BY PriceAssumption DEF Prices
<1>2. IsFiniteSet(P)
  <2> DEFINE f == [p \in P |-> <<i, s, p>>]
             R == {<<i, s, p>> : p \in P}
  <2>1. R \in SUBSET DOMAIN lv
    BY DEF Prices
  <2>2. IsFiniteSet(R)
    BY <2>1, FS_Subset
  <2>3. f \in Injection(P, R)
    <3>1. f \in [P -> R]
      OBVIOUS
    <3>2. \A a, b \in P : f[a] = f[b] => a = b
      OBVIOUS
    <3> HIDE DEF f, R, P
    <3>3. QED
      BY <3>1, <3>2 DEF Injection, IsInjective
  <2> HIDE DEF f, R, P
  <2>4. QED
    BY <2>2, <2>3, FS_Injection
<1>3. Best(lv, i, s) = IF P = {} THEN <<>>
                       ELSE <<BestPrice(lv, i, s), lv[<<i, s, BestPrice(lv, i, s)>>].quantity>>
  BY DEF Best, BestPrice, Prices
<1> HIDE DEF P
<1>4. P # {} => /\ Max(P) \in P /\ \A p \in P : p <= Max(P)
                /\ Min(P) \in P /\ \A p \in P : Min(P) <= p
  BY <1>1, <1>2, MaxMinType
<1>5. BestPrice(lv, i, s) = IF s = "Buy" THEN Max(P) ELSE Min(P)
  BY DEF BestPrice, P
<1>6. QED
  BY <1>1, <1>3, <1>4, <1>5 DEF P

(* Levels that differ in the book of one instrument only.                  *)
SameElsewhere(lv, lv1, j) ==
  \A key : key[1] # j => /\ key \in DOMAIN lv <=> key \in DOMAIN lv1
                         /\ key \in DOMAIN lv => lv1[key] = lv[key]

LEMMA ChangesOneBook ==
  ASSUME NEW lv, NEW key, key \in DOMAIN lv, NEW q, NEW lv1,
         \/ lv1 = LevelReduce(lv, key, q) \/ lv1 = RemoveOrder(lv, key, q)
  PROVE  SameElsewhere(lv, lv1, key[1])
BY DEF LevelReduce, RemoveOrder, With, Without, SameElsewhere

LEMMA AddChangesOneBook ==
  ASSUME NEW lv, NEW key, NEW q
  PROVE  SameElsewhere(lv, LevelAdd(lv, key, q), key[1])
BY DEF LevelAdd, With, SameElsewhere

LEMMA ChangesTwice ==
  ASSUME NEW a, NEW b, NEW c, NEW j, SameElsewhere(a, b, j), SameElsewhere(b, c, j)
  PROVE  SameElsewhere(a, c, j)
BY DEF SameElsewhere

LEMMA OtherBboStays ==
  ASSUME NEW lv, IsFiniteSet(DOMAIN lv), NEW lv1, NEW j, SameElsewhere(lv, lv1, j),
         NEW i, i # j
  PROVE  Bbo(lv1, i) = Bbo(lv, i)
<1>1. ASSUME NEW s PROVE Best(lv1, i, s) = Best(lv, i, s)
  <2>1. \A p : <<i, s, p>>[1] # j
    OBVIOUS
  <2>2. Prices(lv1, i, s) = Prices(lv, i, s)
    BY <2>1 DEF Prices, SameElsewhere
  <2>3. BestPrice(lv1, i, s) = BestPrice(lv, i, s)
    BY <2>2 DEF BestPrice
  <2>4. \A p \in Prices(lv, i, s) : lv1[<<i, s, p>>] = lv[<<i, s, p>>]
    BY <2>1 DEF Prices, SameElsewhere
  <2>5. Best(lv1, i, s) = IF Prices(lv1, i, s) = {} THEN <<>>
                          ELSE <<BestPrice(lv1, i, s), lv1[<<i, s, BestPrice(lv1, i, s)>>].quantity>>
    BY DEF Best, BestPrice, Prices
  <2>6. QED
    BY <2>2, <2>3, <2>4, <2>5, BestType
<1>2. QED
  BY <1>1 DEF Bbo

(* What the handlers do to the books, and how the publisher is told.       *)
LevelsKept ==
  /\ levels' = levels /\ (pending.kind = "hung" => pending'.kind = "hung")
  /\ UNCHANGED <<lastQuote, unquoted>>

BookChanges(j) ==
  /\ j \in Instrument /\ pending.kind # "hung"
  /\ SameElsewhere(levels, levels', j)
  /\ \/ NotifyBboChange(j, levels')
     \/ unquoted' = unquoted \cup {j} /\ UNCHANGED lastQuote

BookStep == \/ LevelsKept
            \/ pending'.kind = "hung"
            \/ \E j \in Instrument : BookChanges(j)

LEMMA RejectKeepsLevels == ASSUME NEW c, Reject(c) PROVE LevelsKept
BY DEF Reject, stores, Silently, publishers, LevelsKept

LEMMA RemoveTells ==
  ASSUME StoresInv, pending.kind # "hung", NEW k \in DOMAIN orders,
         NEW before, NEW after, NEW remaining, Remove(k, before, after, remaining),
         SameElsewhere(levels, after, orders[k].instrument)
  PROVE  BookStep
<1>1. orders[k].instrument \in Instrument
  BY InPlace DEF Order
<1>2. CASE StoreIsFull
  BY <1>2 DEF Remove, BookStep
<1>3. CASE ~StoreIsFull
  <2>1. levels' = after /\ NotifyBboChange(orders[k].instrument, after)
    BY <1>3 DEF Remove
  <2>2. BookChanges(orders[k].instrument)
    BY <1>1, <2>1 DEF BookChanges
  <2>3. QED
    BY <1>1, <2>2 DEF BookStep
<1>4. QED
  BY <1>2, <1>3

LEMMA ReduceTells ==
  ASSUME StoresInv, pending.kind # "hung", NEW k \in DOMAIN orders,
         NEW q \in Nat, q <= orders[k].quantity, ReduceOrder(k, q)
  PROVE  BookStep
<1> DEFINE o == orders[k]
           reduced == LevelReduce(levels, KeyOf(o), q)
           removed == RemoveOrder(reduced, KeyOf(o), 0)
<1>1. /\ IsHeld(orders) /\ IsHeld(refused) /\ levels = LevelsOf(orders, refused)
      /\ o \in Order /\ KeyOf(o) \in DOMAIN levels
  BY InPlace
<1>2. KeyOf(o)[1] = o.instrument /\ o.instrument \in Instrument
  BY <1>1, OrderType DEF Order
<1>3. CanReduce(levels, KeyOf(o), q)
  BY <1>1, LevelsShrink
<1>4. SameElsewhere(levels, reduced, o.instrument) /\ DOMAIN reduced = DOMAIN levels
  <2>1. SameElsewhere(levels, reduced, KeyOf(o)[1])
    BY <1>1, ChangesOneBook
  <2>2. QED
    BY <1>2, <2>1 DEF LevelReduce
<1>5. CASE q = o.quantity
  <2>1. CanRemove(reduced, KeyOf(o), 0)
    BY <1>1, <1>5, LevelsLoseUsedUp
  <2>2. Remove(k, removed, removed, Without(orders, k))
    BY <1>3, <1>5, <2>1 DEF ReduceOrder
  <2> HIDE DEF reduced
  <2>3. SameElsewhere(reduced, removed, o.instrument)
    <3>1. SameElsewhere(reduced, removed, KeyOf(o)[1])
      BY <1>1, <1>4, ChangesOneBook
    <3>2. QED
      BY <1>2, <3>1
  <2> HIDE DEF removed
  <2>4. SameElsewhere(levels, removed, o.instrument)
    BY <1>4, <2>3, ChangesTwice
  <2>5. QED
    BY <2>2, <2>4, RemoveTells
<1>6. CASE q # o.quantity
  <2>1. levels' = reduced /\ NotifyBboChange(o.instrument, reduced)
    BY <1>3, <1>6 DEF ReduceOrder
  <2> HIDE DEF reduced, o
  <2>2. BookChanges(o.instrument)
    BY <1>2, <1>4, <2>1 DEF BookChanges
  <2>3. QED
    BY <1>2, <2>2 DEF BookStep
<1>7. QED
  BY <1>5, <1>6

LEMMA AddTells == ASSUME StoresInv, NEW o \in Adds, AddOrder(o) PROVE BookStep
<1> DEFINE added == LevelAdd(levels, KeyOf(o), o.quantity)
<1>1. /\ o \in Order /\ o.instrument \in Instrument /\ KeyOf(o)[1] = o.instrument
      /\ pending.kind # "hung"
  BY AddsAssumption, OrderType DEF AddOrder, Message, Idle, Order
<1>2. CASE o.id \in DOMAIN orders
  BY <1>2, RejectKeepsLevels DEF AddOrder, BookStep
<1>3. CASE o.id \notin DOMAIN orders
  <2>1. levels' = added
    BY <1>3 DEF AddOrder
  <2>2. SameElsewhere(levels, added, o.instrument)
    BY <1>1, AddChangesOneBook
  <2>3. \/ NotifyBboChange(o.instrument, added)
        \/ unquoted' = unquoted \cup {o.instrument} /\ UNCHANGED lastQuote
    BY <1>3 DEF AddOrder, publishers
  <2> HIDE DEF added
  <2>4. BookChanges(o.instrument)
    BY <1>1, <2>1, <2>2, <2>3 DEF BookChanges
  <2>5. QED
    BY <1>1, <2>4 DEF BookStep
<1>4. QED
  BY <1>2, <1>3

LEMMA DeleteTells == ASSUME StoresInv, NEW k, OrderDelete(k) PROVE BookStep
<1> DEFINE o == orders[k]
           refusal == Refusal(k, 0, "unknownOrderDeletes", "none")
           removed == RemoveOrder(levels, KeyOf(o), o.quantity)
<1>1. pending.kind # "hung"
  BY DEF OrderDelete, Message, Idle
<1>2. refusal = "unknownOrderDeletes" \/ (refusal = "none" /\ k \in DOMAIN orders)
  BY <1>1, RefusalType
<1>3. CASE refusal # "none"
  BY <1>2, <1>3, RejectKeepsLevels DEF OrderDelete, BookStep
<1>4. CASE refusal = "none"
  <2>1. /\ IsHeld(orders) /\ IsHeld(refused) /\ levels = LevelsOf(orders, refused)
        /\ KeyOf(o) \in DOMAIN levels /\ o \in Order
    BY <1>1, <1>2, <1>4, InPlace
  <2>2. CanRemove(levels, KeyOf(o), o.quantity)
    BY <1>2, <1>4, <2>1, LevelsLose
  <2>3. Remove(k, removed, removed, Without(orders, k))
    BY <1>4, <2>2 DEF OrderDelete
  <2>4. SameElsewhere(levels, removed, o.instrument)
    <3>1. SameElsewhere(levels, removed, KeyOf(o)[1])
      BY <2>1, ChangesOneBook
    <3>2. QED
      BY <2>1, <3>1, OrderType
  <2> HIDE DEF removed
  <2>5. QED
    BY <1>1, <1>2, <1>4, <2>3, <2>4, RemoveTells
<1>5. QED
  BY <1>3, <1>4

LEMMA ReplaceTells ==
  ASSUME StoresInv, NEW k, NEW new, NEW price, NEW shares, OrderReplace(k, new, price, shares)
  PROVE  BookStep
<1> DEFINE o == orders[k]
           r == [o EXCEPT !.id = new, !.price = price, !.quantity = shares]
           refusal == Refusal(k, 0, "unknownOrderReplaces", "none")
           removed == RemoveOrder(levels, KeyOf(o), o.quantity)
           after == LevelAdd(removed, KeyOf(r), shares)
<1>1. pending.kind # "hung"
  BY DEF OrderReplace, Message, Idle
<1>2. ASSUME NEW c, Reject(c) PROVE BookStep
  BY <1>2, RejectKeepsLevels DEF BookStep
<1>3. CASE k \notin DOMAIN orders \/ (new # k /\ new \in DOMAIN orders)
  BY <1>2, <1>3 DEF OrderReplace
<1>4. CASE k \in DOMAIN orders /\ ~(new # k /\ new \in DOMAIN orders)
  <2>1. CASE refusal # "none"
    BY <1>2, <1>4, <2>1 DEF OrderReplace
  <2>2. CASE refusal = "none"
    <3>1. /\ IsHeld(orders) /\ IsHeld(refused) /\ levels = LevelsOf(orders, refused)
          /\ KeyOf(o) \in DOMAIN levels /\ o \in Order
      BY <1>1, <1>4, InPlace
    <3>2. CanRemove(levels, KeyOf(o), o.quantity)
      BY <1>4, <3>1, LevelsLose
    <3>3. Remove(k, removed, after, With(Without(orders, k), new, r))
      BY <1>4, <2>2, <3>2 DEF OrderReplace
    <3>4. KeyOf(o)[1] = o.instrument /\ KeyOf(r)[1] = o.instrument
      BY <3>1 DEF KeyOf, Order
    <3>5. SameElsewhere(levels, removed, KeyOf(o)[1])
      BY <3>1, ChangesOneBook
    <3>6. SameElsewhere(removed, after, KeyOf(r)[1])
      BY AddChangesOneBook
    <3> HIDE DEF removed, after, r
    <3>7. SameElsewhere(levels, after, o.instrument)
      BY <3>4, <3>5, <3>6, ChangesTwice
    <3>8. QED
      BY <1>1, <1>4, <3>3, <3>7, RemoveTells
  <2>3. QED
    BY <2>1, <2>2
<1>5. QED
  BY <1>3, <1>4

LEMMA BookSteps == ASSUME StoresInv, [StateNext]_stateVars PROVE BookStep
<1> USE DEF stores, Silently, publishers
<1>1. ASSUME NEW c, Reject(c) PROVE BookStep
  BY <1>1, RejectKeepsLevels DEF BookStep
<1>2. ASSUME NEW i, NotifyTrade(i) PROVE UNCHANGED <<lastQuote, unquoted>>
  BY <1>2 DEF NotifyTrade
<1>3. ASSUME NEW i, StockDirectory(i) \/ Trade(i) PROVE BookStep
  BY <1>2, <1>3 DEF StockDirectory, Trade, LevelsKept, BookStep
<1>4. ASSUME NEW i, NEW s, StockTradingAction(i, s) \/ RegShoRestriction(i, s) PROVE BookStep
  BY <1>1, <1>4 DEF StockTradingAction, RegShoRestriction, Update, LevelsKept, BookStep
<1> HIDE DEF Silently, publishers
<1>5. ASSUME NEW k \in OrderId, NEW q \in Quantity,
             OrderExecuted(k, q) \/ OrderExecutedWithPrice(k, q) \/ OrderCancel(k, q)
      PROVE  BookStep
  <2>1. q \in Nat
    BY MaxOrderAssumption DEF Quantity
  <2>2. ASSUME NEW unknown, NEW over, Execute(k, q, unknown, over) PROVE BookStep
    <3>1. pending.kind # "hung"
      BY <2>2 DEF Execute, Message, Idle
    <3>2. QED
      BY <1>1, <1>2, <2>2, <3>1 DEF Execute, LevelsKept, BookStep
  <2>3. CASE OrderCancel(k, q)
    <3> DEFINE refusal == Refusal(k, q, "unknownOrderCancels", "overCancelledOrders")
    <3>1. pending.kind # "hung"
      BY <2>3 DEF OrderCancel, Message, Idle
    <3>2. \/ refusal = "unknownOrderCancels" \/ refusal = "overCancelledOrders"
          \/ (refusal = "none" /\ k \in DOMAIN orders /\ q <= orders[k].quantity)
      BY <2>1, <3>1, RefusalType
    <3>3. CASE refusal # "none"
      BY <1>1, <2>3, <3>3 DEF OrderCancel
    <3>4. CASE refusal = "none"
      BY <2>1, <2>3, <3>1, <3>2, <3>4, ReduceTells DEF OrderCancel
    <3>5. QED
      BY <3>3, <3>4
  <2>4. QED
    BY <1>5, <2>2, <2>3 DEF OrderExecuted, OrderExecutedWithPrice
<1>6. CASE FinishExecution
  <2>1. /\ pending.kind # "hung" /\ pending.id \in DOMAIN orders
        /\ pending.quantity \in 0 .. orders[pending.id].quantity
    BY <1>6 DEF FinishExecution, StoresInv, ReductionFits
  <2>2. orders[pending.id].quantity \in Nat
    BY <2>1, InPlace
  <2>3. pending.quantity \in Nat /\ pending.quantity <= orders[pending.id].quantity
    BY <2>1, <2>2
  <2>4. QED
    BY <1>6, <2>1, <2>3, ReduceTells DEF FinishExecution
<1>7. CASE ConsumeEvent \/ UNCHANGED stateVars
  BY <1>7 DEF ConsumeEvent, stateVars, publishers, LevelsKept, BookStep
<1>8. QED
  BY <1>3, <1>4, <1>5, <1>6, <1>7, AddTells, DeleteTells, ReplaceTells DEF StateNext

(* The last quote against the levels, which is what a handler compares.    *)
LevelsQuoted ==
  \A i \in Instrument :
    (i \notin unquoted /\ pending.kind # "hung" /\ ~OneSided(Bbo(levels, i)))
      => lastQuote[i] = Bbo(levels, i)

LEMMA KeysFinite == ASSUME NEW h, IsHeld(h) PROVE IsFiniteSet(Keys(h))
<1> DEFINE f == [k \in DOMAIN h |-> KeyOf(h[k])]
           D == DOMAIN h
           R == Keys(h)
<1>1. f \in [D -> R] /\ \A y \in R : \E k \in D : f[k] = y
  BY DEF Keys
<1> HIDE DEF f, R
<1>2. f \in Surjection(D, R)
  BY <1>1 DEF Surjection
<1>3. IsFiniteSet(D)
  BY DEF IsHeld
<1> HIDE DEF D
<1>4. IsFiniteSet(R)
  BY <1>2, <1>3, FS_Surjection
<1>5. QED
  BY <1>4 DEF R

LEMMA LevelsFinite ==
  ASSUME StoresInv, pending.kind # "hung"
  PROVE  IsFiniteSet(DOMAIN levels)
<1>1. IsFiniteSet(Keys(orders)) /\ IsFiniteSet(Keys(refused))
  BY InPlace, KeysFinite
<1>2. IsFiniteSet(Keys(orders) \cup Keys(refused))
  BY <1>1, FS_Union
<1>3. QED
  BY <1>2, InPlace

(* Telling the publisher leaves its last quote right, or marks the instrument. *)
LEMMA NotifySteps ==
  ASSUME LevelsQuoted, DOMAIN lastQuote = Instrument, pending.kind # "hung",
         NEW j \in Instrument, NotifyBboChange(j, levels')
  PROVE  /\ (j \notin unquoted' /\ ~OneSided(Bbo(levels', j))) => lastQuote'[j] = Bbo(levels', j)
         /\ \A i \in Instrument : i # j =>
              /\ lastQuote'[i] = lastQuote[i] /\ (i \in unquoted => i \in unquoted')
<1> DEFINE bbo == Bbo(levels, j)
           bbo1 == Bbo(levels', j)
<1>1. CASE bbo = bbo1
  <2>1. UNCHANGED <<lastQuote, unquoted>>
    BY <1>1 DEF NotifyBboChange
  <2>2. j \notin unquoted /\ ~OneSided(bbo) => lastQuote[j] = bbo
    BY DEF LevelsQuoted
  <2>3. QED
    BY <1>1, <2>1, <2>2
<1>2. CASE bbo # bbo1
  <2>1. OnBboChange(j, bbo1)
    BY <1>2 DEF NotifyBboChange
  <2> HIDE DEF bbo1
  <2>2. CASE PublishQuote(j, bbo1)
    <3>1. \/ lastQuote' = [lastQuote EXCEPT ![j] = bbo1] /\ unquoted' = unquoted \ {j}
          \/ lastQuote' = lastQuote /\ unquoted' = unquoted \cup {j}
      BY <2>2 DEF PublishQuote
    <3>2. QED
      BY <3>1 DEF bbo1
  <2>3. CASE unquoted' = unquoted \cup {j} /\ lastQuote' = lastQuote
    BY <2>3
  <2>4. CASE OneSided(bbo1) /\ UNCHANGED <<lastQuote, unquoted>>
    BY <2>4 DEF bbo1
  <2>5. QED
    BY <2>1, <2>2, <2>3, <2>4 DEF OnBboChange
<1>3. QED
  BY <1>1, <1>2

LEMMA QuoteBookSteps ==
  ASSUME StoresInv, LevelsQuoted, DOMAIN lastQuote = Instrument, BookStep
  PROVE  LevelsQuoted'
<1>1. CASE LevelsKept
  BY <1>1 DEF LevelsKept, LevelsQuoted
<1>2. CASE pending'.kind = "hung"
  BY <1>2 DEF LevelsQuoted
<1>3. ASSUME NEW j \in Instrument, BookChanges(j) PROVE LevelsQuoted'
  <2>1. /\ pending.kind # "hung" /\ SameElsewhere(levels, levels', j)
        /\ IsFiniteSet(DOMAIN levels)
    BY <1>3, LevelsFinite DEF BookChanges
  <2>2. \A i \in Instrument : i # j => Bbo(levels', i) = Bbo(levels, i)
    BY <2>1, OtherBboStays
  <2>3. \A i \in Instrument : (i \notin unquoted /\ ~OneSided(Bbo(levels, i)))
                                => lastQuote[i] = Bbo(levels, i)
    BY <2>1 DEF LevelsQuoted
  <2>4. /\ (j \notin unquoted' /\ ~OneSided(Bbo(levels', j))) => lastQuote'[j] = Bbo(levels', j)
        /\ \A i \in Instrument : i # j =>
             /\ lastQuote'[i] = lastQuote[i] /\ (i \in unquoted => i \in unquoted')
    <3>1. CASE NotifyBboChange(j, levels')
      BY <2>1, <3>1, NotifySteps
    <3>2. CASE unquoted' = unquoted \cup {j} /\ UNCHANGED lastQuote
      BY <3>2
    <3>3. QED
      BY <1>3, <3>1, <3>2 DEF BookChanges
  <2>5. ASSUME NEW i \in Instrument, i \notin unquoted', ~OneSided(Bbo(levels', i))
        PROVE  lastQuote'[i] = Bbo(levels', i)
    BY <2>2, <2>3, <2>4, <2>5
  <2>6. QED
    BY <2>5 DEF LevelsQuoted
<1>4. QED
  BY <1>1, <1>2, <1>3 DEF BookStep

(* The best price and its total are the same whether they are taken from   *)
(* the levels or from the orders themselves.                               *)
LEMMA BestIsBest ==
  ASSUME StoresInv, pending.kind # "hung", NEW i \in Instrument, NEW s \in Side,
         \A n \in DOMAIN refused : refused[n].instrument # i
  PROVE  BestOf(i, s) = Best(levels, i, s)
<1> DEFINE offers == {k \in DOMAIN orders : orders[k].instrument = i /\ orders[k].side = s}
           P == Prices(levels, i, s)
           bp == BestPrice(levels, i, s)
           key == <<i, s, bp>>
           best == {k \in offers : \A x \in offers :
                      IF s = "Buy" THEN orders[x].price <= orders[k].price
                                   ELSE orders[x].price >= orders[k].price}
<1>1. /\ IsHeld(orders) /\ IsHeld(refused) /\ levels = LevelsOf(orders, refused)
      /\ DOMAIN levels = Keys(orders) \cup Keys(refused)
      /\ \A k \in DOMAIN orders : orders[k] \in Order /\ orders[k].price \in Price
      /\ IsFiniteSet(DOMAIN levels)
  BY InPlace, LevelsFinite DEF Order
<1>2. \A p : <<i, s, p>> \notin Keys(refused)
  BY DEF Keys, KeyOf
<1>3. ASSUME NEW k \in offers PROVE orders[k].price \in P
  <2>1. KeyOf(orders[k]) \in DOMAIN levels /\ orders[k].price \in Price
    BY <1>1 DEF Keys
  <2>2. QED
    BY <2>1 DEF KeyOf, Prices
<1>4. ASSUME NEW p \in P PROVE \E k \in offers : orders[k].price = p
  <2>1. <<i, s, p>> \in Keys(orders)
    BY <1>1, <1>2 DEF Prices
  <2>2. QED
    BY <2>1 DEF Keys, KeyOf
<1>5. /\ Best(levels, i, s) = IF P = {} THEN <<>> ELSE <<bp, levels[key].quantity>>
      /\ P \in SUBSET Nat
      /\ P # {} => /\ bp \in P
                   /\ s = "Buy" => \A p \in P : p <= bp
                   /\ s # "Buy" => \A p \in P : bp <= p
  BY <1>1, BestType
<1>6. BestOf(i, s) = IF offers = {} THEN <<>>
                     ELSE <<orders[CHOOSE k \in best : TRUE].price, Total(orders, best)>>
  BY DEF BestOf
<1>7. offers = {} <=> P = {}
  BY <1>3, <1>4
<1>8. CASE P = {}
  BY <1>5, <1>6, <1>7, <1>8
<1>9. CASE P # {}
  <2>1. ASSUME NEW k \in offers PROVE k \in best <=> orders[k].price = bp
    <3>1. PICK top \in offers : orders[top].price = bp
      BY <1>4, <1>5, <1>9
    <3>2. \A x \in offers : orders[x].price \in P /\ orders[x].price \in Nat
      BY <1>3, <1>5
    <3>3. bp \in Nat
      BY <1>5, <1>9
    <3> HIDE DEF P, bp, offers
    <3>4. CASE s = "Buy"
      <4>1. k \in best <=> \A x \in offers : orders[x].price <= orders[k].price
        BY <3>4
      <4>2. \A x \in offers : orders[x].price <= bp
        BY <1>5, <1>9, <3>2, <3>4
      <4>3. QED
        BY <3>1, <3>2, <3>3, <4>1, <4>2
    <3>5. CASE s # "Buy"
      <4>1. k \in best <=> \A x \in offers : orders[x].price >= orders[k].price
        BY <3>5
      <4>2. \A x \in offers : bp <= orders[x].price
        BY <1>5, <1>9, <3>2, <3>5
      <4>3. QED
        BY <3>1, <3>2, <3>3, <4>1, <4>2
    <3>6. QED
      BY <3>4, <3>5
  <2>2. best = At(orders, key)
    <3>1. \A k \in DOMAIN orders : KeyOf(orders[k]) = key <=> k \in offers /\ orders[k].price = bp
      <4> HIDE DEF bp
      <4>1. QED
        BY DEF KeyOf
    <3> HIDE DEF bp
    <3>2. QED
      BY <2>1, <3>1 DEF At
  <2>3. orders[CHOOSE k \in best : TRUE].price = bp
    <3>1. \E k \in best : TRUE
      BY <1>4, <1>5, <1>9, <2>1
    <3> DEFINE c == CHOOSE k \in best : TRUE
    <3>2. c \in best
      <4> HIDE DEF best
      <4>1. QED
        BY <3>1, Zenon
    <3> HIDE DEF c
    <3>3. c \in offers
      BY <3>2
    <3>4. orders[c].price = bp
      BY <2>1, <3>2, <3>3
    <3>5. QED
      BY <3>4 DEF c
  <2>4. levels[key].quantity = Total(orders, At(orders, key))
    <3>1. key \in DOMAIN levels /\ key \notin Keys(refused)
      BY <1>2, <1>5, <1>9 DEF Prices
    <3> HIDE DEF key
    <3>2. levels[key].quantity = Total(orders, At(orders, key)) + Total(refused, At(refused, key))
      BY <1>1, <3>1 DEF LevelsOf
    <3>3. Total(orders, At(orders, key)) \in Nat /\ Total(refused, At(refused, key)) = 0
      BY <1>1, <3>1, HeldAt
    <3>4. QED
      BY <3>2, <3>3
  <2> HIDE DEF best, bp, key, P, offers
  <2>5. QED
    BY <1>5, <1>6, <1>7, <1>9, <2>2, <2>3, <2>4
<1>10. QED
  BY <1>8, <1>9

LEMMA QuotesBegin == StateInit => LevelsQuoted
<1> SUFFICES ASSUME StateInit PROVE LevelsQuoted
  OBVIOUS
<1>1. ASSUME NEW i PROVE Best(levels, i, "Buy") = <<>>
  BY DEF StateInit, Best
<1>2. ASSUME NEW i PROVE OneSided(Bbo(levels, i))
  BY <1>1 DEF Bbo, OneSided
<1>3. QED
  BY <1>2 DEF LevelsQuoted

LEMMA QuotedIsCurrent == StoresInv /\ LevelsQuoted => QuoteIsCurrent
<1> SUFFICES ASSUME StoresInv, LevelsQuoted, NEW i \in Instrument,
                    i \notin unquoted, pending.kind # "hung",
                    BestOf(i, "Buy") # <<>>, BestOf(i, "Sell") # <<>>,
                    \A n \in DOMAIN refused : refused[n].instrument # i
             PROVE  lastQuote[i] = [bid |-> BestOf(i, "Buy"), ask |-> BestOf(i, "Sell")]
  BY DEF QuoteIsCurrent
<1>1. BestOf(i, "Buy") = Best(levels, i, "Buy") /\ BestOf(i, "Sell") = Best(levels, i, "Sell")
  BY BestIsBest DEF Side
<1>2. Bbo(levels, i) = [bid |-> BestOf(i, "Buy"), ask |-> BestOf(i, "Sell")]
  BY <1>1 DEF Bbo
<1>3. ~OneSided(Bbo(levels, i))
  BY <1>2 DEF OneSided
<1>4. QED
  BY <1>2, <1>3 DEF LevelsQuoted

(* The last quote published is the best bid and offer of the orders that   *)
(* are active, unless the last change could not be published.              *)
THEOREM QuotesAreCurrent == StateSpec => []QuoteIsCurrent
<1>1. StoresInv /\ [StateNext]_stateVars => StoresInv'
  BY StoresSteps
<1>2. EventsInv /\ [StateNext]_stateVars => EventsInv'
  BY EventSteps, NumbersGrow
<1>3. StoresInv /\ EventsInv /\ LevelsQuoted /\ [StateNext]_stateVars => LevelsQuoted'
  BY BookSteps, QuoteBookSteps DEF EventsInv, PublishersOK
<1>4. StoresInv /\ LevelsQuoted => QuoteIsCurrent
  BY QuotedIsCurrent
<1>5. QED
  BY EventsBegin, StoresBegin, QuotesBegin, <1>1, <1>2, <1>3, <1>4, PTL DEF StateSpec
=============================================================================
