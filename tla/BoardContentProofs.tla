------------------------- MODULE BoardContentProofs -------------------------
(***************************************************************************)
(* The rows of a board stay well formed, refer to each other properly and  *)
(* respect the vote limits, whatever the operations and in whatever order: *)
(* proved for any number of members, cards, groups, columns and action     *)
(* items and any limits.  Its lists keep their order: no two items of a    *)
(* column, no two columns and no two action items ever share a place, no   *)
(* step shuffles them, and a group's place and that of its cards are the   *)
(* same.  So a step changes what its operation is allowed to change and no *)
(* more, and all who read the board at one revision have the same lists.   *)
(*                                                                         *)
(* First what the operators of Placement guarantee for lists of any length *)
(* and any width of the position column, then the rows, then the votes,    *)
(* then the order, then what is read, then what a page offers.             *)
(***************************************************************************)
EXTENDS BoardReads, FiniteSetTheorems, SequenceTheorems, TLAPS

-----------------------------------------------------------------------------
(* Lists and their places. *)

\* S is a set of row ids.
Ids(S) == S \subseteq Nat \ {None}

\* R orders the elements of S strictly and totally.
StrictOrder(S, R) ==
    /\ \A i \in S : <<i, i>> \notin R
    /\ \A i, j, k \in S : <<i, j>> \in R /\ <<j, k>> \in R => <<i, k>> \in R
    /\ \A i, j \in S : i = j \/ <<i, j>> \in R \/ <<j, i>> \in R

-----------------------------------------------------------------------------
\* Relations on S are equal when they relate the same elements.
LEMMA SamePairs ==
    ASSUME NEW S, NEW Q, Q \subseteq S \X S, NEW R, R \subseteq S \X S,
           \A i, j \in S : <<i, j>> \in Q <=> <<i, j>> \in R
    PROVE  Q = R
  <1>1. \A e \in S \X S : e = <<e[1], e[2]>> /\ e[1] \in S /\ e[2] \in S
    OBVIOUS
  <1>2. \A e \in S \X S : e \in Q <=> e \in R
    BY <1>1
  <1>3. QED
    BY <1>2

\* What it means for one row to come before another.
LEMMA PositionOrderPair ==
    ASSUME NEW S, NEW p
    PROVE  /\ PositionOrder(S, p) \subseteq S \X S
           /\ \A i, j \in S : <<i, j>> \in PositionOrder(S, p)
                                 <=> p[i] < p[j] \/ (p[i] = p[j] /\ i < j)
  BY DEF PositionOrder

\* comparePositionedItems orders rows strictly: equal positions are told apart
\* by their ids.
LEMMA PositionOrderStrict ==
    ASSUME NEW S, Ids(S), NEW p, \A i \in S : p[i] \in Int
    PROVE  StrictOrder(S, PositionOrder(S, p))
  BY DEF StrictOrder, PositionOrder, Ids

\* A restriction of a strict order to fewer elements is one.
LEMMA StrictOrderSubset ==
    ASSUME NEW S, NEW R, StrictOrder(S, R), NEW T \in SUBSET S
    PROVE  StrictOrder(T, R)
  BY DEF StrictOrder

\* Inserting one more row after another, or at the head, keeps a strict order.
LEMMA InsertedOrderStrict ==
    ASSUME NEW S, NEW R, R \subseteq S \X S, StrictOrder(S, R),
           NEW x, x \notin S, NEW b, b \in S \/ UpTo(S, R, b) = {}
    PROVE  StrictOrder(S \cup {x}, InsertedOrder(S, R, x, b))
  <1> DEFINE U == UpTo(S, R, b)
             Q == InsertedOrder(S, R, x, b)
  <1>1. \A i, j \in S : <<i, j>> \in Q <=> <<i, j>> \in R
    BY DEF InsertedOrder
  <1>2. \A i \in S : (<<i, x>> \in Q <=> i \in U) /\ (<<x, i>> \in Q <=> i \notin U)
    BY DEF InsertedOrder, UpTo
  <1>3. <<x, x>> \notin Q
    BY DEF InsertedOrder, UpTo
  <1>4. \A i, j \in S : j \in U /\ <<i, j>> \in R => i \in U
    BY DEF UpTo, StrictOrder
  <1>5. \A i, j \in S : i \in U /\ j \notin U => <<i, j>> \in R
    BY DEF UpTo, StrictOrder
  <1>6. \A i, j, k \in S \cup {x} : <<i, j>> \in Q /\ <<j, k>> \in Q => <<i, k>> \in Q
    <2> SUFFICES ASSUME NEW i \in S \cup {x}, NEW j \in S \cup {x}, NEW k \in S \cup {x},
                        <<i, j>> \in Q, <<j, k>> \in Q
                 PROVE  <<i, k>> \in Q
      OBVIOUS
    <2>1. CASE x \notin {i, j, k}
      BY <2>1, <1>1 DEF StrictOrder
    <2>2. CASE i = x
      BY <2>2, <1>1, <1>2, <1>3, <1>4
    <2>3. CASE j = x /\ i # x
      BY <2>3, <1>1, <1>2, <1>3, <1>5
    <2>4. CASE k = x /\ j # x /\ i # x
      BY <2>4, <1>1, <1>2, <1>4
    <2>5. QED
      BY <2>1, <2>2, <2>3, <2>4
  <1>7. QED
    BY <1>1, <1>2, <1>3, <1>6 DEF StrictOrder

-----------------------------------------------------------------------------
\* An index is less than the length of the list.
LEMMA RankBound ==
    ASSUME NEW S, IsFiniteSet(S), NEW R, NEW i \in S, <<i, i>> \notin R
    PROVE  /\ Rank(S, R, i) \in Nat
           /\ Rank(S, R, i) < Cardinality(S)
  <1> DEFINE B == {j \in S : <<j, i>> \in R}
  <1>1. B \subseteq S \ {i}
    OBVIOUS
  <1>2. IsFiniteSet(S \ {i}) /\ Cardinality(S \ {i}) = Cardinality(S) - 1
    BY FS_RemoveElement
  <1>3. IsFiniteSet(B) /\ Cardinality(B) <= Cardinality(S \ {i})
    BY <1>1, <1>2, FS_Subset
  <1>4. Cardinality(B) \in Nat /\ Cardinality(S) \in Nat
    BY <1>3, FS_CardinalityType
  <1>5. QED
    BY <1>2, <1>3, <1>4 DEF Rank

\* The earlier of two rows has the smaller index.
LEMMA RankIncreases ==
    ASSUME NEW S, IsFiniteSet(S), NEW R, StrictOrder(S, R),
           NEW i \in S, NEW j \in S, <<i, j>> \in R
    PROVE  Rank(S, R, i) < Rank(S, R, j)
  <1> DEFINE B(k) == {l \in S : <<l, k>> \in R}
  <1>1. B(i) \subseteq B(j) /\ i \in B(j) /\ i \notin B(i)
    BY DEF StrictOrder
  <1>2. IsFiniteSet(B(j))
    BY FS_Subset
  <1>3. IsFiniteSet(B(i)) /\ Cardinality(B(i)) <= Cardinality(B(j))
        /\ (Cardinality(B(i)) = Cardinality(B(j)) => B(i) = B(j))
    <2> HIDE DEF B
    <2> QED BY <1>1, <1>2, FS_Subset
  <1>4. Cardinality(B(i)) \in Nat /\ Cardinality(B(j)) \in Nat
    BY <1>2, <1>3, FS_CardinalityType
  <1>5. QED
    BY <1>1, <1>3, <1>4 DEF Rank

\* Two rows have the same index only if they are the same.
LEMMA RankInjective ==
    ASSUME NEW S, IsFiniteSet(S), NEW R, StrictOrder(S, R),
           NEW i \in S, NEW j \in S, Rank(S, R, i) = Rank(S, R, j)
    PROVE  i = j
  <1>1. Rank(S, R, i) \in Nat /\ Rank(S, R, j) \in Nat
    BY RankBound DEF StrictOrder
  <1>2. <<i, j>> \notin R
    BY <1>1, RankIncreases
  <1>3. <<j, i>> \notin R
    BY <1>1, RankIncreases
  <1>4. QED
    BY <1>2, <1>3 DEF StrictOrder

-----------------------------------------------------------------------------
\* A rebalance keeps the order it is given, and its positions are those of the
\* INTEGER column as long as the last of them is.
LEMMA RenumberedKeepsOrder ==
    ASSUME NEW S, IsFiniteSet(S), NEW R, StrictOrder(S, R)
    PROVE  /\ \A i \in S : /\ Renumbered(S, R)[i] \in Nat
                           /\ Renumbered(S, R)[i] >= POSITION_STEP
                           /\ Renumbered(S, R)[i] <= Cardinality(S) * POSITION_STEP
           /\ \A i, j \in S : <<i, j>> \in R =>
                 Renumbered(S, R)[j] - Renumbered(S, R)[i] >= POSITION_STEP
  <1>1. Cardinality(S) \in Nat
    BY FS_CardinalityType
  <1>2. ASSUME NEW i \in S
        PROVE  /\ Renumbered(S, R)[i] \in Nat
               /\ Renumbered(S, R)[i] >= POSITION_STEP
               /\ Renumbered(S, R)[i] <= Cardinality(S) * POSITION_STEP
    <2> DEFINE r == Rank(S, R, i)
    <2>1. r \in Nat /\ r < Cardinality(S)
      BY RankBound DEF StrictOrder
    <2> HIDE DEF r
    <2>2. \A n, m \in Nat : n < m => (1 + n) * POSITION_STEP <= m * POSITION_STEP
                                  /\ (1 + n) * POSITION_STEP >= POSITION_STEP
                                  /\ (1 + n) * POSITION_STEP \in Nat
      BY PositionAssumption
    <2>3. QED
      BY <1>1, <2>1, <2>2 DEF Renumbered, r
  <1>3. ASSUME NEW i \in S, NEW j \in S, <<i, j>> \in R
        PROVE  Renumbered(S, R)[j] - Renumbered(S, R)[i] >= POSITION_STEP
    <2> DEFINE r(k) == Rank(S, R, k)
    <2>1. r(i) \in Nat /\ r(j) \in Nat /\ r(i) < r(j)
      BY <1>3, RankBound, RankIncreases DEF StrictOrder
    <2>2. \A n, m \in Nat : n < m =>
             (1 + m) * POSITION_STEP - (1 + n) * POSITION_STEP >= POSITION_STEP
      BY PositionAssumption
    <2> HIDE DEF r
    <2>3. QED
      BY <2>1, <2>2 DEF Renumbered, r
  <1>4. QED
    BY <1>2, <1>3

\* Renumbering a list by the order it has does not change that order.
LEMMA RenumberedSameOrder ==
    ASSUME NEW S, IsFiniteSet(S), Ids(S),
           NEW R, R \subseteq S \X S, StrictOrder(S, R)
    PROVE  PositionOrder(S, Renumbered(S, R)) = R
  <1> DEFINE q == Renumbered(S, R)
  <1>1. \A i \in S : q[i] \in Nat
    BY RenumberedKeepsOrder
  <1>2. \A i, j \in S : <<i, j>> \in R => q[i] < q[j]
    <2> SUFFICES ASSUME NEW i \in S, NEW j \in S, <<i, j>> \in R
                 PROVE  q[i] < q[j]
      OBVIOUS
    <2>1. q[j] - q[i] >= POSITION_STEP
      BY RenumberedKeepsOrder
    <2> HIDE DEF q
    <2>2. QED
      BY <2>1, <1>1, PositionAssumption
  <1> HIDE DEF q
  <1>3. \A i, j \in S : <<i, j>> \in PositionOrder(S, q) <=> <<i, j>> \in R
    <2> SUFFICES ASSUME NEW i \in S, NEW j \in S
                 PROVE  <<i, j>> \in PositionOrder(S, q) <=> <<i, j>> \in R
      OBVIOUS
    <2>1. <<i, j>> \in PositionOrder(S, q) <=> q[i] < q[j] \/ (q[i] = q[j] /\ i < j)
      BY PositionOrderPair
    <2>2. q[i] \in Nat /\ q[j] \in Nat /\ i \in Nat /\ j \in Nat
      BY <1>1 DEF Ids
    <2>3. CASE i = j
      BY <2>1, <2>2, <2>3 DEF StrictOrder
    <2>4. CASE <<i, j>> \in R
      BY <2>1, <2>2, <2>4, <1>2
    <2>5. CASE <<j, i>> \in R
      <3>1. q[j] < q[i]
        BY <2>5, <1>2
      <3>2. <<i, j>> \notin R
        BY <2>5 DEF StrictOrder
      <3>3. QED
        BY <2>1, <2>2, <3>1, <3>2
    <2>6. QED
      BY <2>3, <2>4, <2>5 DEF StrictOrder
  <1>4. PositionOrder(S, q) \subseteq S \X S
    BY PositionOrderPair
  <1>5. PositionOrder(S, q) = R
    BY <1>3, <1>4, SamePairs
  <1>6. QED
    BY <1>5 DEF q

-----------------------------------------------------------------------------
\* With room, the position allocated is in range, after everything up to the
\* one neighbour and before everything from the other.
LEMMA PositionBetweenNeighbours ==
    ASSUME NEW S, Ids(S), NEW q, WellPlaced(S, q), NEW b, NEW a,
           Resolves(S, PositionOrder(S, q), b, a), HasRoom(q, b, a)
    PROVE  LET v == PositionForInsertion(q, b, a)
           IN  /\ v \in MIN_POSITION .. MAX_POSITION
               /\ \A i \in UpTo(S, PositionOrder(S, q), b) : q[i] < v
               /\ \A i \in S \ UpTo(S, PositionOrder(S, q), b) : v < q[i]
  <1> DEFINE v == PositionForInsertion(q, b, a)
             Q == PositionOrder(S, q)
  <1>1. \A i \in S : q[i] \in Int /\ MIN_POSITION <= q[i] /\ q[i] <= MAX_POSITION
    BY PositionAssumption DEF WellPlaced
  <1>2. Q \subseteq S \X S /\ \A i, j \in S : <<i, j>> \in Q <=> q[i] < q[j]
    <2>1. \A i, j \in S : q[i] = q[j] => ~(i < j /\ q[i] = q[j])
      BY <1>1 DEF WellPlaced, Ids
    <2>2. QED
      BY <2>1, <1>1, PositionOrderPair
  <1>3. /\ b \in S \cup {None} /\ a \in S \cup {None}
        /\ b # None /\ a # None => <<b, a>> \in Q
        /\ \A i \in S : \/ b # None /\ (i = b \/ <<i, b>> \in Q)
                        \/ a # None /\ (i = a \/ <<a, i>> \in Q)
    BY DEF Resolves
  <1>4. \A i \in S : i \in UpTo(S, Q, b) <=> b # None /\ (i = b \/ <<i, b>> \in Q)
    BY <1>2 DEF UpTo, Ids
  <1> HIDE DEF v, Q
  <1>5. /\ b # None => b \in S
        /\ a # None => a \in S
        /\ b # None /\ a # None => q[b] < q[a]
        /\ \A i \in UpTo(S, Q, b) : b # None /\ q[i] <= q[b]
        /\ \A i \in S \ UpTo(S, Q, b) : a # None /\ q[a] <= q[i]
    <2>1. (b # None => b \in S) /\ (a # None => a \in S)
      BY <1>3
    <2>2. b # None /\ a # None => q[b] < q[a]
      BY <1>2, <1>3, <2>1
    <2>3. ASSUME NEW i \in UpTo(S, Q, b)
          PROVE  b # None /\ q[i] <= q[b]
      <3>1. i \in S
        BY DEF UpTo
      <3>2. b # None /\ (i = b \/ q[i] < q[b])
        BY <3>1, <1>2, <1>4, <2>1
      <3>3. QED
        BY <3>1, <3>2, <1>1, <2>1
    <2>4. ASSUME NEW i \in S \ UpTo(S, Q, b)
          PROVE  a # None /\ q[a] <= q[i]
      <3>1. a # None /\ (i = a \/ q[a] < q[i])
        BY <1>2, <1>3, <1>4, <2>1
      <3>2. QED
        BY <3>1, <1>1, <2>1
    <2>5. QED
      BY <2>1, <2>2, <2>3, <2>4
  <1>6. /\ v \in Int /\ MIN_POSITION <= v /\ v <= MAX_POSITION
        /\ b # None => q[b] < v
        /\ a # None => v < q[a]
    <2> USE DEF v
    <2>1. CASE b = None /\ a = None
      BY <2>1, PositionAssumption DEF PositionForInsertion
    <2>2. CASE b = None /\ a # None
      BY <2>2, <1>1, <1>5, PositionAssumption DEF PositionForInsertion, HasRoom
    <2>3. CASE b # None /\ a = None
      BY <2>3, <1>1, <1>5, PositionAssumption DEF PositionForInsertion, HasRoom
    <2>4. CASE b # None /\ a # None
      <3>1. q[a] \in Int /\ q[b] \in Int /\ q[a] - q[b] > 1
        BY <2>4, <1>1, <1>5 DEF HasRoom
      <3>2. v = q[b] + ((q[a] - q[b]) \div 2)
        BY <2>4 DEF PositionForInsertion
      <3>3. \A d \in Int : d > 1 => d \div 2 \in Int /\ d \div 2 > 0 /\ d \div 2 < d
        OBVIOUS
      <3> HIDE DEF v
      <3>4. v \in Int /\ q[b] < v /\ v < q[a]
        BY <3>1, <3>2, <3>3
      <3>5. QED
        BY <2>4, <1>1, <1>5, <3>4, PositionAssumption
    <2>5. QED
      BY <2>1, <2>2, <2>3, <2>4
  <1>7. UpTo(S, Q, b) \subseteq S
    BY DEF UpTo
  <1>8. /\ \A i \in UpTo(S, Q, b) : q[i] < v
        /\ \A i \in S \ UpTo(S, Q, b) : v < q[i]
    BY <1>1, <1>5, <1>6, <1>7
  <1>9. v \in MIN_POSITION .. MAX_POSITION
    BY <1>6, PositionAssumption
  <1>10. QED
    BY <1>8, <1>9 DEF v, Q

\* Renumbered positions are distinct and in range when the last one is.
LEMMA RenumberedWellPlaced ==
    ASSUME NEW S, IsFiniteSet(S), Ids(S), NEW R, StrictOrder(S, R),
           Cardinality(S) * POSITION_STEP <= MAX_POSITION
    PROVE  WellPlaced(S, Renumbered(S, R))
  <1> DEFINE q == Renumbered(S, R)
  <1>1. \A i \in S : q[i] \in Nat /\ q[i] >= POSITION_STEP /\ q[i] <= Cardinality(S) * POSITION_STEP
    BY RenumberedKeepsOrder
  <1>2. \A i, j \in S : <<i, j>> \in R => q[j] - q[i] >= POSITION_STEP
    BY RenumberedKeepsOrder
  <1>3. Cardinality(S) * POSITION_STEP \in Nat
    BY FS_CardinalityType, PositionAssumption
  <1> HIDE DEF q
  <1>4. \A i \in S : q[i] \in MIN_POSITION .. MAX_POSITION
    BY <1>1, <1>3, PositionAssumption
  <1>5. \A i, j \in S : <<i, j>> \in R => q[i] # q[j]
    <2> SUFFICES ASSUME NEW i \in S, NEW j \in S, <<i, j>> \in R
                 PROVE  q[i] # q[j]
      OBVIOUS
    <2>1. q[i] \in Nat /\ q[j] \in Nat /\ q[j] - q[i] >= POSITION_STEP
      BY <1>1, <1>2
    <2>2. QED
      BY <2>1, PositionAssumption
  <1>6. QED
    BY <1>4, <1>5 DEF WellPlaced, StrictOrder, q

\* A row inserted between two neighbours stands exactly there, in range, and the
\* others keep their order, whether or not the list had to be rebalanced.
LEMMA InsertedInPlace ==
    ASSUME NEW S, IsFiniteSet(S), Ids(S), NEW p, WellPlaced(S, p),
           NEW x, x \notin S, x \in Nat, NEW b, NEW a, Resolves(S, PositionOrder(S, p), b, a),
           (Cardinality(S) + 1) * POSITION_STEP <= MAX_POSITION
    PROVE  /\ WellPlaced(S \cup {x}, Inserted(S, p, x, b, a))
           /\ \A i \in S \cup {x} : Inserted(S, p, x, b, a)[i] \in Int
           /\ PositionOrder(S \cup {x}, Inserted(S, p, x, b, a))
                 = InsertedOrder(S, PositionOrder(S, p), x, b)
  <1> DEFINE R == PositionOrder(S, p)
             q == IF HasRoom(p, b, a) THEN [i \in S |-> p[i]] ELSE Renumbered(S, R)
             v == PositionForInsertion(q, b, a)
             f == Inserted(S, p, x, b, a)
  <1>1. /\ \A i \in S : p[i] \in Int
        /\ R \subseteq S \X S
        /\ StrictOrder(S, R)
    <2>1. \A i \in S : p[i] \in Int
      BY PositionAssumption DEF WellPlaced
    <2>2. QED
      BY <2>1, PositionOrderStrict DEF PositionOrder
  <1>2. Cardinality(S) \in Nat /\ Cardinality(S) * POSITION_STEP + POSITION_STEP <= MAX_POSITION
        /\ Cardinality(S) * POSITION_STEP \in Nat
    BY FS_CardinalityType, PositionAssumption
  <1>3. WellPlaced(S, q) /\ PositionOrder(S, q) = R /\ HasRoom(q, b, a)
    <2>1. CASE HasRoom(p, b, a)
      <3>1. q = [i \in S |-> p[i]]
        BY <2>1
      <3>2. (b # None => b \in S) /\ (a # None => a \in S)
        BY DEF Resolves
      <3> HIDE DEF q, R
      <3>3. HasRoom(q, b, a)
        BY <2>1, <3>1, <3>2 DEF HasRoom
      <3>4. PositionOrder(S, q) = R
        <4>1. \A i \in S : q[i] = p[i]
          BY <3>1
        <4>2. \A i, j \in S : <<i, j>> \in PositionOrder(S, q) <=> <<i, j>> \in R
          <5> SUFFICES ASSUME NEW i \in S, NEW j \in S
                       PROVE  <<i, j>> \in PositionOrder(S, q) <=> <<i, j>> \in PositionOrder(S, p)
            BY DEF R
          <5>1. q[i] = p[i] /\ q[j] = p[j]
            BY <4>1
          <5>2. QED
            BY <5>1, PositionOrderPair
        <4>3. PositionOrder(S, q) \subseteq S \X S /\ R \subseteq S \X S
          BY PositionOrderPair DEF R
        <4>4. QED
          BY <4>2, <4>3, SamePairs
      <3>5. WellPlaced(S, q)
        BY <3>1 DEF WellPlaced
      <3>6. QED
        BY <3>3, <3>4, <3>5
    <2>2. CASE ~HasRoom(p, b, a)
      <3>1. q = Renumbered(S, R)
        BY <2>2
      <3> HIDE DEF q, R
      <3>2. WellPlaced(S, q)
        BY <3>1, <1>1, <1>2, RenumberedWellPlaced, PositionAssumption
      <3>3. PositionOrder(S, q) = R
        BY <3>1, <1>1, RenumberedSameOrder
      <3>4. /\ \A i \in S : /\ q[i] \in Nat /\ q[i] >= POSITION_STEP
                            /\ q[i] <= Cardinality(S) * POSITION_STEP
            /\ \A i, j \in S : <<i, j>> \in R => q[j] - q[i] >= POSITION_STEP
        BY <3>1, <1>1, RenumberedKeepsOrder
      <3>5. /\ b # None => b \in S
            /\ a # None => a \in S
            /\ b # None /\ a # None => <<b, a>> \in R
        BY DEF Resolves, R
      <3>6. HasRoom(q, b, a)
        BY <3>4, <3>5, <1>2, PositionAssumption DEF HasRoom
      <3>7. QED
        BY <3>2, <3>3, <3>6
    <2>3. QED
      BY <2>1, <2>2
  <1>4. f = [i \in S \cup {x} |-> IF i = x THEN v ELSE q[i]]
    BY DEF Inserted
  <1> HIDE DEF q, R
  <1>5. /\ v \in MIN_POSITION .. MAX_POSITION
        /\ \A i \in UpTo(S, R, b) : q[i] < v
        /\ \A i \in S \ UpTo(S, R, b) : v < q[i]
    BY <1>3, PositionBetweenNeighbours DEF R
  <1> HIDE DEF v, f
  <1>6. \A i \in S : q[i] \in MIN_POSITION .. MAX_POSITION /\ q[i] # v /\ q[i] \in Int
    BY <1>3, <1>5, PositionAssumption DEF WellPlaced
  <1>7. f[x] = v /\ \A i \in S : f[i] = q[i]
    BY <1>4
  <1>8. WellPlaced(S \cup {x}, f)
    BY <1>3, <1>5, <1>6, <1>7 DEF WellPlaced
  <1>9. \A i \in S \cup {x} : f[i] \in Int
    BY <1>5, <1>6, <1>7, PositionAssumption
  <1>10. PositionOrder(S \cup {x}, f) = InsertedOrder(S, R, x, b)
    <2>1. \A i, j \in S : <<i, j>> \in PositionOrder(S \cup {x}, f) <=> <<i, j>> \in R
      BY <1>3, <1>7 DEF PositionOrder
    <2>2. \A i \in S : <<i, x>> \in PositionOrder(S \cup {x}, f) <=> i \in UpTo(S, R, b)
      BY <1>5, <1>6, <1>7, PositionAssumption DEF PositionOrder, UpTo
    <2>3. \A i \in S : <<x, i>> \in PositionOrder(S \cup {x}, f) <=> i \notin UpTo(S, R, b)
      BY <1>5, <1>6, <1>7, PositionAssumption DEF PositionOrder, UpTo
    <2>4. <<x, x>> \notin PositionOrder(S \cup {x}, f)
      BY <1>5, <1>7, PositionAssumption DEF PositionOrder
    <2>5. PositionOrder(S \cup {x}, f) \subseteq (S \cup {x}) \X (S \cup {x})
      BY DEF PositionOrder
    <2>6. /\ \A i, j \in S : <<i, j>> \in InsertedOrder(S, R, x, b) <=> <<i, j>> \in R
          /\ \A i \in S : <<i, x>> \in InsertedOrder(S, R, x, b) <=> i \in UpTo(S, R, b)
          /\ \A i \in S : <<x, i>> \in InsertedOrder(S, R, x, b) <=> i \notin UpTo(S, R, b)
          /\ <<x, x>> \notin InsertedOrder(S, R, x, b)
          /\ InsertedOrder(S, R, x, b) \subseteq (S \cup {x}) \X (S \cup {x})
      <3>1. UpTo(S, R, b) \subseteq S /\ R \subseteq S \X S
        BY <1>1 DEF UpTo
      <3>2. QED
        BY <3>1 DEF InsertedOrder
    <2>7. \A i, j \in S \cup {x} :
             <<i, j>> \in PositionOrder(S \cup {x}, f) <=> <<i, j>> \in InsertedOrder(S, R, x, b)
      BY <2>1, <2>2, <2>3, <2>4, <2>6
    <2> DEFINE T == S \cup {x}
               A == PositionOrder(S \cup {x}, f)
               B == InsertedOrder(S, R, x, b)
    <2>8. A \subseteq T \X T /\ B \subseteq T \X T /\ \A i, j \in T : <<i, j>> \in A <=> <<i, j>> \in B
      BY <2>5, <2>6, <2>7
    <2> HIDE DEF T, A, B
    <2>9. A = B
      BY <2>8, SamePairs
    <2>10. QED
      BY <2>9 DEF A, B
  <1>11. QED
    BY <1>8, <1>9, <1>10 DEF f, R

-----------------------------------------------------------------------------
(* The constants. *)

\* The ids are finite sets of positive naturals, and no card has a group's id.
LEMMA IdFacts ==
    /\ IsFiniteSet(Card) /\ IsFiniteSet(Group) /\ IsFiniteSet(Column) /\ IsFiniteSet(ActionItem)
    /\ Ids(Card) /\ Ids(Group) /\ Ids(Column) /\ Ids(ActionItem)
    /\ None \notin Card /\ None \notin Group /\ None \notin Column
    /\ Card \cap Group = {}
  <1>1. \A S \in {Card, Group, Column, ActionItem} : IsFiniteSet(S) /\ S \subseteq Nat \ {None}
    BY ContentAssumption
  <1>2. Card \cap Group = {}
    <2> SUFFICES ASSUME NEW x \in Card, x \in Group
                 PROVE  FALSE
      OBVIOUS
    <2>1. x < x /\ x \in Nat
      BY <1>1, ContentAssumption
    <2>2. QED
      BY <2>1
  <1>3. QED
    BY <1>1, <1>2 DEF Ids

-----------------------------------------------------------------------------
(* The inductive invariant, one part for each group of rows. *)

ColumnsSound ==
    /\ DOMAIN voteLimit \subseteq Column /\ DOMAIN voteLimit # {}
    /\ voteLimit \in [DOMAIN voteLimit -> 0 .. MAX_VOTE_LIMIT]
    /\ columnPosition \in [DOMAIN voteLimit -> Int]

ItemsSound ==
    /\ DOMAIN card \subseteq Card
    /\ card \in [DOMAIN card -> CardRow]
    /\ DOMAIN group \subseteq Group
    /\ group \in [DOMAIN group -> GroupRow]
    /\ position \in [DOMAIN card \cup DOMAIN group -> Int]
    /\ \A c \in DOMAIN card : card[c].group \in DOMAIN group \cup {None}

ItemsInColumns ==
    /\ \A c \in DOMAIN card : card[c].column \in DOMAIN voteLimit
    /\ \A g \in DOMAIN group : group[g].column \in DOMAIN voteLimit

VotesSound ==
    /\ DOMAIN vote \subseteq Card \X Member
    /\ vote \in [DOMAIN vote -> VoteRow]

ActionItemsSound ==
    /\ DOMAIN actionItem \subseteq ActionItem
    /\ actionItem \in [DOMAIN actionItem -> DOMAIN card \cup {None}]
    /\ actionPosition \in [DOMAIN actionItem -> Int]

Sound ==
    /\ settings \in Settings
    /\ revision \in 0 .. MAX_REVISION
    /\ ColumnsSound
    /\ ItemsSound
    /\ GroupsIntact
    /\ ItemsInColumns
    /\ VotesSound
    /\ ActionItemsSound

\* The inductive invariant implies the type invariant and the references.
LEMMA SoundImplies == Sound => TypeOK /\ ReferencesResolve
  <1> SUFFICES ASSUME Sound
               PROVE  TypeOK /\ ReferencesResolve
    OBVIOUS
  <1>1. actionItem \in [DOMAIN actionItem -> Card \cup {None}]
    BY DEF Sound, ItemsSound, ActionItemsSound
  <1>2. TypeOK
    BY <1>1 DEF Sound, ColumnsSound, ItemsSound, VotesSound, ActionItemsSound, TypeOK
  <1>3. ReferencesResolve
    BY DEF Sound, ColumnsSound, ItemsSound, ItemsInColumns, ActionItemsSound,
           ReferencesResolve, LiveColumn
  <1>4. QED
    BY <1>2, <1>3

\* A new board satisfies the inductive invariant.
LEMMA InitSound == Init => Sound
  <1> SUFFICES ASSUME Init
               PROVE  Sound
    OBVIOUS
  <1>1. settings \in Settings /\ revision \in 0 .. MAX_REVISION
    BY ContentAssumption DEF Init, Settings
  <1>2. ColumnsSound
    <2> DEFINE R == PositionOrder(DefaultColumn, [k \in DefaultColumn |-> k])
    <2>1. DefaultColumn \subseteq Column /\ DefaultColumn # {} /\ DEFAULT_VOTE_LIMIT \in 0 .. MAX_VOTE_LIMIT
      BY ContentAssumption
    <2>2. IsFiniteSet(DefaultColumn) /\ Ids(DefaultColumn)
      BY <2>1, IdFacts, FS_Subset DEF Ids
    <2>3. StrictOrder(DefaultColumn, R)
      <3> DEFINE p == [k \in DefaultColumn |-> k]
      <3>1. \A k \in DefaultColumn : p[k] \in Int
        BY <2>2 DEF Ids
      <3> HIDE DEF p
      <3>2. StrictOrder(DefaultColumn, PositionOrder(DefaultColumn, p))
        BY <2>2, <3>1, PositionOrderStrict
      <3>3. QED
        BY <3>2 DEF p
    <2>4. \A k \in DefaultColumn : Renumbered(DefaultColumn, R)[k] \in Int
      <3> HIDE DEF R
      <3> QED BY <2>2, <2>3, RenumberedKeepsOrder
    <2>5. columnPosition = Renumbered(DefaultColumn, R) /\ voteLimit = [k \in DefaultColumn |-> DEFAULT_VOTE_LIMIT]
      BY DEF Init
    <2> HIDE DEF R
    <2>6. Renumbered(DefaultColumn, R) = [k \in DefaultColumn |-> Renumbered(DefaultColumn, R)[k]]
      BY DEF Renumbered
    <2>7. QED
      BY <2>1, <2>4, <2>5, <2>6 DEF ColumnsSound
  <1>3. DOMAIN card = {} /\ DOMAIN group = {} /\ DOMAIN position = {} /\ DOMAIN vote = {}
        /\ DOMAIN actionItem = {} /\ DOMAIN actionPosition = {}
    BY DEF Init
  <1>4. ItemsSound /\ GroupsIntact /\ ItemsInColumns
    BY <1>3 DEF Init, ItemsSound, GroupsIntact, ItemsInColumns
  <1>5. VotesSound /\ ActionItemsSound
    BY <1>3 DEF Init, VotesSound, ActionItemsSound
  <1>6. QED
    BY <1>1, <1>2, <1>4, <1>5 DEF Sound

-----------------------------------------------------------------------------
(* Operators of the model. *)

\* The first element of a non-empty list is one of its elements, before all the
\* others.
LEMMA FirstIsFirst ==
    ASSUME NEW S, IsFiniteSet(S), S # {}, NEW R, StrictOrder(S, R)
    PROVE  /\ First(S, R) \in S
           /\ \A j \in S \ {First(S, R)} : <<First(S, R), j>> \in R
  <1> DEFINE n == Cardinality(S)
             r == [i \in S |-> Rank(S, R, i)]
  <1>1. n \in Nat /\ n # 0
    BY FS_CardinalityType, FS_EmptySet
  <1>2. \A i \in S : Rank(S, R, i) \in 0 .. (n - 1)
    <2> SUFFICES ASSUME NEW i \in S
                 PROVE  Rank(S, R, i) \in 0 .. (n - 1)
      OBVIOUS
    <2>1. Rank(S, R, i) \in Nat /\ Rank(S, R, i) < n
      BY RankBound DEF StrictOrder
    <2> HIDE DEF n
    <2>2. QED
      BY <1>1, <2>1
  <1>3. \A i, j \in S : Rank(S, R, i) = Rank(S, R, j) => i = j
    BY RankInjective
  <1>4. r \in Injection(S, 0 .. (n - 1))
    <2> HIDE DEF n
    <2> QED BY <1>2, <1>3 DEF Injection, IsInjective
  <1>5. IsFiniteSet(0 .. (n - 1)) /\ Cardinality(0 .. (n - 1)) = n
    BY <1>1, FS_Interval
  <1>6. r \in Surjection(S, 0 .. (n - 1))
    <2> HIDE DEF r
    <2> QED BY <1>4, <1>5, FS_Injection
  <1>7. PICK f \in S : Rank(S, R, f) = 0
    <2>1. 0 \in 0 .. (n - 1)
      BY <1>1
    <2> HIDE DEF n
    <2>2. \E f \in S : r[f] = 0
      BY <1>6, <2>1 DEF Surjection
    <2>3. QED
      BY <2>2
  <1>8. {j \in S : <<j, f>> \in R} = {}
    <2> DEFINE B == {j \in S : <<j, f>> \in R}
    <2>1. IsFiniteSet(B)
      BY FS_Subset
    <2>2. Cardinality(B) = 0
      BY <1>7 DEF Rank
    <2> HIDE DEF B
    <2>3. B = {}
      BY <2>1, <2>2, FS_EmptySet
    <2>4. QED
      BY <2>3 DEF B
  <1>9. \A j \in S \ {f} : <<f, j>> \in R
    BY <1>8 DEF StrictOrder
  <1>10. QED
    BY <1>9 DEF First

\* A non-empty list has a last element: the first in the opposite order.
LEMMA LastExists ==
    ASSUME NEW S, IsFiniteSet(S), S # {}, Ids(S), NEW p, \A i \in S : p[i] \in Int
    PROVE  \E i \in S : \A j \in S \ {i} : <<j, i>> \in PositionOrder(S, p)
  <1> DEFINE R == PositionOrder(S, p)
             Q == {e \in S \X S : <<e[2], e[1]>> \in R}
  <1>1. StrictOrder(S, R)
    BY PositionOrderStrict
  <1> HIDE DEF R
  <1>2. \A i, j \in S : <<i, j>> \in Q <=> <<j, i>> \in R
    OBVIOUS
  <1> HIDE DEF Q
  <1>3. StrictOrder(S, Q)
    BY <1>1, <1>2 DEF StrictOrder
  <1>4. First(S, Q) \in S /\ \A j \in S \ {First(S, Q)} : <<First(S, Q), j>> \in Q
    BY <1>3, FirstIsFirst
  <1>5. QED
    BY <1>2, <1>4 DEF R

\* Rows written over and added to others.
LEMMA WrittenType ==
    ASSUME NEW f, NEW g, NEW T, f \in [DOMAIN f -> T], g \in [DOMAIN g -> T]
    PROVE  /\ Written(f, g) \in [DOMAIN f \cup DOMAIN g -> T]
           /\ DOMAIN Written(f, g) = DOMAIN f \cup DOMAIN g
           /\ \A x \in DOMAIN g : Written(f, g)[x] = g[x]
           /\ \A x \in DOMAIN f \ DOMAIN g : Written(f, g)[x] = f[x]
  BY DEF Written

\* A renumbering gives every row an integer.
LEMMA RenumberedType ==
    ASSUME NEW S, IsFiniteSet(S), NEW R
    PROVE  Renumbered(S, R) \in [S -> Int]
  <1>1. \A i \in S : Rank(S, R, i) \in Nat
    <2> SUFFICES ASSUME NEW i \in S
                 PROVE  Rank(S, R, i) \in Nat
      OBVIOUS
    <2>1. IsFiniteSet({j \in S : <<j, i>> \in R})
      BY FS_Subset
    <2>2. QED
      BY <2>1, FS_CardinalityType DEF Rank
  <1>2. \A n \in Nat : (1 + n) * POSITION_STEP \in Int
    BY PositionAssumption
  <1>3. \A i \in S : (1 + Rank(S, R, i)) * POSITION_STEP \in Int
    BY <1>1, <1>2
  <1>4. QED
    BY <1>3 DEF Renumbered

\* And so does an insertion.
LEMMA InsertedType ==
    ASSUME NEW S, IsFiniteSet(S), NEW p, \A i \in S : p[i] \in Int, NEW x, NEW b, NEW a,
           b \in S \cup {None}, a \in S \cup {None}
    PROVE  Inserted(S, p, x, b, a) \in [S \cup {x} -> Int]
  <1> DEFINE R == PositionOrder(S, p)
             q == IF HasRoom(p, b, a) THEN [i \in S |-> p[i]] ELSE Renumbered(S, R)
             v == PositionForInsertion(q, b, a)
  <1>1. q \in [S -> Int]
    <2>1. Renumbered(S, R) \in [S -> Int]
      <3> HIDE DEF R
      <3> QED BY RenumberedType
    <2>2. QED
      BY <2>1
  <1>2. Inserted(S, p, x, b, a) = [i \in S \cup {x} |-> IF i = x THEN v ELSE q[i]]
    BY DEF Inserted
  <1>3. v \in Int
    <2> HIDE DEF q
    <2>1. (b # None => q[b] \in Int) /\ (a # None => q[a] \in Int)
      BY <1>1
    <2>2. \A i, j \in Int : /\ i - POSITION_STEP \in Int /\ i + POSITION_STEP \in Int
                            /\ i + ((j - i) \div 2) \in Int
      BY PositionAssumption
    <2>3. POSITION_STEP \in Int
      BY PositionAssumption
    <2>4. CASE b = None /\ a = None
      BY <2>3, <2>4 DEF PositionForInsertion
    <2>5. CASE b = None /\ a # None
      BY <2>1, <2>2, <2>5 DEF PositionForInsertion
    <2>6. CASE b # None /\ a = None
      BY <2>1, <2>2, <2>6 DEF PositionForInsertion
    <2>7. CASE b # None /\ a # None
      BY <2>1, <2>2, <2>7 DEF PositionForInsertion
    <2>8. QED
      BY <2>4, <2>5, <2>6, <2>7
  <1> HIDE DEF q, v
  <1>4. QED
    BY <1>1, <1>2, <1>3

-----------------------------------------------------------------------------
(* Cards, groups and their positions. *)

\* The top-level items of a column are a finite list of rows with positions.
LEMMA ItemFacts ==
    ASSUME ItemsSound
    PROVE  /\ IsFiniteSet(DOMAIN card) /\ IsFiniteSet(DOMAIN group)
           /\ DOMAIN position = DOMAIN card \cup DOMAIN group
           /\ DOMAIN card \cap DOMAIN group = {} /\ None \notin DOMAIN position
           /\ \A i \in DOMAIN position : position[i] \in Int
           /\ \A k : /\ TopLevel(k) \subseteq DOMAIN position
                     /\ IsFiniteSet(TopLevel(k))
           /\ \A g : Members(g) \subseteq DOMAIN card /\ IsFiniteSet(Members(g))
  <1>1. IsFiniteSet(DOMAIN card) /\ IsFiniteSet(DOMAIN group)
    BY IdFacts, FS_Subset DEF ItemsSound
  <1>2. /\ DOMAIN position = DOMAIN card \cup DOMAIN group
        /\ DOMAIN card \cap DOMAIN group = {} /\ None \notin DOMAIN position
        /\ \A i \in DOMAIN position : position[i] \in Int
    BY IdFacts DEF ItemsSound
  <1>3. ASSUME NEW k
        PROVE  TopLevel(k) \subseteq DOMAIN position /\ IsFiniteSet(TopLevel(k))
    <2>1. TopLevel(k) \subseteq DOMAIN position
      BY <1>2 DEF TopLevel, Ungrouped
    <2>2. IsFiniteSet(DOMAIN position)
      BY <1>1, <1>2, FS_Union
    <2>3. QED
      BY <2>1, <2>2, FS_Subset
  <1>4. ASSUME NEW g
        PROVE  Members(g) \subseteq DOMAIN card /\ IsFiniteSet(Members(g))
    <2>1. Members(g) \subseteq DOMAIN card
      BY DEF Members
    <2>2. QED
      BY <1>1, <2>1, FS_Subset
  <1>5. QED
    BY <1>1, <1>2, <1>3, <1>4

\* A move writes positions of rows there are.
LEMMA MoveItemType ==
    ASSUME ItemsSound, NEW x \in DOMAIN position, NEW source, NEW target, NEW b, NEW a, NEW sorted,
           MoveItem(x, source, target, b, a, sorted)
    PROVE  position' \in [DOMAIN position -> Int]
  <1> DEFINE rest == TopLevel(target) \ {x}
             left == TopLevel(source) \ {x}
  <1>1. /\ IsFiniteSet(rest) /\ rest \subseteq DOMAIN position
        /\ IsFiniteSet(left) /\ left \subseteq DOMAIN position
        /\ IsFiniteSet(rest \cup {x})
        /\ position \in [DOMAIN position -> Int]
        /\ \A i \in rest : position[i] \in Int
    <2>1. IsFiniteSet(rest) /\ IsFiniteSet(left)
      BY ItemFacts, FS_RemoveElement
    <2>2. QED
      BY <2>1, ItemFacts, FS_AddElement DEF ItemsSound
  <1>2. CASE MaterializedMove(x, source, target, b, a, sorted)
    <2> DEFINE p == Renumbered(left, ItemOrder(left, source \in sorted))
               q == Renumbered(rest \cup {x}, InsertedOrder(rest, ItemOrder(rest, target \in sorted), x, b))
               w == IF source = target THEN position ELSE Written(position, p)
    <2>1. position' = Written(w, q)
      BY <1>2 DEF MaterializedMove
    <2>2. p \in [left -> Int] /\ q \in [rest \cup {x} -> Int]
      <3> HIDE DEF rest, left
      <3> QED BY <1>1, RenumberedType
    <2> HIDE DEF p, q, rest, left
    <2>3. w \in [DOMAIN position -> Int]
      BY <1>1, <2>2 DEF Written
    <2> HIDE DEF w
    <2>4. QED
      BY <1>1, <2>1, <2>2, <2>3 DEF Written
  <1>3. CASE PositionedMove(x, source, target, b, a)
    <2> DEFINE q == Inserted(rest, position, x, b, a)
    <2>1. position' = Written(position, q) /\ b \in rest \cup {None} /\ a \in rest \cup {None}
      BY <1>3 DEF PositionedMove, Resolves
    <2> HIDE DEF rest
    <2>2. q \in [rest \cup {x} -> Int]
      BY <1>1, <2>1, InsertedType
    <2> HIDE DEF q
    <2>3. QED
      BY <1>1, <2>1, <2>2 DEF Written
  <1>4. QED
    BY <1>2, <1>3 DEF MoveItem

-----------------------------------------------------------------------------
(* What an operation leaves alone stays sound. *)

\* The parts of the invariant that a step leaves alone.
LEMMA Frame ==
    ASSUME Sound
    PROVE  /\ UNCHANGED settings => settings' \in Settings
           /\ IncrementRevision => revision' \in 0 .. MAX_REVISION
           /\ UNCHANGED columnVars => ColumnsSound'
           /\ UNCHANGED itemVars => ItemsSound' /\ GroupsIntact'
           /\ UNCHANGED itemVars /\ DOMAIN voteLimit \subseteq DOMAIN voteLimit' => ItemsInColumns'
           /\ UNCHANGED vote => VotesSound'
           /\ UNCHANGED actionVars /\ DOMAIN card \subseteq DOMAIN card' => ActionItemsSound'
  <1>1. UNCHANGED settings => settings' \in Settings
    BY DEF Sound
  <1>2. IncrementRevision => revision' \in 0 .. MAX_REVISION
    BY ContentAssumption DEF Sound, IncrementRevision
  <1>3. UNCHANGED columnVars => ColumnsSound'
    BY DEF Sound, ColumnsSound, columnVars
  <1>4. UNCHANGED itemVars => ItemsSound' /\ GroupsIntact'
    <2> SUFFICES ASSUME UNCHANGED itemVars
                 PROVE  ItemsSound' /\ GroupsIntact'
      OBVIOUS
    <2>1. ItemsSound'
      BY DEF Sound, ItemsSound, itemVars
    <2>2. card' = card /\ group' = group
      BY DEF itemVars
    <2>3. \A g : Members(g)' = Members(g)
      BY <2>2 DEF Members
    <2>4. GroupsIntact'
      BY <2>2, <2>3 DEF Sound, GroupsIntact
    <2>5. QED
      BY <2>1, <2>4
  <1>5. UNCHANGED itemVars /\ DOMAIN voteLimit \subseteq DOMAIN voteLimit' => ItemsInColumns'
    BY DEF Sound, ItemsInColumns, itemVars
  <1>6. UNCHANGED vote => VotesSound'
    BY DEF Sound, VotesSound
  <1>7. UNCHANGED actionVars /\ DOMAIN card \subseteq DOMAIN card' => ActionItemsSound'
    BY DEF Sound, ActionItemsSound, actionVars
  <1>8. QED
    BY <1>1, <1>2, <1>3, <1>4, <1>5, <1>6, <1>7

\* A step that changes nothing preserves the inductive invariant.
LEMMA StutterSound == Sound /\ UNCHANGED vars => Sound'
  BY Frame DEF Sound, vars, columnVars, itemVars, actionVars

-----------------------------------------------------------------------------
(* Votes. *)

\* Compacting slots leaves a positive slot for every vote, in its column.
LEMMA CompactedType ==
    ASSUME NEW w, DOMAIN w \subseteq Card \X Member, w \in [DOMAIN w -> VoteRow],
           NEW columns, NEW early
    PROVE  Compacted(w, columns, early) \in [DOMAIN w -> VoteRow]
  <1>1. IsFiniteSet(DOMAIN w)
    BY IdFacts, ContentAssumption, FS_Product, FS_Subset
  <1>2. \A u \in DOMAIN w : 1 + SlotRank(w, u, early) \in Nat \ {0}
    <2> SUFFICES ASSUME NEW u \in DOMAIN w
                 PROVE  SlotRank(w, u, early) \in Nat
      OBVIOUS
    <2> DEFINE S == VotesOf(w, w[u].column, u[2])
               B == {t \in S : <<t, u>> \in SlotOrder(w, S, early)}
    <2>1. IsFiniteSet(B)
      BY <1>1, FS_Subset DEF VotesOf
    <2>2. Cardinality(B) \in Nat
      BY <2>1, FS_CardinalityType
    <2>3. QED
      BY <2>2 DEF SlotRank, Rank
  <1>3. QED
    BY <1>2 DEF Compacted, VoteRow

\* Moving votes between columns keeps every vote in its column, with a slot.
LEMMA MoveVotesSound ==
    ASSUME VotesSound, NEW cards, NEW source, NEW target \in Column,
           MoveVotes(cards, source, target)
    PROVE  VotesSound' /\ DOMAIN vote' = DOMAIN vote
  <1>1. CASE vote' = vote
    BY <1>1 DEF VotesSound
  <1>2. CASE ~(source = target \/ cards = {})
    <2> DEFINE w == [u \in DOMAIN vote |->
                       IF u[1] \in cards THEN [vote[u] EXCEPT !.column = target] ELSE vote[u]]
    <2>1. PICK early : vote' = Compacted(w, {source, target}, early)
      BY <1>2 DEF MoveVotes
    <2>2. DOMAIN w \subseteq Card \X Member /\ w \in [DOMAIN w -> VoteRow] /\ DOMAIN w = DOMAIN vote
      BY DEF VotesSound, VoteRow
    <2> HIDE DEF w
    <2>3. vote' \in [DOMAIN w -> VoteRow]
      BY <2>1, <2>2, CompactedType
    <2>4. QED
      BY <2>2, <2>3 DEF VotesSound
  <1>3. QED
    BY <1>1, <1>2 DEF MoveVotes

\* Voting preserves the invariant.
LEMMA VoteForCardSound ==
    ASSUME Sound, NEW m \in Member, NEW c \in Card, VoteForCard(m, c)
    PROVE  Sound'
  <1>1. VotesSound'
    <2>1. PICK slot \in FreeSlots(c, m) :
             vote' = Written(vote, [u \in {<<c, m>>} |-> [column |-> card[c].column, slot |-> slot]])
      BY DEF VoteForCard
    <2>2. card[c].column \in Column
      BY DEF Sound, ItemsSound, CardRow, VoteForCard
    <2>3. slot \in Nat \ {0}
      <3>1. voteLimit[card[c].column] \in Nat
        BY ContentAssumption DEF Sound, ColumnsSound, ItemsInColumns, VoteForCard
      <3>2. QED
        BY <2>1, <3>1 DEF FreeSlots
    <2> DEFINE g == [u \in {<<c, m>>} |-> [column |-> card[c].column, slot |-> slot]]
    <2>4. g \in [{<<c, m>>} -> VoteRow] /\ DOMAIN g = {<<c, m>>}
      BY <2>2, <2>3 DEF VoteRow
    <2> HIDE DEF g
    <2>5. vote' = Written(vote, g)
      BY <2>1 DEF g
    <2>6. vote' \in [DOMAIN vote \cup DOMAIN g -> VoteRow]
      BY <2>4, <2>5, WrittenType DEF Sound, VotesSound
    <2>7. QED
      BY <2>4, <2>6 DEF Sound, VotesSound
  <1>2. QED
    BY <1>1, Frame DEF Sound, VoteForCard, columnVars, itemVars, actionVars

\* Taking a vote back preserves the invariant.
LEMMA RemoveVoteFromCardSound ==
    ASSUME Sound, NEW m \in Member, NEW c \in Card, RemoveVoteFromCard(m, c)
    PROVE  Sound'
  <1>1. VotesSound'
    BY DEF Sound, VotesSound, RemoveVoteFromCard, Restrict
  <1>2. QED
    BY <1>1, Frame DEF Sound, RemoveVoteFromCard, columnVars, itemVars, actionVars

\* Resetting the votes preserves the invariant.
LEMMA ResetBoardVotesSound ==
    ASSUME Sound, NEW m \in Member, ResetBoardVotes(m)
    PROVE  Sound'
  <1>1. VotesSound'
    BY DEF Sound, VotesSound, ResetBoardVotes
  <1>2. QED
    BY <1>1, Frame DEF Sound, ResetBoardVotes, columnVars, itemVars, actionVars

-----------------------------------------------------------------------------
(* Cards. *)

\* Groups whose members, their order and the primary card stay are intact
\* wherever they go together.
LEMMA GroupsKept ==
    ASSUME GroupsIntact, DOMAIN group' \subseteq DOMAIN group,
           \A g \in DOMAIN group' :
              /\ Members(g)' = Members(g)
              /\ group'[g].primary = group[g].primary
              /\ \A d \in Members(g) : /\ card'[d].column = group'[g].column
                                        /\ card'[d].groupPosition = card[d].groupPosition
    PROVE  GroupsIntact'
  <1> SUFFICES ASSUME NEW g \in DOMAIN group'
               PROVE  /\ Cardinality(Members(g)') >= 2
                      /\ group'[g].primary \in Members(g)'
                      /\ \A x, y \in Members(g)' :
                            /\ card'[x].column = group'[g].column
                            /\ card'[x].groupPosition = card'[y].groupPosition => x = y
    BY DEF GroupsIntact
  <1>1. /\ Cardinality(Members(g)) >= 2
        /\ group[g].primary \in Members(g)
        /\ \A x, y \in Members(g) : card[x].groupPosition = card[y].groupPosition => x = y
    BY DEF GroupsIntact
  <1>2. QED
    BY <1>1

\* Creating a card preserves the invariant.
LEMMA CreateCardSound ==
    ASSUME Sound, NEW m \in Member, NEW k \in LiveColumn, NEW c \in Card, CreateCard(m, k, c)
    PROVE  Sound'
  <1> DEFINE row == [x \in {c} |-> [column |-> k, group |-> None, groupPosition |-> 0, createdBy |-> m]]
             f == First(TopLevel(k), PositionOrder(TopLevel(k), position))
             q == Inserted(TopLevel(k), position, c, None, f)
  <1>1. /\ card' = Written(card, row) /\ position' = Written(position, q)
        /\ group' = group /\ c \notin DOMAIN card
    BY DEF CreateCard
  <1>2. row \in [{c} -> CardRow] /\ k \in DOMAIN voteLimit
    BY DEF CardRow, Sound, ColumnsSound, LiveColumn
  <1>3. TopLevel(k) \subseteq DOMAIN position /\ IsFiniteSet(TopLevel(k))
        /\ Ids(TopLevel(k)) /\ \A i \in TopLevel(k) : position[i] \in Int
    BY ItemFacts, IdFacts DEF Sound, ItemsSound, Ids
  <1>4. f \in TopLevel(k) \cup {None}
    <2>1. CASE TopLevel(k) = {}
      BY <2>1 DEF First
    <2>2. CASE TopLevel(k) # {}
      BY <2>2, <1>3, PositionOrderStrict, FirstIsFirst
    <2>3. QED
      BY <2>1, <2>2
  <1>5. q \in [TopLevel(k) \cup {c} -> Int]
    <2> HIDE DEF f
    <2> QED BY <1>3, <1>4, InsertedType
  <1> HIDE DEF f, q
  <1>6. /\ card' \in [DOMAIN card \cup {c} -> CardRow] /\ card'[c] = row[c]
        /\ DOMAIN card' = DOMAIN card \cup {c}
        /\ \A d \in DOMAIN card : card'[d] = card[d]
    <2> HIDE DEF row
    <2>1. DOMAIN row = {c} /\ card \in [DOMAIN card -> CardRow]
      BY <1>2 DEF Sound, ItemsSound
    <2>2. QED
      BY <1>1, <1>2, <2>1, WrittenType
  <1>7. position' \in [DOMAIN card' \cup DOMAIN group' -> Int]
    BY <1>1, <1>3, <1>5, <1>6 DEF Sound, ItemsSound, Written
  <1>8. card'[c].group = None /\ card'[c].column = k
    BY <1>6
  <1> HIDE DEF row
  <1>9. ItemsSound'
    BY <1>1, <1>6, <1>7, <1>8 DEF Sound, ItemsSound
  <1>10. GroupsIntact'
    <2>1. \A g \in DOMAIN group : Members(g)' = Members(g)
      BY <1>6, <1>8, IdFacts DEF Members, Sound, ItemsSound
    <2>2. QED
      BY <1>1, <1>6, <2>1, ItemFacts DEF GroupsIntact, Sound
  <1>11. ItemsInColumns' /\ ColumnsSound'
    <2>1. UNCHANGED columnVars
      BY DEF CreateCard
    <2>2. voteLimit' = voteLimit
      BY <2>1 DEF columnVars
    <2>3. QED
      BY <1>1, <1>2, <1>6, <1>8, <2>1, <2>2, Frame DEF Sound, ItemsInColumns
  <1>12. VotesSound' /\ ActionItemsSound'
    BY <1>6, Frame DEF CreateCard
  <1>13. QED
    BY <1>9, <1>10, <1>11, <1>12, Frame DEF Sound, CreateCard

\* Editing a card preserves the invariant.
LEMMA UpdateCardSound ==
    ASSUME Sound, NEW m \in Member, NEW c \in Card, UpdateCard(m, c)
    PROVE  Sound'
  BY Frame DEF Sound, UpdateCard, columnVars, itemVars, actionVars

\* A card that is not grouped changes columns.
LEMMA MoveCardSound ==
    ASSUME Sound, NEW m \in Member, NEW c \in Card, NEW target \in LiveColumn, NEW b, NEW a, NEW sorted,
           MoveCard(m, c, target, b, a, sorted)
    PROVE  Sound'
  <1>1. /\ c \in DOMAIN card /\ card[c].group = None
        /\ card' = [card EXCEPT ![c].column = target]
        /\ group' = group /\ voteLimit' = voteLimit
        /\ target \in Column /\ target \in DOMAIN voteLimit
    BY DEF MoveCard, columnVars, LiveColumn, Sound, ColumnsSound
  <1>2. /\ card' \in [DOMAIN card -> CardRow] /\ DOMAIN card' = DOMAIN card
        /\ card'[c].column = target /\ card'[c].group = None
        /\ \A d \in DOMAIN card : /\ card'[d].group = card[d].group
                                  /\ card'[d].groupPosition = card[d].groupPosition
                                  /\ d # c => card'[d] = card[d]
    BY <1>1 DEF Sound, ItemsSound, CardRow
  <1>3. position' \in [DOMAIN position -> Int]
    BY <1>1, MoveItemType, ItemFacts DEF MoveCard, Sound
  <1>4. ItemsSound'
    BY <1>1, <1>2, <1>3 DEF Sound, ItemsSound
  <1>5. GroupsIntact'
    <2>1. \A g \in DOMAIN group : Members(g)' = Members(g) /\ c \notin Members(g)
      BY <1>1, <1>2, IdFacts DEF Members, Sound, ItemsSound
    <2>2. \A g \in DOMAIN group : \A d \in Members(g) : d \in DOMAIN card /\ card'[d] = card[d]
      BY <1>2, <2>1 DEF Members
    <2>3. QED
      BY <1>1, <2>1, <2>2 DEF GroupsIntact, Sound
  <1>6. ItemsInColumns'
    BY <1>1, <1>2 DEF Sound, ItemsInColumns
  <1>7. VotesSound'
    BY <1>1, MoveVotesSound DEF MoveCard, Sound
  <1>8. ActionItemsSound'
    BY <1>2, Frame DEF MoveCard
  <1>9. QED
    BY <1>4, <1>5, <1>6, <1>7, <1>8, Frame DEF Sound, MoveCard

\* The order of a group's cards is strict, whatever their group positions.
LEMMA MemberOrderStrict ==
    ASSUME ItemsSound, NEW S, S \subseteq DOMAIN card
    PROVE  IsFiniteSet(S) /\ Ids(S) /\ StrictOrder(S, MemberOrder(S))
  <1> DEFINE p == [c \in S |-> card[c].groupPosition]
  <1>1. IsFiniteSet(S) /\ Ids(S)
    BY ItemFacts, IdFacts, FS_Subset DEF ItemsSound, Ids
  <1>2. \A c \in S : p[c] \in Int
    BY DEF ItemsSound, CardRow
  <1> HIDE DEF p
  <1>3. StrictOrder(S, PositionOrder(S, p))
    BY <1>1, <1>2, PositionOrderStrict
  <1>4. QED
    BY <1>1, <1>3 DEF MemberOrder, p

\* The actions items keep pointing at cards there are.
LEMMA SourcesAmongSound ==
    ASSUME ActionItemsSound, NEW kept, actionItem' = SourcesAmong(kept), DOMAIN card' = kept,
           actionPosition' = actionPosition
    PROVE  ActionItemsSound'
  BY DEF ActionItemsSound, SourcesAmong

\* Deleting a card, the last but one of a group included, preserves the invariant.
LEMMA DeleteCardSound ==
    ASSUME Sound, NEW m \in Member, NEW c \in Card, DeleteCard(m, c)
    PROVE  Sound'
  <1>1. c \in DOMAIN card /\ voteLimit' = voteLimit
    BY DEF DeleteCard, columnVars
  <1>2. /\ DOMAIN card' = DOMAIN card \ {c}
        /\ ItemsSound' /\ GroupsIntact' /\ ItemsInColumns'
    <2>1. CASE card[c].group = None
      <3>1. /\ card' = Restrict(card, DOMAIN card \ {c})
            /\ position' = Restrict(position, DOMAIN position \ {c})
            /\ group' = group
        BY <2>1 DEF DeleteCard
      <3>2. /\ DOMAIN card' = DOMAIN card \ {c} /\ card' \in [DOMAIN card' -> CardRow]
            /\ \A d \in DOMAIN card' : card'[d] = card[d]
            /\ position' \in [DOMAIN card' \cup DOMAIN group' -> Int]
        BY <3>1, <1>1, ItemFacts DEF Restrict, Sound, ItemsSound
      <3>3. ItemsSound' /\ ItemsInColumns'
        BY <1>1, <3>1, <3>2 DEF Sound, ItemsSound, ItemsInColumns
      <3>4. \A g \in DOMAIN group : Members(g)' = Members(g)
        BY <2>1, <3>2, IdFacts DEF Members, Sound, ItemsSound
      <3>5. \A g \in DOMAIN group : \A d \in Members(g) : card'[d] = card[d]
        <4>1. \A g \in DOMAIN group : \A d \in Members(g)' : card'[d] = card[d]
          BY <3>2 DEF Members
        <4>2. QED
          BY <3>4, <4>1
      <3>6. \A g \in DOMAIN group' : /\ g \in DOMAIN group /\ group'[g] = group[g]
                                     /\ Members(g)' = Members(g)
                                     /\ \A d \in Members(g) : card'[d] = card[d]
        BY <3>1, <3>4, <3>5
      <3>7. GroupsIntact'
        BY <3>6, GroupsKept DEF GroupsIntact, Sound
      <3>8. QED
        BY <3>2, <3>3, <3>7
    <2>2. CASE card[c].group # None
      <3>0. PICK g \in DOMAIN group : g = card[c].group
        BY <1>1, <2>2 DEF Sound, ItemsSound
      <3> DEFINE rest == Members(g) \ {c}
      <3>1. c \in Members(g) /\ LeaveGroup(c, g) /\ g # None
        BY <1>1, <2>2, <3>0 DEF Members, DeleteCard
      <3>2. /\ IsFiniteSet(rest) /\ Cardinality(rest) \in Nat /\ Cardinality(rest) >= 1
            /\ rest \subseteq DOMAIN card \ {c}
        <4>1. IsFiniteSet(Members(g)) /\ Cardinality(Members(g)) >= 2
          BY <3>1, ItemFacts DEF Sound, GroupsIntact
        <4>2. Cardinality(Members(g)) \in Nat
          BY <4>1, FS_CardinalityType
        <4>3. IsFiniteSet(rest) /\ Cardinality(rest) = Cardinality(Members(g)) - 1
          BY <3>1, <4>1, FS_RemoveElement
        <4>4. QED
          BY <4>1, <4>2, <4>3 DEF Members
      <3>3. CASE Cardinality(rest) = 1
        <4>1. /\ card' = [x \in DOMAIN card \ {c} |->
                            IF x \in rest
                            THEN [card[x] EXCEPT !.group = None, !.groupPosition = 0]
                            ELSE card[x]]
              /\ group' = Restrict(group, DOMAIN group \ {g})
              /\ position' = [x \in DOMAIN position \ {c, g} |->
                                IF x \in rest THEN position[g] ELSE position[x]]
          BY <3>1, <3>3 DEF LeaveGroup
        <4>2. /\ DOMAIN card' = DOMAIN card \ {c} /\ DOMAIN group' = DOMAIN group \ {g}
              /\ card' \in [DOMAIN card' -> CardRow] /\ group' \in [DOMAIN group' -> GroupRow]
              /\ \A d \in DOMAIN card' : card'[d].column = card[d].column
              /\ \A d \in rest : card'[d].group = None
              /\ \A d \in DOMAIN card' \ rest : card'[d] = card[d]
              /\ \A h \in DOMAIN group' : group'[h] = group[h]
          <5> HIDE DEF rest
          <5>1. DOMAIN group' = DOMAIN group \ {g} /\ \A h \in DOMAIN group' : group'[h] = group[h]
            BY <4>1 DEF Restrict
          <5>2. group' \in [DOMAIN group' -> GroupRow]
            BY <4>1 DEF Restrict, Sound, ItemsSound
          <5>3. card \in [DOMAIN card -> CardRow]
            BY DEF Sound, ItemsSound
          <5>4. \A d \in DOMAIN card : [card[d] EXCEPT !.group = None, !.groupPosition = 0] \in CardRow
            BY <5>3 DEF CardRow
          <5>5. card' \in [DOMAIN card \ {c} -> CardRow] /\ DOMAIN card' = DOMAIN card \ {c}
            BY <4>1, <5>3, <5>4
          <5>6. \A d \in DOMAIN card' \ rest : card'[d] = card[d]
            BY <4>1
          <5>7. \A d \in rest : card'[d].group = None /\ card'[d].column = card[d].column
            BY <4>1, <3>2, <5>3 DEF CardRow
          <5>8. QED
            BY <5>1, <5>2, <5>5, <5>6, <5>7
        <4>3. position' \in [DOMAIN card' \cup DOMAIN group' -> Int]
          <5>1. DOMAIN position \ {c, g} = DOMAIN card' \cup DOMAIN group'
            BY <4>2, <1>1, <3>0, ItemFacts DEF Sound
          <5>2. \A x \in DOMAIN position : position[x] \in Int
            BY ItemFacts DEF Sound
          <5>3. position[g] \in Int
            BY <3>0, <5>2, ItemFacts DEF Sound
          <5> HIDE DEF rest
          <5>4. QED
            BY <4>1, <5>1, <5>2, <5>3
        <4>4. \A d \in DOMAIN card' \ rest : card[d].group # g
          BY <4>2 DEF Members
        <4>5. ItemsSound'
          BY <4>2, <4>3, <4>4 DEF Sound, ItemsSound
        <4>6. ItemsInColumns'
          BY <1>1, <4>2 DEF Sound, ItemsInColumns
        <4>7. \A h \in DOMAIN group' : Members(h)' = Members(h) /\ \A d \in Members(h) : card'[d] = card[d]
          <5> SUFFICES ASSUME NEW h \in DOMAIN group'
                       PROVE  Members(h)' = Members(h) /\ \A d \in Members(h) : card'[d] = card[d]
            OBVIOUS
          <5>1. h # g /\ h # None
            BY <4>2, IdFacts DEF Sound, ItemsSound
          <5>2. \A d \in rest : card[d].group = g /\ card'[d].group = None
            BY <4>2 DEF Members
          <5>3. \A d \in DOMAIN card : card[d].group = h => d \in DOMAIN card' \ rest
            BY <5>1, <5>2, <4>2, <3>0
          <5> HIDE DEF rest
          <5>4. QED
            BY <5>1, <5>2, <5>3, <4>2 DEF Members
        <4>8. \A h \in DOMAIN group' : h \in DOMAIN group /\ group'[h] = group[h]
          BY <4>2
        <4>9. GroupsIntact'
          BY <4>7, <4>8, GroupsKept DEF Sound, GroupsIntact
        <4>10. QED
          BY <4>2, <4>5, <4>6, <4>9
      <3>4. CASE Cardinality(rest) # 1
        <4>1. /\ card' = Restrict(card, DOMAIN card \ {c})
              /\ group' = [group EXCEPT ![g].primary = PrimaryAmong(g, rest)]
              /\ position' = Restrict(position, DOMAIN position \ {c})
          BY <3>1, <3>4 DEF LeaveGroup
        <4>2. PrimaryAmong(g, rest) \in rest
          <5>1. rest # {}
            BY <3>2, FS_EmptySet
          <5>2. StrictOrder(rest, MemberOrder(rest))
            BY <3>2, MemberOrderStrict DEF Sound
          <5> HIDE DEF rest
          <5>3. First(rest, MemberOrder(rest)) \in rest
            BY <3>2, <5>1, <5>2, FirstIsFirst
          <5>4. QED
            BY <5>3 DEF PrimaryAmong
        <4>3. /\ DOMAIN card' = DOMAIN card \ {c} /\ DOMAIN group' = DOMAIN group
              /\ card' \in [DOMAIN card' -> CardRow]
              /\ \A d \in DOMAIN card' : card'[d] = card[d]
              /\ position' \in [DOMAIN card' \cup DOMAIN group' -> Int]
          BY <4>1, <1>1, ItemFacts DEF Restrict, Sound, ItemsSound
        <4>4. /\ group' \in [DOMAIN group' -> GroupRow]
              /\ \A h \in DOMAIN group : group'[h].column = group[h].column
              /\ \A h \in DOMAIN group \ {g} : group'[h] = group[h]
              /\ group'[g].primary = PrimaryAmong(g, rest)
          BY <4>1, <4>2, <3>1, <3>2 DEF Sound, ItemsSound, GroupRow
        <4>5. ItemsSound' /\ ItemsInColumns'
          BY <1>1, <4>3, <4>4 DEF Sound, ItemsSound, ItemsInColumns
        <4>6. Members(g)' = rest /\ \A h \in DOMAIN group \ {g} : Members(h)' = Members(h)
          BY <4>3, <3>0 DEF Members
        <4>7. Cardinality(rest) >= 2
          BY <3>2, <3>4
        <4>8. \A h \in DOMAIN group : Members(h)' \subseteq Members(h) /\ Members(h)' \subseteq DOMAIN card'
          BY <4>6, <4>3 DEF Members
        <4> HIDE DEF rest
        <4>9. GroupsIntact'
          <5> SUFFICES ASSUME NEW h \in DOMAIN group
                       PROVE  /\ Cardinality(Members(h)') >= 2
                              /\ group'[h].primary \in Members(h)'
                              /\ \A x, y \in Members(h)' :
                                    /\ card'[x].column = group'[h].column
                                    /\ card'[x].groupPosition = card'[y].groupPosition => x = y
            BY <4>3 DEF GroupsIntact
          <5>1. \A x, y \in Members(h) :
                   /\ card[x].column = group[h].column
                   /\ card[x].groupPosition = card[y].groupPosition => x = y
            BY DEF Sound, GroupsIntact
          <5>2. \A x \in Members(h)' : x \in Members(h) /\ card'[x] = card[x]
            BY <4>3, <4>8
          <5>3. Cardinality(Members(h)') >= 2 /\ group'[h].primary \in Members(h)'
            <6>1. CASE h = g
              BY <6>1, <4>2, <4>4, <4>6, <4>7
            <6>2. CASE h # g
              BY <6>2, <4>4, <4>6 DEF Sound, GroupsIntact
            <6>3. QED
              BY <6>1, <6>2
          <5>4. QED
            BY <4>4, <5>1, <5>2, <5>3
        <4>10. QED
          BY <4>3, <4>5, <4>9
      <3>5. QED
        BY <3>3, <3>4
    <2>3. QED
      BY <2>1, <2>2
  <1>3. VotesSound'
    BY DEF DeleteCard, Restrict, Sound, VotesSound
  <1>4. ActionItemsSound'
    BY <1>2, SourcesAmongSound DEF DeleteCard, Sound
  <1>5. QED
    BY <1>2, <1>3, <1>4, Frame DEF Sound, DeleteCard

-----------------------------------------------------------------------------
(* Groups. *)

\* Grouping cards preserves the invariant.
LEMMA CreateCardGroupSound ==
    ASSUME Sound, NEW m \in Member, NEW k \in LiveColumn, NEW cards \in SUBSET Ungrouped(k),
           NEW primary \in cards, NEW g \in Group, CreateCardGroup(m, k, cards, primary, g)
    PROVE  Sound'
  <1> DEFINE order == PositionOrder(cards, position)
             row == [x \in {g} |-> [column |-> k, primary |-> primary]]
             place == [x \in {g} |-> GroupPlace(cards, primary)]
  <1>1. /\ Cardinality(cards) \in 2 .. MAX_GROUP_CARDS
        /\ g \notin DOMAIN group
        /\ group' = Written(group, row)
        /\ card' = [c \in DOMAIN card |->
                      IF c \in cards
                      THEN [card[c] EXCEPT !.group = g, !.groupPosition = Renumbered(cards, order)[c]]
                      ELSE card[c]]
        /\ position' = Written(position, place)
        /\ voteLimit' = voteLimit
    BY DEF CreateCardGroup, columnVars
  <1>2. /\ \A c \in cards : c \in DOMAIN card /\ card[c].column = k /\ card[c].group = None
        /\ IsFiniteSet(cards) /\ Ids(cards) /\ cards # {}
        /\ \A c \in cards : position[c] \in Int
        /\ k \in Column /\ k \in DOMAIN voteLimit
    <2>1. \A c \in cards : c \in DOMAIN card /\ card[c].column = k /\ card[c].group = None
      BY DEF Ungrouped
    <2>2. IsFiniteSet(cards) /\ Ids(cards)
      BY <2>1, MemberOrderStrict DEF Sound
    <2>3. \A c \in cards : position[c] \in Int
      BY <2>1, ItemFacts DEF Sound
    <2>4. k \in Column /\ k \in DOMAIN voteLimit
      BY DEF LiveColumn, Sound, ColumnsSound
    <2>5. QED
      BY <2>1, <2>2, <2>3, <2>4
  <1>3. StrictOrder(cards, order)
    BY <1>2, PositionOrderStrict
  <1>4. \A c \in cards : Renumbered(cards, order)[c] \in Nat
    <2> HIDE DEF order
    <2> QED BY <1>2, <1>3, RenumberedKeepsOrder
  <1>5. \A c, d \in cards : Renumbered(cards, order)[c] = Renumbered(cards, order)[d] => c = d
    <2> HIDE DEF order
    <2> SUFFICES ASSUME NEW c \in cards, NEW d \in cards, <<c, d>> \in order
                 PROVE  Renumbered(cards, order)[c] # Renumbered(cards, order)[d]
      BY <1>3 DEF StrictOrder
    <2>1. Renumbered(cards, order)[d] - Renumbered(cards, order)[c] >= POSITION_STEP
      BY <1>2, <1>3, RenumberedKeepsOrder
    <2>2. QED
      BY <2>1, <1>4, PositionAssumption
  <1>6. GroupPlace(cards, primary) \in Int
    BY <1>2, <1>3, FirstIsFirst DEF GroupPlace
  <1> HIDE DEF order
  <1>7. /\ DOMAIN card' = DOMAIN card
        /\ card' \in [DOMAIN card' -> CardRow]
        /\ \A c \in DOMAIN card : card'[c].column = card[c].column
        /\ \A c \in cards : /\ card'[c].group = g
                            /\ card'[c].groupPosition = Renumbered(cards, order)[c]
        /\ \A c \in DOMAIN card \ cards : card'[c] = card[c]
    <2>1. card \in [DOMAIN card -> CardRow]
      BY DEF Sound, ItemsSound
    <2>2. \A c \in cards :
             LET r == [card[c] EXCEPT !.group = g, !.groupPosition = Renumbered(cards, order)[c]]
             IN  /\ r \in CardRow /\ r.column = card[c].column /\ r.group = g
                 /\ r.groupPosition = Renumbered(cards, order)[c]
      BY <1>2, <1>4, <2>1 DEF CardRow
    <2>3. QED
      BY <1>1, <1>2, <2>1, <2>2
  <1>8. /\ DOMAIN group' = DOMAIN group \cup {g}
        /\ group' \in [DOMAIN group' -> GroupRow]
        /\ group'[g].column = k /\ group'[g].primary = primary
        /\ \A h \in DOMAIN group : group'[h] = group[h]
    <2>1. row \in [DOMAIN row -> GroupRow] /\ DOMAIN row = {g} /\ row[g].column = k
          /\ row[g].primary = primary /\ group \in [DOMAIN group -> GroupRow]
      BY <1>2 DEF GroupRow, Sound, ItemsSound
    <2> HIDE DEF row
    <2>2. /\ group' \in [DOMAIN group \cup DOMAIN row -> GroupRow]
          /\ \A x \in DOMAIN row : group'[x] = row[x]
          /\ \A x \in DOMAIN group \ DOMAIN row : group'[x] = group[x]
      BY <1>1, <2>1 DEF Written
    <2>3. QED
      BY <1>1, <2>1, <2>2
  <1>9. position' \in [DOMAIN card' \cup DOMAIN group' -> Int]
    <2>1. place \in [DOMAIN place -> Int] /\ DOMAIN place = {g}
      BY <1>6
    <2>2. position \in [DOMAIN position -> Int] /\ DOMAIN position = DOMAIN card \cup DOMAIN group
      BY ItemFacts DEF Sound, ItemsSound
    <2> HIDE DEF place
    <2>3. position' \in [DOMAIN position \cup DOMAIN place -> Int]
      BY <1>1, <2>1, <2>2, WrittenType
    <2>4. DOMAIN position \cup DOMAIN place = DOMAIN card' \cup DOMAIN group'
      BY <1>7, <1>8, <2>1, <2>2
    <2>5. QED
      BY <2>3, <2>4
  <1>10. ItemsSound' /\ ItemsInColumns'
    <2>1. DOMAIN group' \subseteq Group
      BY <1>8 DEF Sound, ItemsSound
    <2>2. \A c \in DOMAIN card' : card'[c].group \in DOMAIN group' \cup {None}
      BY <1>7, <1>8 DEF Sound, ItemsSound
    <2>3. QED
      BY <1>1, <1>2, <1>7, <1>8, <1>9, <2>1, <2>2 DEF Sound, ItemsSound, ItemsInColumns
  <1>11. Members(g)' = cards
    <2>1. \A c \in DOMAIN card \ cards : card[c].group # g
      BY <1>1, IdFacts DEF Sound, ItemsSound
    <2>2. QED
      BY <1>2, <1>7, <2>1 DEF Members
  <1>12. \A h \in DOMAIN group : Members(h)' = Members(h) /\ \A c \in Members(h) : card'[c] = card[c]
    <2> SUFFICES ASSUME NEW h \in DOMAIN group
                 PROVE  Members(h)' = Members(h) /\ \A c \in Members(h) : card'[c] = card[c]
      OBVIOUS
    <2>1. h # g /\ h # None
      BY <1>1, IdFacts DEF Sound, ItemsSound
    <2>2. QED
      BY <1>2, <1>7, <2>1 DEF Members
  <1>13. GroupsIntact'
    <2> SUFFICES ASSUME NEW h \in DOMAIN group'
                 PROVE  /\ Cardinality(Members(h)') >= 2
                        /\ group'[h].primary \in Members(h)'
                        /\ \A x, y \in Members(h)' :
                              /\ card'[x].column = group'[h].column
                              /\ card'[x].groupPosition = card'[y].groupPosition => x = y
      BY DEF GroupsIntact
    <2>1. CASE h = g
      <3>1. Cardinality(cards) >= 2
        <4>1. MAX_GROUP_CARDS \in Nat
          BY ContentAssumption
        <4>2. Cardinality(cards) \in 2 .. MAX_GROUP_CARDS
          BY <1>1
        <4>3. QED
          BY <4>1, <4>2
      <3>2. \A x, y \in cards :
               /\ card'[x].column = k
               /\ card'[x].groupPosition = card'[y].groupPosition => x = y
        BY <1>2, <1>5, <1>7
      <3>3. QED
        BY <2>1, <3>1, <3>2, <1>8, <1>11
    <2>2. CASE h \in DOMAIN group
      BY <2>2, <1>8, <1>12 DEF Sound, GroupsIntact
    <2>3. QED
      BY <1>8, <2>1, <2>2
  <1>14. ColumnsSound' /\ VotesSound' /\ ActionItemsSound'
    BY <1>7, Frame DEF CreateCardGroup
  <1>15. QED
    BY <1>10, <1>13, <1>14, Frame DEF Sound, CreateCardGroup

\* Editing a group preserves the invariant.
LEMMA UpdateCardGroupSound ==
    ASSUME Sound, NEW m \in Member, NEW g \in DOMAIN group, NEW c \in DOMAIN card,
           UpdateCardGroup(m, g, c)
    PROVE  Sound'
  <1>1. /\ group' = [group EXCEPT ![g].primary = c]
        /\ c \in Members(g)
        /\ card' = card /\ position' = position /\ voteLimit' = voteLimit
    BY DEF UpdateCardGroup, columnVars, Sound, GroupsIntact
  <1>2. /\ DOMAIN group' = DOMAIN group
        /\ group' \in [DOMAIN group -> GroupRow]
        /\ group'[g].primary = c
        /\ \A h \in DOMAIN group : group'[h].column = group[h].column
        /\ \A h \in DOMAIN group \ {g} : group'[h].primary = group[h].primary
    <2>1. c \in Card /\ group \in [DOMAIN group -> GroupRow]
      BY DEF Sound, ItemsSound
    <2>2. QED
      BY <1>1, <2>1 DEF GroupRow
  <1>3. ItemsSound' /\ ItemsInColumns'
    BY <1>1, <1>2 DEF Sound, ItemsSound, ItemsInColumns
  <1>4. \A h : Members(h)' = Members(h)
    BY <1>1 DEF Members
  <1>5. GroupsIntact'
    <2> SUFFICES ASSUME NEW h \in DOMAIN group
                 PROVE  /\ Cardinality(Members(h)) >= 2
                        /\ group'[h].primary \in Members(h)
                        /\ \A x, y \in Members(h) :
                              /\ card[x].column = group'[h].column
                              /\ card[x].groupPosition = card[y].groupPosition => x = y
      BY <1>1, <1>2, <1>4 DEF GroupsIntact
    <2>1. QED
      BY <1>1, <1>2 DEF Sound, GroupsIntact
  <1>6. ColumnsSound' /\ VotesSound' /\ ActionItemsSound'
    BY <1>1, Frame DEF UpdateCardGroup
  <1>7. QED
    BY <1>3, <1>5, <1>6, Frame DEF Sound, UpdateCardGroup

\* Moving a group with all its cards preserves the invariant.
LEMMA MoveCardGroupSound ==
    ASSUME Sound, NEW m \in Member, NEW g \in DOMAIN group, NEW target \in LiveColumn,
           NEW b, NEW a, NEW sorted, MoveCardGroup(m, g, target, b, a, sorted)
    PROVE  Sound'
  <1>1. /\ group' = [group EXCEPT ![g].column = target]
        /\ card' = [c \in DOMAIN card |->
                      IF c \in Members(g) THEN [card[c] EXCEPT !.column = target] ELSE card[c]]
        /\ voteLimit' = voteLimit
        /\ target \in Column /\ target \in DOMAIN voteLimit
    BY DEF MoveCardGroup, columnVars, LiveColumn, Sound, ColumnsSound
  <1>2. /\ DOMAIN card' = DOMAIN card
        /\ card' \in [DOMAIN card -> CardRow]
        /\ \A c \in DOMAIN card : /\ card'[c].group = card[c].group
                                  /\ card'[c].groupPosition = card[c].groupPosition
        /\ \A c \in DOMAIN card : card'[c].column = IF c \in Members(g) THEN target ELSE card[c].column
    <2>1. card \in [DOMAIN card -> CardRow]
      BY DEF Sound, ItemsSound
    <2>2. \A c \in DOMAIN card :
             LET r == [card[c] EXCEPT !.column = target]
             IN  /\ r \in CardRow /\ r.column = target /\ r.group = card[c].group
                 /\ r.groupPosition = card[c].groupPosition
      BY <1>1, <2>1 DEF CardRow
    <2>3. QED
      BY <1>1, <2>1, <2>2
  <1>3. /\ DOMAIN group' = DOMAIN group
        /\ group' \in [DOMAIN group -> GroupRow]
        /\ group'[g].column = target /\ group'[g].primary = group[g].primary
        /\ \A h \in DOMAIN group \ {g} : group'[h] = group[h]
    <2>1. group \in [DOMAIN group -> GroupRow]
      BY DEF Sound, ItemsSound
    <2>2. QED
      BY <1>1, <2>1 DEF GroupRow
  <1>4. position' \in [DOMAIN position -> Int]
    BY MoveItemType, ItemFacts DEF MoveCardGroup, Sound
  <1>5. ItemsSound' /\ ItemsInColumns'
    BY <1>1, <1>2, <1>3, <1>4 DEF Sound, ItemsSound, ItemsInColumns
  <1>6. \A h : Members(h)' = Members(h)
    BY <1>2 DEF Members
  <1>7. \A h \in DOMAIN group : \A c \in Members(h) :
           card'[c].column = group'[h].column /\ card'[c].groupPosition = card[c].groupPosition
    <2> SUFFICES ASSUME NEW h \in DOMAIN group, NEW c \in Members(h)
                 PROVE  card'[c].column = group'[h].column /\ card'[c].groupPosition = card[c].groupPosition
      OBVIOUS
    <2>1. c \in DOMAIN card /\ card[c].group = h /\ card[c].column = group[h].column
      BY DEF Members, Sound, GroupsIntact
    <2>2. c \in Members(g) <=> h = g
      BY <2>1 DEF Members
    <2>3. QED
      BY <1>2, <1>3, <2>1, <2>2
  <1>8. \A h \in DOMAIN group : group'[h].primary = group[h].primary
    BY <1>3
  <1>9. GroupsIntact'
    BY <1>3, <1>6, <1>7, <1>8, GroupsKept DEF Sound
  <1>10. VotesSound'
    BY <1>1, MoveVotesSound DEF MoveCardGroup, Sound
  <1>11. ColumnsSound' /\ ActionItemsSound'
    BY <1>2, Frame DEF MoveCardGroup
  <1>12. QED
    BY <1>5, <1>9, <1>10, <1>11, Frame DEF Sound, MoveCardGroup

\* The members of a group get an integer each.
LEMMA UngroupPositionsType ==
    ASSUME Sound, NEW g \in DOMAIN group
    PROVE  /\ UngroupPositions(g, Members(g)) \in [DOMAIN UngroupPositions(g, Members(g)) -> Int]
           /\ Members(g) \subseteq DOMAIN UngroupPositions(g, Members(g))
           /\ DOMAIN UngroupPositions(g, Members(g)) \subseteq DOMAIN position
  <1> DEFINE members == Members(g)
             items == TopLevel(group[g].column)
             order == PositionOrder(items, position)
             later == {i \in items : <<g, i>> \in order}
             next == First(later, PositionOrder(later, position))
             n == Cardinality(members)
             gap == position[next] - position[g]
             rank == [c \in members |-> Rank(members, MemberOrder(members), c)]
             others == items \ {g}
             split == PositionOrder(others, position) \cup MemberOrder(members)
                         \cup ((others \ later) \X members) \cup (members \X later)
             p1 == [c \in members |-> position[g] + rank[c] * POSITION_STEP]
             p2 == [c \in members |-> position[g] + ((gap * rank[c]) \div n)]
             p3 == Renumbered(others \cup members, split)
  <1>1. UngroupPositions(g, members) =
           IF later = {} /\ position[g] + (n - 1) * POSITION_STEP <= MAX_POSITION THEN p1
           ELSE IF later # {} /\ gap > n - 1 THEN p2 ELSE p3
    BY DEF UngroupPositions
  <1>2. /\ members \subseteq DOMAIN position /\ IsFiniteSet(members)
        /\ n \in Nat /\ n >= 2 /\ position[g] \in Int
        /\ IsFiniteSet(others) /\ others \subseteq DOMAIN position
    <2>1. IsFiniteSet(members) /\ n >= 2 /\ IsFiniteSet(items) /\ items \subseteq DOMAIN position
          /\ members \subseteq DOMAIN position
      BY ItemFacts DEF Sound, GroupsIntact
    <2>2. n \in Nat /\ IsFiniteSet(others)
      BY <2>1, FS_CardinalityType, FS_RemoveElement
    <2>3. QED
      BY <2>1, <2>2, ItemFacts DEF Sound
  <1>3. \A c \in members : rank[c] \in Nat
    BY <1>2, MemberOrderStrict, RankBound, ItemFacts DEF StrictOrder, Sound
  <1>4. later # {} => gap \in Int
    <2> SUFFICES ASSUME later # {}
                 PROVE  gap \in Int
      OBVIOUS
    <2>1. IsFiniteSet(later) /\ later \subseteq DOMAIN position
      BY ItemFacts, FS_Subset DEF Sound
    <2>2. Ids(later) /\ \A i \in later : position[i] \in Int
      BY <2>1, IdFacts, ItemFacts DEF Sound, ItemsSound, Ids
    <2>3. StrictOrder(later, PositionOrder(later, position))
      <3> HIDE DEF later
      <3> QED BY <2>2, PositionOrderStrict
    <2>4. next \in later
      <3> HIDE DEF later
      <3> QED BY <2>1, <2>3, FirstIsFirst
    <2> HIDE DEF next, later
    <2>5. QED
      BY <1>2, <2>2, <2>4
  <1>5. p3 \in [others \cup members -> Int]
    <2>1. IsFiniteSet(others \cup members)
      BY <1>2, FS_Union
    <2> HIDE DEF others, members, split
    <2>2. QED
      BY <2>1, RenumberedType
  <1> HIDE DEF members, n, rank, gap, later, others, p3
  <1>6. p1 \in [members -> Int]
    <2>1. \A r \in Nat : position[g] + r * POSITION_STEP \in Int
      BY <1>2, PositionAssumption
    <2>2. QED
      BY <1>3, <2>1
  <1>7. later # {} => p2 \in [members -> Int]
    <2> SUFFICES ASSUME later # {}
                 PROVE  p2 \in [members -> Int]
      OBVIOUS
    <2>1. \A r \in Nat : gap * r \in Int
      BY <1>4
    <2>2. \A i \in Int : i \div n \in Int
      BY <1>2
    <2>3. \A r \in Nat : position[g] + ((gap * r) \div n) \in Int
      BY <1>2, <2>1, <2>2
    <2>4. QED
      BY <1>3, <2>3
  <1> HIDE DEF p1, p2
  <1>8. QED
    BY <1>1, <1>2, <1>5, <1>6, <1>7 DEF members

\* Ungrouping preserves the invariant.
LEMMA UngroupCardGroupSound ==
    ASSUME Sound, NEW m \in Member, NEW g \in DOMAIN group, UngroupCardGroup(m, g)
    PROVE  Sound'
  <1> DEFINE members == Members(g)
             q == UngroupPositions(g, members)
  <1>1. /\ position' = Restrict(Written(position, q), DOMAIN position \ {g})
        /\ card' = [c \in DOMAIN card |->
                      IF c \in members
                      THEN [card[c] EXCEPT !.group = None, !.groupPosition = 0]
                      ELSE card[c]]
        /\ group' = Restrict(group, DOMAIN group \ {g})
        /\ voteLimit' = voteLimit
    BY DEF UngroupCardGroup, columnVars
  <1>2. q \in [DOMAIN q -> Int] /\ DOMAIN q \subseteq DOMAIN position
    BY UngroupPositionsType
  <1>3. \A c \in members : c \in DOMAIN card /\ card[c].group = g
    BY DEF Members
  <1> HIDE DEF q
  <1>4. /\ DOMAIN card' = DOMAIN card
        /\ card' \in [DOMAIN card -> CardRow]
        /\ \A c \in DOMAIN card : card'[c].column = card[c].column
        /\ \A c \in members : card'[c].group = None
        /\ \A c \in DOMAIN card \ members : card'[c] = card[c]
    <2>1. card \in [DOMAIN card -> CardRow]
      BY DEF Sound, ItemsSound
    <2>2. \A c \in DOMAIN card :
             LET r == [card[c] EXCEPT !.group = None, !.groupPosition = 0]
             IN  r \in CardRow /\ r.group = None /\ r.column = card[c].column
      BY <2>1 DEF CardRow
    <2> HIDE DEF members
    <2>3. QED
      BY <1>1, <1>3, <2>1, <2>2
  <1>5. /\ DOMAIN group' = DOMAIN group \ {g}
        /\ group' \in [DOMAIN group' -> GroupRow]
        /\ \A h \in DOMAIN group' : group'[h] = group[h]
    BY <1>1 DEF Restrict, Sound, ItemsSound
  <1>6. position' \in [DOMAIN card' \cup DOMAIN group' -> Int]
    <2>1. DOMAIN position \ {g} = DOMAIN card' \cup DOMAIN group'
      BY <1>4, <1>5, ItemFacts DEF Sound
    <2>2. position \in [DOMAIN position -> Int]
      BY ItemFacts DEF Sound, ItemsSound
    <2>3. Written(position, q) \in [DOMAIN position -> Int]
      BY <1>2, <2>2 DEF Written
    <2>4. QED
      BY <1>1, <2>1, <2>3 DEF Restrict
  <1>7. ItemsSound' /\ ItemsInColumns'
    <2>1. \A c \in DOMAIN card \ members : card[c].group # g
      BY DEF Members
    <2> HIDE DEF members
    <2>2. \A c \in DOMAIN card' : card'[c].group \in DOMAIN group' \cup {None}
      BY <1>3, <1>4, <1>5, <2>1 DEF Sound, ItemsSound
    <2>3. QED
      BY <1>1, <1>4, <1>5, <1>6, <2>2 DEF Sound, ItemsSound, ItemsInColumns
  <1>8. \A h \in DOMAIN group' : Members(h)' = Members(h) /\ \A c \in Members(h) : card'[c] = card[c]
    <2> SUFFICES ASSUME NEW h \in DOMAIN group'
                 PROVE  Members(h)' = Members(h) /\ \A c \in Members(h) : card'[c] = card[c]
      OBVIOUS
    <2>1. h # g /\ h # None
      BY <1>5, IdFacts DEF Sound, ItemsSound
    <2> HIDE DEF members
    <2>2. \A c \in DOMAIN card : card[c].group = h <=> card'[c].group = h
      BY <1>3, <1>4, <2>1
    <2>3. \A c \in Members(h) : c \in DOMAIN card \ members
      BY <1>3, <2>1 DEF Members
    <2>4. QED
      BY <1>4, <2>2, <2>3 DEF Members
  <1>9. GroupsIntact'
    BY <1>5, <1>8, GroupsKept DEF Sound, GroupsIntact
  <1>10. ColumnsSound' /\ VotesSound' /\ ActionItemsSound'
    BY <1>4, Frame DEF UngroupCardGroup
  <1>11. QED
    BY <1>7, <1>9, <1>10, Frame DEF Sound, UngroupCardGroup

-----------------------------------------------------------------------------
(* Columns. *)

\* The columns are a finite list of rows with positions.
LEMMA ColumnFacts ==
    ASSUME ColumnsSound
    PROVE  /\ IsFiniteSet(LiveColumn) /\ Ids(LiveColumn) /\ Cardinality(LiveColumn) \in Nat
           /\ \A k \in LiveColumn : columnPosition[k] \in Int /\ voteLimit[k] \in Nat
           /\ LiveColumn = DOMAIN voteLimit /\ LiveColumn \subseteq Column
  <1>1. LiveColumn = DOMAIN voteLimit /\ LiveColumn \subseteq Column
    BY DEF LiveColumn, ColumnsSound
  <1>2. IsFiniteSet(LiveColumn) /\ Ids(LiveColumn)
    BY <1>1, IdFacts, FS_Subset DEF Ids
  <1>3. MAX_VOTE_LIMIT \in Nat
    BY ContentAssumption
  <1>4. \A k \in LiveColumn : columnPosition[k] \in Int /\ voteLimit[k] \in Nat
    BY <1>1, <1>3 DEF ColumnsSound
  <1>5. QED
    BY <1>1, <1>2, <1>4, FS_CardinalityType

\* Creating a column preserves the invariant.
LEMMA CreateBoardColumnSound ==
    ASSUME Sound, NEW m \in Member, NEW k \in Column, NEW limit \in 0 .. MAX_VOTE_LIMIT,
           NEW b, NEW a, CreateBoardColumn(m, k, limit, b, a)
    PROVE  Sound'
  <1> DEFINE S == LiveColumn
             row == [x \in {k} |-> limit]
             q == Inserted(S, columnPosition, k, b, a)
  <1>1. /\ columnPosition' = q /\ voteLimit' = Written(voteLimit, row)
        /\ b \in S \cup {None} /\ a \in S \cup {None}
        /\ UNCHANGED <<settings, itemVars, vote, actionVars>>
        /\ IncrementRevision
    BY DEF CreateBoardColumn, Resolves
  <1>2. q \in [S \cup {k} -> Int]
    <2> HIDE DEF S
    <2> QED BY <1>1, ColumnFacts, InsertedType DEF Sound, S
  <1>3. voteLimit' \in [S \cup {k} -> 0 .. MAX_VOTE_LIMIT] /\ DOMAIN voteLimit' = S \cup {k}
    BY <1>1 DEF Written, Sound, ColumnsSound, LiveColumn
  <1> HIDE DEF q
  <1>4. ColumnsSound'
    BY <1>1, <1>2, <1>3, ColumnFacts DEF Sound, ColumnsSound
  <1>5. DOMAIN voteLimit \subseteq DOMAIN voteLimit' /\ card' = card
    BY <1>1, <1>3 DEF LiveColumn, itemVars
  <1>6. QED
    BY <1>1, <1>4, <1>5, Frame DEF Sound

\* Changing a vote limit preserves the invariant.
LEMMA UpdateBoardColumnSound ==
    ASSUME Sound, NEW m \in Member, NEW k \in Column, NEW limit \in 0 .. MAX_VOTE_LIMIT,
           UpdateBoardColumn(m, k, limit)
    PROVE  Sound'
  <1>1. /\ voteLimit' = [voteLimit EXCEPT ![k] = limit] /\ columnPosition' = columnPosition
        /\ UNCHANGED <<settings, itemVars, actionVars>>
        /\ IncrementRevision
        /\ vote' = Compacted(vote, {k}, {}) \/ vote' = vote
    BY DEF UpdateBoardColumn
  <1>2. ColumnsSound' /\ DOMAIN voteLimit' = DOMAIN voteLimit
    BY <1>1 DEF Sound, ColumnsSound
  <1>3. VotesSound'
    <2>1. CASE vote' = vote
      BY <2>1, Frame
    <2>2. CASE vote' = Compacted(vote, {k}, {})
      <3>1. vote' \in [DOMAIN vote -> VoteRow]
        BY <2>2, CompactedType DEF Sound, VotesSound
      <3>2. QED
        BY <3>1 DEF Sound, VotesSound
    <2>3. QED
      BY <1>1, <2>1, <2>2
  <1>4. card' = card
    BY <1>1 DEF itemVars
  <1>5. QED
    BY <1>1, <1>2, <1>3, <1>4, Frame DEF Sound

\* Moving a column preserves the invariant.
LEMMA MoveBoardColumnSound ==
    ASSUME Sound, NEW m \in Member, NEW k \in Column, NEW b, NEW a, MoveBoardColumn(m, k, b, a)
    PROVE  Sound'
  <1> DEFINE rest == LiveColumn \ {k}
             q == Inserted(rest, columnPosition, k, b, a)
  <1>1. /\ columnPosition' = q /\ voteLimit' = voteLimit /\ k \in LiveColumn
        /\ b \in rest \cup {None} /\ a \in rest \cup {None}
        /\ UNCHANGED <<settings, itemVars, vote, actionVars>>
        /\ IncrementRevision
    BY DEF MoveBoardColumn, Resolves
  <1>2. IsFiniteSet(rest) /\ \A i \in rest : columnPosition[i] \in Int
    BY ColumnFacts, FS_RemoveElement DEF Sound
  <1>3. q \in [rest \cup {k} -> Int]
    <2> HIDE DEF rest
    <2> QED BY <1>1, <1>2, InsertedType
  <1> HIDE DEF q
  <1>4. rest \cup {k} = DOMAIN voteLimit
    BY <1>1 DEF LiveColumn
  <1>5. ColumnsSound'
    BY <1>1, <1>3, <1>4 DEF Sound, ColumnsSound
  <1>6. card' = card
    BY <1>1 DEF itemVars
  <1>7. QED
    BY <1>1, <1>5, <1>6, Frame DEF Sound

\* A column goes, but never the last one.
LEMMA ColumnGoneSound ==
    ASSUME Sound, NEW k \in LiveColumn, ColumnGone(k), Cardinality(LiveColumn) > 1
    PROVE  ColumnsSound' /\ DOMAIN voteLimit' = DOMAIN voteLimit \ {k}
  <1>1. LiveColumn \ {k} # {}
    <2>1. Cardinality(LiveColumn \ {k}) = Cardinality(LiveColumn) - 1 /\ IsFiniteSet(LiveColumn \ {k})
      BY ColumnFacts, FS_RemoveElement DEF Sound
    <2>2. Cardinality(LiveColumn \ {k}) # 0
      BY <2>1, ColumnFacts DEF Sound
    <2>3. QED
      BY <2>2, FS_EmptySet
  <1>2. QED
    BY <1>1 DEF ColumnGone, Restrict, Sound, ColumnsSound, LiveColumn

\* A group's primary card is in the group's column.
LEMMA GroupInItsColumn ==
    ASSUME GroupsIntact, NEW g \in DOMAIN group
    PROVE  /\ group[g].primary \in DOMAIN card
           /\ card[group[g].primary].column = group[g].column
           /\ card[group[g].primary].group = g
  <1>1. group[g].primary \in Members(g) /\ \A c \in Members(g) : card[c].column = group[g].column
    BY DEF GroupsIntact
  <1>2. QED
    BY <1>1 DEF Members

\* Deleting an empty column preserves the invariant.
LEMMA DeleteEmptyColumnSound ==
    ASSUME Sound, NEW m \in Member, NEW k \in Column, DeleteEmptyColumn(m, k)
    PROVE  Sound'
  <1>1. /\ k \in LiveColumn /\ Cardinality(LiveColumn) > 1 /\ ColumnGone(k)
        /\ CardsIn(k) = {} /\ UNCHANGED <<settings, itemVars, vote, actionVars>>
        /\ IncrementRevision /\ card' = card /\ group' = group
    BY DEF DeleteEmptyColumn, MayDeleteColumn, itemVars
  <1>2. ColumnsSound' /\ DOMAIN voteLimit' = DOMAIN voteLimit \ {k}
    BY <1>1, ColumnGoneSound
  <1>3. \A c \in DOMAIN card : card[c].column # k
    BY <1>1 DEF CardsIn
  <1>4. \A g \in DOMAIN group : group[g].column # k
    BY <1>3, GroupInItsColumn DEF Sound
  <1>5. ItemsInColumns'
    BY <1>1, <1>2, <1>3, <1>4 DEF Sound, ItemsInColumns
  <1>6. QED
    BY <1>1, <1>2, <1>5, Frame DEF Sound

\* What is appended are the items that move and perhaps those of the target.
LEMMA AppendedType ==
    ASSUME Sound, NEW k, NEW target
    PROVE  /\ Appended(k, target) \in [DOMAIN Appended(k, target) -> Int]
           /\ DOMAIN Appended(k, target) \subseteq DOMAIN position
  <1> DEFINE moved == TopLevel(k)
             kept == TopLevel(target)
             keptOrder == PositionOrder(kept, position)
             movedOrder == PositionOrder(moved, position)
             last == IF kept = {} THEN 0
                     ELSE position[CHOOSE i \in kept : \A j \in kept \ {i} : <<j, i>> \in keptOrder]
             p == [i \in moved |-> last + Renumbered(moved, movedOrder)[i]]
             q == Renumbered(kept \cup moved, keptOrder \cup movedOrder \cup (kept \X moved))
  <1>1. Appended(k, target) = IF last + Cardinality(moved) * POSITION_STEP <= MAX_POSITION THEN p ELSE q
    BY DEF Appended
  <1>2. /\ IsFiniteSet(moved) /\ moved \subseteq DOMAIN position
        /\ IsFiniteSet(kept) /\ kept \subseteq DOMAIN position
        /\ \A i \in DOMAIN position : position[i] \in Int
        /\ IsFiniteSet(kept \cup moved)
    <2>1. /\ IsFiniteSet(moved) /\ moved \subseteq DOMAIN position
          /\ IsFiniteSet(kept) /\ kept \subseteq DOMAIN position
          /\ \A i \in DOMAIN position : position[i] \in Int
      BY ItemFacts DEF Sound
    <2>2. QED
      BY <2>1, FS_Union
  <1>3. last \in Int
    <2>1. CASE kept = {}
      BY <2>1
    <2>2. CASE kept # {}
      <3>1. \E i \in kept : \A j \in kept \ {i} : <<j, i>> \in keptOrder
        <4>1. Ids(kept)
          BY <1>2, ItemFacts, IdFacts DEF Sound, ItemsSound, Ids
        <4> HIDE DEF kept
        <4>2. QED
          BY <1>2, <2>2, <4>1, LastExists
      <3> HIDE DEF keptOrder, kept
      <3>2. QED
        BY <1>2, <2>2, <3>1
    <2>3. QED
      BY <2>1, <2>2
  <1>4. q \in [kept \cup moved -> Int] /\ Renumbered(moved, movedOrder) \in [moved -> Int]
    <2> HIDE DEF kept, moved, keptOrder, movedOrder
    <2> QED BY <1>2, RenumberedType
  <1> HIDE DEF last, q, moved, kept, movedOrder
  <1>5. p \in [moved -> Int]
    BY <1>3, <1>4
  <1> HIDE DEF p
  <1>6. QED
    BY <1>1, <1>2, <1>4, <1>5

\* Deleting a column and moving its cards preserves the invariant.
LEMMA DeleteColumnMovingCardsSound ==
    ASSUME Sound, NEW m \in Member, NEW k \in Column, NEW target \in Column,
           DeleteColumnMovingCards(m, k, target)
    PROVE  Sound'
  <1> DEFINE q == Appended(k, target)
  <1>1. /\ k \in LiveColumn /\ Cardinality(LiveColumn) > 1 /\ ColumnGone(k)
        /\ target \in LiveColumn \ {k}
        /\ MoveVotes(CardsIn(k), k, target)
        /\ card' = [c \in DOMAIN card |->
                      IF c \in CardsIn(k) THEN [card[c] EXCEPT !.column = target] ELSE card[c]]
        /\ group' = [g \in DOMAIN group |->
                       IF group[g].column = k THEN [group[g] EXCEPT !.column = target] ELSE group[g]]
        /\ position' = Written(position, q)
        /\ IncrementRevision /\ UNCHANGED <<settings, actionVars>>
    BY DEF DeleteColumnMovingCards, MayDeleteColumn
  <1>2. ColumnsSound' /\ DOMAIN voteLimit' = DOMAIN voteLimit \ {k} /\ target \in DOMAIN voteLimit'
    BY <1>1, ColumnGoneSound DEF LiveColumn
  <1>3. /\ DOMAIN card' = DOMAIN card
        /\ card' \in [DOMAIN card -> CardRow]
        /\ \A c \in DOMAIN card :
              /\ card'[c].group = card[c].group /\ card'[c].groupPosition = card[c].groupPosition
              /\ card'[c].column = IF card[c].column = k THEN target ELSE card[c].column
    <2>1. card \in [DOMAIN card -> CardRow]
      BY DEF Sound, ItemsSound
    <2>2. \A c \in DOMAIN card :
             LET r == [card[c] EXCEPT !.column = target]
             IN  /\ r \in CardRow /\ r.column = target /\ r.group = card[c].group
                 /\ r.groupPosition = card[c].groupPosition
      BY <2>1 DEF CardRow
    <2>3. \A c \in DOMAIN card : c \in CardsIn(k) <=> card[c].column = k
      BY DEF CardsIn
    <2>4. QED
      BY <1>1, <2>1, <2>2, <2>3
  <1>4. /\ DOMAIN group' = DOMAIN group
        /\ group' \in [DOMAIN group -> GroupRow]
        /\ \A g \in DOMAIN group :
              /\ group'[g].primary = group[g].primary
              /\ group'[g].column = IF group[g].column = k THEN target ELSE group[g].column
    <2>1. group \in [DOMAIN group -> GroupRow]
      BY DEF Sound, ItemsSound
    <2>2. \A g \in DOMAIN group :
             LET r == [group[g] EXCEPT !.column = target]
             IN  r \in GroupRow /\ r.column = target /\ r.primary = group[g].primary
      BY <2>1 DEF GroupRow
    <2>3. QED
      BY <1>1, <2>1, <2>2
  <1>5. position' \in [DOMAIN position -> Int]
    <2>1. q \in [DOMAIN q -> Int] /\ DOMAIN q \subseteq DOMAIN position
      BY AppendedType
    <2> HIDE DEF q
    <2>2. QED
      BY <1>1, <2>1 DEF Written, Sound, ItemsSound
  <1>6. ItemsSound' /\ ItemsInColumns'
    BY <1>2, <1>3, <1>4, <1>5 DEF Sound, ItemsSound, ItemsInColumns
  <1>7. \A g : Members(g)' = Members(g)
    BY <1>3 DEF Members
  <1>8. \A g \in DOMAIN group : \A c \in Members(g) :
           card'[c].column = group'[g].column /\ card'[c].groupPosition = card[c].groupPosition
    <2>1. \A g \in DOMAIN group : \A c \in Members(g) : c \in DOMAIN card /\ card[c].column = group[g].column
      BY DEF Sound, GroupsIntact, Members
    <2>2. QED
      BY <1>3, <1>4, <2>1
  <1>9. GroupsIntact'
    BY <1>4, <1>7, <1>8, GroupsKept DEF Sound
  <1>10. VotesSound'
    BY <1>1, MoveVotesSound DEF Sound
  <1>11. ActionItemsSound'
    BY <1>1, <1>3, Frame
  <1>12. QED
    BY <1>1, <1>2, <1>6, <1>9, <1>10, <1>11, Frame DEF Sound

\* Deleting a column with its cards preserves the invariant.
LEMMA DeleteColumnAndCardsSound ==
    ASSUME Sound, NEW m \in Member, NEW k \in Column, DeleteColumnAndCards(m, k)
    PROVE  Sound'
  <1> DEFINE kept == {c \in DOMAIN card : card[c].column # k}
             keptGroups == {g \in DOMAIN group : group[g].column # k}
  <1>1. /\ k \in LiveColumn /\ Cardinality(LiveColumn) > 1 /\ ColumnGone(k)
        /\ card' = Restrict(card, kept) /\ group' = Restrict(group, keptGroups)
        /\ position' = Restrict(position, kept \cup keptGroups)
        /\ vote' = Restrict(vote, {u \in DOMAIN vote : vote[u].column # k /\ u[1] \in kept})
        /\ actionItem' = SourcesAmong(kept) /\ actionPosition' = actionPosition
        /\ IncrementRevision /\ settings' = settings
    BY DEF DeleteColumnAndCards, MayDeleteColumn
  <1>2. ColumnsSound' /\ DOMAIN voteLimit' = DOMAIN voteLimit \ {k}
    BY <1>1, ColumnGoneSound
  <1>3. /\ DOMAIN card' = kept /\ card' \in [kept -> CardRow]
        /\ \A c \in kept : card'[c] = card[c]
        /\ DOMAIN group' = keptGroups /\ group' \in [keptGroups -> GroupRow]
        /\ \A g \in keptGroups : group'[g] = group[g]
        /\ position' \in [kept \cup keptGroups -> Int]
    BY <1>1 DEF Restrict, Sound, ItemsSound
  <1>4. \A g \in keptGroups : Members(g)' = Members(g) /\ \A c \in Members(g) : c \in kept
    <2>1. \A g \in DOMAIN group : \A c \in Members(g) : c \in DOMAIN card /\ card[c].column = group[g].column
      BY DEF Sound, GroupsIntact, Members
    <2>2. \A g \in keptGroups : \A c \in Members(g) : c \in kept
      BY <2>1
    <2>3. QED
      BY <1>3, <2>2 DEF Members
  <1>5. \A c \in kept : card[c].group \in keptGroups \cup {None}
    <2> SUFFICES ASSUME NEW c \in kept, card[c].group # None
                 PROVE  card[c].group \in keptGroups
      OBVIOUS
    <2>1. card[c].group \in DOMAIN group
      BY DEF Sound, ItemsSound
    <2>2. c \in Members(card[c].group)
      BY DEF Members
    <2>3. card[c].column = group[card[c].group].column
      BY <2>1, <2>2 DEF Sound, GroupsIntact
    <2>4. QED
      BY <2>1, <2>3
  <1>6. ItemsSound' /\ ItemsInColumns'
    BY <1>2, <1>3, <1>5 DEF Sound, ItemsSound, ItemsInColumns
  <1>7. GroupsIntact'
    BY <1>3, <1>4, GroupsKept DEF Sound, GroupsIntact
  <1>8. VotesSound'
    BY <1>1 DEF Restrict, Sound, VotesSound
  <1>9. ActionItemsSound'
    BY <1>1, <1>3, SourcesAmongSound DEF Sound
  <1>10. QED
    BY <1>1, <1>2, <1>6, <1>7, <1>8, <1>9, Frame DEF Sound

-----------------------------------------------------------------------------
(* Action items and settings. *)

\* The action items are a finite list of rows with positions.
LEMMA ActionItemFacts ==
    ASSUME ActionItemsSound
    PROVE  /\ IsFiniteSet(DOMAIN actionItem) /\ Ids(DOMAIN actionItem)
           /\ \A i \in DOMAIN actionItem : actionPosition[i] \in Int
  BY IdFacts, FS_Subset DEF ActionItemsSound, Ids

\* Creating an action item preserves the invariant.
LEMMA CreateActionItemSound ==
    ASSUME Sound, NEW m \in Member, NEW i \in ActionItem, NEW source, CreateActionItem(m, i, source)
    PROVE  Sound'
  <1> DEFINE S == DOMAIN actionItem
             f == First(S, ActionOrder(S))
             q == Inserted(S, actionPosition, i, None, f)
             row == [x \in {i} |-> source]
  <1>1. /\ actionItem' = Written(actionItem, row) /\ actionPosition' = q
        /\ source \in ActionSources
        /\ UNCHANGED <<settings, columnVars, itemVars, vote>> /\ IncrementRevision /\ card' = card
    BY DEF CreateActionItem, itemVars
  <1>2. IsFiniteSet(S) /\ Ids(S) /\ \A j \in S : actionPosition[j] \in Int
    BY ActionItemFacts DEF Sound
  <1> HIDE DEF S
  <1>3. f \in S \cup {None}
    <2>1. CASE S = {}
      BY <2>1 DEF First
    <2>2. CASE S # {}
      BY <2>2, <1>2, PositionOrderStrict, FirstIsFirst DEF ActionOrder
    <2>3. QED
      BY <2>1, <2>2
  <1> HIDE DEF f
  <1>4. q \in [S \cup {i} -> Int]
    BY <1>2, <1>3, InsertedType
  <1> HIDE DEF q
  <1>5. source \in DOMAIN card \cup {None}
    BY <1>1, GroupInItsColumn DEF ActionSources, Sound
  <1>6. actionItem' \in [S \cup {i} -> DOMAIN card \cup {None}] /\ DOMAIN actionItem' = S \cup {i}
    BY <1>1, <1>5 DEF Written, S, Sound, ActionItemsSound
  <1>7. ActionItemsSound'
    BY <1>1, <1>4, <1>6 DEF S, Sound, ActionItemsSound
  <1>8. QED
    BY <1>1, <1>7, Frame DEF Sound, columnVars

\* Editing an action item preserves the invariant.
LEMMA UpdateActionItemSound ==
    ASSUME Sound, NEW m \in Member, NEW i \in ActionItem, UpdateActionItem(m, i)
    PROVE  Sound'
  BY Frame DEF Sound, UpdateActionItem, columnVars, itemVars, actionVars

\* Moving an action item preserves the invariant.
LEMMA MoveActionItemSound ==
    ASSUME Sound, NEW m \in Member, NEW i \in ActionItem, NEW b, NEW a, MoveActionItem(m, i, b, a)
    PROVE  Sound'
  <1> DEFINE rest == DOMAIN actionItem \ {i}
             q == Inserted(rest, actionPosition, i, b, a)
  <1>1. /\ actionPosition' = q /\ actionItem' = actionItem /\ i \in DOMAIN actionItem
        /\ b \in rest \cup {None} /\ a \in rest \cup {None}
        /\ UNCHANGED <<settings, columnVars, itemVars, vote>> /\ IncrementRevision /\ card' = card
    BY DEF MoveActionItem, Resolves, itemVars
  <1>2. IsFiniteSet(rest) /\ \A j \in rest : actionPosition[j] \in Int
    BY ActionItemFacts, FS_RemoveElement DEF Sound
  <1>3. q \in [rest \cup {i} -> Int]
    <2> HIDE DEF rest
    <2> QED BY <1>1, <1>2, InsertedType
  <1> HIDE DEF q
  <1>4. rest \cup {i} = DOMAIN actionItem
    BY <1>1
  <1>5. ActionItemsSound'
    BY <1>1, <1>3, <1>4 DEF Sound, ActionItemsSound
  <1>6. QED
    BY <1>1, <1>5, Frame DEF Sound, columnVars

\* Deleting an action item preserves the invariant.
LEMMA DeleteActionItemSound ==
    ASSUME Sound, NEW m \in Member, NEW i \in ActionItem, DeleteActionItem(m, i)
    PROVE  Sound'
  <1>1. /\ actionItem' = Restrict(actionItem, DOMAIN actionItem \ {i})
        /\ actionPosition' = Restrict(actionPosition, DOMAIN actionItem \ {i})
        /\ UNCHANGED <<settings, columnVars, itemVars, vote>> /\ IncrementRevision /\ card' = card
    BY DEF DeleteActionItem, itemVars
  <1>2. ActionItemsSound'
    BY <1>1 DEF Restrict, Sound, ActionItemsSound
  <1>3. QED
    BY <1>1, <1>2, Frame DEF Sound, columnVars

\* Changing the settings preserves the invariant.
LEMMA UpdateBoardSettingsSound ==
    ASSUME Sound, NEW m \in Member, NEW s \in Settings, UpdateBoardSettings(m, s)
    PROVE  Sound'
  BY Frame DEF Sound, UpdateBoardSettings, columnVars, itemVars, actionVars

-----------------------------------------------------------------------------
(* All operations. *)

\* Every step preserves the inductive invariant: one case for each operation.
LEMMA NextSound == Sound /\ [Next]_vars => Sound'
  <1> SUFFICES ASSUME Sound, [Next]_vars
               PROVE  Sound'
    OBVIOUS
  <1>1. CASE UNCHANGED vars
    BY <1>1, StutterSound
  <1>2. ASSUME NEW m \in Member, CardOperation(m)
        PROVE  Sound'
    BY <1>2, CreateCardSound, UpdateCardSound, DeleteCardSound, MoveCardSound
       DEF CardOperation, Sound, ItemsSound
  <1>3. ASSUME NEW m \in Member, VoteOperation(m)
        PROVE  Sound'
    BY <1>3, VoteForCardSound, RemoveVoteFromCardSound, ResetBoardVotesSound DEF VoteOperation
  <1>4. ASSUME NEW m \in Member, GroupOperation(m)
        PROVE  Sound'
    BY <1>4, CreateCardGroupSound, UpdateCardGroupSound, UngroupCardGroupSound, MoveCardGroupSound
       DEF GroupOperation
  <1>5. ASSUME NEW m \in Member, ColumnOperation(m)
        PROVE  Sound'
    BY <1>5, CreateBoardColumnSound, UpdateBoardColumnSound, MoveBoardColumnSound,
       DeleteEmptyColumnSound, DeleteColumnMovingCardsSound, DeleteColumnAndCardsSound
       DEF ColumnOperation
  <1>6. ASSUME NEW m \in Member, ActionItemOperation(m)
        PROVE  Sound'
    BY <1>6, CreateActionItemSound, UpdateActionItemSound, MoveActionItemSound, DeleteActionItemSound
       DEF ActionItemOperation
  <1>7. ASSUME NEW m \in Member, SettingsOperation(m)
        PROVE  Sound'
    BY <1>7, UpdateBoardSettingsSound DEF SettingsOperation
  <1>8. QED
    BY <1>1, <1>2, <1>3, <1>4, <1>5, <1>6, <1>7 DEF Next

\* The inductive invariant holds of every reachable state.
THEOREM SoundInvariant == Spec => []Sound
  BY InitSound, NextSound, PTL DEF Spec

\* Every row keeps the shape its table gives it.
THEOREM TypeCorrect == Spec => []TypeOK
  BY SoundInvariant, SoundImplies, PTL

\* No operation leaves a card, a group, a vote's card or an action item pointing
\* at a row that is gone.
THEOREM ReferencesAlwaysResolve == Spec => []ReferencesResolve
  BY SoundInvariant, SoundImplies, PTL

\* Every group always has two cards or more, in its column and in a strict order,
\* one of them its primary card.
THEOREM GroupsAlwaysIntact == Spec => []GroupsIntact
  <1>1. Sound => GroupsIntact
    BY DEF Sound
  <1>2. QED
    BY <1>1, SoundInvariant, PTL

-----------------------------------------------------------------------------
(* Slots. *)

\* ROW_NUMBER() in compactVoteSlots orders a visitor's votes strictly.
LEMMA SlotOrderStrict ==
    ASSUME NEW w, DOMAIN w \subseteq Card \X Member, w \in [DOMAIN w -> VoteRow],
           NEW k, NEW v, NEW early
    PROVE  /\ IsFiniteSet(VotesOf(w, k, v))
           /\ StrictOrder(VotesOf(w, k, v), SlotOrder(w, VotesOf(w, k, v), early))
  <1> DEFINE S == VotesOf(w, k, v)
             R == SlotOrder(w, S, early)
  <1>1. IsFiniteSet(S)
    BY IdFacts, ContentAssumption, FS_Product, FS_Subset DEF VotesOf
  <1>2. \A u \in S : u = <<u[1], v>> /\ u[1] \in Nat /\ w[u].slot \in Int
    BY IdFacts DEF VotesOf, VoteRow, Ids
  <1>3. \A t, u \in S : <<t, u>> \in R <=>
           \/ w[t].slot < w[u].slot
           \/ /\ w[t].slot = w[u].slot
              /\ \/ t \in early /\ u \notin early
                 \/ (t \in early <=> u \in early) /\ t[1] < u[1]
    BY DEF SlotOrder
  <1> HIDE DEF R, S
  <1>4. \A t \in S : <<t, t>> \notin R
    BY <1>2, <1>3
  <1>5. \A s, t, u \in S : <<s, t>> \in R /\ <<t, u>> \in R => <<s, u>> \in R
    BY <1>2, <1>3
  <1>6. \A t, u \in S : t = u \/ <<t, u>> \in R \/ <<u, t>> \in R
    <2> SUFFICES ASSUME NEW t \in S, NEW u \in S, <<t, u>> \notin R, <<u, t>> \notin R
                 PROVE  t = u
      OBVIOUS
    <2>1. t[1] = u[1]
      BY <1>2, <1>3
    <2>2. QED
      BY <1>2, <2>1
  <1>7. QED
    BY <1>1, <1>4, <1>5, <1>6 DEF StrictOrder, R, S

\* Compaction gives a visitor's votes in a column different slots, none above
\* their number, and leaves votes elsewhere alone.
LEMMA CompactedQuota ==
    ASSUME NEW w, DOMAIN w \subseteq Card \X Member, w \in [DOMAIN w -> VoteRow],
           NEW columns, NEW early
    PROVE  LET x == Compacted(w, columns, early)
           IN  /\ DOMAIN x = DOMAIN w
               /\ \A u \in DOMAIN w : x[u].column = w[u].column
               /\ \A u \in DOMAIN w : w[u].column \notin columns => x[u] = w[u]
               /\ \A u \in DOMAIN w : w[u].column \in columns =>
                     x[u].slot <= Cardinality(VotesOf(w, w[u].column, u[2]))
               /\ \A t, u \in DOMAIN w :
                     w[u].column \in columns /\ t[2] = u[2] /\ x[t] = x[u] => t = u
  <1> DEFINE x == Compacted(w, columns, early)
  <1>1. DOMAIN x = DOMAIN w
    BY DEF Compacted
  <1>2. \A u \in DOMAIN w : w[u].column \notin columns => x[u] = w[u]
    BY DEF Compacted
  <1>3. \A u \in DOMAIN w : w[u].column \in columns =>
           x[u].column = w[u].column /\ x[u].slot = 1 + SlotRank(w, u, early)
    BY DEF Compacted, VoteRow
  <1> HIDE DEF x
  <1>4. ASSUME NEW u \in DOMAIN w, w[u].column \in columns
        PROVE  /\ x[u].slot <= Cardinality(VotesOf(w, w[u].column, u[2]))
               /\ SlotRank(w, u, early) \in Nat
    <2> DEFINE S == VotesOf(w, w[u].column, u[2])
               R == SlotOrder(w, S, early)
    <2>1. IsFiniteSet(S) /\ StrictOrder(S, R)
      BY SlotOrderStrict
    <2>2. u \in S
      BY DEF VotesOf
    <2>3. SlotRank(w, u, early) = Rank(S, R, u)
      BY DEF SlotRank
    <2> HIDE DEF S, R
    <2>4. Rank(S, R, u) \in Nat /\ Rank(S, R, u) < Cardinality(S) /\ Cardinality(S) \in Nat
      BY <2>1, <2>2, RankBound, FS_CardinalityType DEF StrictOrder
    <2>5. QED
      BY <1>3, <1>4, <2>3, <2>4 DEF S
  <1>5. ASSUME NEW t \in DOMAIN w, NEW u \in DOMAIN w, w[u].column \in columns, t[2] = u[2], x[t] = x[u]
        PROVE  t = u
    <2> DEFINE S == VotesOf(w, w[u].column, u[2])
               R == SlotOrder(w, S, early)
    <2>1. w[t].column = w[u].column
      BY <1>2, <1>3, <1>5
    <2>2. 1 + SlotRank(w, t, early) = 1 + SlotRank(w, u, early)
      BY <1>3, <1>5, <2>1
    <2>3. SlotRank(w, t, early) = SlotRank(w, u, early)
      BY <1>4, <1>5, <2>1, <2>2
    <2>4. t \in S /\ u \in S
      BY <1>5, <2>1 DEF VotesOf
    <2>5. SlotRank(w, t, early) = Rank(S, R, t) /\ SlotRank(w, u, early) = Rank(S, R, u)
      BY <1>5, <2>1 DEF SlotRank
    <2>6. IsFiniteSet(S) /\ StrictOrder(S, R)
      BY SlotOrderStrict
    <2> HIDE DEF S, R
    <2>7. QED
      BY <2>3, <2>4, <2>5, <2>6, RankInjective
  <1>6. \A u \in DOMAIN w : x[u].column = w[u].column
    BY <1>2, <1>3
  <1>7. QED
    BY <1>1, <1>2, <1>4, <1>5, <1>6 DEF x

\* A visitor's votes in a column are no more than its limit, because their slots
\* differ and are within it.
LEMMA WithinQuota ==
    ASSUME Sound, QuotaRespected, NEW k \in LiveColumn, NEW v \in Member
    PROVE  Cardinality(VotesOf(vote, k, v)) <= voteLimit[k]
  <1> DEFINE S == VotesOf(vote, k, v)
             T == 1 .. voteLimit[k]
             f == [u \in S |-> vote[u].slot]
  <1>1. voteLimit[k] \in Nat
    BY ColumnFacts DEF Sound
  <1>2. \A u \in S : u \in DOMAIN vote /\ u[2] = v /\ vote[u].column = k /\ vote[u] \in VoteRow
    BY DEF VotesOf, Sound, VotesSound
  <1>3. f \in [S -> T]
    BY <1>1, <1>2 DEF QuotaRespected, VoteRow
  <1>4. \A t, u \in S : f[t] = f[u] => t = u
    BY <1>2 DEF QuotaRespected, VoteRow
  <1>5. f \in Injection(S, T)
    BY <1>3, <1>4 DEF Injection, IsInjective
  <1>6. IsFiniteSet(T) /\ Cardinality(T) = voteLimit[k]
    BY <1>1, FS_Interval
  <1> HIDE DEF S, T, f
  <1>7. Cardinality(S) <= Cardinality(T)
    BY <1>5, <1>6, FS_Injection
  <1>8. QED
    BY <1>6, <1>7 DEF S

-----------------------------------------------------------------------------
(* The invariant after a step.  A step keeps it in one of three ways. *)

\* By deleting votes only, while the cards of the others stay in their columns
\* and no limit is lowered.
LEMMA FewerVotesQuota ==
    ASSUME Sound, Sound', QuotaRespected,
           DOMAIN vote' \subseteq DOMAIN vote,
           \A u \in DOMAIN vote' :
              /\ vote'[u] = vote[u]
              /\ u[1] \in DOMAIN card' /\ card'[u[1]].column = card[u[1]].column
              /\ voteLimit[vote[u].column] <= voteLimit'[vote[u].column]
    PROVE  QuotaRespected'
  <1>1. ASSUME NEW u \in DOMAIN vote'
        PROVE  vote'[u].slot <= voteLimit'[vote'[u].column]
    <2>1. /\ vote[u].column = card[u[1]].column /\ u[1] \in DOMAIN card
          /\ vote[u].slot <= voteLimit[vote[u].column]
      BY <1>1 DEF QuotaRespected
    <2>2. vote[u].slot \in Nat
      BY <1>1 DEF Sound, VotesSound, VoteRow
    <2>3. vote[u].column \in LiveColumn
      BY <2>1 DEF Sound, ItemsInColumns, LiveColumn
    <2>4. vote'[u].column \in DOMAIN voteLimit'
      BY <1>1, <2>1 DEF Sound, ItemsInColumns
    <2>5. voteLimit[vote[u].column] \in Nat /\ voteLimit'[vote[u].column] \in Nat
      BY <1>1, <2>3, <2>4, ContentAssumption, ColumnFacts DEF Sound, ColumnsSound
    <2>6. QED
      BY <1>1, <2>1, <2>2, <2>5
  <1>2. QED
    BY <1>1 DEF QuotaRespected

\* By leaving every vote alone, the cards that have votes in their columns, and
\* the limits of the columns there were.
LEMMA SameVotesQuota ==
    ASSUME Sound, Sound', QuotaRespected, vote' = vote,
           DOMAIN card \subseteq DOMAIN card',
           \A c \in DOMAIN card : card'[c].column = card[c].column,
           \A k \in LiveColumn : k \in DOMAIN voteLimit' => voteLimit'[k] = voteLimit[k]
    PROVE  QuotaRespected'
  <1>1. ASSUME NEW u \in DOMAIN vote'
        PROVE  /\ u[1] \in DOMAIN card' /\ card'[u[1]].column = card[u[1]].column
               /\ voteLimit[vote[u].column] <= voteLimit'[vote[u].column]
    <2>1. u[1] \in DOMAIN card /\ vote[u].column = card[u[1]].column
      BY <1>1 DEF QuotaRespected
    <2>2. card'[u[1]].column \in DOMAIN voteLimit'
      BY <2>1 DEF Sound, ItemsInColumns
    <2>3. vote[u].column \in LiveColumn
      BY <2>1 DEF Sound, ItemsInColumns, LiveColumn
    <2>4. voteLimit[vote[u].column] \in Nat
      BY <2>3, ColumnFacts DEF Sound
    <2>5. QED
      BY <2>1, <2>2, <2>3, <2>4
  <1>2. QED
    BY <1>1, FewerVotesQuota

\* By moving cards to another column with their votes, after the check that no
\* visitor would exceed the limit there.
LEMMA MoveVotesQuota ==
    ASSUME Sound, QuotaRespected,
           NEW cards, cards \subseteq DOMAIN card,
           NEW source \in LiveColumn, NEW target \in LiveColumn,
           \A c \in cards : card[c].column = source,
           MoveVotes(cards, source, target),
           DOMAIN card' = DOMAIN card,
           \A c \in DOMAIN card :
              card'[c].column = IF c \in cards THEN target ELSE card[c].column,
           \A k \in LiveColumn \ {source} : voteLimit'[k] = voteLimit[k],
           voteLimit'[source] = voteLimit[source] \/ (cards = CardsIn(source) /\ source # target)
    PROVE  QuotaRespected'
  <1> DEFINE Mine(u) == {t \in DOMAIN vote : t[1] \in cards /\ t[2] = u[2]}
  <1>1. \A u \in DOMAIN vote :
           /\ u[1] \in DOMAIN card /\ vote[u].column = card[u[1]].column
           /\ vote[u].column \in LiveColumn /\ vote[u].slot <= voteLimit[vote[u].column]
           /\ u[2] \in Member
    BY DEF QuotaRespected, Sound, ItemsInColumns, VotesSound, LiveColumn
  <1>2. CASE source = target \/ cards = {}
    <2>1. vote' = vote
      BY <1>2 DEF MoveVotes
    <2>2. \A c \in DOMAIN card : card'[c].column = card[c].column
      BY <1>2
    <2>3. \A u \in DOMAIN vote : voteLimit'[vote[u].column] = voteLimit[vote[u].column]
      <3> SUFFICES ASSUME NEW u \in DOMAIN vote
                   PROVE  voteLimit'[vote[u].column] = voteLimit[vote[u].column]
        OBVIOUS
      <3>1. CASE vote[u].column # source
        BY <1>1, <3>1
      <3>2. CASE vote[u].column = source
        BY <1>1, <1>2, <3>2 DEF CardsIn
      <3>3. QED
        BY <3>1, <3>2
    <2>4. QED
      BY <1>1, <2>1, <2>2, <2>3 DEF QuotaRespected
  <1>3. CASE source # target /\ cards # {}
    <2> DEFINE w == [u \in DOMAIN vote |->
                       IF u[1] \in cards THEN [vote[u] EXCEPT !.column = target] ELSE vote[u]]
    <2>1. PICK early : vote' = Compacted(w, {source, target}, early)
      BY <1>3 DEF MoveVotes
    <2>2. WithinTargetLimit(cards, target)
      BY <1>3 DEF MoveVotes
    <2>3. DOMAIN w \subseteq Card \X Member /\ w \in [DOMAIN w -> VoteRow] /\ DOMAIN w = DOMAIN vote
      BY DEF Sound, VotesSound, VoteRow, LiveColumn, ColumnsSound
    <2>4. \A u \in DOMAIN vote :
             /\ u[1] \in cards => w[u].column = target
             /\ u[1] \notin cards => w[u] = vote[u]
      BY DEF Sound, VotesSound, VoteRow
    <2> HIDE DEF w
    <2>5. /\ DOMAIN vote' = DOMAIN vote
          /\ \A u \in DOMAIN vote : vote'[u].column = w[u].column
          /\ \A u \in DOMAIN vote : w[u].column \notin {source, target} => vote'[u] = w[u]
          /\ \A u \in DOMAIN vote : w[u].column \in {source, target} =>
                vote'[u].slot <= Cardinality(VotesOf(w, w[u].column, u[2]))
          /\ \A t, u \in DOMAIN vote :
                w[u].column \in {source, target} /\ t[2] = u[2] /\ vote'[t] = vote'[u] => t = u
      BY <2>1, <2>3, CompactedQuota
    <2>6. \A u \in DOMAIN vote : vote'[u].column = card'[u[1]].column
      BY <1>1, <2>4, <2>5
    <2>7. VotesSound'
      BY <2>1, MoveVotesSound DEF Sound, LiveColumn, ColumnsSound
    <2>8. IsFiniteSet(DOMAIN vote)
      BY IdFacts, ContentAssumption, FS_Product, FS_Subset DEF Sound, VotesSound
    <2>9. \A k \in LiveColumn : voteLimit[k] \in Nat
      BY ColumnFacts DEF Sound
    <2>10. ASSUME NEW u \in DOMAIN vote, w[u].column = source
           PROVE  vote'[u].slot <= voteLimit'[source]
      <3> DEFINE S == VotesOf(w, source, u[2])
                 T == VotesOf(vote, source, u[2])
      <3>1. u[1] \notin cards /\ card[u[1]].column = source
        BY <1>1, <1>3, <2>4, <2>10
      <3>2. voteLimit'[source] = voteLimit[source]
        BY <1>1, <3>1 DEF CardsIn
      <3>3. S \subseteq T /\ IsFiniteSet(T)
        <4>1. IsFiniteSet(T)
          BY <2>8, FS_Subset DEF VotesOf
        <4>2. S \subseteq T
          BY <1>3, <2>3, <2>4 DEF VotesOf
        <4>3. QED
          BY <4>1, <4>2
      <3>4. Cardinality(T) <= voteLimit[source]
        BY <1>1, WithinQuota
      <3>5. vote'[u].slot <= Cardinality(S)
        BY <2>5, <2>10
      <3>6. vote'[u].slot \in Nat
        BY <2>5, <2>7 DEF VotesSound, VoteRow
      <3> HIDE DEF S, T
      <3>7. Cardinality(S) <= Cardinality(T) /\ Cardinality(S) \in Nat /\ Cardinality(T) \in Nat
        BY <3>3, FS_Subset, FS_CardinalityType
      <3>8. QED
        BY <2>9, <3>2, <3>4, <3>5, <3>6, <3>7
    <2>11. ASSUME NEW u \in DOMAIN vote, w[u].column = target
           PROVE  vote'[u].slot <= voteLimit'[target]
      <3> DEFINE S == VotesOf(w, target, u[2])
                 T == VotesOf(vote, target, u[2])
                 M == Mine(u)
      <3>1. voteLimit'[target] = voteLimit[target]
        BY <1>3
      <3>2. IsFiniteSet(M) /\ IsFiniteSet(T)
        BY <2>8, FS_Subset DEF VotesOf
      <3>3. S \subseteq M \cup T
        BY <2>3, <2>4 DEF VotesOf
      <3>4. Cardinality(M) + Cardinality(T) <= voteLimit[target]
        BY <1>1, <2>2 DEF WithinTargetLimit
      <3>5. vote'[u].slot <= Cardinality(S)
        BY <2>5, <2>11
      <3>6. vote'[u].slot \in Nat
        BY <2>5, <2>7 DEF VotesSound, VoteRow
      <3> HIDE DEF S, T, M
      <3>7. /\ IsFiniteSet(M \cup T)
            /\ Cardinality(M \cup T) = Cardinality(M) + Cardinality(T) - Cardinality(M \cap T)
        BY <3>2, FS_Union
      <3>8. IsFiniteSet(M \cap T) /\ IsFiniteSet(S) /\ Cardinality(S) <= Cardinality(M \cup T)
        BY <3>2, <3>3, <3>7, FS_Subset
      <3>9. /\ Cardinality(S) \in Nat /\ Cardinality(M) \in Nat /\ Cardinality(T) \in Nat
            /\ Cardinality(M \cap T) \in Nat /\ Cardinality(M \cup T) \in Nat
        BY <3>2, <3>7, <3>8, FS_CardinalityType
      <3>10. QED
        BY <2>9, <3>1, <3>4, <3>5, <3>6, <3>7, <3>8, <3>9
    <2>12. ASSUME NEW u \in DOMAIN vote, w[u].column \notin {source, target}
           PROVE  vote'[u] = vote[u] /\ vote'[u].slot <= voteLimit'[vote'[u].column]
      <3>1. u[1] \notin cards
        BY <2>4, <2>12
      <3>2. vote'[u] = vote[u] /\ vote[u].column # source
        BY <2>4, <2>5, <2>12, <3>1
      <3>3. QED
        BY <1>1, <3>2
    <2>13. \A u \in DOMAIN vote : vote'[u].slot <= voteLimit'[vote'[u].column]
      BY <2>5, <2>10, <2>11, <2>12
    <2>14. ASSUME NEW t \in DOMAIN vote, NEW u \in DOMAIN vote, t[2] = u[2], vote'[t] = vote'[u]
           PROVE  t = u
      <3>1. CASE w[u].column \in {source, target}
        BY <2>5, <2>14, <3>1
      <3>2. CASE w[u].column \notin {source, target}
        <4>1. w[t].column \notin {source, target}
          BY <2>5, <2>14, <3>2
        <4>2. vote[t] = vote[u]
          BY <2>12, <2>14, <3>2, <4>1
        <4>3. QED
          BY <2>14, <4>2 DEF QuotaRespected
      <3>3. QED
        BY <3>1, <3>2
    <2>15. QED
      BY <1>1, <2>5, <2>6, <2>13, <2>14 DEF QuotaRespected
  <1>4. QED
    BY <1>2, <1>3

-----------------------------------------------------------------------------
(* The operations. *)

\* A new vote takes a slot its visitor does not use yet.
LEMMA VoteForCardQuota ==
    ASSUME Sound, QuotaRespected, NEW m \in Member, NEW c \in Card, VoteForCard(m, c)
    PROVE  QuotaRespected'
  <1> DEFINE k == card[c].column
             new == <<c, m>>
  <1>1. /\ c \in DOMAIN card /\ new \notin DOMAIN vote
        /\ card' = card /\ voteLimit' = voteLimit
    BY DEF VoteForCard, itemVars, columnVars
  <1>2. PICK slot \in FreeSlots(c, m) :
           vote' = Written(vote, [u \in {new} |-> [column |-> k, slot |-> slot]])
    BY DEF VoteForCard
  <1>3. slot <= voteLimit[k] /\ \A u \in VotesOf(vote, k, m) : vote[u].slot # slot
    <2>1. k \in LiveColumn /\ voteLimit[k] \in Nat
      BY <1>1, ColumnFacts DEF Sound, ItemsInColumns
    <2>2. QED
      BY <1>2, <2>1 DEF FreeSlots
  <1>4. /\ DOMAIN vote' = DOMAIN vote \cup {new}
        /\ vote'[new] = [column |-> k, slot |-> slot]
        /\ \A u \in DOMAIN vote : vote'[u] = vote[u]
    BY <1>1, <1>2 DEF Written
  <1>5. new[1] = c /\ new[2] = m
    OBVIOUS
  <1> HIDE DEF new, k
  <1>6. \A u \in DOMAIN vote' :
           /\ u[1] \in DOMAIN card
           /\ vote'[u].column = card[u[1]].column
           /\ vote'[u].slot <= voteLimit[vote'[u].column]
    BY <1>1, <1>3, <1>4, <1>5 DEF QuotaRespected, k
  <1>7. \A t \in DOMAIN vote : t[2] = m => vote[t] # vote'[new]
    <2> SUFFICES ASSUME NEW t \in DOMAIN vote, t[2] = m, vote[t] = vote'[new]
                 PROVE  FALSE
      OBVIOUS
    <2>1. vote[t].column = k /\ vote[t].slot = slot
      BY <1>4
    <2>2. QED
      BY <1>3, <2>1 DEF VotesOf
  <1>8. \A t, u \in DOMAIN vote' : t[2] = u[2] /\ vote'[t] = vote'[u] => t = u
    BY <1>4, <1>5, <1>7 DEF QuotaRespected
  <1>9. QED
    BY <1>1, <1>6, <1>8 DEF QuotaRespected

\* A vote taken back leaves the others.
LEMMA RemoveVoteQuota ==
    ASSUME Sound, Sound', QuotaRespected, NEW m \in Member, NEW c \in Card,
           RemoveVoteFromCard(m, c)
    PROVE  QuotaRespected'
  <1>1. DOMAIN vote' \subseteq DOMAIN vote /\ \A u \in DOMAIN vote' : vote'[u] = vote[u]
    BY DEF RemoveVoteFromCard, Restrict
  <1>2. card' = card /\ voteLimit' = voteLimit
    BY DEF RemoveVoteFromCard, itemVars, columnVars
  <1>3. \A u \in DOMAIN vote : /\ u[1] \in DOMAIN card
                               /\ voteLimit[vote[u].column] \in Nat
    BY ColumnFacts DEF QuotaRespected, Sound, ItemsInColumns
  <1>4. QED
    BY <1>1, <1>2, <1>3, FewerVotesQuota

\* A deleted card takes its votes along and the others stay in their columns,
\* also those that leave the group it dissolves.
LEMMA DeleteCardQuota ==
    ASSUME Sound, Sound', QuotaRespected, NEW m \in Member, NEW c \in Card, DeleteCard(m, c)
    PROVE  QuotaRespected'
  <1>1. /\ voteLimit' = voteLimit
        /\ vote' = Restrict(vote, {u \in DOMAIN vote : u[1] # c})
    BY DEF DeleteCard, columnVars
  <1>2. \A d \in DOMAIN card \ {c} : d \in DOMAIN card' /\ card'[d].column = card[d].column
    <2>1. CASE card[c].group = None
      BY <2>1 DEF DeleteCard, Restrict
    <2>2. CASE card[c].group # None
      <3>1. LeaveGroup(c, card[c].group)
        BY <2>2 DEF DeleteCard
      <3>2. card \in [DOMAIN card -> CardRow]
        BY DEF Sound, ItemsSound
      <3> DEFINE rest == Members(card[c].group) \ {c}
      <3>3. CASE Cardinality(rest) = 1
        <4>1. card' = [x \in DOMAIN card \ {c} |->
                         IF x \in rest
                         THEN [card[x] EXCEPT !.group = None, !.groupPosition = 0]
                         ELSE card[x]]
          BY <3>1, <3>3 DEF LeaveGroup
        <4> HIDE DEF rest
        <4>2. QED
          BY <3>2, <4>1 DEF CardRow
      <3>4. CASE Cardinality(rest) # 1
        <4>1. card' = Restrict(card, DOMAIN card \ {c})
          BY <3>1, <3>4 DEF LeaveGroup
        <4>2. QED
          BY <4>1 DEF Restrict
      <3>5. QED
        BY <3>3, <3>4
    <2>3. QED
      BY <2>1, <2>2
  <1>3. \A u \in DOMAIN vote : /\ u[1] \in DOMAIN card
                               /\ voteLimit[vote[u].column] \in Nat
    BY ColumnFacts DEF QuotaRespected, Sound, ItemsInColumns
  <1>4. /\ DOMAIN vote' = {u \in DOMAIN vote : u[1] # c}
        /\ \A u \in DOMAIN vote' : vote'[u] = vote[u]
    BY <1>1 DEF Restrict
  <1>5. \A u \in DOMAIN vote' : u \in DOMAIN vote /\ u[1] \in DOMAIN card \ {c}
    BY <1>3, <1>4
  <1>6. \A u \in DOMAIN vote' :
           /\ vote'[u] = vote[u]
           /\ u[1] \in DOMAIN card' /\ card'[u[1]].column = card[u[1]].column
           /\ voteLimit[vote[u].column] <= voteLimit'[vote[u].column]
    BY <1>1, <1>2, <1>3, <1>4, <1>5
  <1>7. QED
    BY <1>5, <1>6, FewerVotesQuota

\* A moved card takes its votes to the other column.
LEMMA MoveCardQuota ==
    ASSUME Sound, QuotaRespected, NEW m \in Member, NEW c \in Card, NEW target \in LiveColumn,
           NEW b, NEW a, NEW sorted, MoveCard(m, c, target, b, a, sorted)
    PROVE  QuotaRespected'
  <1>0. PICK source \in LiveColumn : source = card[c].column
    BY DEF MoveCard, Sound, ItemsInColumns, LiveColumn
  <1>1. /\ c \in DOMAIN card /\ card' = [card EXCEPT ![c].column = target]
        /\ voteLimit' = voteLimit /\ MoveVotes({c}, source, target)
    BY <1>0 DEF MoveCard, columnVars
  <1>2. /\ DOMAIN card' = DOMAIN card
        /\ \A d \in DOMAIN card : card'[d].column = IF d \in {c} THEN target ELSE card[d].column
    BY <1>1 DEF Sound, ItemsSound, CardRow
  <1>3. {c} \subseteq DOMAIN card /\ \A d \in {c} : card[d].column = source
    BY <1>0, <1>1
  <1>4. QED
    <2>0. PICK cards : cards = {c}
      OBVIOUS
    <2>1. /\ cards \subseteq DOMAIN card /\ \A d \in cards : card[d].column = source
          /\ MoveVotes(cards, source, target)
          /\ \A d \in DOMAIN card : card'[d].column = IF d \in cards THEN target ELSE card[d].column
      BY <1>1, <1>2, <1>3, <2>0
    <2>2. source \in LiveColumn /\ target \in LiveColumn
      BY <1>0
    <2>3. /\ \A k \in LiveColumn \ {source} : voteLimit'[k] = voteLimit[k]
          /\ voteLimit'[source] = voteLimit[source] \/ (cards = CardsIn(source) /\ source # target)
          /\ DOMAIN card' = DOMAIN card
      BY <1>1, <1>2
    <2>4. QED
      BY <2>1, <2>2, <2>3, MoveVotesQuota

\* A moved group takes the votes of its cards to the other column.
LEMMA MoveCardGroupQuota ==
    ASSUME Sound, QuotaRespected, NEW m \in Member, NEW g \in Group, NEW target \in LiveColumn,
           NEW b, NEW a, NEW sorted, MoveCardGroup(m, g, target, b, a, sorted)
    PROVE  QuotaRespected'
  <1>0. PICK source \in LiveColumn : source = group[g].column
    BY DEF MoveCardGroup, Sound, ItemsInColumns, LiveColumn
  <1>1. /\ g \in DOMAIN group
        /\ card' = [c \in DOMAIN card |->
                      IF c \in Members(g) THEN [card[c] EXCEPT !.column = target] ELSE card[c]]
        /\ voteLimit' = voteLimit /\ MoveVotes(Members(g), source, target)
    BY <1>0 DEF MoveCardGroup, columnVars
  <1>2. /\ DOMAIN card' = DOMAIN card
        /\ \A d \in DOMAIN card : card'[d].column = IF d \in Members(g) THEN target ELSE card[d].column
    BY <1>1 DEF Sound, ItemsSound, CardRow
  <1>3. Members(g) \subseteq DOMAIN card /\ \A d \in Members(g) : card[d].column = source
    BY <1>0, <1>1 DEF Members, Sound, GroupsIntact
  <1>4. QED
    <2>0. PICK cards : cards = Members(g)
      OBVIOUS
    <2>1. /\ cards \subseteq DOMAIN card /\ \A d \in cards : card[d].column = source
          /\ MoveVotes(cards, source, target)
          /\ \A d \in DOMAIN card : card'[d].column = IF d \in cards THEN target ELSE card[d].column
      BY <1>1, <1>2, <1>3, <2>0
    <2>2. source \in LiveColumn /\ target \in LiveColumn
      BY <1>0
    <2>3. /\ \A k \in LiveColumn \ {source} : voteLimit'[k] = voteLimit[k]
          /\ voteLimit'[source] = voteLimit[source] \/ (cards = CardsIn(source) /\ source # target)
          /\ DOMAIN card' = DOMAIN card
      BY <1>1, <1>2
    <2>4. QED
      BY <2>1, <2>2, <2>3, MoveVotesQuota

\* A lower limit is accepted only when nobody has used more, and the slots are
\* compacted below it; a higher one gives more room.
LEMMA UpdateBoardColumnQuota ==
    ASSUME Sound, Sound', QuotaRespected, NEW m \in Member, NEW k \in Column,
           NEW limit \in 0 .. MAX_VOTE_LIMIT, UpdateBoardColumn(m, k, limit)
    PROVE  QuotaRespected'
  <1>1. /\ k \in LiveColumn /\ card' = card
        /\ voteLimit' = [voteLimit EXCEPT ![k] = limit]
    BY DEF UpdateBoardColumn, itemVars
  <1>2. /\ \A j \in LiveColumn : voteLimit'[j] = IF j = k THEN limit ELSE voteLimit[j]
        /\ \A j \in LiveColumn : voteLimit[j] \in Nat
        /\ limit \in Nat
    BY <1>1, ColumnFacts, ContentAssumption DEF LiveColumn, Sound
  <1>3. \A u \in DOMAIN vote :
           /\ u[1] \in DOMAIN card /\ vote[u].column = card[u[1]].column
           /\ vote[u].column \in LiveColumn /\ vote[u].slot <= voteLimit[vote[u].column]
           /\ u[2] \in Member
    BY DEF QuotaRespected, Sound, ItemsInColumns, VotesSound, LiveColumn
  <1>4. CASE limit >= voteLimit[k]
    <2>1. vote' = vote
      BY <1>2, <1>4, <1>1 DEF UpdateBoardColumn
    <2>2. QED
      BY <1>1, <1>2, <1>3, <1>4, <2>1, FewerVotesQuota
  <1>5. CASE limit < voteLimit[k]
    <2>1. /\ \A v \in Member : Cardinality(VotesOf(vote, k, v)) <= limit
          /\ vote' = Compacted(vote, {k}, {})
      BY <1>5 DEF UpdateBoardColumn
    <2>2. DOMAIN vote \subseteq Card \X Member /\ vote \in [DOMAIN vote -> VoteRow]
      BY DEF Sound, VotesSound
    <2>3. /\ DOMAIN vote' = DOMAIN vote
          /\ \A u \in DOMAIN vote : vote'[u].column = vote[u].column
          /\ \A u \in DOMAIN vote : vote[u].column \notin {k} => vote'[u] = vote[u]
          /\ \A u \in DOMAIN vote : vote[u].column \in {k} =>
                vote'[u].slot <= Cardinality(VotesOf(vote, vote[u].column, u[2]))
          /\ \A t, u \in DOMAIN vote :
                vote[u].column \in {k} /\ t[2] = u[2] /\ vote'[t] = vote'[u] => t = u
      BY <2>1, <2>2, CompactedQuota
    <2>4. ASSUME NEW u \in DOMAIN vote, vote[u].column = k
          PROVE  vote'[u].slot <= limit
      <3> DEFINE S == VotesOf(vote, k, u[2])
      <3>1. vote'[u].slot <= Cardinality(S) /\ Cardinality(S) <= limit
        BY <1>3, <2>1, <2>3, <2>4
      <3>2. Cardinality(S) \in Nat
        BY SlotOrderStrict, <2>2, FS_CardinalityType
      <3>3. vote'[u].slot \in Nat
        BY <2>3 DEF Sound, VotesSound, VoteRow
      <3> HIDE DEF S
      <3>4. QED
        BY <1>2, <3>1, <3>2, <3>3
    <2>5. \A u \in DOMAIN vote : vote'[u].slot <= voteLimit'[vote'[u].column]
      BY <1>2, <1>3, <2>3, <2>4
    <2>6. \A t, u \in DOMAIN vote : t[2] = u[2] /\ vote'[t] = vote'[u] => t = u
      BY <2>3 DEF QuotaRespected
    <2>7. QED
      BY <1>1, <1>3, <2>3, <2>5, <2>6 DEF QuotaRespected
  <1>6. QED
    BY <1>2, <1>4, <1>5, <1>1

\* A deleted column gives its cards' votes to the column they move to.
LEMMA DeleteColumnMovingCardsQuota ==
    ASSUME Sound, QuotaRespected, NEW m \in Member, NEW k \in Column, NEW target \in Column,
           DeleteColumnMovingCards(m, k, target)
    PROVE  QuotaRespected'
  <1>1. /\ k \in LiveColumn /\ target \in LiveColumn \ {k}
        /\ MoveVotes(CardsIn(k), k, target)
        /\ voteLimit' = Restrict(voteLimit, LiveColumn \ {k})
        /\ card' = [c \in DOMAIN card |->
                      IF c \in CardsIn(k) THEN [card[c] EXCEPT !.column = target] ELSE card[c]]
    BY DEF DeleteColumnMovingCards, MayDeleteColumn, ColumnGone
  <1>2. /\ DOMAIN card' = DOMAIN card
        /\ \A d \in DOMAIN card : card'[d].column = IF d \in CardsIn(k) THEN target ELSE card[d].column
    BY <1>1 DEF Sound, ItemsSound, CardRow
  <1>3. \A j \in LiveColumn \ {k} : voteLimit'[j] = voteLimit[j]
    BY <1>1 DEF Restrict
  <1>4. CardsIn(k) \subseteq DOMAIN card /\ \A d \in CardsIn(k) : card[d].column = k
    BY DEF CardsIn
  <1>5. QED
    BY <1>1, <1>2, <1>3, <1>4, MoveVotesQuota

\* A column deleted with its cards takes their votes along.
LEMMA DeleteColumnAndCardsQuota ==
    ASSUME Sound, Sound', QuotaRespected, NEW m \in Member, NEW k \in Column,
           DeleteColumnAndCards(m, k)
    PROVE  QuotaRespected'
  <1> DEFINE kept == {c \in DOMAIN card : card[c].column # k}
  <1>1. /\ card' = Restrict(card, kept)
        /\ vote' = Restrict(vote, {u \in DOMAIN vote : vote[u].column # k /\ u[1] \in kept})
        /\ voteLimit' = Restrict(voteLimit, LiveColumn \ {k})
    BY DEF DeleteColumnAndCards, ColumnGone
  <1>2. \A u \in DOMAIN vote : /\ voteLimit[vote[u].column] \in Nat
                               /\ vote[u].column \in LiveColumn
    BY ColumnFacts DEF QuotaRespected, Sound, ItemsInColumns
  <1>3. \A j \in LiveColumn \ {k} : voteLimit'[j] = voteLimit[j]
    BY <1>1 DEF Restrict
  <1>4. /\ DOMAIN vote' = {u \in DOMAIN vote : vote[u].column # k /\ u[1] \in kept}
        /\ \A u \in DOMAIN vote' : vote'[u] = vote[u]
        /\ DOMAIN card' = kept /\ \A c \in kept : card'[c] = card[c]
    BY <1>1 DEF Restrict
  <1> HIDE DEF kept
  <1>5. QED
    BY <1>2, <1>3, <1>4, FewerVotesQuota

-----------------------------------------------------------------------------
(* All operations. *)

\* Every operation keeps the quota.
LEMMA NextQuota == Sound /\ Sound' /\ QuotaRespected /\ [Next]_vars => QuotaRespected'
  <1> SUFFICES ASSUME Sound, Sound', QuotaRespected, [Next]_vars
               PROVE  QuotaRespected'
    OBVIOUS
  <1>0. /\ card \in [DOMAIN card -> CardRow]
        /\ \A k \in LiveColumn : k \in Column
    BY ColumnFacts DEF Sound, ItemsSound
  <1>1. CASE UNCHANGED vars
    BY <1>1 DEF vars, columnVars, itemVars, QuotaRespected
  <1>2. ASSUME NEW m \in Member, CardOperation(m)
        PROVE  QuotaRespected'
    <2>1. ASSUME NEW c \in Card, NEW k \in LiveColumn, CreateCard(m, k, c)
          PROVE  QuotaRespected'
      <3>1. /\ c \notin DOMAIN card /\ vote' = vote /\ voteLimit' = voteLimit
            /\ DOMAIN card' = DOMAIN card \cup {c}
            /\ \A d \in DOMAIN card : card'[d] = card[d]
        BY <2>1 DEF CreateCard, columnVars, Written
      <3>2. QED
        BY <3>1, SameVotesQuota
    <2>2. ASSUME NEW c \in DOMAIN card, UpdateCard(m, c)
          PROVE  QuotaRespected'
      BY <2>2 DEF UpdateCard, columnVars, itemVars, QuotaRespected
    <2>3. QED
      BY <1>2, <2>1, <2>2, DeleteCardQuota, MoveCardQuota DEF CardOperation, Sound, ItemsSound
  <1>3. ASSUME NEW m \in Member, VoteOperation(m)
        PROVE  QuotaRespected'
    <2>1. ASSUME ResetBoardVotes(m)
          PROVE  QuotaRespected'
      BY <2>1 DEF ResetBoardVotes, QuotaRespected
    <2>2. QED
      BY <1>3, <2>1, VoteForCardQuota, RemoveVoteQuota DEF VoteOperation
  <1>4. ASSUME NEW m \in Member, GroupOperation(m)
        PROVE  QuotaRespected'
    <2>1. ASSUME NEW g \in Group, NEW k, NEW cards, NEW c, CreateCardGroup(m, k, cards, c, g)
          PROVE  QuotaRespected'
      <3>1. /\ vote' = vote /\ voteLimit' = voteLimit /\ DOMAIN card' = DOMAIN card
            /\ \A d \in DOMAIN card : card'[d].column = card[d].column
        BY <1>0, <2>1 DEF CreateCardGroup, columnVars, CardRow
      <3>2. QED
        BY <3>1, SameVotesQuota
    <2>2. ASSUME NEW g \in DOMAIN group, UngroupCardGroup(m, g)
          PROVE  QuotaRespected'
      <3>1. /\ vote' = vote /\ voteLimit' = voteLimit /\ DOMAIN card' = DOMAIN card
            /\ \A d \in DOMAIN card : card'[d].column = card[d].column
        BY <1>0, <2>2 DEF UngroupCardGroup, columnVars, CardRow
      <3>2. QED
        BY <3>1, SameVotesQuota
    <2>3. ASSUME NEW g \in DOMAIN group, NEW c, UpdateCardGroup(m, g, c)
          PROVE  QuotaRespected'
      BY <2>3 DEF UpdateCardGroup, columnVars, QuotaRespected
    <2>4. QED
      BY <1>4, <2>1, <2>2, <2>3, MoveCardGroupQuota DEF GroupOperation, Sound, ItemsSound
  <1>5. ASSUME NEW m \in Member, ColumnOperation(m)
        PROVE  QuotaRespected'
    <2>1. ASSUME NEW k \in Column, NEW limit, NEW b, NEW a, CreateBoardColumn(m, k, limit, b, a)
          PROVE  QuotaRespected'
      <3>1. /\ k \notin LiveColumn /\ vote' = vote /\ card' = card
            /\ \A j \in LiveColumn : j # k => voteLimit'[j] = voteLimit[j]
        BY <2>1 DEF CreateBoardColumn, itemVars, Written, LiveColumn
      <3>2. QED
        BY <3>1, SameVotesQuota
    <2>2. ASSUME NEW k \in Column, NEW b, NEW a, MoveBoardColumn(m, k, b, a)
          PROVE  QuotaRespected'
      BY <2>2 DEF MoveBoardColumn, itemVars, QuotaRespected
    <2>3. ASSUME NEW k \in Column, DeleteEmptyColumn(m, k)
          PROVE  QuotaRespected'
      <3>1. /\ vote' = vote /\ card' = card
            /\ \A j \in LiveColumn : j # k => voteLimit'[j] = voteLimit[j]
            /\ DOMAIN voteLimit' = LiveColumn \ {k}
        BY <2>3 DEF DeleteEmptyColumn, ColumnGone, Restrict, itemVars
      <3>2. QED
        BY <3>1, SameVotesQuota
    <2>4. QED
      BY <1>5, <2>1, <2>2, <2>3, UpdateBoardColumnQuota, DeleteColumnMovingCardsQuota,
         DeleteColumnAndCardsQuota DEF ColumnOperation
  <1>6. ASSUME NEW m \in Member, ActionItemOperation(m) \/ SettingsOperation(m)
        PROVE  QuotaRespected'
    <2>1. UNCHANGED <<columnVars, itemVars, vote>>
      BY <1>6 DEF ActionItemOperation, SettingsOperation, CreateActionItem, UpdateActionItem,
                  MoveActionItem, DeleteActionItem, UpdateBoardSettings
    <2>2. QED
      BY <2>1 DEF columnVars, itemVars, QuotaRespected
  <1>7. QED
    BY <1>1, <1>2, <1>3, <1>4, <1>5, <1>6 DEF Next

\* No visitor ever has more votes in a column than its limit, and every vote is
\* in its card's column with a slot of its own.
THEOREM QuotaAlwaysRespected == Spec => []QuotaRespected
  <1>1. Init => QuotaRespected
    BY DEF Init, QuotaRespected
  <1>2. QED
    BY <1>1, SoundInvariant, NextQuota, PTL DEF Spec

-----------------------------------------------------------------------------
(* The order of lists: of items, of columns and of action items. *)

\* Every list there can be has room for a renumbering, and for one more row.
LEMMA Room ==
    ASSUME NEW S, S \subseteq Card \cup Group \/ S \subseteq Column \/ S \subseteq ActionItem
    PROVE  /\ IsFiniteSet(S) /\ Ids(S)
           /\ (Cardinality(S) + 1) * POSITION_STEP <= MAX_POSITION
           /\ Cardinality(S) * POSITION_STEP <= MAX_POSITION
  <1>1. PICK T \in {Card \cup Group, Column, ActionItem} : S \subseteq T
    OBVIOUS
  <1>2. IsFiniteSet(T) /\ Ids(T)
    <2>1. IsFiniteSet(Card \cup Group) /\ Ids(Card \cup Group)
      BY IdFacts, FS_Union DEF Ids
    <2> QED
      BY <2>1, IdFacts
  <1>3. IsFiniteSet(S) /\ Ids(S) /\ Cardinality(S) <= Cardinality(T)
        /\ Cardinality(S) \in Nat /\ Cardinality(T) \in Nat
    BY <1>1, <1>2, FS_Subset, FS_CardinalityType DEF Ids
  <1>4. (Cardinality(T) + 1) * POSITION_STEP <= MAX_POSITION
    BY RoomAssumption
  <1>5. \A i, j \in Nat : i <= j => /\ i * POSITION_STEP <= j * POSITION_STEP
                                    /\ i * POSITION_STEP \in Nat
    BY PositionAssumption
  <1>6. /\ Cardinality(S) + 1 \in Nat /\ Cardinality(T) + 1 \in Nat
        /\ Cardinality(S) + 1 <= Cardinality(T) + 1
        /\ Cardinality(S) <= Cardinality(T) + 1
    BY <1>3
  <1>7. MAX_POSITION \in Nat
    BY PositionAssumption
  <1> QED
    BY <1>3, <1>4, <1>5, <1>6, <1>7

\* Rows in places of others, no two in the same, are well placed.
LEMMA Taken ==
    ASSUME NEW T, NEW p, WellPlaced(T, p), NEW S, NEW q, NEW f,
           \A i \in S : f[i] \in T /\ q[i] = p[f[i]],
           \A i, j \in S : f[i] = f[j] => i = j
    PROVE  WellPlaced(S, q)
  BY DEF WellPlaced

\* So are fewer of them.
LEMMA Fewer ==
    ASSUME NEW T, NEW p, WellPlaced(T, p), NEW S, S \subseteq T, NEW q, \A i \in S : q[i] = p[i]
    PROVE  WellPlaced(S, q) /\ SameOrder(S, p, q)
  BY DEF WellPlaced, SameOrder

\* Of rows that are well placed the order is that of their positions alone.
LEMMA PlacedOrder ==
    ASSUME NEW S, Ids(S), NEW p, WellPlaced(S, p)
    PROVE  \A i, j \in S : /\ p[i] \in Int
                           /\ <<i, j>> \in PositionOrder(S, p) <=> p[i] < p[j]
  <1>1. \A i, j \in S : p[i] \in Int /\ (p[i] = p[j] => i = j)
    BY PositionAssumption DEF WellPlaced
  <1>2. \A i \in S : ~(i < i)
    BY DEF Ids
  <1>3. \A i, j \in S : <<i, j>> \in PositionOrder(S, p) <=> p[i] < p[j] \/ (p[i] = p[j] /\ i < j)
    BY PositionOrderPair
  <1> QED
    BY <1>1, <1>2, <1>3

\* A renumbering places rows in the order it is given.
LEMMA RenumberedPlaced ==
    ASSUME NEW S, IsFiniteSet(S), Ids(S), Cardinality(S) * POSITION_STEP <= MAX_POSITION,
           NEW R, R \subseteq S \X S, StrictOrder(S, R)
    PROVE  /\ WellPlaced(S, Renumbered(S, R))
           /\ \A i, j \in S : <<i, j>> \in R <=> Renumbered(S, R)[i] < Renumbered(S, R)[j]
  <1>1. WellPlaced(S, Renumbered(S, R)) /\ PositionOrder(S, Renumbered(S, R)) = R
    BY RenumberedWellPlaced, RenumberedSameOrder
  <1> QED
    BY <1>1, PlacedOrder

\* An insertion places the new row and keeps the order of the others.
LEMMA InsertedKeeps ==
    ASSUME NEW S, IsFiniteSet(S), Ids(S), NEW p, WellPlaced(S, p),
           NEW x, x \notin S, Ids(S \cup {x}), NEW b, NEW a, Resolves(S, PositionOrder(S, p), b, a),
           (Cardinality(S) + 1) * POSITION_STEP <= MAX_POSITION
    PROVE  /\ WellPlaced(S \cup {x}, Inserted(S, p, x, b, a))
           /\ SameOrder(S, p, Inserted(S, p, x, b, a))
           /\ DOMAIN Inserted(S, p, x, b, a) = S \cup {x}
  <1> DEFINE R == PositionOrder(S, p)
             q == Inserted(S, p, x, b, a)
  <1>1. WellPlaced(S \cup {x}, q) /\ PositionOrder(S \cup {x}, q) = InsertedOrder(S, R, x, b)
    <2>1. x \in Nat
      BY DEF Ids
    <2> QED
      BY <2>1, InsertedInPlace
  <1>2. DOMAIN q = S \cup {x}
    BY DEF Inserted
  <1> HIDE DEF q
  <1>3. \A i, j \in S : <<i, j>> \in PositionOrder(S \cup {x}, q) <=> <<i, j>> \in R
    <2> HIDE DEF R
    <2> QED BY <1>1 DEF InsertedOrder
  <1>4. \A i, j \in S : q[i] < q[j] <=> p[i] < p[j]
    BY <1>1, <1>3, PlacedOrder
  <1> QED
    BY <1>1, <1>2, <1>4 DEF SameOrder, q

\* The head of a list is a place in it.
LEMMA HeadResolves ==
    ASSUME NEW S, IsFiniteSet(S), Ids(S), NEW p, WellPlaced(S, p)
    PROVE  Resolves(S, PositionOrder(S, p), None, First(S, PositionOrder(S, p)))
  <1> DEFINE R == PositionOrder(S, p)
  <1>1. StrictOrder(S, R)
    BY PlacedOrder, PositionOrderStrict
  <1> HIDE DEF R
  <1>2. CASE S = {}
    BY <1>2 DEF Resolves, First
  <1>3. CASE S # {}
    <2>1. First(S, R) \in S /\ \A j \in S \ {First(S, R)} : <<First(S, R), j>> \in R
      BY <1>1, <1>3, FirstIsFirst
    <2> DEFINE a == First(S, R)
    <2> HIDE DEF a
    <2>2. a \in S /\ a # None /\ \A j \in S : j = a \/ <<a, j>> \in R
      BY <2>1 DEF Ids, a
    <2>3. Resolves(S, R, None, a)
      BY <2>2 DEF Resolves
    <2> QED
      BY <2>3 DEF a, R
  <1> QED
    BY <1>2, <1>3 DEF R

\* Rows left out of an order keep it.
LEMMA SameOrderFewer ==
    ASSUME NEW S, NEW T, S \subseteq T, NEW p, NEW q, SameOrder(T, p, q)
    PROVE  SameOrder(S, p, q)
  BY DEF SameOrder

-----------------------------------------------------------------------------
(* Items. *)

\* The items of a column that a step leaves there.
Stay(j) == TopLevel(j) \cap TopLevel(j)'

\* A step keeps the order of the items S, or writes out the order of their votes.
Kept(S) ==
    \/ SameOrder(S, position, position')
    \/ VoteOrder(S) = PositionOrder(S, position')

\* A step leaves the items of column j well placed, and all but x in their order.
Orderly(j, x) == WellPlaced(TopLevel(j)', position') /\ Kept(Stay(j) \ {x})

\* What it is to be an item of a column, and of no other.
LEMMA ItemOfColumn ==
    ASSUME Sound
    PROVE  /\ \A j, i : i \in TopLevel(j) <=>
                 \/ i \in DOMAIN card /\ card[i].column = j /\ card[i].group = None
                 \/ i \in DOMAIN group /\ group[i].column = j
           /\ \A i, j, l : i \in TopLevel(j) /\ i \in TopLevel(l) => j = l
           /\ \A j : TopLevel(j) \subseteq DOMAIN position /\ TopLevel(j) \subseteq Card \cup Group
           /\ DOMAIN card \cap DOMAIN group = {} /\ DOMAIN position = DOMAIN card \cup DOMAIN group
           /\ \A j : None \notin TopLevel(j)
  <1>1. DOMAIN card \cap DOMAIN group = {} /\ DOMAIN position = DOMAIN card \cup DOMAIN group
        /\ DOMAIN position \subseteq Card \cup Group /\ None \notin DOMAIN position
    BY ItemFacts DEF Sound, ItemsSound
  <1>2. \A j, i : i \in TopLevel(j) <=>
                 \/ i \in DOMAIN card /\ card[i].column = j /\ card[i].group = None
                 \/ i \in DOMAIN group /\ group[i].column = j
    BY DEF TopLevel, Ungrouped
  <1> QED
    BY <1>1, <1>2

\* A column that loses items at most, and none of whose positions change.
LEMMA ColumnKept ==
    ASSUME PlacesDistinct, NEW j \in LiveColumn, NEW x,
           TopLevel(j)' \subseteq TopLevel(j),
           \A i \in TopLevel(j)' : position'[i] = position[i]
    PROVE  Orderly(j, x)
  <1>1. WellPlaced(TopLevel(j)', position') /\ SameOrder(TopLevel(j)', position, position')
    BY Fewer DEF PlacesDistinct
  <1>2. Stay(j) \ {x} \subseteq TopLevel(j)'
    BY DEF Stay
  <1> QED
    BY <1>1, <1>2, SameOrderFewer DEF Orderly, Kept

\* The same for a column in which x takes the place of items that go, y's.
LEMMA PlaceTaken ==
    ASSUME Sound, PlacesDistinct, NEW j \in LiveColumn, NEW x, x \notin TopLevel(j),
           NEW gone, NEW y \in gone \cap TopLevel(j),
           TopLevel(j)' = (TopLevel(j) \ gone) \cup {x},
           position'[x] = position[y],
           \A i \in TopLevel(j) \ gone : position'[i] = position[i]
    PROVE  Orderly(j, None)
  <1> DEFINE f == [i \in TopLevel(j)' |-> IF i = x THEN y ELSE i]
  <1>1. \A i \in TopLevel(j)' : f[i] \in TopLevel(j) /\ position'[i] = position[f[i]]
    OBVIOUS
  <1>2. \A i, l \in TopLevel(j)' : f[i] = f[l] => i = l
    OBVIOUS
  <1> HIDE DEF f
  <1>3. WellPlaced(TopLevel(j)', position')
    BY <1>1, <1>2, Taken DEF PlacesDistinct
  <1>4. SameOrder(Stay(j) \ {None}, position, position')
    BY DEF Stay, SameOrder
  <1> QED
    BY <1>3, <1>4 DEF Orderly, Kept

\* Votes are counted in naturals, and order items strictly with their positions.
LEMMA ItemOrderStrict ==
    ASSUME Sound, NEW S, S \subseteq DOMAIN position, NEW byVotes
    PROVE  ItemOrder(S, byVotes) \subseteq S \X S /\ StrictOrder(S, ItemOrder(S, byVotes))
  <1>1. IsFiniteSet(S) /\ Ids(S) /\ \A i \in S : position[i] \in Int
    BY Room, ItemFacts DEF Sound, ItemsSound
  <1> DEFINE P == PositionOrder(S, position)
  <1>2. P \subseteq S \X S /\ StrictOrder(S, P)
    BY <1>1, PositionOrderStrict, PositionOrderPair
  <1>3. \A i \in S : VoteCount(i) \in Nat
    <2> SUFFICES ASSUME NEW i \in S PROVE VoteCount(i) \in Nat
      OBVIOUS
    <2>1. IsFiniteSet(DOMAIN vote) /\ IsFiniteSet(Member)
      BY IdFacts, ContentAssumption, FS_Product, FS_Subset DEF Sound, VotesSound
    <2>2. IsFiniteSet({u \in DOMAIN vote : u[1] = i})
      BY <2>1, FS_Subset
    <2> DEFINE voters == {u[2] : u \in {w \in DOMAIN vote : w[1] \in Members(i)}}
    <2>3. voters \subseteq Member
      BY DEF Sound, VotesSound
    <2>4. IsFiniteSet(voters)
      <3> HIDE DEF voters
      <3> QED BY <2>1, <2>3, FS_Subset
    <2> QED
      BY <2>2, <2>4, FS_CardinalityType DEF VoteCount
  <1> HIDE DEF P
  <1> DEFINE V == VoteOrder(S)
             n == [i \in S |-> VoteCount(i)]
  <1>4. V \subseteq S \X S
    BY DEF VoteOrder
  <1>5. \A i, j \in S : <<i, j>> \in V <=> n[i] > n[j] \/ (n[i] = n[j] /\ <<i, j>> \in P)
    BY DEF VoteOrder, P
  <1>6. \A i \in S : n[i] \in Nat
    BY <1>3
  <1> HIDE DEF V, n
  <1>7. StrictOrder(S, V)
    <2>1. \A i \in S : <<i, i>> \notin V
      <3>1. \A i \in S : ~(n[i] > n[i])
        BY <1>6
      <3>2. \A i \in S : <<i, i>> \notin P
        BY <1>2 DEF StrictOrder
      <3> QED
        BY <3>1, <3>2, <1>5
    <2>2. \A i, j, k \in S : <<i, j>> \in V /\ <<j, k>> \in V => <<i, k>> \in V
      BY <1>2, <1>5, <1>6 DEF StrictOrder
    <2>3. \A i, j \in S : i = j \/ <<i, j>> \in V \/ <<j, i>> \in V
      <3>1. \A i, j \in S : n[i] > n[j] \/ n[j] > n[i] \/ (n[i] = n[j] /\ n[j] = n[i])
        BY <1>6
      <3>2. \A i, j \in S : i = j \/ <<i, j>> \in P \/ <<j, i>> \in P
        BY <1>2 DEF StrictOrder
      <3> QED
        BY <3>1, <3>2, <1>5
    <2> QED
      BY <2>1, <2>2, <2>3 DEF StrictOrder
  <1> QED
    BY <1>2, <1>4, <1>7 DEF ItemOrder, P, V

\* What it is for an item to come before another.
LEMMA ItemOrderPair ==
    ASSUME Sound, NEW T, T \subseteq DOMAIN position, WellPlaced(T, position), NEW S, S \subseteq T
    PROVE  /\ VoteOrder(S) \subseteq S \X S
           /\ \A i, j \in S : <<i, j>> \in VoteOrder(T) <=> <<i, j>> \in VoteOrder(S)
           /\ \A i, j \in S : <<i, j>> \in PositionOrder(T, position) <=> position[i] < position[j]
  <1>1. Ids(T)
    BY Room, ItemFacts DEF Sound, ItemsSound
  <1>2. \A i, j \in S : <<i, j>> \in PositionOrder(T, position) <=> position[i] < position[j]
    BY <1>1, PlacedOrder
  <1>3. \A i, j \in S : <<i, j>> \in PositionOrder(T, position) <=> <<i, j>> \in PositionOrder(S, position)
    BY PositionOrderPair
  <1>4. /\ VoteOrder(S) \subseteq S \X S
        /\ \A i, j \in S : <<i, j>> \in VoteOrder(T) <=> <<i, j>> \in VoteOrder(S)
    BY <1>3 DEF VoteOrder
  <1> QED
    BY <1>2, <1>4

\* Items that are given positions in the order shown are kept.
LEMMA WrittenOut ==
    ASSUME Sound, NEW T, T \subseteq DOMAIN position, WellPlaced(T, position), NEW byVotes,
           WellPlaced(T, position'),
           \A i, j \in T : <<i, j>> \in ItemOrder(T, byVotes) <=> position'[i] < position'[j]
    PROVE  Kept(T)
  <1>1. CASE byVotes
    <2>1. Ids(T)
      BY Room, ItemFacts DEF Sound, ItemsSound
    <2>2. \A i, j \in T : <<i, j>> \in VoteOrder(T) <=> <<i, j>> \in PositionOrder(T, position')
      BY <1>1, <2>1, PlacedOrder DEF ItemOrder
    <2>3. VoteOrder(T) \subseteq T \X T /\ PositionOrder(T, position') \subseteq T \X T
      BY ItemOrderPair, PositionOrderPair
    <2>4. VoteOrder(T) = PositionOrder(T, position')
      <3> DEFINE A == VoteOrder(T)
                 B == PositionOrder(T, position')
      <3> HIDE DEF A, B
      <3>1. A \subseteq T \X T /\ B \subseteq T \X T /\ \A i, j \in T : <<i, j>> \in A <=> <<i, j>> \in B
        BY <2>2, <2>3 DEF A, B
      <3>2. A = B
        BY <3>1, SamePairs
      <3> QED
        BY <3>2 DEF A, B
    <2> QED
      BY <2>4 DEF Kept
  <1>2. CASE ~byVotes
    <2>1. \A i, j \in T : <<i, j>> \in ItemOrder(T, byVotes) <=> position[i] < position[j]
      BY <1>2, ItemOrderPair DEF ItemOrder
    <2> QED
      BY <2>1 DEF Kept, SameOrder
  <1> QED
    BY <1>1, <1>2

\* A move takes x to a place among the target's items, and every other item keeps
\* its own in its column.
LEMMA ItemMoved ==
    ASSUME Sound, PlacesDistinct, NEW source \in LiveColumn, NEW target \in LiveColumn,
           NEW x \in TopLevel(source), NEW b, NEW a, NEW sorted,
           MoveItem(x, source, target, b, a, sorted),
           TopLevel(target)' = (TopLevel(target) \ {x}) \cup {x},
           \A j \in LiveColumn \ {target} : TopLevel(j)' = TopLevel(j) \ {x}
    PROVE  \A j \in LiveColumn : Orderly(j, x)
  <1> DEFINE rest == TopLevel(target) \ {x}
             left == TopLevel(source) \ {x}
  <1>1. /\ x \in DOMAIN position /\ x # None /\ None \notin rest
        /\ \A j : TopLevel(j) \subseteq DOMAIN position /\ TopLevel(j) \subseteq Card \cup Group
        /\ \A i, j, l : i \in TopLevel(j) /\ i \in TopLevel(l) => j = l
    BY ItemOfColumn
  <1>2. /\ rest \subseteq DOMAIN position /\ left \subseteq DOMAIN position
        /\ x \notin rest /\ x \in Card \cup Group
        /\ rest \subseteq Card \cup Group /\ left \subseteq Card \cup Group
    BY <1>1
  <1>3. /\ IsFiniteSet(rest) /\ Ids(rest) /\ (Cardinality(rest) + 1) * POSITION_STEP <= MAX_POSITION
        /\ IsFiniteSet(rest \cup {x}) /\ Ids(rest \cup {x})
        /\ Cardinality(rest \cup {x}) * POSITION_STEP <= MAX_POSITION
        /\ IsFiniteSet(left) /\ Ids(left) /\ Cardinality(left) * POSITION_STEP <= MAX_POSITION
    <2> HIDE DEF rest, left
    <2>1. rest \cup {x} \subseteq Card \cup Group
      BY <1>2
    <2> QED
      BY <1>2, <2>1, Room
  <1>4. WellPlaced(rest, position) /\ WellPlaced(left, position)
    BY Fewer DEF PlacesDistinct
  <1>5. /\ Stay(target) \ {x} = rest
        /\ target # source => Stay(source) \ {x} = left /\ TopLevel(source)' = left
    BY DEF Stay
  <1>6. ASSUME NEW j \in LiveColumn \ {target},
               \A i \in TopLevel(j) \ {x} : position'[i] = position[i]
        PROVE  Orderly(j, x)
    BY <1>6, ColumnKept
  <1>7. CASE PositionedMove(x, source, target, b, a)
    <2> DEFINE q == Inserted(rest, position, x, b, a)
    <2>1. position' = Written(position, q) /\ Resolves(rest, PositionOrder(rest, position), b, a)
      BY <1>7 DEF PositionedMove
    <2>2. WellPlaced(rest \cup {x}, q) /\ SameOrder(rest, position, q) /\ DOMAIN q = rest \cup {x}
      <3> HIDE DEF rest
      <3> QED BY <1>2, <1>3, <1>4, <2>1, InsertedKeeps
    <2> HIDE DEF q
    <2>3. /\ \A i \in rest \cup {x} : position'[i] = q[i]
          /\ \A i \in DOMAIN position \ (rest \cup {x}) : position'[i] = position[i]
      BY <1>1, <1>2, <2>1, <2>2 DEF Written
    <2>4. Orderly(target, x)
      <3>1. WellPlaced(TopLevel(target)', position')
        BY <2>2, <2>3 DEF WellPlaced
      <3>2. SameOrder(rest, position, position')
        BY <2>2, <2>3 DEF SameOrder
      <3> QED
        BY <1>5, <3>1, <3>2 DEF Orderly, Kept
    <2>5. \A j \in LiveColumn \ {target} : Orderly(j, x)
      <3> SUFFICES ASSUME NEW j \in LiveColumn \ {target}
                   PROVE  Orderly(j, x)
        OBVIOUS
      <3>1. \A i \in TopLevel(j) \ {x} : i \in DOMAIN position \ (rest \cup {x})
        BY <1>1
      <3> QED
        BY <1>6, <2>3, <3>1
    <2> QED
      BY <2>4, <2>5
  <1>8. CASE MaterializedMove(x, source, target, b, a, sorted)
    <2> DEFINE order == ItemOrder(rest, target \in sorted)
               all == InsertedOrder(rest, order, x, b)
               q == Renumbered(rest \cup {x}, all)
               old == ItemOrder(left, source \in sorted)
               p == Renumbered(left, old)
               w == IF source = target THEN position ELSE Written(position, p)
    <2>1. position' = Written(w, q) /\ b \in rest \cup {None}
      BY <1>8 DEF MaterializedMove, Resolves
    <2>2. /\ order \subseteq rest \X rest /\ StrictOrder(rest, order)
          /\ old \subseteq left \X left /\ StrictOrder(left, old)
      <3> HIDE DEF rest, left
      <3> QED BY <1>2, ItemOrderStrict
    <2> HIDE DEF order, old
    <2>3. /\ StrictOrder(rest \cup {x}, all) /\ all \subseteq (rest \cup {x}) \X (rest \cup {x})
          /\ \A i, j \in rest : <<i, j>> \in all <=> <<i, j>> \in order
      <3> HIDE DEF rest
      <3>1. b \in rest \/ UpTo(rest, order, b) = {}
        BY <1>1, <2>1, <2>2 DEF UpTo
      <3>2. StrictOrder(rest \cup {x}, all)
        BY <1>2, <2>2, <3>1, InsertedOrderStrict
      <3>3. UpTo(rest, order, b) \subseteq rest
        BY DEF UpTo
      <3>4. /\ all \subseteq (rest \cup {x}) \X (rest \cup {x})
            /\ \A i, j \in rest : <<i, j>> \in all <=> <<i, j>> \in order
        BY <1>2, <2>2, <3>3 DEF InsertedOrder
      <3> QED
        BY <3>2, <3>4
    <2> HIDE DEF all
    <2>4. /\ WellPlaced(rest \cup {x}, q) /\ WellPlaced(left, p)
          /\ \A i, j \in rest : <<i, j>> \in order <=> q[i] < q[j]
          /\ \A i, j \in left : <<i, j>> \in old <=> p[i] < p[j]
      <3> HIDE DEF rest, left
      <3>1. WellPlaced(rest \cup {x}, q) /\ \A i, j \in rest \cup {x} : <<i, j>> \in all <=> q[i] < q[j]
        BY <1>3, <2>3, RenumberedPlaced
      <3>2. WellPlaced(left, p) /\ \A i, j \in left : <<i, j>> \in old <=> p[i] < p[j]
        BY <1>3, <2>2, RenumberedPlaced
      <3> HIDE DEF p, q
      <3> QED
        BY <2>3, <3>1, <3>2
    <2>5. DOMAIN q = rest \cup {x} /\ DOMAIN p = left
      BY DEF Renumbered
    <2> HIDE DEF q, p
    <2>6. /\ DOMAIN w = DOMAIN position
          /\ \A i \in rest \cup {x} : position'[i] = q[i]
          /\ source # target => \A i \in left : position'[i] = p[i]
          /\ \A i \in DOMAIN position \ (rest \cup left \cup {x}) : position'[i] = position[i]
      <3>1. /\ DOMAIN w = DOMAIN position
            /\ source # target => \A i \in left : w[i] = p[i]
            /\ \A i \in DOMAIN position \ left : w[i] = position[i]
        BY <1>2, <2>5 DEF Written
      <3>2. source # target => left \cap (rest \cup {x}) = {}
        BY <1>1
      <3> HIDE DEF w, rest, left
      <3> QED
        BY <1>1, <1>2, <2>1, <2>5, <3>1, <3>2 DEF Written
    <2>7. Orderly(target, x)
      <3>1. WellPlaced(TopLevel(target)', position') /\ WellPlaced(rest, position')
        BY <2>4, <2>6 DEF WellPlaced
      <3>2. \A i, j \in rest : <<i, j>> \in ItemOrder(rest, target \in sorted) <=> position'[i] < position'[j]
        BY <2>4, <2>6 DEF order
      <3>3. Kept(rest)
        <4> HIDE DEF rest
        <4> QED BY <1>2, <1>4, <3>1, <3>2, WrittenOut
      <3> QED
        BY <1>5, <3>1, <3>3 DEF Orderly
    <2>8. source # target => Orderly(source, x)
      <3> SUFFICES ASSUME source # target
                   PROVE  Orderly(source, x)
        OBVIOUS
      <3>1. WellPlaced(left, position')
        BY <2>4, <2>6 DEF WellPlaced
      <3>2. \A i, j \in left : <<i, j>> \in ItemOrder(left, source \in sorted) <=> position'[i] < position'[j]
        BY <2>4, <2>6 DEF old
      <3>3. Kept(left)
        <4> HIDE DEF left
        <4> QED BY <1>2, <1>4, <3>1, <3>2, WrittenOut
      <3> QED
        BY <1>5, <3>1, <3>3 DEF Orderly
    <2>9. \A j \in LiveColumn \ {source, target} : Orderly(j, x)
      <3> SUFFICES ASSUME NEW j \in LiveColumn \ {source, target}
                   PROVE  Orderly(j, x)
        OBVIOUS
      <3>1. \A i \in TopLevel(j) \ {x} : i \in DOMAIN position \ (rest \cup left \cup {x})
        BY <1>1
      <3> QED
        BY <1>6, <2>6, <3>1
    <2> QED
      BY <2>7, <2>8, <2>9
  <1> QED
    BY <1>7, <1>8 DEF MoveItem

-----------------------------------------------------------------------------
(* The operations on cards and groups. *)

\* A new card stands at the head of its column.
LEMMA CreateCardOrderly ==
    ASSUME Sound, PlacesDistinct, NEW m \in Member, NEW k \in LiveColumn, NEW c \in Card, CreateCard(m, k, c)
    PROVE  \A j \in LiveColumn : Orderly(j, c)
  <1> DEFINE row == [x \in {c} |-> [column |-> k, group |-> None, groupPosition |-> 0, createdBy |-> m]]
             first == First(TopLevel(k), PositionOrder(TopLevel(k), position))
             q == Inserted(TopLevel(k), position, c, None, first)
  <1>1. /\ card' = Written(card, row) /\ position' = Written(position, q)
        /\ group' = group /\ c \notin DOMAIN card
    BY DEF CreateCard
  <1>2. /\ DOMAIN card' = DOMAIN card \cup {c}
        /\ card'[c].column = k /\ card'[c].group = None
        /\ \A d \in DOMAIN card : card'[d] = card[d]
    BY <1>1 DEF Written
  <1> HIDE DEF row
  <1>3. /\ TopLevel(k) \subseteq Card \cup Group /\ c \notin TopLevel(k)
        /\ TopLevel(k) \subseteq DOMAIN position
    BY <1>1, IdFacts, ItemOfColumn DEF Sound, ItemsSound
  <1>4. TopLevel(k)' = TopLevel(k) \cup {c} /\ \A j \in LiveColumn \ {k} : TopLevel(j)' = TopLevel(j)
    BY <1>1, <1>2 DEF TopLevel, Ungrouped
  <1>5. /\ WellPlaced(TopLevel(k) \cup {c}, q) /\ SameOrder(TopLevel(k), position, q)
        /\ DOMAIN q = TopLevel(k) \cup {c}
    <2>1. /\ IsFiniteSet(TopLevel(k)) /\ Ids(TopLevel(k)) /\ Ids(TopLevel(k) \cup {c})
          /\ (Cardinality(TopLevel(k)) + 1) * POSITION_STEP <= MAX_POSITION
      <3>1. TopLevel(k) \cup {c} \subseteq Card \cup Group
        BY <1>3
      <3> QED
        BY <1>3, <3>1, Room
    <2>2. WellPlaced(TopLevel(k), position)
      BY DEF PlacesDistinct
    <2>3. Resolves(TopLevel(k), PositionOrder(TopLevel(k), position), None, first)
      BY <2>1, <2>2, HeadResolves
    <2> HIDE DEF first
    <2> QED
      BY <1>3, <2>1, <2>2, <2>3, InsertedKeeps
  <1> HIDE DEF q
  <1>6. /\ \A i \in TopLevel(k) \cup {c} : position'[i] = q[i]
        /\ \A i \in DOMAIN position \ (TopLevel(k) \cup {c}) : position'[i] = position[i]
    BY <1>1, <1>5 DEF Written
  <1>7. Orderly(k, c)
    <2>1. WellPlaced(TopLevel(k)', position')
      BY <1>4, <1>5, <1>6 DEF WellPlaced
    <2>2. SameOrder(TopLevel(k), position, position')
      BY <1>5, <1>6 DEF SameOrder
    <2>3. Stay(k) \ {c} = TopLevel(k)
      BY <1>3, <1>4 DEF Stay
    <2> QED
      BY <2>1, <2>2, <2>3 DEF Orderly, Kept
  <1>8. \A j \in LiveColumn \ {k} : Orderly(j, c)
    <2> SUFFICES ASSUME NEW j \in LiveColumn \ {k}
                 PROVE  Orderly(j, c)
      OBVIOUS
    <2>1. \A i \in TopLevel(j) : i \in DOMAIN position \ (TopLevel(k) \cup {c})
      BY <1>1, IdFacts, ItemOfColumn DEF Sound, ItemsSound
    <2> QED
      BY <1>4, <1>6, <2>1, ColumnKept
  <1> QED
    BY <1>7, <1>8

\* Card c leaves group g, and d, the last of its cards, takes its place.
LeftAlone(c, g, d) ==
    /\ DOMAIN group' = DOMAIN group \ {g}
    /\ Members(g) \ {c} = {d} /\ position'[d] = position[g]
    /\ \A i \in DOMAIN position \ {c, d, g} : position'[i] = position[i]
    /\ \A j : /\ c \notin TopLevel(j) /\ d \notin TopLevel(j)
              /\ c \notin TopLevel(j)' /\ g \notin TopLevel(j)'
              /\ g \in TopLevel(j) <=> j = group[g].column
              /\ TopLevel(j)' = IF j = group[g].column
                                THEN (TopLevel(j) \ {g}) \cup {d} ELSE TopLevel(j)

\* The last card left in a group takes the group's place.
LEMMA LastCardLeft ==
    ASSUME Sound, NEW m \in Member, NEW c \in Card, DeleteCard(m, c),
           NEW g, g = card[c].group, g # None, Cardinality(Members(g) \ {c}) = 1
    PROVE  \E d : LeftAlone(c, g, d)
  <1> DEFINE rest == Members(g) \ {c}
  <1>1. c \in DOMAIN card /\ c \notin DOMAIN group
    BY IdFacts DEF DeleteCard, Sound, ItemsSound
  <1>2. g \in DOMAIN group /\ LeaveGroup(c, g)
    BY <1>1 DEF DeleteCard, Sound, ItemsSound
  <1>3. \A d \in Members(g) : d \in DOMAIN card /\ card[d].group = g /\ card[d].column = group[g].column
    BY <1>2 DEF Members, Sound, GroupsIntact
  <1>4. /\ card' = [x \in DOMAIN card \ {c} |->
                       IF x \in rest
                       THEN [card[x] EXCEPT !.group = None, !.groupPosition = 0]
                       ELSE card[x]]
        /\ group' = Restrict(group, DOMAIN group \ {g})
        /\ position' = [x \in DOMAIN position \ {c, g} |->
                           IF x \in rest THEN position[g] ELSE position[x]]
    BY <1>2 DEF LeaveGroup
  <1>5. PICK d : rest = {d}
    <2>1. IsFiniteSet(rest) /\ Cardinality(rest) = 1
      BY ItemFacts, FS_Subset DEF Sound
    <2> HIDE DEF rest
    <2> QED
      BY <2>1, FS_Singleton
  <1>6. d \in DOMAIN card /\ d # c /\ card[d].group = g /\ card[d].column = group[g].column /\ d # g
    BY <1>2, <1>3, <1>5, ItemOfColumn
  <1> HIDE DEF rest
  <1>7. /\ DOMAIN card' = DOMAIN card \ {c}
        /\ card'[d].column = group[g].column /\ card'[d].group = None
        /\ \A e \in DOMAIN card' \ {d} : card'[e] = card[e]
    BY <1>4, <1>5, <1>6 DEF Sound, ItemsSound, CardRow
  <1>8. DOMAIN group' = DOMAIN group \ {g} /\ \A h \in DOMAIN group' : group'[h] = group[h]
    BY <1>4 DEF Restrict
  <1>9. /\ position'[d] = position[g]
        /\ \A i \in DOMAIN position \ {c, d, g} : position'[i] = position[i]
    BY <1>4, <1>5, <1>6, ItemOfColumn
  <1>10. \A j : c \notin TopLevel(j) /\ d \notin TopLevel(j) /\ (g \in TopLevel(j) <=> j = group[g].column)
    BY <1>1, <1>2, <1>6, ItemOfColumn, IdFacts DEF Sound, ItemsSound
  <1>11. \A j : /\ c \notin TopLevel(j)' /\ g \notin TopLevel(j)'
                /\ TopLevel(j)' = IF j = group[g].column
                                  THEN (TopLevel(j) \ {g}) \cup {d} ELSE TopLevel(j)
    <2> SUFFICES ASSUME NEW j
                 PROVE  /\ c \notin TopLevel(j)' /\ g \notin TopLevel(j)'
                        /\ TopLevel(j)' = IF j = group[g].column
                                          THEN (TopLevel(j) \ {g}) \cup {d} ELSE TopLevel(j)
      OBVIOUS
    <2>1. TopLevel(j)' = {x \in DOMAIN card' : card'[x].column = j /\ card'[x].group = None}
                            \cup {h \in DOMAIN group' : group'[h].column = j}
      BY DEF TopLevel, Ungrouped
    <2>2. TopLevel(j) = {x \in DOMAIN card : card[x].column = j /\ card[x].group = None}
                            \cup {h \in DOMAIN group : group[h].column = j}
      BY DEF TopLevel, Ungrouped
    <2>3. \A i : i \notin {c, d, g} => (i \in TopLevel(j)' <=> i \in TopLevel(j))
      BY <1>7, <1>8, <2>1, <2>2
    <2>4. DOMAIN card \cap DOMAIN group = {}
      BY ItemOfColumn
    <2>5. c \notin TopLevel(j)' /\ g \notin TopLevel(j)' /\ (d \in TopLevel(j)' <=> j = group[g].column)
      BY <1>1, <1>2, <1>6, <1>7, <1>8, <2>1, <2>3, <2>4
    <2> QED
      BY <1>10, <2>3, <2>5
  <1> QED
    BY <1>5, <1>8, <1>9, <1>10, <1>11 DEF rest, LeftAlone

\* A deletion moves nothing else.
LEMMA DeleteCardOrderly ==
    ASSUME Sound, PlacesDistinct, NEW m \in Member, NEW c \in Card, DeleteCard(m, c)
    PROVE  /\ \A j \in LiveColumn : Orderly(j, None)
           /\ \/ DOMAIN group' = DOMAIN group
              \/ card[c].group # None /\ Cardinality(Members(card[c].group) \ {c}) = 1
  <1>1. c \in DOMAIN card /\ c \notin DOMAIN group
    BY IdFacts DEF DeleteCard, Sound, ItemsSound
  <1> DEFINE g == card[c].group
             rest == Members(g) \ {c}
  <1>2. CASE g = None
    <2>1. /\ card' = Restrict(card, DOMAIN card \ {c})
          /\ position' = Restrict(position, DOMAIN position \ {c})
          /\ group' = group
      BY <1>2 DEF DeleteCard
    <2>2. /\ DOMAIN card' = DOMAIN card \ {c} /\ \A d \in DOMAIN card' : card'[d] = card[d]
          /\ \A i \in DOMAIN position \ {c} : position'[i] = position[i]
      BY <2>1 DEF Restrict
    <2>3. \A j : TopLevel(j)' \subseteq TopLevel(j) /\ TopLevel(j)' \subseteq DOMAIN position \ {c}
      BY <1>1, <2>1, <2>2, ItemOfColumn DEF TopLevel, Ungrouped
    <2> QED
      BY <2>1, <2>2, <2>3, ColumnKept
  <1>3. CASE g # None /\ Cardinality(rest) # 1
    <2>1. g \in DOMAIN group /\ LeaveGroup(c, g)
      BY <1>1, <1>3 DEF DeleteCard, Sound, ItemsSound
    <2>2. /\ card' = Restrict(card, DOMAIN card \ {c})
          /\ group' = [group EXCEPT ![g].primary = PrimaryAmong(g, rest)]
          /\ position' = Restrict(position, DOMAIN position \ {c})
      BY <1>3, <2>1 DEF LeaveGroup
    <2>3. /\ DOMAIN card' = DOMAIN card \ {c} /\ \A d \in DOMAIN card' : card'[d] = card[d]
          /\ \A i \in DOMAIN position \ {c} : position'[i] = position[i]
      BY <2>2 DEF Restrict
    <2>4. DOMAIN group' = DOMAIN group /\ \A h \in DOMAIN group : group'[h].column = group[h].column
      BY <2>2 DEF Sound, ItemsSound, GroupRow
    <2>5. \A j : TopLevel(j)' \subseteq TopLevel(j) /\ TopLevel(j)' \subseteq DOMAIN position \ {c}
      BY <1>1, <2>3, <2>4, ItemOfColumn DEF TopLevel, Ungrouped
    <2> QED
      BY <2>3, <2>4, <2>5, ColumnKept
  <1>4. CASE g # None /\ Cardinality(rest) = 1
    <2> HIDE DEF g
    <2>a. PICK d : LeftAlone(c, g, d)
      BY <1>4, LastCardLeft DEF g
    <2>1. /\ position'[d] = position[g]
          /\ \A i \in DOMAIN position \ {c, d, g} : position'[i] = position[i]
          /\ \A j : /\ c \notin TopLevel(j) /\ d \notin TopLevel(j)
                    /\ g \in TopLevel(j) <=> j = group[g].column
                    /\ TopLevel(j)' = IF j = group[g].column
                                      THEN (TopLevel(j) \ {g}) \cup {d} ELSE TopLevel(j)
      BY <2>a DEF LeftAlone
    <2>2. ASSUME NEW j \in LiveColumn
          PROVE  Orderly(j, None)
      <3>1. CASE j = group[g].column
        <4>1. \A i \in TopLevel(j) \ {g} : position'[i] = position[i]
          BY <2>1, ItemOfColumn
        <4>2. g \in {g} \cap TopLevel(j) /\ d \notin TopLevel(j) /\ TopLevel(j)' = (TopLevel(j) \ {g}) \cup {d}
          BY <2>1, <3>1
        <4> QED
          BY <2>1, <4>1, <4>2, PlaceTaken
      <3>2. CASE j # group[g].column
        <4>1. TopLevel(j)' = TopLevel(j) /\ \A i \in TopLevel(j) : position'[i] = position[i]
          BY <2>1, <3>2, ItemOfColumn
        <4> QED
          BY <4>1, ColumnKept
      <3> QED
        BY <3>1, <3>2
    <2> QED
      BY <1>4, <2>2 DEF g
  <1> QED
    BY <1>2, <1>3, <1>4

\* Group g is formed of cards of column k and stands where the first of them stood.
Formed(k, cards, g) ==
    LET first == First(cards, PositionOrder(cards, position))
    IN  /\ DOMAIN group' = DOMAIN group \cup {g} /\ Members(g)' = cards
        /\ \A i \in DOMAIN position \ {g} : position'[i] = position[i]
        /\ first \in cards
        /\ \A c \in cards \ {first} : <<first, c>> \in PositionOrder(cards, position)
        /\ position'[g] = position[first]
        /\ \A j : /\ TopLevel(j) \subseteq DOMAIN position /\ g \notin TopLevel(j)
                  /\ cards \cap TopLevel(j) = IF j = k THEN cards ELSE {}
                  /\ TopLevel(j)' = (TopLevel(j) \ cards) \cup (IF j = k THEN {g} ELSE {})

\* A new group stands where the first of its cards stood.
LEMMA GroupFormed ==
    ASSUME Sound, NEW m \in Member, NEW k \in LiveColumn,
           NEW cards \in SUBSET Ungrouped(k), NEW primary \in cards, NEW g \in Group,
           CreateCardGroup(m, k, cards, primary, g)
    PROVE  Formed(k, cards, g)
  <1> DEFINE row == [x \in {g} |-> [column |-> k, primary |-> primary]]
             place == [x \in {g} |-> GroupPlace(cards, primary)]
             first == First(cards, PositionOrder(cards, position))
  <1>1. /\ g \notin DOMAIN group
        /\ group' = Written(group, row)
        /\ card' = [c \in DOMAIN card |->
                      IF c \in cards
                      THEN [card[c] EXCEPT !.group = g,
                                           !.groupPosition = Renumbered(cards, PositionOrder(cards, position))[c]]
                      ELSE card[c]]
        /\ position' = Written(position, place)
    BY DEF CreateCardGroup
  <1>2. /\ DOMAIN group' = DOMAIN group \cup {g} /\ group'[g].column = k
        /\ \A h \in DOMAIN group : group'[h] = group[h]
        /\ position'[g] = position[first]
        /\ \A i \in DOMAIN position \ {g} : position'[i] = position[i]
    BY <1>1 DEF Written, GroupPlace
  <1> HIDE DEF row, place, first
  <1>3. /\ g # None /\ g \notin DOMAIN card /\ k \in Column
        /\ \A c \in cards : c \in DOMAIN card /\ card[c].column = k /\ card[c].group = None
        /\ DOMAIN card \cap DOMAIN group = {}
        /\ \A j : TopLevel(j) \subseteq DOMAIN position /\ g \notin TopLevel(j)
    BY <1>1, IdFacts, ItemOfColumn DEF Ungrouped, Sound, ItemsSound, ColumnsSound, LiveColumn
  <1>4. /\ DOMAIN card' = DOMAIN card
        /\ \A c \in cards : card'[c].group = g
        /\ \A c \in DOMAIN card \ cards : card'[c] = card[c]
    <2>1. \A c \in cards : card[c] \in CardRow
      BY <1>3 DEF Sound, ItemsSound
    <2> QED
      BY <1>1, <1>3, <2>1 DEF CardRow
  <1>5. first \in cards /\ \A c \in cards \ {first} : <<first, c>> \in PositionOrder(cards, position)
    <2>1. IsFiniteSet(cards) /\ Ids(cards) /\ cards # {}
      BY <1>3, MemberOrderStrict DEF Sound
    <2>2. \A c \in cards : position[c] \in Int
      BY <1>3, ItemFacts DEF Sound
    <2>3. StrictOrder(cards, PositionOrder(cards, position))
      BY <2>1, <2>2, PositionOrderStrict
    <2> QED
      BY <2>1, <2>3, FirstIsFirst DEF first
  <1>6. \A j : /\ cards \cap TopLevel(j) = IF j = k THEN cards ELSE {}
               /\ TopLevel(j)' = (TopLevel(j) \ cards) \cup (IF j = k THEN {g} ELSE {})
    <2> SUFFICES ASSUME NEW j
                 PROVE  /\ cards \cap TopLevel(j) = IF j = k THEN cards ELSE {}
                        /\ TopLevel(j)' = (TopLevel(j) \ cards) \cup (IF j = k THEN {g} ELSE {})
      OBVIOUS
    <2>1. TopLevel(j)' = {x \in DOMAIN card' : card'[x].column = j /\ card'[x].group = None}
                          \cup {h \in DOMAIN group' : group'[h].column = j}
      BY DEF TopLevel, Ungrouped
    <2>2. TopLevel(j) = {x \in DOMAIN card : card[x].column = j /\ card[x].group = None}
                          \cup {h \in DOMAIN group : group[h].column = j}
      BY DEF TopLevel, Ungrouped
    <2>3. cards \cap TopLevel(j) = IF j = k THEN cards ELSE {}
      BY <1>3, <2>2
    <2>4. {x \in DOMAIN card' : card'[x].column = j /\ card'[x].group = None}
             = {x \in DOMAIN card : card[x].column = j /\ card[x].group = None} \ cards
      BY <1>3, <1>4
    <2>5. {h \in DOMAIN group' : group'[h].column = j}
             = {h \in DOMAIN group : group[h].column = j} \cup (IF j = k THEN {g} ELSE {})
      BY <1>1, <1>2
    <2> QED
      BY <1>3, <2>1, <2>2, <2>3, <2>4, <2>5
  <1>7. Members(g)' = cards
    <2>1. \A c \in DOMAIN card \ cards : card'[c].group # g
      BY <1>1, <1>3, <1>4 DEF Sound, ItemsSound
    <2> QED
      BY <1>3, <1>4, <2>1 DEF Members
  <1> QED
    BY <1>2, <1>3, <1>5, <1>6, <1>7 DEF first, Formed

\* The order of every column is kept.
LEMMA CreateCardGroupOrderly ==
    ASSUME Sound, PlacesDistinct, NEW m \in Member, NEW k \in LiveColumn,
           NEW cards \in SUBSET Ungrouped(k), NEW primary \in cards, NEW g \in Group,
           CreateCardGroup(m, k, cards, primary, g)
    PROVE  \A j \in LiveColumn : Orderly(j, None)
  <1> SUFFICES ASSUME NEW j \in LiveColumn
               PROVE  Orderly(j, None)
    OBVIOUS
  <1> DEFINE first == First(cards, PositionOrder(cards, position))
  <1>a. Formed(k, cards, g)
    BY GroupFormed
  <1>1. /\ g \notin TopLevel(j) /\ position'[g] = position[first]
        /\ \A i \in TopLevel(j) : position'[i] = position[i]
    BY <1>a DEF Formed
  <1>4. /\ j = k => first \in cards \cap TopLevel(j) /\ TopLevel(j)' = (TopLevel(j) \ cards) \cup {g}
        /\ j # k => TopLevel(j)' \subseteq TopLevel(j)
    <2>1. /\ first \in cards /\ cards \cap TopLevel(j) = IF j = k THEN cards ELSE {}
          /\ TopLevel(j)' = (TopLevel(j) \ cards) \cup (IF j = k THEN {g} ELSE {})
      BY <1>a DEF Formed
    <2> HIDE DEF first
    <2> QED
      BY <2>1
  <1> HIDE DEF first
  <1>2. CASE j = k
    BY <1>1, <1>2, <1>4, PlaceTaken
  <1>3. CASE j # k
    BY <1>1, <1>3, <1>4, ColumnKept
  <1> QED
    BY <1>2, <1>3

\* A card that moves takes its new place and disturbs no other.
LEMMA MoveCardOrderly ==
    ASSUME Sound, PlacesDistinct, NEW m \in Member, NEW c \in Card, NEW target \in LiveColumn,
           NEW b, NEW a, NEW sorted, MoveCard(m, c, target, b, a, sorted)
    PROVE  \A j \in LiveColumn : Orderly(j, c)
  <1> DEFINE source == card[c].column
  <1>1. /\ c \in DOMAIN card /\ card[c].group = None
        /\ card' = [card EXCEPT ![c].column = target] /\ group' = group
        /\ MoveItem(c, source, target, b, a, sorted)
    BY DEF MoveCard
  <1>2. source \in LiveColumn /\ c \in TopLevel(source)
    BY <1>1 DEF Sound, ItemsInColumns, LiveColumn, TopLevel, Ungrouped
  <1>3. /\ DOMAIN card' = DOMAIN card
        /\ card'[c].column = target /\ card'[c].group = None
        /\ \A d \in DOMAIN card \ {c} : card'[d] = card[d]
    BY <1>1 DEF Sound, ItemsSound, CardRow
  <1>4. c \notin DOMAIN group
    BY <1>1, ItemOfColumn
  <1>5. \A j : TopLevel(j)' = (TopLevel(j) \ {c}) \cup (IF j = target THEN {c} ELSE {})
    <2> SUFFICES ASSUME NEW j
                 PROVE  TopLevel(j)' = (TopLevel(j) \ {c}) \cup (IF j = target THEN {c} ELSE {})
      OBVIOUS
    <2>1. {x \in DOMAIN card' : card'[x].column = j /\ card'[x].group = None}
             = ({x \in DOMAIN card : card[x].column = j /\ card[x].group = None} \ {c})
                  \cup (IF j = target THEN {c} ELSE {})
      BY <1>1, <1>3
    <2> QED
      BY <1>1, <1>4, <2>1 DEF TopLevel, Ungrouped
  <1> HIDE DEF source
  <1> QED
    BY <1>1, <1>2, <1>5, ItemMoved

\* So does a group.
LEMMA MoveCardGroupOrderly ==
    ASSUME Sound, PlacesDistinct, NEW m \in Member, NEW g \in DOMAIN group, NEW target \in LiveColumn,
           NEW b, NEW a, NEW sorted, MoveCardGroup(m, g, target, b, a, sorted)
    PROVE  \A j \in LiveColumn : Orderly(j, g)
  <1> DEFINE source == group[g].column
  <1>1. /\ group' = [group EXCEPT ![g].column = target]
        /\ card' = [c \in DOMAIN card |->
                      IF c \in Members(g) THEN [card[c] EXCEPT !.column = target] ELSE card[c]]
        /\ MoveItem(g, source, target, b, a, sorted)
    BY DEF MoveCardGroup
  <1>2. source \in LiveColumn /\ g \in TopLevel(source)
    BY DEF Sound, ItemsInColumns, LiveColumn, TopLevel
  <1>3. /\ DOMAIN card' = DOMAIN card
        /\ \A c \in Members(g) : card[c].group # None /\ card'[c].group # None
        /\ \A c \in DOMAIN card \ Members(g) : card'[c] = card[c]
    <2>1. \A c \in Members(g) : card[c].group # None /\ c \in DOMAIN card
      BY ItemOfColumn, IdFacts DEF Members, Sound, ItemsSound
    <2>2. \A c \in DOMAIN card : card[c] \in CardRow
      BY DEF Sound, ItemsSound
    <2> QED
      BY <1>1, <2>1, <2>2 DEF CardRow
  <1>4. DOMAIN group' = DOMAIN group /\ group'[g].column = target
        /\ \A h \in DOMAIN group \ {g} : group'[h] = group[h]
    BY <1>1 DEF Sound, ItemsSound, GroupRow
  <1>5. g \notin DOMAIN card
    BY ItemOfColumn
  <1>6. \A j : TopLevel(j)' = (TopLevel(j) \ {g}) \cup (IF j = target THEN {g} ELSE {})
    <2> SUFFICES ASSUME NEW j
                 PROVE  TopLevel(j)' = (TopLevel(j) \ {g}) \cup (IF j = target THEN {g} ELSE {})
      OBVIOUS
    <2>1. {x \in DOMAIN card' : card'[x].column = j /\ card'[x].group = None}
             = {x \in DOMAIN card : card[x].column = j /\ card[x].group = None}
      BY <1>3
    <2>2. {h \in DOMAIN group' : group'[h].column = j}
             = ({h \in DOMAIN group : group[h].column = j} \ {g}) \cup (IF j = target THEN {g} ELSE {})
      BY <1>4
    <2> QED
      BY <1>5, <2>1, <2>2 DEF TopLevel, Ungrouped
  <1> HIDE DEF source
  <1> QED
    BY <1>1, <1>2, <1>6, ItemMoved

-----------------------------------------------------------------------------
(* Groups that are taken apart. *)

\* A division into n shares: of numbers n apart the quotients differ, and one less
\* than n times as much has a smaller quotient.
LEMMA Shares ==
    ASSUME NEW n \in Nat \ {0}
    PROVE  /\ \A i \in Int : i \div n \in Int /\ n * (i \div n) <= i /\ i < n * (i \div n) + n
           /\ \A i, j \in Int : i + n <= j => i \div n < j \div n
           /\ \A i, d \in Int : i < n * d => i \div n < d
           /\ \A i \in Int : i >= 0 => i \div n >= 0
  <1>1. \A i \in Int : i \div n \in Int /\ n * (i \div n) <= i /\ i < n * (i \div n) + n
    OBVIOUS
  <1>2. \A i, j \in Int : i + n <= j => i \div n < j \div n
    <2> SUFFICES ASSUME NEW i \in Int, NEW j \in Int, i + n <= j
                 PROVE  i \div n < j \div n
      OBVIOUS
    <2> DEFINE a == i \div n
               b == j \div n
    <2>1. a \in Int /\ b \in Int /\ n * a <= i /\ j < n * b + n
      BY <1>1
    <2> HIDE DEF a, b
    <2>2. n * a + n < n * b + n
      BY <2>1
    <2>3. ~(b <= a)
      <3>1. \A p, q \in Int : p <= q => n * p <= n * q
        OBVIOUS
      <3> QED
        BY <2>1, <2>2, <3>1
    <2> QED
      BY <2>1, <2>3 DEF a, b
  <1>3. \A i, d \in Int : i < n * d => i \div n < d
    <2> SUFFICES ASSUME NEW i \in Int, NEW d \in Int, i < n * d
                 PROVE  i \div n < d
      OBVIOUS
    <2> DEFINE a == i \div n
    <2>1. a \in Int /\ n * a <= i
      BY <1>1
    <2> HIDE DEF a
    <2>2. \A p, q \in Int : p <= q => n * p <= n * q
      OBVIOUS
    <2>3. ~(d <= a)
      BY <2>1, <2>2
    <2> QED
      BY <2>1, <2>3 DEF a
  <1>4. \A i \in Int : i >= 0 => i \div n >= 0
    OBVIOUS
  <1> QED
    BY <1>1, <1>2, <1>3, <1>4

\* The list A, in order P, with the rows B, in order M, put before its end L.
Spliced(A, P, B, M, L) == P \cup M \cup ((A \ L) \X B) \cup (B \X L)

\* L is an end of the list A.
EndOf(A, P, L) == L \subseteq A /\ \A i, j \in A : i \in L /\ <<i, j>> \in P => j \in L

\* Then the list is in a strict order.
LEMMA SplicedStrict ==
    ASSUME NEW A, NEW P, P \subseteq A \X A, StrictOrder(A, P),
           NEW B, NEW M, M \subseteq B \X B, StrictOrder(B, M), A \cap B = {},
           NEW L, EndOf(A, P, L)
    PROVE  StrictOrder(A \cup B, Spliced(A, P, B, M, L))
  <1> DEFINE R == Spliced(A, P, B, M, L)
  <1>1. /\ \A i, j \in A : <<i, j>> \in R <=> <<i, j>> \in P
        /\ \A i, j \in B : <<i, j>> \in R <=> <<i, j>> \in M
        /\ \A i \in A, j \in B : (<<i, j>> \in R <=> i \notin L) /\ (<<j, i>> \in R <=> i \in L)
    BY DEF Spliced, EndOf
  <1>2. \A i, j \in A : i \notin L /\ j \in L => <<i, j>> \in P
    BY DEF StrictOrder, EndOf
  <1> HIDE DEF R
  <1>3. \A i \in A \cup B : <<i, i>> \notin R
    BY <1>1 DEF StrictOrder
  <1>4. \A i, j \in A \cup B : i = j \/ <<i, j>> \in R \/ <<j, i>> \in R
    BY <1>1 DEF StrictOrder
  <1>5. \A i, j, k \in A \cup B : <<i, j>> \in R /\ <<j, k>> \in R => <<i, k>> \in R
    <2> SUFFICES ASSUME NEW i \in A \cup B, NEW j \in A \cup B, NEW k \in A \cup B,
                        <<i, j>> \in R, <<j, k>> \in R
                 PROVE  <<i, k>> \in R
      OBVIOUS
    <2>1. CASE i \in A /\ k \in A
      BY <2>1, <1>1, <1>2 DEF StrictOrder
    <2>2. CASE i \in B /\ k \in B
      BY <2>2, <1>1 DEF StrictOrder
    <2>3. CASE i \in A /\ k \in B
      BY <2>3, <1>1 DEF EndOf
    <2>4. CASE i \in B /\ k \in A
      BY <2>4, <1>1 DEF EndOf
    <2> QED
      BY <2>1, <2>2, <2>3, <2>4
  <1>6. StrictOrder(A \cup B, R)
    BY <1>3, <1>4, <1>5 DEF StrictOrder
  <1> QED
    BY <1>6 DEF R

\* The items beside a group.
Others(g) == TopLevel(group[g].column) \ {g}

\* The cards of a group that goes stand, in their order, where it stood, and no
\* other item moves among the others.
LEMMA UngroupPlaced ==
    ASSUME Sound, PlacesDistinct, NEW g \in DOMAIN group, NEW r,
           \A i \in Others(g) \cup Members(g) :
              r[i] = Written(position, UngroupPositions(g, Members(g)))[i]
    PROVE  /\ WellPlaced(Others(g) \cup Members(g), r)
           /\ SameOrder(Others(g), position, r)
           /\ \A c, d \in Members(g) : <<c, d>> \in MemberOrder(Members(g)) <=> r[c] < r[d]
           /\ \A i \in Others(g), c \in Members(g) : r[i] < r[c] <=> position[i] < position[g]
           /\ DOMAIN UngroupPositions(g, Members(g)) \subseteq Others(g) \cup Members(g)
  <1> DEFINE others == Others(g)
             members == Members(g)
             items == TopLevel(group[g].column)
             order == PositionOrder(items, position)
             later == {i \in items : <<g, i>> \in order}
             next == First(later, PositionOrder(later, position))
             n == Cardinality(members)
             gap == position[next] - position[g]
             rank == [c \in members |-> Rank(members, MemberOrder(members), c)]
             split == PositionOrder(others, position) \cup MemberOrder(members)
                         \cup ((others \ later) \X members) \cup (members \X later)
             p1 == [c \in members |-> position[g] + rank[c] * POSITION_STEP]
             p2 == [c \in members |-> position[g] + ((gap * rank[c]) \div n)]
             p3 == Renumbered(others \cup members, split)
  <1>1. UngroupPositions(g, members) =
           IF later = {} /\ position[g] + (n - 1) * POSITION_STEP <= MAX_POSITION THEN p1
           ELSE IF later # {} /\ gap > n - 1 THEN p2 ELSE p3
    BY DEF UngroupPositions, Others
  <1>2. /\ g \in items /\ items = others \cup {g} /\ g \notin others
        /\ items \subseteq DOMAIN position /\ items \subseteq Card \cup Group
        /\ WellPlaced(items, position)
        /\ \A i \in items : position[i] \in Int /\ MIN_POSITION <= position[i] /\ position[i] <= MAX_POSITION
    <2>1. group[g].column \in LiveColumn
      BY DEF Sound, ItemsInColumns, LiveColumn
    <2>2. WellPlaced(items, position)
      BY <2>1 DEF PlacesDistinct
    <2>3. \A i \in items : position[i] \in Int /\ MIN_POSITION <= position[i] /\ position[i] <= MAX_POSITION
      BY <2>2, PositionAssumption DEF WellPlaced
    <2> QED
      BY <2>2, <2>3, ItemOfColumn DEF Others
  <1>3. /\ members \subseteq DOMAIN card /\ IsFiniteSet(members) /\ Ids(members)
        /\ StrictOrder(members, MemberOrder(members)) /\ MemberOrder(members) \subseteq members \X members
        /\ n \in Nat \ {0} /\ others \cap members = {} /\ members \subseteq DOMAIN position
    <2>1. members \subseteq DOMAIN card /\ \A c \in members : card[c].group = g
      BY DEF Members
    <2>2. IsFiniteSet(members) /\ Ids(members) /\ StrictOrder(members, MemberOrder(members))
      BY <2>1, MemberOrderStrict DEF Sound
    <2>3. MemberOrder(members) \subseteq members \X members
      BY PositionOrderPair DEF MemberOrder
    <2>4. n \in Nat /\ n >= 2
      BY <2>2, FS_CardinalityType DEF Sound, GroupsIntact
    <2>5. others \cap members = {} /\ members \subseteq DOMAIN position
      BY <2>1, ItemOfColumn DEF Sound, ItemsSound, Others
    <2> QED
      BY <2>1, <2>2, <2>3, <2>4, <2>5
  <1>4. /\ \A i, j \in items : <<i, j>> \in order <=> position[i] < position[j]
        /\ later = {i \in items : position[g] < position[i]}
    <2>1. Ids(items)
      BY <1>2, Room
    <2>2. \A i, j \in items : <<i, j>> \in order <=> position[i] < position[j]
      BY <1>2, <2>1, PlacedOrder
    <2> QED
      BY <1>2, <2>2
  <1>5. /\ \A c \in members : rank[c] \in Nat /\ rank[c] <= n - 1
        /\ \A c, d \in members : <<c, d>> \in MemberOrder(members) <=> rank[c] < rank[d]
        /\ \A c, d \in members : rank[c] = rank[d] => c = d
    <2>1. \A c \in members : rank[c] \in Nat /\ rank[c] < n
      BY <1>3, RankBound DEF StrictOrder
    <2>2. \A c, d \in members : <<c, d>> \in MemberOrder(members) => rank[c] < rank[d]
      BY <1>3, RankIncreases
    <2>3. \A c, d \in members : c = d \/ <<c, d>> \in MemberOrder(members) \/ <<d, c>> \in MemberOrder(members)
      BY <1>3 DEF StrictOrder
    <2> HIDE DEF rank, n
    <2>4. \A c \in members : rank[c] \in Nat /\ rank[c] <= n - 1
      BY <1>3, <2>1
    <2>5. \A c, d \in members : rank[c] < rank[d] => <<c, d>> \in MemberOrder(members)
      <3>1. \A c, d \in members : rank[c] < rank[d] => c # d /\ ~(rank[d] < rank[c])
        BY <2>4
      <3> QED
        BY <2>2, <2>3, <3>1
    <2>6. \A c, d \in members : rank[c] = rank[d] => c = d
      <3>1. \A c, d \in members : rank[c] = rank[d] => ~(rank[c] < rank[d]) /\ ~(rank[d] < rank[c])
        BY <2>4
      <3> QED
        BY <2>2, <2>3, <3>1
    <2> QED
      BY <2>2, <2>4, <2>5, <2>6
  <1>6. later # {} => /\ next \in later /\ next \in items
                      /\ gap \in Int /\ position[next] = position[g] + gap
                      /\ \A i \in later : position[next] <= position[i]
    <2> SUFFICES ASSUME later # {}
                 PROVE  /\ next \in later /\ next \in items
                        /\ gap \in Int /\ position[next] = position[g] + gap
                        /\ \A i \in later : position[next] <= position[i]
      OBVIOUS
    <2>1. later \subseteq items
      OBVIOUS
    <2> HIDE DEF later, items
    <2>2. IsFiniteSet(later) /\ Ids(later) /\ WellPlaced(later, position)
      BY <1>2, <2>1, Room, Fewer
    <2>3. \A i, j \in later : position[i] \in Int /\ (<<i, j>> \in PositionOrder(later, position) <=> position[i] < position[j])
      BY <2>2, PlacedOrder
    <2>4. StrictOrder(later, PositionOrder(later, position))
      BY <2>2, <2>3, PositionOrderStrict
    <2>5. next \in later /\ \A j \in later \ {next} : <<next, j>> \in PositionOrder(later, position)
      BY <2>2, <2>4, FirstIsFirst
    <2> HIDE DEF next
    <2>6. \A i \in later : position[next] <= position[i]
      <3>1. \A i \in later : i = next \/ position[next] < position[i]
        BY <2>3, <2>5
      <3>2. \A i \in later : position[i] \in Int
        BY <2>3
      <3> QED
        BY <2>5, <3>1, <3>2
    <2>7. gap \in Int /\ position[next] = position[g] + gap
      <3>1. position[next] \in Int /\ position[g] \in Int
        BY <1>2, <2>3, <2>5
      <3> QED
        BY <3>1
    <2> QED
      BY <2>1, <2>5, <2>6, <2>7
  <1>7. /\ DOMAIN p1 = members /\ DOMAIN p2 = members
        /\ DOMAIN p3 = others \cup members
        /\ \A c \in members : /\ p1[c] = position[g] + rank[c] * POSITION_STEP
                              /\ p2[c] = position[g] + ((gap * rank[c]) \div n)
    BY DEF Renumbered
  <1>a. \A i \in others \cup members : r[i] = Written(position, UngroupPositions(g, members))[i]
    OBVIOUS
  <1> HIDE DEF p1, p2, p3, rank, n, gap, next, split, others, members
  \* The members' distances from the group's place, in either of the first two cases.
  <1>8. ASSUME NEW p, DOMAIN p = members, UngroupPositions(g, members) = p,
               NEW h, \A c \in members : /\ h[c] \in Nat /\ p[c] = position[g] + h[c]
                                         /\ p[c] <= MAX_POSITION
                                         /\ \A i \in later : p[c] < position[i],
               \A c, d \in members : rank[c] < rank[d] => h[c] < h[d]
        PROVE  /\ WellPlaced(others \cup members, r)
               /\ SameOrder(others, position, r)
               /\ \A c, d \in members : <<c, d>> \in MemberOrder(members) <=> r[c] < r[d]
               /\ \A i \in others, c \in members : r[i] < r[c] <=> position[i] < position[g]
               /\ DOMAIN UngroupPositions(g, members) \subseteq others \cup members
    <2>a. /\ \A c \in members : r[c] = p[c]
          /\ \A i \in others : r[i] = position[i]
      <3>1. \A i \in others \cup members : r[i] = Written(position, p)[i] /\ i \in DOMAIN position
        BY <1>a, <1>2, <1>3, <1>8
      <3>2. others \cap members = {}
        BY <1>3
      <3> QED
        BY <1>8, <3>1, <3>2 DEF Written
    <2>1. /\ \A c \in members : /\ r[c] = position[g] + h[c] /\ r[c] <= MAX_POSITION
                                /\ \A i \in later : r[c] < position[i]
          /\ \A i \in others : r[i] = position[i]
      <3> HIDE DEF later
      <3> QED BY <1>8, <2>a
    <2>2. \A c \in members : r[c] \in Int /\ position[g] <= r[c]
      BY <1>2, <1>8, <2>1
    <2>3. \A c, d \in members : rank[c] < rank[d] => r[c] < r[d]
      BY <1>2, <1>8, <2>1
    <2>4. \A c, d \in members : rank[c] < rank[d] <=> r[c] < r[d]
      BY <1>5, <2>2, <2>3
    <2>5. \A c, d \in members : r[c] = r[d] => c = d
      <3>1. \A c, d \in members : r[c] = r[d] => rank[c] = rank[d]
        BY <1>5, <2>2, <2>4
      <3> QED
        BY <1>5, <3>1
    <2>6. \A i \in others : /\ i \in later \/ position[i] < position[g]
                            /\ position[i] \in Int /\ position[g] \in Int
                            /\ i \in later => ~(position[i] < position[g])
      <3> HIDE DEF later, items
      <3>1. \A i \in others : i \in items /\ i # g /\ position[i] # position[g]
        BY <1>2 DEF WellPlaced
      <3> QED
        BY <1>2, <1>4, <3>1
    <2>7. \A i \in others, c \in members : (r[i] < r[c] <=> position[i] < position[g]) /\ r[i] # r[c]
      <3> SUFFICES ASSUME NEW i \in others, NEW c \in members
                   PROVE  (r[i] < r[c] <=> position[i] < position[g]) /\ r[i] # r[c]
        OBVIOUS
      <3>1. r[c] \in Int /\ position[g] <= r[c] /\ r[i] = position[i] /\ position[i] \in Int /\ position[g] \in Int
        BY <2>1, <2>2, <2>6
      <3> HIDE DEF later
      <3>2. CASE i \in later
        <4>1. r[c] < position[i] /\ ~(position[i] < position[g])
          BY <2>1, <2>6, <3>2
        <4> QED
          BY <3>1, <4>1
      <3>3. CASE i \notin later
        <4>1. position[i] < position[g]
          BY <2>6, <3>3
        <4> QED
          BY <3>1, <4>1
      <3> QED
        BY <3>2, <3>3
    <2>8. WellPlaced(others \cup members, r)
      <3>1. \A i \in others \cup members : r[i] \in MIN_POSITION .. MAX_POSITION
        BY <1>2, <2>1, <2>2, PositionAssumption
      <3>2. \A i, j \in others : r[i] = r[j] => i = j
        BY <1>2, <2>1 DEF WellPlaced
      <3> QED
        BY <2>5, <2>7, <3>1, <3>2 DEF WellPlaced
    <2>9. SameOrder(others, position, r)
      BY <2>1 DEF SameOrder
    <2> QED
      BY <1>5, <1>8, <2>4, <2>7, <2>8, <2>9
  <1>9. CASE later = {} /\ position[g] + (n - 1) * POSITION_STEP <= MAX_POSITION
    <2> DEFINE h == [c \in members |-> rank[c] * POSITION_STEP]
    <2>1. \A i, j \in Nat : /\ i * POSITION_STEP \in Nat
                            /\ i <= j => i * POSITION_STEP <= j * POSITION_STEP
                            /\ i < j => i * POSITION_STEP < j * POSITION_STEP
      BY PositionAssumption
    <2>2. \A c \in members : h[c] \in Nat /\ h[c] <= (n - 1) * POSITION_STEP
      <3> SUFFICES ASSUME NEW c \in members
                   PROVE  h[c] \in Nat /\ h[c] <= (n - 1) * POSITION_STEP
        OBVIOUS
      <3>1. n - 1 \in Nat /\ rank[c] \in Nat /\ rank[c] <= n - 1
        BY <1>3, <1>5
      <3>2. rank[c] * POSITION_STEP \in Nat /\ rank[c] * POSITION_STEP <= (n - 1) * POSITION_STEP
        BY <2>1, <3>1
      <3>3. h[c] = rank[c] * POSITION_STEP
        OBVIOUS
      <3> HIDE DEF h
      <3> QED
        BY <3>2, <3>3
    <2>3. \A c, d \in members : rank[c] < rank[d] => h[c] < h[d]
      <3> SUFFICES ASSUME NEW c \in members, NEW d \in members, rank[c] < rank[d]
                   PROVE  h[c] < h[d]
        OBVIOUS
      <3>1. rank[c] * POSITION_STEP < rank[d] * POSITION_STEP
        BY <1>5, <2>1
      <3>2. h[c] = rank[c] * POSITION_STEP /\ h[d] = rank[d] * POSITION_STEP
        OBVIOUS
      <3> HIDE DEF h
      <3> QED
        BY <3>1, <3>2
    <2>4. \A c \in members : p1[c] = position[g] + h[c]
      BY <1>7
    <2>5. (n - 1) * POSITION_STEP \in Int
      BY <1>3, PositionAssumption
    <2> HIDE DEF h
    <2>6. \A c \in members : p1[c] <= MAX_POSITION
      BY <1>2, <1>9, <2>2, <2>4, <2>5, PositionAssumption
    <2> QED
      BY <1>1, <1>7, <1>8, <1>9, <2>2, <2>3, <2>4, <2>6 DEF others, members
  <1>10. CASE later # {} /\ gap > n - 1
    <2> DEFINE M(i) == gap * i
               all == n * gap
               h == [c \in members |-> M(rank[c]) \div n]
    <2>1. gap \in Nat /\ gap >= n
      BY <1>3, <1>6, <1>10
    <2>2. \A i, j \in Nat : /\ M(i) \in Nat
                            /\ i < j => M(i) + n <= M(j)
                            /\ i <= n - 1 => M(i) < all
      <3>1. \A i, j \in Nat : i < j => gap * i + gap <= gap * j
        BY <2>1
      <3>2. \A i \in Nat : i <= n - 1 => gap * i + gap <= gap * n
        BY <1>3, <2>1
      <3>3. gap * n = n * gap
        BY <1>3, <2>1
      <3>4. \A i \in Nat : gap * i \in Nat
        BY <2>1
      <3>5. gap * n \in Nat
        BY <1>3, <3>4
      <3> QED
        BY <1>3, <2>1, <3>1, <3>2, <3>3, <3>4, <3>5
    <2>3. \A c \in members : h[c] = M(rank[c]) \div n
      OBVIOUS
    <2>4. \A c \in members : p2[c] = position[g] + h[c]
      BY <1>7
    <2>5. \A i \in Int : i < all => i \div n < gap
      BY <1>3, <2>1, Shares
    <2> HIDE DEF M, all, h
    <2>6. \A c \in members : h[c] \in Nat /\ h[c] < gap
      <3> SUFFICES ASSUME NEW c \in members
                   PROVE  h[c] \in Nat /\ h[c] < gap
        OBVIOUS
      <3> DEFINE i == M(rank[c])
      <3>1. i \in Nat /\ i < all
        BY <1>5, <2>2
      <3> HIDE DEF i
      <3>2. i \div n \in Nat /\ i \div n < gap
        BY <1>3, <2>5, <3>1, Shares
      <3> QED
        BY <2>3, <3>2 DEF i
    <2>7. \A c, d \in members : rank[c] < rank[d] => h[c] < h[d]
      <3> SUFFICES ASSUME NEW c \in members, NEW d \in members, rank[c] < rank[d]
                   PROVE  h[c] < h[d]
        OBVIOUS
      <3> DEFINE i == M(rank[c])
                 j == M(rank[d])
      <3>1. i \in Int /\ j \in Int /\ i + n <= j
        BY <1>5, <2>2
      <3> HIDE DEF i, j
      <3>2. i \div n < j \div n
        BY <1>3, <3>1, Shares
      <3> QED
        BY <2>3, <3>2 DEF i, j
    <2>8. \A c \in members : p2[c] <= MAX_POSITION /\ \A i \in later : p2[c] < position[i]
      <3>1. next \in items /\ position[next] = position[g] + gap
        BY <1>6, <1>10
      <3> HIDE DEF later, items
      <3>2. \A c \in members : p2[c] < position[next] /\ p2[c] \in Int
        BY <1>2, <2>1, <2>4, <2>6, <3>1
      <3>3. \A i \in later : i \in items /\ position[next] <= position[i]
        BY <1>6, <1>10 DEF later
      <3> QED
        BY <1>2, <3>1, <3>2, <3>3, PositionAssumption
    <2> QED
      BY <1>1, <1>7, <1>8, <1>10, <2>4, <2>6, <2>7, <2>8 DEF others, members
  <1>11. CASE UngroupPositions(g, members) = p3
    <2>1. \A i \in others \cup members : r[i] = p3[i]
      BY <1>a, <1>7, <1>11 DEF Written
    <2>2. others \cup members \subseteq Card \cup Group /\ others \subseteq Card \cup Group
      BY <1>2, <1>3 DEF Sound, ItemsSound
    <2>3. /\ IsFiniteSet(others \cup members) /\ Ids(others \cup members)
          /\ Cardinality(others \cup members) * POSITION_STEP <= MAX_POSITION
          /\ Ids(others)
      BY <2>2, Room
    <2>4. WellPlaced(others, position)
      BY <1>2, Fewer
    <2> DEFINE P == PositionOrder(others, position)
               M == MemberOrder(members)
               T == others \cup members
    <2>5. /\ \A i, j \in others : <<i, j>> \in P <=> position[i] < position[j]
          /\ P \subseteq others \X others /\ StrictOrder(others, P)
      <3>1. \A i, j \in others : <<i, j>> \in P <=> position[i] < position[j]
        BY <2>3, <2>4, PlacedOrder
      <3>2. \A i \in others : position[i] \in Int
        BY <1>2
      <3> QED
        BY <2>3, <3>1, <3>2, PositionOrderPair, PositionOrderStrict
    <2>6. later \subseteq others
      BY <1>2, <1>4
    <2>7. \A i, j \in others : i \in later /\ <<i, j>> \in P => j \in later
      <3>1. position[g] \in Int /\ \A i \in others : /\ i \in later <=> position[g] < position[i]
                                                     /\ position[i] \in Int
        BY <1>2, <1>4
      <3> HIDE DEF P, later
      <3> QED
        BY <2>5, <3>1
    <2>8. /\ split \subseteq T \X T /\ StrictOrder(T, split)
          /\ \A i, j \in others : <<i, j>> \in split <=> <<i, j>> \in P
          /\ \A i, j \in members : <<i, j>> \in split <=> <<i, j>> \in M
          /\ \A i \in others, j \in members : <<i, j>> \in split <=> i \notin later
      <3>1. split = Spliced(others, P, members, M, later)
        BY DEF split, Spliced
      <3>2. M \subseteq members \X members /\ StrictOrder(members, M) /\ others \cap members = {}
        BY <1>3
      <3>3. P \subseteq others \X others /\ StrictOrder(others, P)
        BY <2>5
      <3> HIDE DEF P, M, later
      <3>4. EndOf(others, P, later)
        BY <2>6, <2>7 DEF EndOf
      <3> DEFINE R == Spliced(others, P, members, M, later)
      <3>5. StrictOrder(others \cup members, R)
        BY <3>2, <3>3, <3>4, SplicedStrict
      <3>6. /\ R \subseteq (others \cup members) \X (others \cup members)
            /\ \A i, j \in others : <<i, j>> \in R <=> <<i, j>> \in P
            /\ \A i, j \in members : <<i, j>> \in R <=> <<i, j>> \in M
            /\ \A i \in others, j \in members : <<i, j>> \in R <=> i \notin later
        BY <2>6, <3>2, <3>3 DEF Spliced
      <3> QED
        BY <3>1, <3>5, <3>6
    <2> HIDE DEF later
    <2>9. WellPlaced(T, p3) /\ \A i, j \in T : <<i, j>> \in split <=> p3[i] < p3[j]
      <3> HIDE DEF T
      <3>1. p3 = Renumbered(T, split)
        BY DEF p3, T
      <3>2. IsFiniteSet(T) /\ Ids(T) /\ Cardinality(T) * POSITION_STEP <= MAX_POSITION
        BY <2>3 DEF T
      <3> QED
        BY <2>8, <3>1, <3>2, RenumberedPlaced
    <2>10. WellPlaced(T, r)
      BY <2>1, <2>9 DEF WellPlaced
    <2>11. SameOrder(others, position, r)
      <3>1. \A i, j \in others : r[i] = p3[i] /\ (<<i, j>> \in split <=> p3[i] < p3[j])
        BY <2>1, <2>9
      <3> HIDE DEF P
      <3> QED
        BY <2>5, <2>8, <3>1 DEF SameOrder
    <2>12. \A i \in others : i \notin later <=> position[i] < position[g]
      <3>1. \A i \in others : i \in items /\ position[i] # position[g] /\ position[i] \in Int /\ position[g] \in Int
        BY <1>2 DEF WellPlaced
      <3> QED
        BY <1>4, <3>1
    <2>13. /\ \A c, d \in members : <<c, d>> \in M <=> r[c] < r[d]
           /\ \A i \in others, c \in members : r[i] < r[c] <=> position[i] < position[g]
      <3>1. \A i, j \in T : <<i, j>> \in split <=> r[i] < r[j]
        BY <2>1, <2>9
      <3> HIDE DEF M
      <3> QED
        BY <2>8, <2>12, <3>1
    <2> QED
      BY <1>7, <1>11, <2>10, <2>11, <2>13 DEF others, members
  <1> QED
    BY <1>1, <1>9, <1>10, <1>11

\* Ungrouping puts the cards of a group in its place in the column.
LEMMA GroupTakenApart ==
    ASSUME Sound, PlacesDistinct, NEW m \in Member, NEW g \in DOMAIN group, UngroupCardGroup(m, g)
    PROVE  /\ DOMAIN group' = DOMAIN group \ {g}
           /\ WellPlaced(Others(g) \cup Members(g), position')
           /\ SameOrder(Others(g), position, position')
           /\ \A c, d \in Members(g) : <<c, d>> \in MemberOrder(Members(g)) <=> position'[c] < position'[d]
           /\ \A i \in Others(g), c \in Members(g) :
                 position'[i] < position'[c] <=> position[i] < position[g]
           /\ \A j : /\ j = group[g].column => TopLevel(j)' = Others(g) \cup Members(g)
                     /\ j # group[g].column =>
                           /\ TopLevel(j)' = TopLevel(j)
                           /\ \A i \in TopLevel(j) : position'[i] = position[i]
                     /\ g \in TopLevel(j) <=> j = group[g].column
                     /\ Members(g) \cap TopLevel(j) = {}
                     /\ j # group[g].column => Members(g) \cap TopLevel(j)' = {}
  <1> DEFINE k == group[g].column
             members == Members(g)
             others == Others(g)
             q == UngroupPositions(g, members)
  <1>1. /\ position' = Restrict(Written(position, q), DOMAIN position \ {g})
        /\ card' = [c \in DOMAIN card |->
                      IF c \in members
                      THEN [card[c] EXCEPT !.group = None, !.groupPosition = 0]
                      ELSE card[c]]
        /\ group' = Restrict(group, DOMAIN group \ {g})
    BY DEF UngroupCardGroup
  <1>2. /\ \A c \in members : c \in DOMAIN card /\ card[c].group = g /\ card[c].column = k
        /\ g \notin DOMAIN card /\ g # None /\ DOMAIN card \cap DOMAIN group = {}
        /\ DOMAIN position = DOMAIN card \cup DOMAIN group
        /\ \A j : TopLevel(j) \subseteq DOMAIN position /\ (g \in TopLevel(j) <=> j = k)
        /\ \A j : members \cap TopLevel(j) = {}
    <2>1. \A c \in members : c \in DOMAIN card /\ card[c].group = g
      BY DEF Members
    <2>2. \A c \in members : card[c].column = k
      BY DEF Sound, GroupsIntact
    <2>3. /\ DOMAIN card \cap DOMAIN group = {} /\ DOMAIN position = DOMAIN card \cup DOMAIN group
          /\ g # None
      BY ItemOfColumn, IdFacts DEF Sound, ItemsSound
    <2> HIDE DEF members, k
    <2>4. \A j : TopLevel(j) \subseteq DOMAIN position /\ members \cap TopLevel(j) = {}
      BY <2>1, <2>3, ItemOfColumn
    <2>5. \A j : g \in TopLevel(j) <=> j = k
      BY <2>3, ItemOfColumn DEF k
    <2> QED
      BY <2>1, <2>2, <2>3, <2>4, <2>5
  <1>3. /\ DOMAIN card' = DOMAIN card
        /\ \A c \in members : card'[c].group = None /\ card'[c].column = k
        /\ \A c \in DOMAIN card \ members : card'[c] = card[c]
    <2>1. \A c \in DOMAIN card : card[c] \in CardRow
      BY DEF Sound, ItemsSound
    <2>2. \A c \in DOMAIN card :
             LET row == [card[c] EXCEPT !.group = None, !.groupPosition = 0]
             IN  row.group = None /\ row.column = card[c].column
      BY <2>1 DEF CardRow
    <2> HIDE DEF members, k
    <2> QED
      BY <1>1, <1>2, <2>2
  <1>4. DOMAIN group' = DOMAIN group \ {g} /\ \A h \in DOMAIN group' : group'[h] = group[h]
    BY <1>1 DEF Restrict
  <1>5. \A j : TopLevel(j)' = (TopLevel(j) \ {g}) \cup (IF j = k THEN members ELSE {})
    <2> SUFFICES ASSUME NEW j
                 PROVE  TopLevel(j)' = (TopLevel(j) \ {g}) \cup (IF j = k THEN members ELSE {})
      OBVIOUS
    <2> HIDE DEF members, k
    <2>1. {x \in DOMAIN card' : card'[x].column = j /\ card'[x].group = None}
             = {x \in DOMAIN card : card[x].column = j /\ card[x].group = None}
                  \cup (IF j = k THEN members ELSE {})
      BY <1>2, <1>3
    <2>2. {h \in DOMAIN group' : group'[h].column = j}
             = {h \in DOMAIN group : group[h].column = j} \ {g}
      BY <1>4
    <2> QED
      BY <1>2, <2>1, <2>2 DEF TopLevel, Ungrouped
  <1>6. q \in [DOMAIN q -> Int] /\ DOMAIN q \subseteq DOMAIN position
    BY UngroupPositionsType
  <1> HIDE DEF q
  <1>7. \A i \in DOMAIN position \ {g} : position'[i] = Written(position, q)[i]
    BY <1>1, <1>6 DEF Restrict, Written
  <1>8. \A i \in others \cup members : position'[i] = Written(position, q)[i]
    <2>1. others \subseteq DOMAIN position \ {g}
      BY <1>2 DEF Others
    <2> HIDE DEF members, k, others
    <2> QED BY <1>2, <1>7, <2>1
  <1> HIDE DEF members, others
  <1>9. /\ WellPlaced(others \cup members, position')
        /\ SameOrder(others, position, position')
        /\ \A c, d \in members : <<c, d>> \in MemberOrder(members) <=> position'[c] < position'[d]
        /\ \A i \in others, c \in members : position'[i] < position'[c] <=> position[i] < position[g]
        /\ DOMAIN q \subseteq others \cup members
    BY <1>8, UngroupPlaced DEF q, others, members
  <1>b. others = TopLevel(k) \ {g}
    BY DEF others, Others
  <1> HIDE DEF k
  <1>10. ASSUME NEW j
         PROVE  /\ j = k => TopLevel(j)' = others \cup members
                /\ j # k => /\ TopLevel(j)' = TopLevel(j)
                            /\ \A i \in TopLevel(j) : position'[i] = position[i]
                /\ g \in TopLevel(j) <=> j = k
                /\ members \cap TopLevel(j) = {}
                /\ j # k => members \cap TopLevel(j)' = {}
    <2>1. g \in TopLevel(j) <=> j = k
      BY <1>2
    <2>2. members \cap TopLevel(j) = {}
      BY <1>2
    <2>3. CASE j = k
      BY <1>b, <1>5, <2>1, <2>2, <2>3
    <2>4. CASE j # k
      <3>1. TopLevel(j)' = TopLevel(j)
        BY <1>2, <1>5, <2>4
      <3>2. \A i \in TopLevel(j) : i \in DOMAIN position \ {g} /\ i \notin DOMAIN q
        BY <1>b, <1>2, <1>9, <2>4, ItemOfColumn
      <3>3. \A i \in TopLevel(j) : position'[i] = position[i]
        BY <1>7, <3>2 DEF Written
      <3> QED
        BY <2>1, <2>2, <2>4, <3>1, <3>3
    <2> QED
      BY <2>3, <2>4
  <1> QED
    BY <1>4, <1>9, <1>10 DEF k, others, members

\* Ungrouping keeps the order of every column.
LEMMA UngroupCardGroupOrderly ==
    ASSUME Sound, PlacesDistinct, NEW m \in Member, NEW g \in DOMAIN group, UngroupCardGroup(m, g)
    PROVE  \A j \in LiveColumn : Orderly(j, None)
  <1> SUFFICES ASSUME NEW j \in LiveColumn
               PROVE  Orderly(j, None)
    OBVIOUS
  <1>1. CASE j = group[g].column
    <2>1. /\ TopLevel(j)' = Others(g) \cup Members(g) /\ Members(g) \cap TopLevel(j) = {}
          /\ WellPlaced(Others(g) \cup Members(g), position') /\ SameOrder(Others(g), position, position')
      BY <1>1, GroupTakenApart
    <2>2. Stay(j) \ {None} \subseteq Others(g)
      BY <2>1 DEF Stay
    <2> QED
      BY <2>1, <2>2, SameOrderFewer DEF Orderly, Kept
  <1>2. CASE j # group[g].column
    <2>1. TopLevel(j)' = TopLevel(j) /\ \A i \in TopLevel(j) : position'[i] = position[i]
      BY <1>2, GroupTakenApart
    <2> QED
      BY <2>1, ColumnKept
  <1> QED
    BY <1>1, <1>2

-----------------------------------------------------------------------------
(* The operations on columns. *)

\* The items of a column that goes are placed behind those of the target, in
\* whose order nothing changes.
LEMMA AppendedPlaced ==
    ASSUME Sound, PlacesDistinct, NEW k \in LiveColumn, NEW target \in LiveColumn \ {k},
           NEW r, \A i \in TopLevel(target) \cup TopLevel(k) :
                     r[i] = Written(position, Appended(k, target))[i]
    PROVE  /\ WellPlaced(TopLevel(target) \cup TopLevel(k), r)
           /\ SameOrder(TopLevel(target), position, r)
           /\ DOMAIN Appended(k, target) \subseteq TopLevel(target) \cup TopLevel(k)
  <1> DEFINE moved == TopLevel(k)
             kept == TopLevel(target)
             P == PositionOrder(kept, position)
             M == PositionOrder(moved, position)
             last == IF kept = {} THEN 0
                     ELSE position[CHOOSE i \in kept : \A j \in kept \ {i} : <<j, i>> \in P]
             N == Renumbered(moved, M)
             p == [i \in moved |-> last + N[i]]
             R == P \cup M \cup (kept \X moved)
             q == Renumbered(kept \cup moved, R)
  <1>1. Appended(k, target) = IF last + Cardinality(moved) * POSITION_STEP <= MAX_POSITION THEN p ELSE q
    BY DEF Appended
  <1>2. /\ kept \subseteq DOMAIN position /\ moved \subseteq DOMAIN position /\ kept \cap moved = {}
        /\ kept \subseteq Card \cup Group /\ moved \subseteq Card \cup Group
        /\ WellPlaced(kept, position) /\ WellPlaced(moved, position)
    BY ItemOfColumn DEF PlacesDistinct
  <1>3. /\ IsFiniteSet(kept) /\ Ids(kept) /\ IsFiniteSet(moved) /\ Ids(moved)
        /\ Cardinality(moved) * POSITION_STEP <= MAX_POSITION
        /\ IsFiniteSet(kept \cup moved) /\ Ids(kept \cup moved)
        /\ Cardinality(kept \cup moved) * POSITION_STEP <= MAX_POSITION
    <2>1. kept \cup moved \subseteq Card \cup Group
      BY <1>2
    <2> QED
      BY <1>2, <2>1, Room
  <1>4. /\ \A i, j \in kept : <<i, j>> \in P <=> position[i] < position[j]
        /\ P \subseteq kept \X kept /\ StrictOrder(kept, P)
        /\ M \subseteq moved \X moved /\ StrictOrder(moved, M)
    <2>1. \A i \in kept \cup moved : position[i] \in Int
      BY <1>2, PositionAssumption DEF WellPlaced
    <2>2. \A i, j \in kept : <<i, j>> \in P <=> position[i] < position[j]
      BY <1>2, <1>3, PlacedOrder
    <2> QED
      BY <1>3, <2>1, <2>2, PositionOrderPair, PositionOrderStrict
  <1>5. last \in Int /\ MIN_POSITION <= last /\ \A i \in kept : position[i] <= last
    <2>1. \A i \in kept : position[i] \in Int /\ MIN_POSITION <= position[i]
      BY <1>2, PositionAssumption DEF WellPlaced
    <2>2. CASE kept = {}
      BY <2>2, PositionAssumption
    <2>3. CASE kept # {}
      <3>1. \E i \in kept : \A j \in kept \ {i} : <<j, i>> \in P
        BY <1>3, <2>1, <2>3, LastExists
      <3>2. PICK i \in kept : last = position[i] /\ \A j \in kept \ {i} : <<j, i>> \in P
        <4> HIDE DEF P
        <4> QED BY <2>3, <3>1
      <3> HIDE DEF last, P
      <3>3. \A j \in kept : j = i \/ position[j] < position[i]
        BY <1>4, <3>2
      <3> QED
        BY <2>1, <3>2, <3>3
    <2> QED
      BY <2>2, <2>3
  <1>a. \A i \in kept \cup moved : r[i] = Written(position, Appended(k, target))[i]
    OBVIOUS
  <1> HIDE DEF P, M, last, moved, kept
  <1>6. CASE Appended(k, target) = p /\ last + Cardinality(moved) * POSITION_STEP <= MAX_POSITION
    <2>1. /\ \A i \in moved : N[i] \in Nat /\ N[i] >= POSITION_STEP
                              /\ N[i] <= Cardinality(moved) * POSITION_STEP
          /\ WellPlaced(moved, N)
      BY <1>3, <1>4, RenumberedKeepsOrder, RenumberedPlaced
    <2> HIDE DEF N
    <2>2. /\ \A i \in moved : r[i] = last + N[i]
          /\ \A i \in kept : r[i] = position[i]
          /\ DOMAIN Appended(k, target) = moved
      BY <1>a, <1>2, <1>6 DEF Written
    <2>3. \A i \in moved : r[i] \in Int /\ last < r[i] /\ r[i] <= MAX_POSITION
      <3>1. POSITION_STEP \in Nat /\ POSITION_STEP > 0 /\ MAX_POSITION \in Int
        BY PositionAssumption
      <3>2. Cardinality(moved) * POSITION_STEP \in Int
        BY <1>3, FS_CardinalityType, PositionAssumption
      <3> QED
        BY <1>5, <1>6, <2>1, <2>2, <3>1, <3>2
    <2>4. \A i, j \in moved : r[i] = r[j] => i = j
      <3>1. \A i, j \in moved : r[i] = r[j] => N[i] = N[j]
        BY <1>5, <2>1, <2>2
      <3> QED
        BY <2>1, <3>1 DEF WellPlaced
    <2>5. \A i \in kept, j \in moved : r[i] # r[j]
      <3> SUFFICES ASSUME NEW i \in kept, NEW j \in moved
                   PROVE  r[i] # r[j]
        OBVIOUS
      <3>1. r[i] \in Int /\ r[i] <= last /\ last < r[j] /\ r[j] \in Int
        BY <1>2, <1>5, <2>2, <2>3, PositionAssumption DEF WellPlaced
      <3> QED
        BY <1>5, <3>1
    <2>6. \A i \in kept \cup moved : r[i] \in MIN_POSITION .. MAX_POSITION
      <3>1. \A i \in kept : r[i] \in MIN_POSITION .. MAX_POSITION
        BY <1>2, <2>2 DEF WellPlaced
      <3>2. \A i \in moved : r[i] \in MIN_POSITION .. MAX_POSITION
        BY <1>5, <2>3, PositionAssumption
      <3> QED
        BY <3>1, <3>2
    <2>7. WellPlaced(kept \cup moved, r)
      <3>1. \A i, j \in kept : r[i] = r[j] => i = j
        BY <1>2, <2>2 DEF WellPlaced
      <3> QED
        BY <2>4, <2>5, <2>6, <3>1 DEF WellPlaced
    <2>8. SameOrder(kept, position, r)
      BY <2>2 DEF SameOrder
    <2> QED
      BY <2>2, <2>7, <2>8 DEF kept, moved
  <1>7. CASE Appended(k, target) = q
    <2> HIDE DEF N
    <2>1. R = Spliced(kept, P, moved, M, {})
      BY DEF Spliced
    <2>2. StrictOrder(kept \cup moved, R)
      <3>1. EndOf(kept, P, {})
        BY DEF EndOf
      <3>2. StrictOrder(kept \cup moved, Spliced(kept, P, moved, M, {}))
        BY <1>2, <1>4, <3>1, SplicedStrict
      <3> QED
        BY <2>1, <3>2
    <2>3. /\ R \subseteq (kept \cup moved) \X (kept \cup moved)
          /\ \A i, j \in kept : <<i, j>> \in R <=> <<i, j>> \in P
      BY <1>2, <1>4
    <2> DEFINE T == kept \cup moved
    <2>4. WellPlaced(T, q) /\ \A i, j \in T : <<i, j>> \in R <=> q[i] < q[j]
      <3>1. IsFiniteSet(T) /\ Ids(T) /\ Cardinality(T) * POSITION_STEP <= MAX_POSITION
            /\ R \subseteq T \X T /\ StrictOrder(T, R)
        BY <1>3, <2>2, <2>3
      <3>2. q = Renumbered(T, R)
        OBVIOUS
      <3> HIDE DEF T, R, q
      <3> QED
        BY <3>1, <3>2, RenumberedPlaced
    <2>5. DOMAIN q = T
      BY DEF Renumbered
    <2> HIDE DEF q, R
    <2>6. \A i \in T : r[i] = q[i]
      BY <1>a, <1>2, <1>7, <2>5 DEF Written
    <2>7. WellPlaced(T, r)
      BY <2>4, <2>6 DEF WellPlaced
    <2>8. SameOrder(kept, position, r)
      <3>1. \A i, j \in kept : <<i, j>> \in R <=> r[i] < r[j]
        BY <2>4, <2>6
      <3> QED
        BY <1>4, <2>3, <3>1 DEF SameOrder
    <2> QED
      BY <1>7, <2>5, <2>7, <2>8 DEF kept, moved
  <1> QED
    BY <1>1, <1>6, <1>7

\* Deleting a column and moving its cards appends its items to the target's.
LEMMA DeleteColumnMovingCardsOrderly ==
    ASSUME Sound, PlacesDistinct, NEW m \in Member, NEW k \in Column, NEW target \in Column,
           DeleteColumnMovingCards(m, k, target)
    PROVE  \A j \in LiveColumn \ {k} : Orderly(j, None)
  <1> DEFINE q == Appended(k, target)
  <1>1. /\ k \in LiveColumn /\ target \in LiveColumn \ {k}
        /\ card' = [c \in DOMAIN card |->
                      IF c \in CardsIn(k) THEN [card[c] EXCEPT !.column = target] ELSE card[c]]
        /\ group' = [g \in DOMAIN group |->
                       IF group[g].column = k THEN [group[g] EXCEPT !.column = target] ELSE group[g]]
        /\ position' = Written(position, q)
    BY DEF DeleteColumnMovingCards, MayDeleteColumn
  <1>2. /\ DOMAIN card' = DOMAIN card
        /\ \A c \in DOMAIN card :
              /\ card'[c].group = card[c].group
              /\ card'[c].column = IF card[c].column = k THEN target ELSE card[c].column
    <2>1. \A c \in DOMAIN card :
             LET row == [card[c] EXCEPT !.column = target]
             IN  row.column = target /\ row.group = card[c].group
      BY DEF Sound, ItemsSound, CardRow
    <2>2. \A c \in DOMAIN card : c \in CardsIn(k) <=> card[c].column = k
      BY DEF CardsIn
    <2> QED
      BY <1>1, <2>1, <2>2
  <1>3. /\ DOMAIN group' = DOMAIN group
        /\ \A g \in DOMAIN group :
              group'[g].column = IF group[g].column = k THEN target ELSE group[g].column
    BY <1>1 DEF Sound, ItemsSound, GroupRow
  <1>4. \A j \in LiveColumn \ {k} :
           TopLevel(j)' = TopLevel(j) \cup (IF j = target THEN TopLevel(k) ELSE {})
    <2> SUFFICES ASSUME NEW j \in LiveColumn \ {k}
                 PROVE  TopLevel(j)' = TopLevel(j) \cup (IF j = target THEN TopLevel(k) ELSE {})
      OBVIOUS
    <2>1. {c \in DOMAIN card' : card'[c].column = j /\ card'[c].group = None}
             = {c \in DOMAIN card : card[c].column = j /\ card[c].group = None}
                  \cup (IF j = target
                        THEN {c \in DOMAIN card : card[c].column = k /\ card[c].group = None}
                        ELSE {})
      BY <1>2
    <2>2. {g \in DOMAIN group' : group'[g].column = j}
             = {g \in DOMAIN group : group[g].column = j}
                  \cup (IF j = target THEN {g \in DOMAIN group : group[g].column = k} ELSE {})
      BY <1>3
    <2> QED
      BY <2>1, <2>2 DEF TopLevel, Ungrouped
  <1>5. /\ WellPlaced(TopLevel(target) \cup TopLevel(k), position')
        /\ SameOrder(TopLevel(target), position, position')
        /\ DOMAIN q \subseteq TopLevel(target) \cup TopLevel(k)
    BY <1>1, AppendedPlaced
  <1> HIDE DEF q
  <1>6. ASSUME NEW j \in LiveColumn \ {k}
        PROVE  Orderly(j, None)
    <2>1. CASE j = target
      <3>1. Stay(j) \ {None} \subseteq TopLevel(target)
        BY <2>1 DEF Stay
      <3>2. TopLevel(j)' = TopLevel(target) \cup TopLevel(k)
        BY <1>4, <2>1
      <3> QED
        BY <1>5, <3>1, <3>2, SameOrderFewer DEF Orderly, Kept
    <2>2. CASE j # target
      <3>1. TopLevel(j)' = TopLevel(j)
        BY <1>4, <2>2
      <3>2. \A i \in TopLevel(j) : i \in DOMAIN position /\ i \notin DOMAIN q
        BY <1>5, <2>2, ItemOfColumn
      <3>3. \A i \in TopLevel(j) : position'[i] = position[i]
        BY <1>1, <3>2 DEF Written
      <3> QED
        BY <3>1, <3>3, ColumnKept
    <2> QED
      BY <2>1, <2>2
  <1> QED
    BY <1>6

\* The other columns are as they were when one goes with its cards.
LEMMA DeleteColumnAndCardsOrderly ==
    ASSUME Sound, PlacesDistinct, NEW m \in Member, NEW k \in Column, DeleteColumnAndCards(m, k)
    PROVE  \A j \in LiveColumn \ {k} : Orderly(j, None)
  <1> DEFINE kept == {c \in DOMAIN card : card[c].column # k}
             keptGroups == {g \in DOMAIN group : group[g].column # k}
  <1>1. /\ card' = Restrict(card, kept) /\ group' = Restrict(group, keptGroups)
        /\ position' = Restrict(position, kept \cup keptGroups)
    BY DEF DeleteColumnAndCards
  <1>2. /\ DOMAIN card' = kept /\ \A c \in kept : card'[c] = card[c]
        /\ DOMAIN group' = keptGroups /\ \A g \in keptGroups : group'[g] = group[g]
        /\ \A i \in kept \cup keptGroups : position'[i] = position[i]
    BY <1>1, ItemOfColumn DEF Restrict
  <1>3. \A j : TopLevel(j)' \subseteq TopLevel(j) /\ TopLevel(j)' \subseteq kept \cup keptGroups
    BY <1>2 DEF TopLevel, Ungrouped
  <1> HIDE DEF kept, keptGroups
  <1> QED
    BY <1>2, <1>3, ColumnKept

\* A step that changes no item leaves every column as it was.
LEMMA ItemsUntouched ==
    ASSUME Sound, PlacesDistinct, UNCHANGED itemVars
    PROVE  \A j \in LiveColumn : Orderly(j, None)
  <1>1. card' = card /\ group' = group /\ position' = position
    BY DEF itemVars
  <1>2. \A j : TopLevel(j)' = TopLevel(j)
    BY <1>1 DEF TopLevel, Ungrouped
  <1> QED
    BY <1>1, <1>2, ColumnKept

\* So does a change of a group's primary card.
LEMMA UpdateCardGroupOrderly ==
    ASSUME Sound, PlacesDistinct, NEW m \in Member, NEW g \in DOMAIN group, NEW primary,
           UpdateCardGroup(m, g, primary)
    PROVE  \A j \in LiveColumn : Orderly(j, None)
  <1>1. card' = card /\ position' = position /\ group' = [group EXCEPT ![g].primary = primary]
    BY DEF UpdateCardGroup
  <1>2. DOMAIN group' = DOMAIN group /\ \A h \in DOMAIN group : group'[h].column = group[h].column
    BY <1>1 DEF Sound, ItemsSound, GroupRow
  <1>3. \A j : TopLevel(j)' = TopLevel(j)
    BY <1>1, <1>2 DEF TopLevel, Ungrouped
  <1> QED
    BY <1>1, <1>3, ColumnKept

-----------------------------------------------------------------------------
(* The lists of columns and of action items, and what a step does to all      *)
(* three kinds of lists.                                                      *)

\* A list S in places p becomes the list T in places q: no two rows share a place,
\* and all the rows that stay but one keep their order.
ListKept(S, T, p, q) ==
    /\ WellPlaced(T, q)
    /\ \E x : SameOrder((S \cap T) \ {x}, p, q)

\* A row is inserted, or taken out and inserted elsewhere.
LEMMA ListInserted ==
    ASSUME NEW S, NEW x, NEW T, T = S \cup {x},
           T \subseteq Column \/ T \subseteq ActionItem,
           NEW p, WellPlaced(S, p),
           NEW b, NEW a, Resolves(S \ {x}, PositionOrder(S \ {x}, p), b, a)
    PROVE  ListKept(S, T, p, Inserted(S \ {x}, p, x, b, a))
  <1> DEFINE rest == S \ {x}
  <1>1. WellPlaced(rest, p) /\ Resolves(rest, PositionOrder(rest, p), b, a)
    BY Fewer
  <1>2. rest \cup {x} = T /\ x \notin rest /\ (S \cap T) \ {x} = rest
    OBVIOUS
  <1> HIDE DEF rest
  <1>3. /\ IsFiniteSet(rest) /\ Ids(rest) /\ Ids(rest \cup {x})
        /\ (Cardinality(rest) + 1) * POSITION_STEP <= MAX_POSITION
    BY <1>2, Room
  <1> DEFINE q == Inserted(rest, p, x, b, a)
  <1>4. WellPlaced(rest \cup {x}, q) /\ SameOrder(rest, p, q)
    BY <1>1, <1>2, <1>3, InsertedKeeps
  <1> HIDE DEF q
  <1>5. ListKept(S, T, p, q)
    BY <1>2, <1>4 DEF ListKept
  <1> QED
    BY <1>5 DEF q, rest

\* Rows are taken out.
LEMMA ListRestricted ==
    ASSUME NEW S, NEW p, WellPlaced(S, p), NEW T, T \subseteq S, NEW q, \A i \in T : q[i] = p[i]
    PROVE  ListKept(S, T, p, q)
  <1>1. WellPlaced(T, q) /\ SameOrder(T, p, q)
    BY Fewer
  <1>2. (S \cap T) \ {None} \subseteq T
    OBVIOUS
  <1> QED
    BY <1>1, <1>2, SameOrderFewer DEF ListKept

\* What a step does to the lists of items,
ItemsOrdered ==
    /\ \A j \in LiveColumn' : WellPlaced(TopLevel(j)', position')
    /\ \E x : \A j \in LiveColumn \cap LiveColumn' : Kept(Stay(j) \ {x})

\* to the list of columns
ColumnsOrdered == ListKept(LiveColumn, LiveColumn', columnPosition, columnPosition')

\* and to the list of action items.
ActionItemsOrdered ==
    ListKept(DOMAIN actionItem, DOMAIN actionItem', actionPosition, actionPosition')

StepOrdered == ItemsOrdered /\ ColumnsOrdered /\ ActionItemsOrdered

\* A step that leaves columns and action items alone is in order when it is for the
\* items of every column.
LEMMA OrderlyFrame ==
    ASSUME PlacesDistinct
    PROVE  /\ \A x : (\A j \in LiveColumn : Orderly(j, x)) /\ LiveColumn' \subseteq LiveColumn
                        => ItemsOrdered
           /\ UNCHANGED columnVars => LiveColumn' = LiveColumn /\ ColumnsOrdered
           /\ DOMAIN actionItem' = DOMAIN actionItem /\ actionPosition' = actionPosition
                 => ActionItemsOrdered
           /\ UNCHANGED actionVars => ActionItemsOrdered
  <1>1. ASSUME NEW x, \A j \in LiveColumn : Orderly(j, x), LiveColumn' \subseteq LiveColumn
        PROVE  ItemsOrdered
    BY <1>1 DEF Orderly, ItemsOrdered
  <1>2. ASSUME UNCHANGED columnVars
        PROVE  LiveColumn' = LiveColumn /\ ColumnsOrdered
    <2>1. LiveColumn' = LiveColumn /\ columnPosition' = columnPosition
      BY <1>2 DEF columnVars, LiveColumn
    <2>2. ListKept(LiveColumn, LiveColumn, columnPosition, columnPosition)
      BY ListRestricted DEF PlacesDistinct
    <2> QED
      BY <2>1, <2>2 DEF ColumnsOrdered
  <1>3. ASSUME DOMAIN actionItem' = DOMAIN actionItem, actionPosition' = actionPosition
        PROVE  ActionItemsOrdered
    <2>1. ListKept(DOMAIN actionItem, DOMAIN actionItem, actionPosition, actionPosition)
      BY ListRestricted DEF PlacesDistinct
    <2> QED
      BY <1>3, <2>1 DEF ActionItemsOrdered
  <1>4. UNCHANGED actionVars => DOMAIN actionItem' = DOMAIN actionItem /\ actionPosition' = actionPosition
    BY DEF actionVars
  <1> QED
    BY <1>1, <1>2, <1>3, <1>4

-----------------------------------------------------------------------------
(* What each service does to the lists. *)

\* The operations on cards.
LEMMA CardStepOrdered ==
    ASSUME Sound, PlacesDistinct, NEW m \in Member, CardOperation(m)
    PROVE  StepOrdered
  <1>1. ASSUME NEW x, \A j \in LiveColumn : Orderly(j, x), UNCHANGED columnVars, ActionItemsOrdered
        PROVE  StepOrdered
    BY <1>1, OrderlyFrame DEF StepOrdered
  <1>2. ASSUME NEW k \in LiveColumn, NEW c \in Card, CreateCard(m, k, c)
        PROVE  StepOrdered
    BY <1>1, <1>2, CreateCardOrderly, OrderlyFrame DEF CreateCard
  <1>3. ASSUME NEW c \in DOMAIN card, UpdateCard(m, c)
        PROVE  StepOrdered
    BY <1>1, <1>3, ItemsUntouched, OrderlyFrame DEF UpdateCard
  <1>4. ASSUME NEW c \in DOMAIN card, DeleteCard(m, c)
        PROVE  StepOrdered
    <2>1. DOMAIN actionItem' = DOMAIN actionItem /\ actionPosition' = actionPosition /\ UNCHANGED columnVars
      BY <1>4 DEF DeleteCard, SourcesAmong
    <2>2. c \in Card
      BY DEF Sound, ItemsSound
    <2> QED
      BY <1>1, <1>4, <2>1, <2>2, DeleteCardOrderly, OrderlyFrame
  <1>5. ASSUME NEW c \in DOMAIN card, NEW k \in LiveColumn, NEW b, NEW a, NEW sorted,
               MoveCard(m, c, k, b, a, sorted)
        PROVE  StepOrdered
    <2>1. c \in Card
      BY DEF Sound, ItemsSound
    <2>2. UNCHANGED columnVars /\ UNCHANGED actionVars
      BY <1>5 DEF MoveCard
    <2> QED
      BY <1>1, <1>5, <2>1, <2>2, MoveCardOrderly, OrderlyFrame
  <1> QED
    BY <1>2, <1>3, <1>4, <1>5 DEF CardOperation

\* The operations on votes change no list.
LEMMA VoteStepOrdered ==
    ASSUME Sound, PlacesDistinct, NEW m \in Member, VoteOperation(m)
    PROVE  StepOrdered
  <1>1. UNCHANGED <<columnVars, itemVars, actionVars>>
    BY DEF VoteOperation, VoteForCard, RemoveVoteFromCard, ResetBoardVotes
  <1> QED
    BY <1>1, ItemsUntouched, OrderlyFrame DEF StepOrdered

\* The operations on groups.
LEMMA GroupStepOrdered ==
    ASSUME Sound, PlacesDistinct, NEW m \in Member, GroupOperation(m)
    PROVE  StepOrdered
  <1>1. ASSUME NEW x, \A j \in LiveColumn : Orderly(j, x), UNCHANGED columnVars, UNCHANGED actionVars
        PROVE  StepOrdered
    BY <1>1, OrderlyFrame DEF StepOrdered
  <1>2. ASSUME NEW g \in Group, NEW k \in LiveColumn, NEW cards \in SUBSET Ungrouped(k),
               NEW c \in cards, CreateCardGroup(m, k, cards, c, g)
        PROVE  StepOrdered
    <2>1. UNCHANGED columnVars /\ UNCHANGED actionVars
      BY <1>2 DEF CreateCardGroup
    <2>2. \A j \in LiveColumn : Orderly(j, None)
      BY <1>2, CreateCardGroupOrderly
    <2> QED
      BY <1>1, <2>1, <2>2
  <1>3. ASSUME NEW g \in DOMAIN group, NEW c, UpdateCardGroup(m, g, c)
        PROVE  StepOrdered
    BY <1>1, <1>3, UpdateCardGroupOrderly DEF UpdateCardGroup
  <1>4. ASSUME NEW g \in DOMAIN group, UngroupCardGroup(m, g)
        PROVE  StepOrdered
    BY <1>1, <1>4, UngroupCardGroupOrderly DEF UngroupCardGroup
  <1>5. ASSUME NEW g \in DOMAIN group, NEW k \in LiveColumn, NEW b, NEW a, NEW sorted,
               MoveCardGroup(m, g, k, b, a, sorted)
        PROVE  StepOrdered
    <2>1. UNCHANGED columnVars /\ UNCHANGED actionVars
      BY <1>5 DEF MoveCardGroup
    <2> QED
      BY <1>1, <1>5, <2>1, MoveCardGroupOrderly
  <1> QED
    BY <1>2, <1>3, <1>4, <1>5 DEF GroupOperation

\* The operations on columns.
LEMMA ColumnStepOrdered ==
    ASSUME Sound, PlacesDistinct, NEW m \in Member, ColumnOperation(m)
    PROVE  StepOrdered
  <1>1. LiveColumn \subseteq Column /\ WellPlaced(LiveColumn, columnPosition)
    BY ColumnFacts DEF Sound, PlacesDistinct
  <1>2. ASSUME NEW k \in Column, NEW limit, NEW b, NEW a, CreateBoardColumn(m, k, limit, b, a)
        PROVE  StepOrdered
    <2>1. /\ k \notin LiveColumn /\ Resolves(LiveColumn, ColumnOrder(LiveColumn), b, a)
          /\ columnPosition' = Inserted(LiveColumn, columnPosition, k, b, a)
          /\ voteLimit' = Written(voteLimit, [x \in {k} |-> limit])
          /\ UNCHANGED itemVars /\ UNCHANGED actionVars
      BY <1>2 DEF CreateBoardColumn
    <2>2. LiveColumn' = LiveColumn \cup {k} /\ LiveColumn \ {k} = LiveColumn
      BY <2>1 DEF LiveColumn, Written
    <2>3. ColumnsOrdered
      <3> DEFINE S == LiveColumn
                 T == LiveColumn'
      <3>1. T = S \cup {k} /\ T \subseteq Column /\ S \ {k} = S
        BY <1>1, <2>2
      <3>2. WellPlaced(S, columnPosition) /\ Resolves(S, PositionOrder(S, columnPosition), b, a)
        BY <1>1, <2>1 DEF ColumnOrder
      <3>3. columnPosition' = Inserted(S, columnPosition, k, b, a)
        BY <2>1
      <3> HIDE DEF S, T
      <3>4. Resolves(S \ {k}, PositionOrder(S \ {k}, columnPosition), b, a)
        BY <3>1, <3>2
      <3>5. ListKept(S, T, columnPosition, Inserted(S \ {k}, columnPosition, k, b, a))
        BY <3>1, <3>2, <3>4, ListInserted
      <3>6. ListKept(S, T, columnPosition, columnPosition')
        BY <3>1, <3>3, <3>5
      <3> QED
        BY <3>6 DEF ColumnsOrdered, S, T
    <2>4. card' = card /\ group' = group /\ position' = position
      BY <2>1 DEF itemVars
    <2>5. \A j : TopLevel(j)' = TopLevel(j)
      BY <2>4 DEF TopLevel, Ungrouped
    <2>6. TopLevel(k) = {}
      BY <2>1, ItemOfColumn DEF Sound, ItemsInColumns, LiveColumn
    <2>7. ItemsOrdered
      <3>1. WellPlaced({}, position)
        BY DEF WellPlaced
      <3>2. \A j \in LiveColumn : Orderly(j, None)
        BY <2>1, ItemsUntouched
      <3>3. \A j \in LiveColumn' : WellPlaced(TopLevel(j)', position')
        BY <2>2, <2>4, <2>5, <2>6, <3>1, <3>2 DEF Orderly
      <3> QED
        BY <3>2, <3>3 DEF Orderly, ItemsOrdered
    <2> QED
      BY <2>1, <2>3, <2>7, OrderlyFrame DEF StepOrdered
  <1>3. ASSUME NEW k \in Column, NEW limit, UpdateBoardColumn(m, k, limit)
        PROVE  StepOrdered
    <2>1. LiveColumn' = LiveColumn /\ columnPosition' = columnPosition
          /\ UNCHANGED itemVars /\ UNCHANGED actionVars
      BY <1>3 DEF UpdateBoardColumn, LiveColumn
    <2>2. ColumnsOrdered
      BY <1>1, <2>1, ListRestricted DEF ColumnsOrdered
    <2> QED
      BY <2>1, <2>2, ItemsUntouched, OrderlyFrame DEF StepOrdered
  <1>4. ASSUME NEW k \in Column, NEW b, NEW a, MoveBoardColumn(m, k, b, a)
        PROVE  StepOrdered
    <2>1. /\ k \in LiveColumn /\ Resolves(LiveColumn \ {k}, ColumnOrder(LiveColumn \ {k}), b, a)
          /\ columnPosition' = Inserted(LiveColumn \ {k}, columnPosition, k, b, a)
          /\ LiveColumn' = LiveColumn
          /\ UNCHANGED itemVars /\ UNCHANGED actionVars
      BY <1>4 DEF MoveBoardColumn, LiveColumn
    <2>2. ColumnsOrdered
      <3> DEFINE S == LiveColumn
      <3>1. /\ S = S \cup {k} /\ S \subseteq Column /\ WellPlaced(S, columnPosition)
            /\ Resolves(S \ {k}, PositionOrder(S \ {k}, columnPosition), b, a)
        BY <1>1, <2>1 DEF ColumnOrder
      <3>2. columnPosition' = Inserted(S \ {k}, columnPosition, k, b, a) /\ LiveColumn' = S
        BY <2>1
      <3> HIDE DEF S
      <3>3. ListKept(S, S, columnPosition, Inserted(S \ {k}, columnPosition, k, b, a))
        BY <3>1, ListInserted
      <3> QED
        BY <3>2, <3>3 DEF ColumnsOrdered, S
    <2> QED
      BY <2>1, <2>2, ItemsUntouched, OrderlyFrame DEF StepOrdered
  <1>5. ASSUME NEW k \in Column, k \in LiveColumn, ColumnGone(k), \A j \in LiveColumn \ {k} : Orderly(j, None)
        PROVE  ItemsOrdered /\ ColumnsOrdered
    <2>1. LiveColumn' = LiveColumn \ {k} /\ \A j \in LiveColumn' : columnPosition'[j] = columnPosition[j]
      BY <1>5 DEF ColumnGone, Restrict, LiveColumn, Sound, ColumnsSound
    <2>2. ColumnsOrdered
      BY <1>1, <2>1, ListRestricted DEF ColumnsOrdered
    <2>3. ItemsOrdered
      BY <1>5, <2>1 DEF Orderly, ItemsOrdered
    <2> QED
      BY <2>2, <2>3
  <1>6. ASSUME NEW k \in Column, DeleteEmptyColumn(m, k)
        PROVE  StepOrdered
    BY <1>5, <1>6, ItemsUntouched, OrderlyFrame DEF DeleteEmptyColumn, MayDeleteColumn, StepOrdered
  <1>7. ASSUME NEW k \in Column, NEW target \in Column, DeleteColumnMovingCards(m, k, target)
        PROVE  StepOrdered
    <2>1. k \in LiveColumn /\ ColumnGone(k) /\ UNCHANGED actionVars
      BY <1>7 DEF DeleteColumnMovingCards, MayDeleteColumn
    <2> QED
      BY <1>5, <1>7, <2>1, DeleteColumnMovingCardsOrderly, OrderlyFrame DEF StepOrdered
  <1>8. ASSUME NEW k \in Column, DeleteColumnAndCards(m, k)
        PROVE  StepOrdered
    <2>1. /\ k \in LiveColumn /\ ColumnGone(k)
          /\ DOMAIN actionItem' = DOMAIN actionItem /\ actionPosition' = actionPosition
      BY <1>8 DEF DeleteColumnAndCards, MayDeleteColumn, SourcesAmong
    <2> QED
      BY <1>5, <1>8, <2>1, DeleteColumnAndCardsOrderly, OrderlyFrame DEF StepOrdered
  <1> QED
    BY <1>2, <1>3, <1>4, <1>6, <1>7, <1>8 DEF ColumnOperation

\* The operations on action items.
LEMMA ActionItemStepOrdered ==
    ASSUME Sound, PlacesDistinct, NEW m \in Member, ActionItemOperation(m)
    PROVE  StepOrdered
  <1> DEFINE S == DOMAIN actionItem
  <1>1. IsFiniteSet(S) /\ Ids(S) /\ S \subseteq ActionItem /\ WellPlaced(S, actionPosition)
    BY ActionItemFacts DEF Sound, ActionItemsSound, PlacesDistinct
  <1>2. ASSUME UNCHANGED columnVars, UNCHANGED itemVars, ActionItemsOrdered
        PROVE  StepOrdered
    BY <1>2, ItemsUntouched, OrderlyFrame DEF StepOrdered
  <1>3. ASSUME NEW i \in ActionItem, NEW source, CreateActionItem(m, i, source)
        PROVE  StepOrdered
    <2> DEFINE f == First(S, PositionOrder(S, actionPosition))
               row == [x \in {i} |-> source]
    <2>1. /\ i \notin S /\ actionItem' = Written(actionItem, row)
          /\ actionPosition' = Inserted(S, actionPosition, i, None, f)
          /\ UNCHANGED columnVars /\ UNCHANGED itemVars
      BY <1>3 DEF CreateActionItem, ActionOrder
    <2>2. DOMAIN actionItem' = S \cup {i}
      BY <2>1 DEF Written
    <2>3. Resolves(S, PositionOrder(S, actionPosition), None, f)
      <3> HIDE DEF S
      <3> QED BY <1>1, HeadResolves
    <2> HIDE DEF f
    <2>4. ActionItemsOrdered
      <3> DEFINE T == DOMAIN actionItem'
      <3>1. T = S \cup {i} /\ T \subseteq ActionItem /\ S \ {i} = S
        BY <1>1, <2>1, <2>2
      <3> HIDE DEF S, T
      <3>2. Resolves(S \ {i}, PositionOrder(S \ {i}, actionPosition), None, f)
        BY <2>3, <3>1
      <3>3. ListKept(S, T, actionPosition, Inserted(S \ {i}, actionPosition, i, None, f))
        BY <1>1, <3>1, <3>2, ListInserted
      <3>4. ListKept(S, T, actionPosition, actionPosition')
        BY <2>1, <3>1, <3>3
      <3> QED
        BY <3>4 DEF ActionItemsOrdered, S, T
    <2> QED
      BY <1>2, <2>1, <2>4
  <1>4. ASSUME NEW i \in ActionItem, UpdateActionItem(m, i)
        PROVE  StepOrdered
    BY <1>2, <1>4, OrderlyFrame DEF UpdateActionItem
  <1>5. ASSUME NEW i \in ActionItem, NEW b, NEW a, MoveActionItem(m, i, b, a)
        PROVE  StepOrdered
    <2>1. /\ i \in S /\ Resolves(S \ {i}, PositionOrder(S \ {i}, actionPosition), b, a)
          /\ actionPosition' = Inserted(S \ {i}, actionPosition, i, b, a)
          /\ DOMAIN actionItem' = S
          /\ UNCHANGED columnVars /\ UNCHANGED itemVars
      BY <1>5 DEF MoveActionItem, ActionOrder
    <2>2. ActionItemsOrdered
      <3>1. S = S \cup {i}
        BY <2>1
      <3> HIDE DEF S
      <3>2. ListKept(S, S, actionPosition, Inserted(S \ {i}, actionPosition, i, b, a))
        BY <1>1, <2>1, <3>1, ListInserted
      <3> QED
        BY <2>1, <3>2 DEF ActionItemsOrdered, S
    <2> QED
      BY <1>2, <2>1, <2>2
  <1>6. ASSUME NEW i \in ActionItem, DeleteActionItem(m, i)
        PROVE  StepOrdered
    <2>1. /\ DOMAIN actionItem' = S \ {i} /\ \A j \in S \ {i} : actionPosition'[j] = actionPosition[j]
          /\ UNCHANGED columnVars /\ UNCHANGED itemVars
      BY <1>6 DEF DeleteActionItem, Restrict, Sound, ActionItemsSound
    <2>2. ActionItemsOrdered
      BY <1>1, <2>1, ListRestricted DEF ActionItemsOrdered
    <2> QED
      BY <1>2, <2>1, <2>2
  <1> QED
    BY <1>3, <1>4, <1>5, <1>6 DEF ActionItemOperation

\* Every step keeps the lists in order.
LEMMA NextOrdered == Sound /\ PlacesDistinct /\ [Next]_vars => StepOrdered
  <1> SUFFICES ASSUME Sound, PlacesDistinct, [Next]_vars
               PROVE  StepOrdered
    OBVIOUS
  <1>1. CASE UNCHANGED vars
    BY <1>1, ItemsUntouched, OrderlyFrame DEF vars, StepOrdered
  <1>2. ASSUME NEW m \in Member, SettingsOperation(m)
        PROVE  StepOrdered
    BY <1>2, ItemsUntouched, OrderlyFrame DEF SettingsOperation, UpdateBoardSettings, StepOrdered
  <1> QED
    BY <1>1, <1>2, CardStepOrdered, VoteStepOrdered, GroupStepOrdered, ColumnStepOrdered,
       ActionItemStepOrdered DEF Next

\* A new board's columns are in their places, and it has nothing else.
LEMMA InitPlaced == Init => PlacesDistinct
  <1> SUFFICES ASSUME Init
               PROVE  PlacesDistinct
    OBVIOUS
  <1> DEFINE S == DefaultColumn
             p == [k \in S |-> k]
             R == PositionOrder(S, p)
  <1>1. LiveColumn = S /\ columnPosition = Renumbered(S, R)
    BY DEF Init, LiveColumn
  <1>2. S \subseteq Column
    BY ContentAssumption
  <1>3. IsFiniteSet(S) /\ Ids(S) /\ Cardinality(S) * POSITION_STEP <= MAX_POSITION
    BY <1>2, Room
  <1>4. \A k \in S : p[k] \in Int
    BY <1>3 DEF Ids
  <1> HIDE DEF p
  <1>5. StrictOrder(S, R) /\ R \subseteq S \X S
    BY <1>3, <1>4, PositionOrderStrict, PositionOrderPair
  <1> HIDE DEF R, S
  <1>6. WellPlaced(S, Renumbered(S, R))
    BY <1>3, <1>5, RenumberedPlaced
  <1>7. DOMAIN actionItem = {} /\ \A k : TopLevel(k) = {}
    BY DEF Init, TopLevel, Ungrouped
  <1>8. \A q : WellPlaced({}, q)
    BY DEF WellPlaced
  <1> QED
    BY <1>1, <1>6, <1>7, <1>8 DEF PlacesDistinct

\* So no two rows of a list ever share a place.
LEMMA NextPlaced == Sound /\ PlacesDistinct /\ [Next]_vars => PlacesDistinct'
  BY NextOrdered DEF StepOrdered, ItemsOrdered, ColumnsOrdered, ActionItemsOrdered, ListKept,
                     PlacesDistinct

\* No two items of a column, columns or action items ever share a position.
THEOREM PlacesAlwaysDistinct == Spec => []PlacesDistinct
  BY InitSound, NextSound, InitPlaced, NextPlaced, PTL DEF Spec

\* A step that keeps the lists in order moves one row of each at most.
LEMMA OrderedMovesOne ==
    ASSUME NEW S, NEW T, NEW p, NEW q, ListKept(S, T, p, q), None \notin S
    PROVE  \E x \in (S \cap T) \cup {None} : SameOrder((S \cap T) \ {x}, p, q)
  <1> DEFINE U == S \cap T
  <1>1. PICK x : SameOrder(U \ {x}, p, q)
    BY DEF ListKept
  <1>2. CASE x \in U
    BY <1>1, <1>2
  <1>3. CASE x \notin U
    <2>1. U \ {x} = U /\ U \ {None} = U
      BY <1>3
    <2> HIDE DEF U
    <2> QED
      BY <1>1, <2>1 DEF U
  <1> QED
    BY <1>2, <1>3

\* No step shuffles: each moves at most one item among those that stay in its column,
\* one column and one action item, or writes out the order of a vote-sorted column.
THEOREM OrderAlwaysKept == Spec => OrderKept
  <1> DEFINE stay == [k \in LiveColumn \cap DOMAIN voteLimit' |-> TopLevel(k) \cap TopLevel(k)']
             AllButKept(x) == \A k \in DOMAIN stay :
                                 LET S == stay[k] \ {x}
                                 IN  \/ SameOrder(S, position, position')
                                     \/ VoteOrder(S) = PositionOrder(S, position')
             ItemsKept == \E x \in (UNION Range(stay)) \cup {None} : AllButKept(x)
             ColumnsKept == LET S == LiveColumn \cap DOMAIN voteLimit'
                            IN  \E x \in S \cup {None} : SameOrder(S \ {x}, columnPosition, columnPosition')
             ActionsKept == LET S == DOMAIN actionItem \cap DOMAIN actionItem'
                            IN  \E x \in S \cup {None} : SameOrder(S \ {x}, actionPosition, actionPosition')
  <1>1. ASSUME Sound, PlacesDistinct, [Next]_vars
        PROVE  ItemsKept /\ ColumnsKept /\ ActionsKept
    <2>1. StepOrdered
      BY <1>1, NextOrdered
    <2>2. None \notin LiveColumn /\ None \notin DOMAIN actionItem /\ \A k : None \notin TopLevel(k)
      <3>1. LiveColumn \subseteq Column /\ Ids(DOMAIN actionItem)
        BY <1>1, ColumnFacts, ActionItemFacts DEF Sound
      <3> QED
        BY <1>1, <3>1, IdFacts, ItemOfColumn DEF Ids
    <2>3. ItemsKept
      <3>1. PICK x : \A k \in LiveColumn \cap LiveColumn' : Kept(Stay(k) \ {x})
        BY <2>1 DEF StepOrdered, ItemsOrdered
      <3>2. /\ DOMAIN stay = LiveColumn \cap LiveColumn'
            /\ \A k \in DOMAIN stay : stay[k] = Stay(k) /\ None \notin stay[k]
            /\ \A k \in DOMAIN stay : \A i \in stay[k] : i \in UNION Range(stay)
        BY <2>2 DEF LiveColumn, Stay, Range
      <3> HIDE DEF stay
      <3>3. CASE x \in UNION Range(stay)
        BY <3>1, <3>2, <3>3 DEF Kept
      <3>4. CASE x \notin UNION Range(stay)
        <4>1. \A k \in DOMAIN stay : stay[k] \ {None} = Stay(k) \ {x}
          BY <3>2, <3>4
        <4>2. AllButKept(None)
          BY <3>1, <3>2, <4>1 DEF Kept
        <4> HIDE DEF AllButKept
        <4> QED
          BY <4>2
      <3> QED
        BY <3>3, <3>4
    <2>4. ColumnsKept
      BY <2>1, <2>2, OrderedMovesOne DEF StepOrdered, ColumnsOrdered, LiveColumn
    <2>5. ActionsKept
      BY <2>1, <2>2, OrderedMovesOne DEF StepOrdered, ActionItemsOrdered
    <2> QED
      BY <2>3, <2>4, <2>5
  <1> QED
    BY <1>1, SoundInvariant, PlacesAlwaysDistinct, PTL DEF Spec, OrderKept

-----------------------------------------------------------------------------
(* Groups that come and go. *)

\* PlaceInherited for one column.
Inherited(k) ==
    LET stay == TopLevel(k) \cap TopLevel(k)'
        now == PositionOrder(TopLevel(k)', position')
    IN  /\ \A g \in DOMAIN group \ DOMAIN group', i \in stay :
             \A c \in Members(g) \cap TopLevel(k)' :
                <<i, g>> \in PositionOrder(TopLevel(k), position) <=> <<i, c>> \in now
        /\ \A g \in DOMAIN group \ DOMAIN group' :
             MemberOrder(Members(g) \cap TopLevel(k)')
                 = PositionOrder(Members(g) \cap TopLevel(k)', position')
        /\ \A g \in DOMAIN group' \ DOMAIN group, i \in stay :
             g \in TopLevel(k)' =>
                (<<i, g>> \in now
                   <=> \A c \in Members(g)' : <<i, c>> \in PositionOrder(TopLevel(k), position))

\* In a column whose items are well placed one is before another when its position
\* is less.
LEMMA PlacesCompared ==
    ASSUME Sound, PlacesDistinct, NEW k \in LiveColumn, Orderly(k, None), TopLevel(k)' \subseteq Card \cup Group
    PROVE  /\ \A i, j \in TopLevel(k) :
                 /\ position[i] \in Int
                 /\ <<i, j>> \in PositionOrder(TopLevel(k), position) <=> position[i] < position[j]
           /\ \A i, j \in TopLevel(k)' :
                 /\ position'[i] \in Int
                 /\ <<i, j>> \in PositionOrder(TopLevel(k)', position') <=> position'[i] < position'[j]
           /\ \A i, j \in TopLevel(k) : position[i] = position[j] => i = j
  <1>1. WellPlaced(TopLevel(k), position) /\ WellPlaced(TopLevel(k)', position')
    BY DEF PlacesDistinct, Orderly
  <1>2. Ids(TopLevel(k)) /\ Ids(TopLevel(k)')
    BY ItemOfColumn, Room
  <1> QED
    BY <1>1, <1>2, PlacedOrder DEF WellPlaced

\* There is nothing to order in a list of one row, or of none.
LEMMA NothingOrdered ==
    ASSUME NEW S, NEW d, S \subseteq {d}, NEW p, S # {} => d \in Int /\ p[d] \in Int
    PROVE  PositionOrder(S, p) = {}
  BY DEF PositionOrder

\* Nothing is inherited where no group comes or goes.
LEMMA NoneInherits ==
    ASSUME DOMAIN group' = DOMAIN group
    PROVE  \A k : Inherited(k)
  BY DEF Inherited

\* The last card of a group inherits its place.
LEMMA LeftAloneInherits ==
    ASSUME Sound, PlacesDistinct, NEW k \in LiveColumn, Orderly(k, None),
           NEW c \in Card, NEW g \in DOMAIN group, NEW d, LeftAlone(c, g, d)
    PROVE  Inherited(k)
  <1> DEFINE left == Members(g) \cap TopLevel(k)'
             now == PositionOrder(TopLevel(k)', position')
             then == PositionOrder(TopLevel(k), position)
  <1>1. /\ DOMAIN group' = DOMAIN group \ {g}
        /\ Members(g) \ {c} = {d} /\ position'[d] = position[g]
        /\ \A i \in DOMAIN position \ {c, d, g} : position'[i] = position[i]
        /\ c \notin TopLevel(k) /\ d \notin TopLevel(k) /\ c \notin TopLevel(k)' /\ g \notin TopLevel(k)'
        /\ g \in TopLevel(k) <=> k = group[g].column
        /\ TopLevel(k)' = IF k = group[g].column THEN (TopLevel(k) \ {g}) \cup {d} ELSE TopLevel(k)
    BY DEF LeftAlone
  <1>2. d \in Card /\ card[d].groupPosition \in Int /\ TopLevel(k) \subseteq DOMAIN position
        /\ TopLevel(k) \subseteq Card \cup Group
    <2>1. d \in DOMAIN card
      BY <1>1 DEF Members
    <2> QED
      BY <2>1, ItemOfColumn DEF Sound, ItemsSound, CardRow
  <1>3. TopLevel(k)' \subseteq Card \cup Group
    BY <1>1, <1>2
  <1>4. left \subseteq {d} /\ (left # {} => d \in TopLevel(k)' /\ g \in TopLevel(k))
    BY <1>1
  <1>5. \A i \in TopLevel(k) \cap TopLevel(k)' : position'[i] = position[i]
    BY <1>1, <1>2
  <1>6. /\ \A i, j \in TopLevel(k) : position[i] \in Int /\ (<<i, j>> \in then <=> position[i] < position[j])
        /\ \A i, j \in TopLevel(k)' : position'[i] \in Int /\ (<<i, j>> \in now <=> position'[i] < position'[j])
    BY <1>3, PlacesCompared
  <1> HIDE DEF left, now, then
  <1>7. \A i \in TopLevel(k) \cap TopLevel(k)' : \A e \in left : <<i, g>> \in then <=> <<i, e>> \in now
    <2> SUFFICES ASSUME NEW i \in TopLevel(k) \cap TopLevel(k)', NEW e \in left
                 PROVE  <<i, g>> \in then <=> <<i, e>> \in now
      OBVIOUS
    <2>1. e = d /\ d \in TopLevel(k)' /\ g \in TopLevel(k)
      BY <1>4
    <2>2. <<i, g>> \in then <=> position[i] < position[g]
      BY <1>6, <2>1
    <2>3. <<i, e>> \in now <=> position'[i] < position'[d]
      BY <1>6, <2>1
    <2>4. position'[i] = position[i] /\ position'[d] = position[g]
      BY <1>1, <1>5
    <2> QED
      BY <2>2, <2>3, <2>4
  <1>8. MemberOrder(left) = PositionOrder(left, position')
    <2> DEFINE p == [e \in left |-> card[e].groupPosition]
    <2>1. left # {} => d \in Int /\ p[d] \in Int /\ position'[d] \in Int
      <3>1. d \in Int
        BY <1>2, IdFacts DEF Ids
      <3>2. left # {} => d \in left /\ d \in TopLevel(k)'
        BY <1>4
      <3>3. d \in left => p[d] = card[d].groupPosition
        OBVIOUS
      <3> HIDE DEF p
      <3> QED
        BY <1>2, <1>6, <3>1, <3>2, <3>3
    <2>2. MemberOrder(left) = PositionOrder(left, p)
      BY DEF MemberOrder
    <2> HIDE DEF p
    <2> QED
      BY <1>4, <2>1, <2>2, NothingOrdered
  <1> QED
    BY <1>1, <1>7, <1>8 DEF Inherited, left, now, then

\* The cards of a group that is taken apart inherit its place, in their order.
LEMMA UngroupInherits ==
    ASSUME Sound, PlacesDistinct, NEW k \in LiveColumn, Orderly(k, None),
           NEW m \in Member, NEW g \in DOMAIN group, UngroupCardGroup(m, g)
    PROVE  Inherited(k)
  <1> DEFINE members == Members(g)
             left == Members(g) \cap TopLevel(k)'
             now == PositionOrder(TopLevel(k)', position')
             then == PositionOrder(TopLevel(k), position)
  <1>1. DOMAIN group' = DOMAIN group \ {g}
    BY GroupTakenApart
  <1>2. CASE k # group[g].column
    <2>1. left = {}
      BY <1>2, GroupTakenApart
    <2>2. MemberOrder({}) = {} /\ PositionOrder({}, position') = {}
      BY DEF MemberOrder, PositionOrder
    <2> QED
      BY <1>1, <2>1, <2>2 DEF Inherited
  <1>3. CASE k = group[g].column
    <2>1. /\ TopLevel(k)' = Others(g) \cup members /\ g \in TopLevel(k) /\ members \cap TopLevel(k) = {}
      BY <1>3, GroupTakenApart
    <2>2. /\ \A c, d \in members : <<c, d>> \in MemberOrder(members) <=> position'[c] < position'[d]
          /\ \A i \in Others(g), c \in members : position'[i] < position'[c] <=> position[i] < position[g]
      BY GroupTakenApart
    <2>3. members \subseteq Card /\ TopLevel(k) \subseteq Card \cup Group /\ Others(g) \subseteq TopLevel(k)
      BY <1>3, ItemOfColumn DEF Sound, ItemsSound, Members, Others
    <2> HIDE DEF members
    <2>4. TopLevel(k)' \subseteq Card \cup Group /\ TopLevel(k) \cap TopLevel(k)' \subseteq Others(g)
          /\ left = members
      BY <2>1, <2>3 DEF members
    <2>5. /\ \A i, j \in TopLevel(k) : <<i, j>> \in then <=> position[i] < position[j]
          /\ \A i, j \in TopLevel(k)' : position'[i] \in Int /\ (<<i, j>> \in now <=> position'[i] < position'[j])
      BY <2>4, PlacesCompared
    <2> HIDE DEF left, now, then
    <2>6. \A i \in TopLevel(k) \cap TopLevel(k)' : \A c \in left : <<i, g>> \in then <=> <<i, c>> \in now
      <3> SUFFICES ASSUME NEW i \in TopLevel(k) \cap TopLevel(k)', NEW c \in left
                   PROVE  <<i, g>> \in then <=> <<i, c>> \in now
        OBVIOUS
      <3>1. i \in Others(g) /\ c \in members /\ c \in TopLevel(k)'
        BY <2>1, <2>4
      <3> QED
        BY <2>1, <2>2, <2>5, <3>1
    <2>7. MemberOrder(left) = PositionOrder(left, position')
      <3> DEFINE A == MemberOrder(members)
                 B == PositionOrder(members, position')
      <3>1. A \subseteq members \X members /\ B \subseteq members \X members
        BY PositionOrderPair DEF MemberOrder
      <3>2. \A c, d \in members : <<c, d>> \in B <=> position'[c] < position'[d]
        <4>1. Ids(members)
          BY <2>3, Room
        <4>2. WellPlaced(members, position')
          BY <2>1 DEF Orderly, WellPlaced
        <4> QED
          BY <4>1, <4>2, PlacedOrder
      <3>3. \A c, d \in members : <<c, d>> \in A <=> <<c, d>> \in B
        BY <2>2, <3>2
      <3> HIDE DEF A, B
      <3>4. A = B
        BY <3>1, <3>3, SamePairs
      <3> QED
        BY <2>4, <3>4 DEF A, B
    <2> QED
      BY <1>1, <2>6, <2>7 DEF Inherited, left, now, then
  <1> QED
    BY <1>2, <1>3

\* A new group inherits the place of the first of its cards.
LEMMA FormedInherits ==
    ASSUME Sound, PlacesDistinct, NEW k \in LiveColumn, Orderly(k, None),
           NEW column \in LiveColumn, NEW cards \in SUBSET Ungrouped(column), NEW g \in Group \ DOMAIN group,
           Formed(column, cards, g)
    PROVE  Inherited(k)
  <1> DEFINE first == First(cards, PositionOrder(cards, position))
             now == PositionOrder(TopLevel(k)', position')
             then == PositionOrder(TopLevel(k), position)
  <1>1. /\ DOMAIN group' = DOMAIN group \cup {g} /\ Members(g)' = cards
        /\ \A i \in DOMAIN position \ {g} : position'[i] = position[i]
        /\ first \in cards
        /\ \A c \in cards \ {first} : <<first, c>> \in PositionOrder(cards, position)
        /\ position'[g] = position[first]
        /\ TopLevel(k) \subseteq DOMAIN position /\ g \notin TopLevel(k)
        /\ cards \cap TopLevel(k) = IF k = column THEN cards ELSE {}
        /\ TopLevel(k)' = (TopLevel(k) \ cards) \cup (IF k = column THEN {g} ELSE {})
    BY DEF Formed
  <1>2. TopLevel(k)' \subseteq Card \cup Group
    BY <1>1, ItemOfColumn
  <1>3. /\ \A i, j \in TopLevel(k) : position[i] \in Int /\ (<<i, j>> \in then <=> position[i] < position[j])
        /\ \A i, j \in TopLevel(k)' : <<i, j>> \in now <=> position'[i] < position'[j]
    BY <1>2, PlacesCompared
  <1> HIDE DEF first
  <1>4. ASSUME g \in TopLevel(k)'
        PROVE  \A c \in cards : c \in TopLevel(k) /\ position[first] <= position[c]
    <2>1. k = column /\ cards \subseteq TopLevel(k)
      BY <1>1, <1>4
    <2>2. \A c \in cards \ {first} : position[first] < position[c] \/ position[first] = position[c]
      <3>1. \A c \in cards \ {first} : <<first, c>> \in PositionOrder(cards, position)
        BY <1>1
      <3> QED
        BY <3>1 DEF PositionOrder
    <2>3. \A c \in cards : position[c] \in Int
      BY <1>3, <2>1
    <2> QED
      BY <1>1, <2>1, <2>2, <2>3
  <1> HIDE DEF now, then
  <1>5. ASSUME NEW i \in TopLevel(k) \cap TopLevel(k)', g \in TopLevel(k)'
        PROVE  <<i, g>> \in now <=> \A c \in cards : <<i, c>> \in then
    <2>1. <<i, g>> \in now <=> position[i] < position[first]
      BY <1>1, <1>3, <1>5
    <2>2. \A c \in cards : /\ position[c] \in Int /\ position[i] \in Int
                           /\ position[first] <= position[c]
                           /\ <<i, c>> \in then <=> position[i] < position[c]
      BY <1>3, <1>4, <1>5
    <2>3. position[first] \in Int /\ first \in cards /\ position[i] \in Int
      BY <1>1, <2>2
    <2>4. \A c \in cards : position[i] < position[first] => <<i, c>> \in then
      BY <2>2, <2>3
    <2>5. <<i, first>> \in then => position[i] < position[first]
      BY <2>2, <2>3
    <2> QED
      BY <2>1, <2>3, <2>4, <2>5
  <1> QED
    BY <1>1, <1>5 DEF Inherited, now, then

\* When a column goes with its groups, so do the groups' cards.
LEMMA DeleteColumnInherits ==
    ASSUME Sound, NEW m \in Member, NEW k \in Column, DeleteColumnAndCards(m, k)
    PROVE  \A j : Inherited(j)
  <1>1. /\ DOMAIN card' = {c \in DOMAIN card : card[c].column # k}
        /\ DOMAIN group' = {g \in DOMAIN group : group[g].column # k}
    BY DEF DeleteColumnAndCards, Restrict
  <1>2. \A j : TopLevel(j)' \subseteq DOMAIN card' \cup DOMAIN group'
    BY DEF TopLevel, Ungrouped
  <1>3. \A g \in DOMAIN group \ DOMAIN group' : \A j : Members(g) \cap TopLevel(j)' = {}
    <2>1. \A g \in DOMAIN group : \A c \in Members(g) :
             c \in DOMAIN card /\ card[c].column = group[g].column /\ c \notin DOMAIN group
      BY ItemOfColumn DEF Sound, GroupsIntact, Members
    <2> QED
      BY <1>1, <1>2, <2>1
  <1>4. MemberOrder({}) = {} /\ PositionOrder({}, position') = {}
    BY DEF MemberOrder, PositionOrder
  <1> QED
    BY <1>1, <1>3, <1>4 DEF Inherited

\* In every step the place of a group and that of its cards are the same.
LEMMA NextInherits ==
    ASSUME Sound, PlacesDistinct, [Next]_vars
    PROVE  \A k \in LiveColumn \cap LiveColumn' : Inherited(k)
  <1>1. CASE UNCHANGED vars
    BY <1>1, NoneInherits DEF vars, itemVars
  <1>2. ASSUME NEW m \in Member, CardOperation(m)
        PROVE  \A k \in LiveColumn : Inherited(k)
    <2>1. ASSUME NEW c \in DOMAIN card, DeleteCard(m, c)
          PROVE  \A k \in LiveColumn : Inherited(k)
      <3> DEFINE g == card[c].group
      <3>1. c \in Card /\ g \in DOMAIN group \cup {None}
        BY DEF Sound, ItemsSound
      <3>2. /\ \A k \in LiveColumn : Orderly(k, None)
            /\ DOMAIN group' = DOMAIN group \/ (g # None /\ Cardinality(Members(g) \ {c}) = 1)
        BY <2>1, <3>1, DeleteCardOrderly
      <3>3. CASE g # None /\ Cardinality(Members(g) \ {c}) = 1
        <4>1. g = card[c].group /\ g \in DOMAIN group
          BY <3>1, <3>3
        <4> HIDE DEF g
        <4>2. PICK d : LeftAlone(c, g, d)
          BY <2>1, <3>1, <3>3, <4>1, LastCardLeft
        <4> QED
          BY <3>1, <3>2, <4>1, <4>2, LeftAloneInherits
      <3> QED
        BY <3>2, <3>3, NoneInherits
    <2>2. \/ \E c \in DOMAIN card : DeleteCard(m, c)
          \/ group' = group
      BY <1>2 DEF CardOperation, CreateCard, UpdateCard, MoveCard, itemVars
    <2> QED
      BY <2>1, <2>2, NoneInherits
  <1>3. ASSUME NEW m \in Member, VoteOperation(m)
        PROVE  \A k : Inherited(k)
    <2>1. group' = group
      BY <1>3 DEF VoteOperation, VoteForCard, RemoveVoteFromCard, ResetBoardVotes, itemVars
    <2> QED
      BY <2>1, NoneInherits
  <1>4. ASSUME NEW m \in Member, GroupOperation(m)
        PROVE  \A k \in LiveColumn : Inherited(k)
    <2>1. ASSUME NEW g \in Group, NEW column \in LiveColumn, NEW cards \in SUBSET Ungrouped(column),
                 NEW c \in cards, CreateCardGroup(m, column, cards, c, g)
          PROVE  \A k \in LiveColumn : Inherited(k)
      <3>1. Formed(column, cards, g) /\ \A k \in LiveColumn : Orderly(k, None)
        BY <2>1, GroupFormed, CreateCardGroupOrderly
      <3>2. g \in Group \ DOMAIN group
        BY <2>1 DEF CreateCardGroup
      <3> QED
        BY <3>1, <3>2, FormedInherits
    <2>2. ASSUME NEW g \in DOMAIN group, UngroupCardGroup(m, g)
          PROVE  \A k \in LiveColumn : Inherited(k)
      BY <2>2, UngroupCardGroupOrderly, UngroupInherits
    <2>3. ASSUME NEW g \in DOMAIN group,
                 \/ \E c \in DOMAIN card : UpdateCardGroup(m, g, c)
                 \/ \E k \in LiveColumn : \E b, a, sorted : MoveCardGroup(m, g, k, b, a, sorted)
          PROVE  \A k \in LiveColumn : Inherited(k)
      <3>1. DOMAIN group' = DOMAIN group
        BY <2>3 DEF UpdateCardGroup, MoveCardGroup
      <3> QED
        BY <3>1, NoneInherits
    <2> QED
      BY <1>4, <2>1, <2>2, <2>3 DEF GroupOperation
  <1>5. ASSUME NEW m \in Member, ColumnOperation(m)
        PROVE  \A k : Inherited(k)
    <2>1. ASSUME NEW k \in Column, DeleteColumnAndCards(m, k)
          PROVE  \A j : Inherited(j)
      BY <2>1, DeleteColumnInherits
    <2>2. \/ \E k \in Column : DeleteColumnAndCards(m, k)
          \/ DOMAIN group' = DOMAIN group
      BY <1>5 DEF ColumnOperation, CreateBoardColumn, UpdateBoardColumn, MoveBoardColumn,
                  DeleteEmptyColumn, DeleteColumnMovingCards, itemVars
    <2> QED
      BY <2>1, <2>2, NoneInherits
  <1>6. ASSUME NEW m \in Member, ActionItemOperation(m) \/ SettingsOperation(m)
        PROVE  \A k : Inherited(k)
    <2>1. group' = group
      BY <1>6 DEF ActionItemOperation, CreateActionItem, UpdateActionItem, MoveActionItem,
                  DeleteActionItem, SettingsOperation, UpdateBoardSettings, itemVars
    <2> QED
      BY <2>1, NoneInherits
  <1> QED
    BY <1>1, <1>2, <1>3, <1>4, <1>5, <1>6 DEF Next

\* A group always takes the place of the first of its cards, and they its place when
\* it goes.
THEOREM PlaceAlwaysInherited == Spec => PlaceInherited
  <1>1. ASSUME Sound, PlacesDistinct, [Next]_vars
        PROVE  \A k \in LiveColumn \cap DOMAIN voteLimit' : Inherited(k)
    BY <1>1, NextInherits DEF LiveColumn
  <1> QED
    BY <1>1, SoundInvariant, PlacesAlwaysDistinct, PTL DEF Spec, PlaceInherited, Inherited

-----------------------------------------------------------------------------
(* What a step may change. *)

\* The parts of ChangesAllowed.
TakenBack ==
    \A u \in DOMAIN vote \ DOMAIN vote' :
        u[1] \in DOMAIN card' =>
            /\ card' = card
            /\ vote' = <<>> \/ vote' = Restrict(vote, DOMAIN vote \ {u})

Allowed ==
    /\ TakenBack
    /\ settings.readOnly => UNCHANGED <<columnVars, itemVars, vote, actionVars>>
    /\ ~settings.cardsEnabled => UNCHANGED itemVars
    /\ ~settings.votingEnabled => DOMAIN vote' \subseteq DOMAIN vote
    /\ revision' = revision + 1

\* Votes that move are the same votes.
LEMMA MoveVotesDomain ==
    ASSUME NEW cards, NEW source, NEW target, MoveVotes(cards, source, target)
    PROVE  DOMAIN vote' = DOMAIN vote
  BY DEF MoveVotes, Compacted

\* A column without cards has no group either, so that nothing is moved from it.
LEMMA NothingMoved ==
    ASSUME Sound, PlacesDistinct, NEW m \in Member, NEW k \in Column, NEW target \in Column,
           DeleteColumnMovingCards(m, k, target), CardsIn(k) = {}
    PROVE  UNCHANGED itemVars
  <1> DEFINE q == Appended(k, target)
             kept == TopLevel(target)
             P == PositionOrder(kept, position)
             last == IF kept = {} THEN 0
                     ELSE position[CHOOSE i \in kept : \A j \in kept \ {i} : <<j, i>> \in P]
  <1>1. /\ target \in LiveColumn
        /\ card' = [c \in DOMAIN card |->
                      IF c \in CardsIn(k) THEN [card[c] EXCEPT !.column = target] ELSE card[c]]
        /\ group' = [g \in DOMAIN group |->
                       IF group[g].column = k THEN [group[g] EXCEPT !.column = target] ELSE group[g]]
        /\ position' = Written(position, q)
    BY DEF DeleteColumnMovingCards, MayDeleteColumn
  <1>2. card' = card
    BY <1>1 DEF Sound, ItemsSound
  <1>3. \A g \in DOMAIN group : group[g].column # k
    BY GroupInItsColumn DEF CardsIn, Sound
  <1>4. group' = group
    BY <1>1, <1>3 DEF Sound, ItemsSound
  <1>5. TopLevel(k) = {}
    BY <1>3 DEF TopLevel, Ungrouped, CardsIn
  <1>6. last \in Int /\ last <= MAX_POSITION
    <2>1. /\ IsFiniteSet(kept) /\ Ids(kept)
          /\ \A i \in kept : position[i] \in Int /\ position[i] <= MAX_POSITION
      <3>1. kept \subseteq Card \cup Group /\ WellPlaced(kept, position)
        BY <1>1, ItemOfColumn DEF PlacesDistinct
      <3> QED
        BY <3>1, Room, PositionAssumption DEF WellPlaced
    <2>2. CASE kept = {}
      BY <2>2, PositionAssumption
    <2>3. CASE kept # {}
      <3>1. \E i \in kept : \A j \in kept \ {i} : <<j, i>> \in P
        <4> HIDE DEF kept
        <4> QED BY <2>1, <2>3, LastExists
      <3> HIDE DEF P, kept
      <3> QED
        BY <2>1, <2>3, <3>1
    <2> QED
      BY <2>2, <2>3
  <1>7. Cardinality({}) = 0 /\ 0 * POSITION_STEP = 0
    BY FS_EmptySet, PositionAssumption
  <1>8. q = [i \in {} |-> last + Renumbered({}, PositionOrder({}, position))[i]]
    <2>1. last + Cardinality({}) * POSITION_STEP <= MAX_POSITION
      <3> HIDE DEF last
      <3> QED BY <1>6, <1>7, PositionAssumption
    <2> QED
      BY <1>5, <2>1 DEF Appended
  <1> HIDE DEF last
  <1>9. DOMAIN q = {}
    BY <1>8
  <1> HIDE DEF q
  <1>10. position' = position
    BY <1>1, <1>9 DEF Written, Sound, ItemsSound
  <1> QED
    BY <1>2, <1>4, <1>10 DEF itemVars

\* The operations on cards, groups, action items and settings.
LEMMA CardStepAllowed ==
    ASSUME Sound, NEW m \in Member, CardOperation(m)
    PROVE  Allowed
  <1>1. ASSUME NEW k \in LiveColumn, NEW c \in Card, CreateCard(m, k, c)
        PROVE  Allowed
    BY <1>1 DEF CreateCard, CardsWritable, Writable, IncrementRevision, Allowed, TakenBack
  <1>2. ASSUME NEW c \in DOMAIN card, UpdateCard(m, c)
        PROVE  Allowed
    BY <1>2 DEF UpdateCard, CardsWritable, Writable, IncrementRevision, Allowed, TakenBack
  <1>3. ASSUME NEW c \in DOMAIN card, DeleteCard(m, c)
        PROVE  Allowed
    <2>1. /\ ~settings.readOnly /\ settings.cardsEnabled /\ revision' = revision + 1
          /\ vote' = Restrict(vote, {u \in DOMAIN vote : u[1] # c})
      BY <1>3 DEF DeleteCard, CardsWritable, Writable, IncrementRevision
    <2>2. c \notin DOMAIN card'
      BY <1>3 DEF DeleteCard, LeaveGroup, Restrict
    <2>3. DOMAIN vote' = {u \in DOMAIN vote : u[1] # c}
      BY <2>1 DEF Restrict
    <2> QED
      BY <2>1, <2>2, <2>3 DEF Allowed, TakenBack
  <1>4. ASSUME NEW c \in DOMAIN card, NEW k \in LiveColumn, NEW b, NEW a, NEW sorted,
               MoveCard(m, c, k, b, a, sorted)
        PROVE  Allowed
    BY <1>4, MoveVotesDomain DEF MoveCard, CardsWritable, Writable, IncrementRevision, Allowed, TakenBack
  <1> QED
    BY <1>1, <1>2, <1>3, <1>4 DEF CardOperation

\* The operations on votes.
LEMMA VoteStepAllowed ==
    ASSUME Sound, NEW m \in Member, VoteOperation(m)
    PROVE  Allowed
  <1>1. ASSUME NEW c \in Card, VoteForCard(m, c)
        PROVE  Allowed
    <2>1. /\ ~settings.readOnly /\ settings.votingEnabled /\ revision' = revision + 1
          /\ UNCHANGED itemVars
      BY <1>1 DEF VoteForCard, Writable, IncrementRevision
    <2>2. DOMAIN vote \subseteq DOMAIN vote'
      BY <1>1 DEF VoteForCard, Written
    <2> QED
      BY <2>1, <2>2 DEF Allowed, TakenBack
  <1>2. ASSUME NEW c \in Card, RemoveVoteFromCard(m, c)
        PROVE  Allowed
    <2>1. /\ ~settings.readOnly /\ settings.votingEnabled /\ revision' = revision + 1
          /\ UNCHANGED itemVars /\ card' = card
          /\ vote' = Restrict(vote, DOMAIN vote \ {<<c, m>>})
      BY <1>2 DEF RemoveVoteFromCard, Writable, IncrementRevision, itemVars
    <2>2. DOMAIN vote' = DOMAIN vote \ {<<c, m>>}
      BY <2>1 DEF Restrict
    <2>3. \A u \in DOMAIN vote \ DOMAIN vote' : u = <<c, m>>
      BY <2>2
    <2> QED
      BY <2>1, <2>2, <2>3 DEF Allowed, TakenBack
  <1>3. ASSUME ResetBoardVotes(m)
        PROVE  Allowed
    BY <1>3 DEF ResetBoardVotes, Writable, IncrementRevision, itemVars, Allowed, TakenBack
  <1> QED
    BY <1>1, <1>2, <1>3 DEF VoteOperation

\* The operations on groups.
LEMMA GroupStepAllowed ==
    ASSUME Sound, NEW m \in Member, GroupOperation(m)
    PROVE  Allowed
  <1>1. /\ ~settings.readOnly /\ settings.cardsEnabled /\ revision' = revision + 1
    BY DEF GroupOperation, CreateCardGroup, UpdateCardGroup, UngroupCardGroup, MoveCardGroup,
           CardsWritable, Writable, IncrementRevision
  <1>2. DOMAIN vote' = DOMAIN vote
    BY MoveVotesDomain DEF GroupOperation, CreateCardGroup, UpdateCardGroup, UngroupCardGroup, MoveCardGroup
  <1> QED
    BY <1>1, <1>2 DEF Allowed, TakenBack

\* The operations on columns: the votes that go with a column are those of its cards.
LEMMA ColumnStepAllowed ==
    ASSUME Sound, QuotaRespected, PlacesDistinct, NEW m \in Member, ColumnOperation(m)
    PROVE  Allowed
  <1>1. ~settings.readOnly /\ revision' = revision + 1
    BY DEF ColumnOperation, CreateBoardColumn, UpdateBoardColumn, MoveBoardColumn, DeleteEmptyColumn,
           DeleteColumnMovingCards, DeleteColumnAndCards, MayDeleteColumn, Writable, IncrementRevision
  <1>2. ASSUME DOMAIN vote' = DOMAIN vote, settings.cardsEnabled \/ UNCHANGED itemVars
        PROVE  Allowed
    BY <1>1, <1>2 DEF Allowed, TakenBack
  <1>3. ASSUME NEW k \in Column, NEW limit, NEW b, NEW a, CreateBoardColumn(m, k, limit, b, a)
        PROVE  Allowed
    BY <1>2, <1>3 DEF CreateBoardColumn
  <1>4. ASSUME NEW k \in Column, NEW limit, UpdateBoardColumn(m, k, limit)
        PROVE  Allowed
    BY <1>2, <1>4 DEF UpdateBoardColumn, Compacted
  <1>5. ASSUME NEW k \in Column, NEW b, NEW a, MoveBoardColumn(m, k, b, a)
        PROVE  Allowed
    BY <1>2, <1>5 DEF MoveBoardColumn
  <1>6. ASSUME NEW k \in Column, DeleteEmptyColumn(m, k)
        PROVE  Allowed
    BY <1>2, <1>6 DEF DeleteEmptyColumn
  <1>7. ASSUME NEW k \in Column, NEW target \in Column, DeleteColumnMovingCards(m, k, target)
        PROVE  Allowed
    <2>1. MoveVotes(CardsIn(k), k, target) /\ (CardsIn(k) # {} => settings.cardsEnabled)
      BY <1>7 DEF DeleteColumnMovingCards, MayDeleteColumn
    <2> QED
      BY <1>2, <1>7, <2>1, MoveVotesDomain, NothingMoved
  <1>8. ASSUME NEW k \in Column, DeleteColumnAndCards(m, k)
        PROVE  Allowed
    <2> DEFINE kept == {c \in DOMAIN card : card[c].column # k}
               keptGroups == {g \in DOMAIN group : group[g].column # k}
    <2>1. /\ CardsIn(k) # {} => settings.cardsEnabled
          /\ card' = Restrict(card, kept) /\ group' = Restrict(group, keptGroups)
          /\ position' = Restrict(position, kept \cup keptGroups)
          /\ vote' = Restrict(vote, {u \in DOMAIN vote : vote[u].column # k /\ u[1] \in kept})
      BY <1>8 DEF DeleteColumnAndCards, MayDeleteColumn
    <2>2. /\ DOMAIN card' = kept
          /\ DOMAIN vote' = {u \in DOMAIN vote : vote[u].column # k /\ u[1] \in kept}
      BY <2>1 DEF Restrict
    <2>3. \A u \in DOMAIN vote : u[1] \in DOMAIN card' => u \in DOMAIN vote'
      BY <2>2 DEF QuotaRespected
    <2>4. CardsIn(k) = {} => UNCHANGED itemVars
      <3> SUFFICES ASSUME CardsIn(k) = {}
                   PROVE  UNCHANGED itemVars
        OBVIOUS
      <3>1. kept = DOMAIN card
        BY DEF CardsIn
      <3>2. keptGroups = DOMAIN group
        <4>1. \A g \in DOMAIN group : group[g].column # k
          BY GroupInItsColumn DEF CardsIn, Sound
        <4> QED
          BY <4>1
      <3> HIDE DEF kept, keptGroups
      <3>3. card' = card /\ group' = group /\ position' = position
        BY <2>1, <3>1, <3>2 DEF Restrict, Sound, ItemsSound
      <3> QED
        BY <3>3 DEF itemVars
    <2>5. TakenBack /\ DOMAIN vote' \subseteq DOMAIN vote
      BY <2>2, <2>3 DEF TakenBack
    <2> QED
      BY <1>1, <2>1, <2>4, <2>5 DEF Allowed
  <1> QED
    BY <1>3, <1>4, <1>5, <1>6, <1>7, <1>8 DEF ColumnOperation

\* A vote that goes while its card stays was taken back or reset, a read-only board
\* changes in its settings alone, disabled cards and votes stay as they are, and every
\* change is counted once.
THEOREM OnlyAllowedChanges == Spec => ChangesAllowed
  <1>1. ASSUME Sound, NEW m \in Member, ActionItemOperation(m)
        PROVE  Allowed
    BY <1>1 DEF ActionItemOperation, CreateActionItem, UpdateActionItem, MoveActionItem, DeleteActionItem,
                Writable, IncrementRevision, Allowed, TakenBack
  <1>2. ASSUME Sound, NEW m \in Member, SettingsOperation(m)
        PROVE  Allowed
    BY <1>2 DEF SettingsOperation, UpdateBoardSettings, IncrementRevision, Allowed, TakenBack
  <1>3. ASSUME Sound, QuotaRespected, PlacesDistinct, [Next]_vars
        PROVE  [Allowed]_vars
    BY <1>1, <1>2, <1>3, CardStepAllowed, VoteStepAllowed, GroupStepAllowed, ColumnStepAllowed DEF Next
  <1> QED
    BY <1>3, SoundInvariant, QuotaAlwaysRespected, PlacesAlwaysDistinct, PTL
       DEF Spec, ChangesAllowed, Allowed, TakenBack

-----------------------------------------------------------------------------
(* What is read of a board: its lists.  There is no induction over data    *)
(* here: where one is needed, the least number for which a statement fails *)
(* is shown not to exist.                                                  *)

\* The least of a set of numbers.
LEMMA Least ==
    ASSUME NEW S, S \subseteq Nat, S # {}
    PROVE  \E n \in S : \A m \in S : n <= m
  <1> DEFINE R == OpToRel(<, Nat)
  <1>1. PICK n \in S : \A m \in S : ~(<<m, n>> \in R)
    <2> HIDE DEF R
    <2>1. IsWellFoundedOn(R, Nat)
      BY NatLessThanWellFounded DEF R
    <2> QED
      BY <2>1, WFMin
  <1> QED
    <2>1. \A m \in S : ~(m < n)
      BY <1>1 DEF OpToRel
    <2> QED
      BY <2>1

\* A list holds each row once, at its index.
LEMMA ListOfLists ==
    ASSUME NEW S, IsFiniteSet(S), NEW R, StrictOrder(S, R)
    PROVE  /\ ListOf(S, R) \in Seq(S) /\ Len(ListOf(S, R)) = Cardinality(S)
           /\ Cardinality(S) \in Nat
           /\ \A n \in 1 .. Cardinality(S) :
                 ListOf(S, R)[n] \in S /\ Rank(S, R, ListOf(S, R)[n]) = n - 1
           /\ \A i \in S : /\ Rank(S, R, i) + 1 \in 1 .. Cardinality(S)
                           /\ ListOf(S, R)[Rank(S, R, i) + 1] = i
  <1> DEFINE n == Cardinality(S)
             r == [i \in S |-> Rank(S, R, i)]
  <1>1. n \in Nat
    BY FS_CardinalityType
  <1>2. \A i \in S : Rank(S, R, i) \in 0 .. (n - 1)
    <2> SUFFICES ASSUME NEW i \in S
                 PROVE  Rank(S, R, i) \in 0 .. (n - 1)
      OBVIOUS
    <2>1. Rank(S, R, i) \in Nat /\ Rank(S, R, i) < n
      BY RankBound DEF StrictOrder
    <2> HIDE DEF n
    <2>2. QED
      BY <1>1, <2>1
  <1>3. \A i, j \in S : Rank(S, R, i) = Rank(S, R, j) => i = j
    BY RankInjective
  <1>4. r \in Injection(S, 0 .. (n - 1))
    <2> HIDE DEF n
    <2> QED BY <1>2, <1>3 DEF Injection, IsInjective
  <1>5. IsFiniteSet(0 .. (n - 1)) /\ Cardinality(0 .. (n - 1)) = n
    BY <1>1, FS_Interval
  <1>6. r \in Surjection(S, 0 .. (n - 1))
    <2> HIDE DEF r
    <2> QED BY <1>4, <1>5, FS_Injection
  <1> HIDE DEF n
  <1>7. \A m \in 1 .. n : \E i \in S : Rank(S, R, i) = m - 1
    <2> SUFFICES ASSUME NEW m \in 1 .. n
                 PROVE  \E i \in S : r[i] = m - 1
      OBVIOUS
    <2>1. m - 1 \in 0 .. (n - 1)
      BY <1>1
    <2> HIDE DEF r
    <2> QED
      BY <1>6, <2>1 DEF Surjection
  <1>8. ListOf(S, R) = [m \in 1 .. n |-> CHOOSE i \in S : Rank(S, R, i) = m - 1]
    BY DEF ListOf, n
  <1>9. \A m \in 1 .. n : ListOf(S, R)[m] \in S /\ Rank(S, R, ListOf(S, R)[m]) = m - 1
    BY <1>7, <1>8
  <1>10. \A i \in S : /\ Rank(S, R, i) + 1 \in 1 .. n
                      /\ ListOf(S, R)[Rank(S, R, i) + 1] = i
    <2> SUFFICES ASSUME NEW i \in S
                 PROVE  /\ Rank(S, R, i) + 1 \in 1 .. n
                        /\ ListOf(S, R)[Rank(S, R, i) + 1] = i
      OBVIOUS
    <2>1. Rank(S, R, i) + 1 \in 1 .. n /\ (Rank(S, R, i) + 1) - 1 = Rank(S, R, i)
      BY <1>1, <1>2
    <2> QED
      BY <1>3, <1>9, <2>1
  <1>11. ListOf(S, R) \in Seq(S) /\ Len(ListOf(S, R)) = n
    <2>1. ListOf(S, R) \in [1 .. n -> S]
      BY <1>8, <1>9
    <2> HIDE DEF ListOf
    <2> QED
      BY <1>1, <2>1
  <1> QED
    BY <1>1, <1>9, <1>10, <1>11 DEF n

-----------------------------------------------------------------------------
(* Pages.                                                                  *)

\* What is read of a column is a list of its items, each once.
LEMMA ItemsListed ==
    ASSUME Sound, NEW k \in LiveColumn
    PROVE  /\ IsFiniteSet(TopLevel(k)) /\ None \notin TopLevel(k)
           /\ StrictOrder(TopLevel(k), PositionOrder(TopLevel(k), position))
           /\ Items(k) \in Seq(TopLevel(k)) /\ Len(Items(k)) \in Nat
           /\ Len(Items(k)) = Cardinality(TopLevel(k))
           /\ \A n \in 1 .. Len(Items(k)) : Items(k)[n] \in TopLevel(k)
           /\ \A i \in TopLevel(k) : \E n \in 1 .. Len(Items(k)) : Items(k)[n] = i
           /\ \A m, n \in 1 .. Len(Items(k)) : Items(k)[m] = Items(k)[n] => m = n
  <1> DEFINE S == TopLevel(k)
             R == PositionOrder(S, position)
  <1>1. IsFiniteSet(S) /\ Ids(S) /\ \A i \in S : position[i] \in Int
    <2>1. /\ ItemsSound /\ S \subseteq DOMAIN position /\ IsFiniteSet(S)
          /\ DOMAIN position = DOMAIN card \cup DOMAIN group
          /\ \A i \in DOMAIN position : position[i] \in Int
      BY ItemFacts DEF Sound
    <2>2. S \subseteq Card \cup Group
      BY <2>1 DEF ItemsSound
    <2> QED
      BY <2>1, <2>2, IdFacts DEF Ids
  <1>2. StrictOrder(S, R)
    <2> HIDE DEF S
    <2> QED
      BY <1>1, PositionOrderStrict
  <1>3. Items(k) = ListOf(S, R)
    BY DEF Items
  <1> HIDE DEF S, R
  <1>4. /\ ListOf(S, R) \in Seq(S) /\ Len(ListOf(S, R)) = Cardinality(S)
        /\ Cardinality(S) \in Nat
        /\ \A n \in 1 .. Cardinality(S) :
              ListOf(S, R)[n] \in S /\ Rank(S, R, ListOf(S, R)[n]) = n - 1
        /\ \A i \in S : /\ Rank(S, R, i) + 1 \in 1 .. Cardinality(S)
                        /\ ListOf(S, R)[Rank(S, R, i) + 1] = i
    BY <1>1, <1>2, ListOfLists
  <1>5. None \notin S
    BY <1>1 DEF Ids
  <1>6. \A m, n \in 1 .. Cardinality(S) : ListOf(S, R)[m] = ListOf(S, R)[n] => m = n
    BY <1>4
  <1> QED
    BY <1>1, <1>2, <1>3, <1>4, <1>5, <1>6 DEF S, R

\* The cursor that a page ends with after the first m items.
CursorAt(k, m) == IF m = 0 THEN NoCursor ELSE CursorOf(Items(k)[m])

\* A page starts where the one before it ended.
LEMMA PageAt ==
    ASSUME Sound, NEW k \in LiveColumn, NEW limit \in Nat \ {0}, NEW m \in 0 .. Len(Items(k))
    PROVE  Page(k, CursorAt(k, m), limit) =
             {[items |-> SubSeq(Items(k), m + 1,
                                IF m + limit < Len(Items(k)) THEN m + limit ELSE Len(Items(k))),
               next |-> IF m + limit < Len(Items(k)) THEN CursorAt(k, m + limit) ELSE NoCursor]}
  <1> DEFINE s == Items(k)
  <1>1. /\ None \notin TopLevel(k) /\ Len(s) \in Nat /\ DOMAIN s = 1 .. Len(s)
        /\ \A n \in 1 .. Len(s) : s[n] \in TopLevel(k)
        /\ \A i, j \in 1 .. Len(s) : s[i] = s[j] => i = j
    BY ItemsListed
  <1> HIDE DEF s
  <1>2. Anchor(s, CursorAt(k, m)) = {m}
    <2>1. CASE m = 0
      BY <2>1 DEF Anchor, CursorAt
    <2>2. CASE m # 0
      <3>1. CursorAt(k, m) = <<s[m], position[s[m]]>> /\ m \in 1 .. Len(s)
        BY <2>2 DEF CursorAt, CursorOf, s
      <3>2. CursorAt(k, m) # NoCursor
        BY <1>1, <3>1 DEF NoCursor
      <3>3. Anchor(s, CursorAt(k, m)) = {n \in DOMAIN s : s[n] = s[m] /\ position[s[n]] = position[s[m]]}
        BY <3>1, <3>2 DEF Anchor
      <3> QED
        BY <1>1, <3>1, <3>3
    <2> QED
      BY <2>1, <2>2
  <1>3. m + limit < Len(s) => CursorAt(k, m + limit) = CursorOf(s[m + limit])
    BY DEF CursorAt, s
  <1> QED
    BY <1>2, <1>3 DEF Page, s

\* Whoever asks for page after page has the column's list, whatever the size of
\* the pages: each starts behind the one before, and the last says that it is.
LEMMA PagesMakeTheList ==
    ASSUME Sound, NEW k \in LiveColumn, NEW limit \in Nat \ {0}
    PROVE  ReadAll(k, limit) = Items(k)
  <1> DEFINE s == Items(k)
             n == Len(s)
             T == TopLevel(k)
             D == {NoCursor} \cup {CursorOf(i) : i \in T}
             Rest(m) == SubSeq(s, m + 1, n)
             Reads(f, cursor) ==
                 LET page == CHOOSE p \in Page(k, cursor, limit) : TRUE
                 IN  page.items \o IF page.next = NoCursor THEN <<>> ELSE f[page.next]
             readFrom == CHOOSE f : f = [cursor \in D |-> Reads(f, cursor)]
  <1>1. /\ s \in Seq(T) /\ n \in Nat /\ None \notin T
        /\ \A m \in 1 .. n : s[m] \in T
        /\ \A i \in T : \E m \in 1 .. n : s[m] = i
        /\ \A i, j \in 1 .. n : s[i] = s[j] => i = j
    BY ItemsListed
  <1>2. ReadAll(k, limit) = readFrom[NoCursor]
    BY DEF ReadAll
  <1>3. ASSUME NEW f, NEW m \in 0 .. n
        PROVE  /\ m + limit < n => Reads(f, CursorAt(k, m)) =
                                     SubSeq(s, m + 1, m + limit) \o f[CursorAt(k, m + limit)]
               /\ ~(m + limit < n) => Reads(f, CursorAt(k, m)) = Rest(m) \o <<>>
    <2> DEFINE page == CHOOSE p \in Page(k, CursorAt(k, m), limit) : TRUE
    <2>1. page = [items |-> SubSeq(s, m + 1, IF m + limit < n THEN m + limit ELSE n),
                  next |-> IF m + limit < n THEN CursorAt(k, m + limit) ELSE NoCursor]
      BY PageAt
    <2>2. m + limit < n => CursorAt(k, m + limit) # NoCursor
      <3> SUFFICES ASSUME m + limit < n
                   PROVE  CursorAt(k, m + limit) # NoCursor
        OBVIOUS
      <3>1. m + limit \in 1 .. n /\ m + limit # 0
        BY <1>1
      <3>2. CursorAt(k, m + limit) = <<s[m + limit], position[s[m + limit]]>>
        BY <3>1 DEF CursorAt, CursorOf
      <3>3. s[m + limit] # None
        BY <1>1, <3>1
      <3> HIDE DEF s
      <3> QED
        BY <3>2, <3>3 DEF NoCursor
    <2>3. Reads(f, CursorAt(k, m)) =
             page.items \o IF page.next = NoCursor THEN <<>> ELSE f[page.next]
      OBVIOUS
    <2> HIDE DEF page, Reads, s
    <2> QED
      BY <2>1, <2>2, <2>3
  <1>4. \A m \in 0 .. n : CursorAt(k, m) \in D
    <2> SUFFICES ASSUME NEW m \in 0 .. n, m # 0
                 PROVE  CursorAt(k, m) \in D
      BY DEF CursorAt
    <2>1. m \in 1 .. n
      BY <1>1
    <2> QED
      BY <1>1, <2>1 DEF CursorAt
  <1>5. \A c \in D : \E m \in 0 .. n : c = CursorAt(k, m)
    <2>1. CursorAt(k, 0) = NoCursor /\ 0 \in 0 .. n
      BY <1>1 DEF CursorAt
    <2>2. ASSUME NEW i \in T
          PROVE  \E m \in 0 .. n : CursorOf(i) = CursorAt(k, m)
      <3>1. PICK m \in 1 .. n : s[m] = i
        BY <1>1
      <3>2. m \in 0 .. n /\ m # 0
        BY <1>1
      <3> QED
        BY <3>1, <3>2 DEF CursorAt
    <2> QED
      BY <2>1, <2>2
  <1>6. ASSUME NEW l \in 0 .. n, NEW m \in 0 .. n, CursorAt(k, l) = CursorAt(k, m)
        PROVE  l = m
    <2>1. \A j \in 1 .. n : CursorAt(k, j) = <<s[j], position[s[j]]>> /\ s[j] # None
      <3> SUFFICES ASSUME NEW j \in 1 .. n
                   PROVE  CursorAt(k, j) = <<s[j], position[s[j]]>> /\ s[j] # None
        OBVIOUS
      <3>1. j # 0 /\ s[j] # None
        BY <1>1
      <3> QED
        BY <3>1 DEF CursorAt, CursorOf
    <2>2. CursorAt(k, 0) = <<None, 0>>
      BY DEF CursorAt, NoCursor
    <2> HIDE DEF s
    <2>3. \A j \in 0 .. n : j = 0 \/ j \in 1 .. n
      BY <1>1
    <2>4. \A j \in 1 .. n : CursorAt(k, j)[1] = s[j] /\ s[j] # None
      BY <2>1
    <2>5. CursorAt(k, 0)[1] = None
      BY <2>2
    <2>6. CursorAt(k, l)[1] = CursorAt(k, m)[1]
      BY <1>6
    <2>7. CASE l = 0
      <3>1. m \notin 1 .. n
        BY <2>4, <2>5, <2>6, <2>7
      <3> QED
        BY <2>3, <2>7, <3>1
    <2>8. CASE l \in 1 .. n
      <3>1. m # 0
        BY <2>4, <2>5, <2>6, <2>8
      <3>2. s[l] = s[m] /\ m \in 1 .. n
        BY <2>3, <2>4, <2>6, <2>8, <3>1
      <3> QED
        BY <1>1, <2>8, <3>2
    <2> QED
      BY <2>3, <2>7, <2>8
  <1>7. \A m \in 0 .. n : /\ Rest(m) \in Seq(T) /\ Rest(m) \o <<>> = Rest(m)
                          /\ m + limit < n => SubSeq(s, m + 1, m + limit) \o Rest(m + limit) = Rest(m)
    <2> SUFFICES ASSUME NEW m \in 0 .. n
                 PROVE  /\ Rest(m) \in Seq(T) /\ Rest(m) \o <<>> = Rest(m)
                        /\ m + limit < n =>
                              SubSeq(s, m + 1, m + limit) \o Rest(m + limit) = Rest(m)
      OBVIOUS
    <2> HIDE DEF s, T
    <2>1. Rest(m) \in Seq(T)
      <3>1. m + 1 \in Int /\ n \in Int /\ \A i \in m + 1 .. n : s[i] \in T
        BY <1>1
      <3> QED
        BY <3>1, SubSeqProperties
    <2>2. Rest(m) \o <<>> = Rest(m)
      <3> HIDE DEF Rest
      <3> QED
        BY <2>1, ConcatEmptySeq
    <2>3. ASSUME m + limit < n
          PROVE  SubSeq(s, m + 1, m + limit) \o Rest(m + limit) = Rest(m)
      <3>1. /\ m + 1 \in 1 .. n + 1 /\ m + limit \in (m + 1) - 1 .. n
            /\ n \in m + limit .. n
        BY <1>1, <2>3
      <3> QED
        BY <1>1, <3>1, ConcatAdjacentSubSeq
    <2> QED
      BY <2>1, <2>2, <2>3
  <1> HIDE DEF s, T, Rest
  <1>8. \E f : f = [cursor \in D |-> Reads(f, cursor)]
    <2> DEFINE At(c) == CHOOSE m \in 0 .. n : c = CursorAt(k, m)
               g == [c \in D |-> Rest(At(c))]
    <2>1. \A m \in 0 .. n : At(CursorAt(k, m)) = m
      BY <1>6
    <2> HIDE DEF At
    <2>2. \A m \in 0 .. n : g[CursorAt(k, m)] = Rest(m)
      BY <1>4, <2>1
    <2> HIDE DEF g
    <2>3. ASSUME NEW m \in 0 .. n
          PROVE  Reads(g, CursorAt(k, m)) = Rest(m)
      <3> HIDE DEF Reads
      <3>1. CASE m + limit < n
        <4>1. m + limit \in 0 .. n
          BY <1>1, <3>1
        <4> QED
          BY <1>3, <1>7, <2>2, <3>1, <4>1
      <3>2. CASE ~(m + limit < n)
        BY <1>3, <1>7, <3>2
      <3> QED
        BY <3>1, <3>2
    <2>4. \A c \in D : Reads(g, c) = g[c]
      <3> HIDE DEF Reads, D
      <3> QED
        BY <1>5, <2>2, <2>3
    <2>5. g = [c \in D |-> Reads(g, c)]
      <3>1. g = [c \in D |-> g[c]]
        BY DEF g
      <3> HIDE DEF Reads, D
      <3> QED
        BY <2>4, <3>1
    <2> QED
      BY <2>5
  <1>9. readFrom = [cursor \in D |-> Reads(readFrom, cursor)]
    <2> HIDE DEF Reads, D
    <2> QED
      BY <1>8
  <1> HIDE DEF readFrom
  <1>10. \A m \in 0 .. n : readFrom[CursorAt(k, m)] = Rest(m)
    <2> DEFINE Wrong == {d \in 0 .. n : readFrom[CursorAt(k, n - d)] # Rest(n - d)}
    <2>0. \A m \in 0 .. n : readFrom[CursorAt(k, m)] = Reads(readFrom, CursorAt(k, m))
      <3> HIDE DEF Reads, D
      <3> QED
        BY <1>4, <1>9
    <2>1. Wrong = {}
      <3> SUFFICES ASSUME Wrong # {} PROVE FALSE
        OBVIOUS
      <3>1. Wrong \subseteq Nat
        BY <1>1
      <3>2. PICK d \in Wrong : \A e \in Wrong : d <= e
        <4> HIDE DEF Wrong
        <4> QED
          BY <3>1, Least
      <3> DEFINE m == n - d
      <3>3. m \in 0 .. n /\ d \in 0 .. n /\ readFrom[CursorAt(k, m)] # Rest(m)
        BY <1>1
      <3>4. CASE m + limit < n
        <4>1. /\ m + limit \in 0 .. n /\ d - limit \in 0 .. n /\ ~(d <= d - limit)
              /\ n - (d - limit) = m + limit
          BY <1>1, <3>3, <3>4
        <4>2. d - limit \notin Wrong
          BY <3>2, <4>1
        <4>3. readFrom[CursorAt(k, m + limit)] = Rest(m + limit)
          BY <4>1, <4>2
        <4> HIDE DEF Reads, m
        <4>4. Reads(readFrom, CursorAt(k, m)) =
                 SubSeq(s, m + 1, m + limit) \o readFrom[CursorAt(k, m + limit)]
          BY <1>3, <3>3, <3>4
        <4>5. readFrom[CursorAt(k, m)] = SubSeq(s, m + 1, m + limit) \o Rest(m + limit)
          BY <2>0, <3>3, <4>3, <4>4
        <4> QED
          BY <1>7, <3>3, <3>4, <4>5
      <3>5. CASE ~(m + limit < n)
        <4> HIDE DEF Reads, m
        <4> QED
          BY <1>3, <1>7, <2>0, <3>3, <3>5
      <3> QED
        BY <3>4, <3>5
    <2> SUFFICES ASSUME NEW m \in 0 .. n
                 PROVE  readFrom[CursorAt(k, m)] = Rest(m)
      OBVIOUS
    <2>2. n - m \in 0 .. n /\ n - (n - m) = m
      BY <1>1
    <2> QED
      BY <2>1, <2>2
  <1>11. readFrom[NoCursor] = Rest(0)
    <2>1. 0 \in 0 .. n /\ CursorAt(k, 0) = NoCursor
      BY <1>1 DEF CursorAt
    <2> QED
      BY <1>10, <2>1
  <1>12. Rest(0) = s
    BY <1>1, SubSeqFull DEF Rest
  <1> QED
    BY <1>2, <1>11, <1>12 DEF s

-----------------------------------------------------------------------------
(* Drops.                                                                  *)

\* The list s holds each element of S once, in the order R.
Lists(s, S, R) ==
    /\ s \in Seq(S) /\ Len(s) \in Nat
    /\ \A i \in S : \E n \in 1 .. Len(s) : s[n] = i
    /\ \A m, n \in 1 .. Len(s) : <<s[m], s[n]>> \in R <=> m < n

\* ListOf makes such a list.
LEMMA ListOfInOrder ==
    ASSUME NEW S, IsFiniteSet(S), NEW R, StrictOrder(S, R)
    PROVE  Lists(ListOf(S, R), S, R)
  <1> DEFINE s == ListOf(S, R)
  <1>1. /\ s \in Seq(S) /\ Len(s) = Cardinality(S) /\ Cardinality(S) \in Nat
        /\ \A n \in 1 .. Cardinality(S) : s[n] \in S /\ Rank(S, R, s[n]) = n - 1
        /\ \A i \in S : Rank(S, R, i) + 1 \in 1 .. Cardinality(S) /\ s[Rank(S, R, i) + 1] = i
    BY ListOfLists
  <1>2. \A i, j \in S : <<i, j>> \in R => Rank(S, R, i) < Rank(S, R, j)
    BY RankIncreases
  <1> HIDE DEF s
  <1>3. ASSUME NEW m \in 1 .. Len(s), NEW n \in 1 .. Len(s)
        PROVE  <<s[m], s[n]>> \in R <=> m < n
    <2>1. s[m] \in S /\ s[n] \in S /\ Rank(S, R, s[m]) = m - 1 /\ Rank(S, R, s[n]) = n - 1
      BY <1>1
    <2>2. <<s[m], s[n]>> \in R => m < n
      <3>1. <<s[m], s[n]>> \in R => m - 1 < n - 1
        BY <1>2, <2>1
      <3> QED
        BY <3>1
    <2>3. <<s[n], s[m]>> \in R => n < m
      <3>1. <<s[n], s[m]>> \in R => n - 1 < m - 1
        BY <1>2, <2>1
      <3> QED
        BY <3>1
    <2>4. s[m] = s[n] => m = n
      <3>1. s[m] = s[n] => m - 1 = n - 1
        BY <2>1
      <3> QED
        BY <3>1
    <2> QED
      BY <2>1, <2>2, <2>3, <2>4 DEF StrictOrder
  <1> QED
    BY <1>1, <1>3 DEF Lists, s

\* What it means to be a list.
LEMMA ListFacts ==
    ASSUME NEW S, NEW R, StrictOrder(S, R), NEW s, Lists(s, S, R)
    PROVE  /\ s \in Seq(S) /\ Len(s) \in Nat /\ DOMAIN s = 1 .. Len(s)
           /\ \A i \in S : \E m \in 1 .. Len(s) : s[m] = i
           /\ \A m, j \in 1 .. Len(s) : <<s[m], s[j]>> \in R <=> m < j
           /\ \A m \in 1 .. Len(s) : s[m] \in S
           /\ \A m, j \in 1 .. Len(s) : s[m] = s[j] => m = j
  <1> DEFINE n == Len(s)
  <1>1. /\ s \in Seq(S) /\ n \in Nat /\ DOMAIN s = 1 .. n
        /\ \A i \in S : \E m \in 1 .. n : s[m] = i
        /\ \A m, j \in 1 .. n : <<s[m], s[j]>> \in R <=> m < j
        /\ \A m \in 1 .. n : s[m] \in S
    <2>1. s \in Seq(S) /\ n \in Nat /\ DOMAIN s = 1 .. n
      BY DEF Lists
    <2>2. \A i \in S : \E m \in 1 .. n : s[m] = i
      BY DEF Lists
    <2>3. \A m, j \in 1 .. n : <<s[m], s[j]>> \in R <=> m < j
      BY DEF Lists
    <2>4. \A m \in 1 .. n : s[m] \in S
      BY <2>1
    <2> QED
      BY <2>1, <2>2, <2>3, <2>4
  <1>2. \A m, j \in 1 .. n : s[m] = s[j] => m = j
    <2> SUFFICES ASSUME NEW m \in 1 .. n, NEW j \in 1 .. n, s[m] = s[j]
                 PROVE  m = j
      OBVIOUS
    <2>1. ~(m < j) /\ ~(j < m)
      BY <1>1 DEF StrictOrder
    <2> QED
      BY <1>1, <2>1
  <1> QED
    BY <1>1, <1>2

\* There is one list of S in the order R.
LEMMA ListedOnce ==
    ASSUME NEW S, IsFiniteSet(S), NEW R, StrictOrder(S, R), NEW s, Lists(s, S, R)
    PROVE  s = ListOf(S, R) /\ Len(s) = Cardinality(S)
  <1> DEFINE n == Len(s)
             l == ListOf(S, R)
  <1>1. /\ s \in Seq(S) /\ n \in Nat
        /\ \A i \in S : \E m \in 1 .. n : s[m] = i
        /\ \A m, j \in 1 .. n : <<s[m], s[j]>> \in R <=> m < j
        /\ \A m \in 1 .. n : s[m] \in S
    BY ListFacts
  <1>2. \A m, j \in 1 .. n : s[m] = s[j] => m = j
    BY ListFacts
  <1>3. ASSUME NEW m \in 1 .. n
        PROVE  Rank(S, R, s[m]) = m - 1
    <2> DEFINE B == {j \in S : <<j, s[m]>> \in R}
               f == [i \in 1 .. m - 1 |-> s[i]]
    <2>1. f \in Bijection(1 .. m - 1, B)
      <3>1. \A i \in 1 .. m - 1 : i \in 1 .. n /\ i < m
        BY <1>1
      <3>2. \A i \in 1 .. m - 1 : f[i] \in B
        BY <1>1, <3>1
      <3>3. \A i, j \in 1 .. m - 1 : f[i] = f[j] => i = j
        BY <1>2, <3>1
      <3>4. \A b \in B : \E i \in 1 .. m - 1 : f[i] = b
        <4> SUFFICES ASSUME NEW b \in B PROVE \E i \in 1 .. m - 1 : f[i] = b
          OBVIOUS
        <4>1. PICK i \in 1 .. n : s[i] = b
          BY <1>1
        <4>2. i < m
          BY <1>1, <4>1
        <4>3. i \in 1 .. m - 1
          BY <1>1, <4>2
        <4> QED
          BY <4>1, <4>3
      <3>5. f \in [1 .. m - 1 -> B]
        BY <3>2
      <3> HIDE DEF f, B
      <3> QED
        BY <3>3, <3>4, <3>5 DEF Bijection, Injection, Surjection, IsInjective
    <2>2. IsFiniteSet(1 .. m - 1) /\ Cardinality(1 .. m - 1) = m - 1
      <3>1. m - 1 \in Nat /\ (1 > m - 1 => m - 1 = 0)
        BY <1>1
      <3>2. 1 \in Int /\ m - 1 \in Int
        BY <1>1
      <3>3. IsFiniteSet(1 .. m - 1) /\ Cardinality(1 .. m - 1) = IF 1 > m - 1 THEN 0 ELSE (m - 1) - 1 + 1
        BY <3>2, FS_Interval
      <3> QED
        BY <1>1, <3>1, <3>3
    <2> HIDE DEF f, B
    <2>3. Cardinality(B) = m - 1
      <3>1. ExistsBijection(1 .. m - 1, B)
        BY <2>1 DEF ExistsBijection
      <3> QED
        BY <2>2, <3>1, FS_Bijection
    <2> QED
      BY <2>3 DEF Rank, B
  <1>4. /\ l \in Seq(S) /\ Len(l) = Cardinality(S) /\ Cardinality(S) \in Nat
        /\ \A i \in S : Rank(S, R, i) + 1 \in 1 .. Cardinality(S) /\ l[Rank(S, R, i) + 1] = i
        /\ \A m \in 1 .. Cardinality(S) : l[m] \in S /\ Rank(S, R, l[m]) = m - 1
    BY ListOfLists
  <1> HIDE DEF l
  <1>5. \A m \in 1 .. n : m \in 1 .. Cardinality(S) /\ l[m] = s[m]
    <2> SUFFICES ASSUME NEW m \in 1 .. n
                 PROVE  m \in 1 .. Cardinality(S) /\ l[m] = s[m]
      OBVIOUS
    <2>1. (m - 1) + 1 \in 1 .. Cardinality(S) /\ l[(m - 1) + 1] = s[m]
      BY <1>1, <1>3, <1>4
    <2>2. (m - 1) + 1 = m
      BY <1>1
    <2> QED
      BY <2>1, <2>2
  <1>6. \A m \in 1 .. Cardinality(S) : m \in 1 .. n
    <2> SUFFICES ASSUME NEW m \in 1 .. Cardinality(S)
                 PROVE  m \in 1 .. n
      OBVIOUS
    <2>1. PICK j \in 1 .. n : s[j] = l[m]
      BY <1>1, <1>4
    <2>2. j - 1 = m - 1
      BY <1>3, <1>4, <2>1
    <2>3. j = m
      BY <1>1, <2>2
    <2> QED
      BY <2>3
  <1>7. n = Cardinality(S)
    <2> DEFINE q == Cardinality(S)
    <2>1. n \in Nat /\ q \in Nat /\ (n # 0 => n \in 1 .. q) /\ (q # 0 => q \in 1 .. n)
      <3>1. n # 0 => n \in 1 .. n
        BY <1>1
      <3>2. q # 0 => q \in 1 .. q
        BY <1>4
      <3> QED
        BY <1>1, <1>4, <1>5, <1>6, <3>1, <3>2
    <2> HIDE DEF q, n
    <2>2. n = q
      BY <2>1
    <2> QED
      BY <2>2 DEF q
  <1>8. s = l
    <2>1. Len(s) = Len(l) /\ \A m \in 1 .. Len(s) : s[m] = l[m]
      BY <1>4, <1>5, <1>7
    <2> QED
      BY <1>1, <1>4, <2>1, SeqEqual
  <1> QED
    BY <1>7, <1>8 DEF l

\* What is left of a list without one of its elements is a list.
LEMMA ListedWithout ==
    ASSUME NEW S, NEW R, StrictOrder(S, R), NEW s, Lists(s, S, R), NEW x
    PROVE  Lists(Without(s, x), S \ {x}, R)
  <1> DEFINE n == Len(s)
             T == S \ {x}
  <1>1. /\ s \in Seq(S) /\ n \in Nat /\ DOMAIN s = 1 .. n
        /\ \A i \in S : \E m \in 1 .. n : s[m] = i
        /\ \A m, j \in 1 .. n : <<s[m], s[j]>> \in R <=> m < j
        /\ \A m \in 1 .. n : s[m] \in S
    <2>1. s \in Seq(S) /\ n \in Nat /\ DOMAIN s = 1 .. n
      BY DEF Lists
    <2>2. \A i \in S : \E m \in 1 .. n : s[m] = i
      BY DEF Lists
    <2>3. \A m, j \in 1 .. n : <<s[m], s[j]>> \in R <=> m < j
      BY DEF Lists
    <2>4. \A m \in 1 .. n : s[m] \in S
      BY <2>1
    <2> QED
      BY <2>1, <2>2, <2>3, <2>4
  <1>2. \A m, j \in 1 .. n : s[m] = s[j] => m = j
    BY ListFacts
  <1>3. CASE x \notin S
    <2>1. x \notin Range(s) /\ T = S
      BY <1>1, <1>3 DEF Range
    <2>2. Without(s, x) = s
      BY <2>1 DEF Without
    <2> QED
      BY <2>1, <2>2
  <1>4. CASE x \in S
    <2> DEFINE p == IndexOf(s, x)
               l == SubSeq(s, 1, p - 1)
               r == SubSeq(s, p + 1, n)
               w == Without(s, x)
    <2>1. p \in 1 .. n /\ s[p] = x
      BY <1>1, <1>4 DEF IndexOf
    <2>2. w = l \o r
      BY <1>1, <2>1 DEF Without, Range
    <2> HIDE DEF p
    <2>3. /\ l \in Seq(T) /\ Len(l) = p - 1
          /\ \A m \in 1 .. p - 1 : l[m] = s[m]
      <3>1. /\ 1 \in Int /\ p - 1 \in Int
            /\ \A m \in 1 .. p - 1 : s[m] \in T
        BY <1>1, <1>2, <2>1
      <3>2. /\ l \in Seq(T) /\ Len(l) = IF 1 <= p - 1 THEN (p - 1) - 1 + 1 ELSE 0
            /\ \A m \in 1 .. (p - 1) - 1 + 1 : l[m] = s[1 + m - 1]
        <4> HIDE DEF T, n
        <4> QED
          BY <3>1, SubSeqProperties
      <3>3. (p - 1) - 1 + 1 = p - 1 /\ (~(1 <= p - 1) => p - 1 = 0)
        BY <1>1, <2>1
      <3>4. \A m \in 1 .. p - 1 : 1 + m - 1 = m
        OBVIOUS
      <3> HIDE DEF l, T
      <3> QED
        BY <3>2, <3>3, <3>4
    <2>4. /\ r \in Seq(T) /\ Len(r) = n - p
          /\ \A m \in 1 .. n - p : r[m] = s[p + m]
      <3>1. /\ p + 1 \in Int /\ n \in Int
            /\ \A m \in p + 1 .. n : s[m] \in T
        BY <1>1, <1>2, <2>1
      <3>2. /\ r \in Seq(T) /\ Len(r) = IF p + 1 <= n THEN n - (p + 1) + 1 ELSE 0
            /\ \A m \in 1 .. n - (p + 1) + 1 : r[m] = s[(p + 1) + m - 1]
        <4> HIDE DEF T, n
        <4> QED
          BY <3>1, SubSeqProperties
      <3>3. n - (p + 1) + 1 = n - p /\ (~(p + 1 <= n) => n - p = 0)
        <4> HIDE DEF n
        <4> QED
          BY <1>1, <2>1
      <3>4. \A m \in 1 .. n - p : (p + 1) + m - 1 = p + m
        BY <2>1
      <3> HIDE DEF r, T
      <3> QED
        BY <3>2, <3>3, <3>4
    <2> HIDE DEF l, r, w
    <2>5. /\ w \in Seq(T) /\ Len(w) = n - 1
          /\ \A m \in 1 .. n - 1 : w[m] = IF m < p THEN s[m] ELSE s[m + 1]
      <3>1. /\ l \o r \in Seq(T) /\ Len(l \o r) = Len(l) + Len(r)
            /\ \A m \in 1 .. Len(l) + Len(r) :
                  (l \o r)[m] = IF m <= Len(l) THEN l[m] ELSE r[m - Len(l)]
        <4> HIDE DEF T
        <4> QED
          BY <2>3, <2>4, ConcatProperties
      <3>2. Len(l) + Len(r) = n - 1 /\ Len(l) = p - 1
        BY <1>1, <2>1, <2>3, <2>4
      <3> HIDE DEF n
      <3>3. ASSUME NEW m \in 1 .. n - 1
            PROVE  w[m] = IF m < p THEN s[m] ELSE s[m + 1]
        <4>1. w[m] = IF m <= p - 1 THEN l[m] ELSE r[m - (p - 1)]
          BY <2>2, <3>1, <3>2
        <4>2. CASE m < p
          <5>1. m <= p - 1 /\ m \in 1 .. p - 1
            BY <1>1, <2>1, <4>2
          <5> QED
            BY <2>3, <4>1, <4>2, <5>1
        <4>3. CASE ~(m < p)
          <5>1. /\ ~(m <= p - 1) /\ m - (p - 1) \in 1 .. n - p
                /\ p + (m - (p - 1)) = m + 1
            BY <1>1, <2>1, <4>3
          <5> QED
            BY <2>4, <4>1, <4>3, <5>1
        <4> QED
          BY <4>2, <4>3
      <3> QED
        BY <2>2, <3>1, <3>2, <3>3
    <2>6. \A i \in T : \E m \in 1 .. n - 1 : w[m] = i
      <3> SUFFICES ASSUME NEW i \in T
                   PROVE  \E m \in 1 .. n - 1 : w[m] = i
        OBVIOUS
      <3>1. PICK j \in 1 .. n : s[j] = i
        BY <1>1
      <3>2. j # p
        BY <2>1, <3>1
      <3> HIDE DEF n, T
      <3>3. CASE j < p
        <4>1. j \in 1 .. n - 1
          BY <1>1, <2>1, <3>3
        <4> QED
          BY <2>5, <3>1, <3>3, <4>1
      <3>4. CASE ~(j < p)
        <4>1. j - 1 \in 1 .. n - 1 /\ ~(j - 1 < p) /\ (j - 1) + 1 = j
          BY <1>1, <2>1, <3>2, <3>4
        <4>2. w[j - 1] = s[j]
          BY <2>5, <4>1
        <4> QED
          BY <3>1, <4>1, <4>2
      <3> QED
        BY <3>3, <3>4
    <2>7. ASSUME NEW m \in 1 .. n - 1, NEW j \in 1 .. n - 1
          PROVE  <<w[m], w[j]>> \in R <=> m < j
      <3> DEFINE at(i) == IF i < p THEN i ELSE i + 1
      <3> HIDE DEF n
      <3>1. at(m) \in 1 .. n /\ at(j) \in 1 .. n /\ (at(m) < at(j) <=> m < j)
        BY <1>1, <2>1
      <3>2. w[m] = s[at(m)] /\ w[j] = s[at(j)]
        BY <2>5
      <3> HIDE DEF at
      <3> QED
        BY <1>1, <3>1, <3>2
    <2> QED
      <3>1. Len(w) \in Nat
        BY <1>1, <2>1, <2>5
      <3> HIDE DEF n, T
      <3>2. Lists(w, T, R)
        BY <2>5, <2>6, <2>7, <3>1 DEF Lists
      <3> QED
        BY <3>2 DEF w, T
  <1> QED
    BY <1>3, <1>4

\* A list with one more element put in at an index lists it there, and the
\* neighbours it has there name its place.
LEMMA ListedInserted ==
    ASSUME NEW S, NEW R, R \subseteq S \X S, StrictOrder(S, R), None \notin S,
           NEW s, Lists(s, S, R), NEW x, x \notin S \cup {None}, NEW i \in 0 .. Len(s)
    PROVE  LET placement == BuildItemPlacement(InsertAt(s, x, i), x)
           IN  /\ Resolves(S, R, placement[1], placement[2])
               /\ placement[1] \in S \/ UpTo(S, R, placement[1]) = {}
               /\ Lists(InsertAt(s, x, i), S \cup {x}, InsertedOrder(S, R, x, placement[1]))
  <1> DEFINE n == Len(s)
             T == S \cup {x}
             l == SubSeq(s, 1, i)
             r == SubSeq(s, i + 1, n)
             t == InsertAt(s, x, i)
             b == IF i = 0 THEN None ELSE s[i]
             a == IF i = n THEN None ELSE s[i + 1]
             Q == InsertedOrder(S, R, x, b)
  <1>1. /\ s \in Seq(S) /\ n \in Nat /\ DOMAIN s = 1 .. n
        /\ \A e \in S : \E m \in 1 .. n : s[m] = e
        /\ \A m, j \in 1 .. n : <<s[m], s[j]>> \in R <=> m < j
        /\ \A m \in 1 .. n : s[m] \in S
    <2>1. s \in Seq(S) /\ n \in Nat /\ DOMAIN s = 1 .. n
      BY DEF Lists
    <2>2. \A e \in S : \E m \in 1 .. n : s[m] = e
      BY DEF Lists
    <2>3. \A m, j \in 1 .. n : <<s[m], s[j]>> \in R <=> m < j
      BY DEF Lists
    <2>4. \A m \in 1 .. n : s[m] \in S
      BY <2>1
    <2> QED
      BY <2>1, <2>2, <2>3, <2>4
  <1>2. \A m, j \in 1 .. n : s[m] = s[j] => m = j
    BY ListFacts
  <1>3. t = (l \o <<x>>) \o r
    BY DEF InsertAt
  <1> HIDE DEF n, t
  <1>4. i \in 0 .. n
    BY DEF n
  <1>5. /\ l \in Seq(T) /\ Len(l) = i
        /\ \A m \in 1 .. i : l[m] = s[m]
    <2>1. /\ 1 \in Int /\ i \in Int
          /\ \A m \in 1 .. i : s[m] \in T
      BY <1>1, <1>4
    <2>2. /\ l \in Seq(T) /\ Len(l) = IF 1 <= i THEN i - 1 + 1 ELSE 0
          /\ \A m \in 1 .. i - 1 + 1 : l[m] = s[1 + m - 1]
      <3> HIDE DEF T
      <3> QED
        BY <2>1, SubSeqProperties
    <2>3. i - 1 + 1 = i /\ (~(1 <= i) => i = 0)
      BY <1>1, <1>4
    <2>4. \A m \in 1 .. i : 1 + m - 1 = m
      OBVIOUS
    <2> HIDE DEF l, T
    <2> QED
      BY <2>2, <2>3, <2>4
  <1>6. /\ r \in Seq(T) /\ Len(r) = n - i
        /\ \A m \in 1 .. n - i : r[m] = s[i + m]
    <2>1. /\ i + 1 \in Int /\ n \in Int
          /\ \A m \in i + 1 .. n : s[m] \in T
      BY <1>1, <1>4
    <2>2. /\ r \in Seq(T) /\ Len(r) = IF i + 1 <= n THEN n - (i + 1) + 1 ELSE 0
          /\ \A m \in 1 .. n - (i + 1) + 1 : r[m] = s[(i + 1) + m - 1]
      <3> HIDE DEF T
      <3> QED
        BY <2>1, SubSeqProperties
    <2>3. n - (i + 1) + 1 = n - i /\ (~(i + 1 <= n) => n - i = 0)
      BY <1>1, <1>4
    <2>4. \A m \in 1 .. n - i : (i + 1) + m - 1 = i + m
      BY <1>4
    <2> HIDE DEF r, T
    <2> QED
      BY <2>2, <2>3, <2>4
  <1> HIDE DEF l, r
  <1>7. /\ t \in Seq(T) /\ Len(t) = n + 1
        /\ \A m \in 1 .. n + 1 :
              t[m] = IF m <= i THEN s[m] ELSE IF m = i + 1 THEN x ELSE s[m - 1]
    <2>1. <<x>> \in Seq(T) /\ Len(<<x>>) = 1 /\ <<x>>[1] = x
      OBVIOUS
    <2> DEFINE h == <<x>>
               u == l \o h
    <2> HIDE DEF h
    <2>2. /\ u \in Seq(T) /\ Len(u) = Len(l) + Len(h)
          /\ \A m \in 1 .. Len(l) + Len(h) :
                u[m] = IF m <= Len(l) THEN l[m] ELSE h[m - Len(l)]
      <3> HIDE DEF T
      <3> QED
        BY <1>5, <2>1, ConcatProperties DEF h
    <2> HIDE DEF u
    <2>3. /\ u \in Seq(T) /\ Len(u) = i + 1
          /\ \A m \in 1 .. i + 1 : u[m] = IF m <= i THEN s[m] ELSE x
      <3>1. Len(h) = 1 /\ h[1] = x
        BY <2>1 DEF h
      <3>2. ASSUME NEW m \in 1 .. i + 1
            PROVE  u[m] = IF m <= i THEN s[m] ELSE x
        <4>1. u[m] = IF m <= i THEN l[m] ELSE h[m - i]
          BY <1>5, <2>2, <3>1
        <4>2. CASE m <= i
          BY <1>5, <4>1, <4>2
        <4>3. CASE ~(m <= i)
          <5>1. m - i = 1
            BY <1>4, <4>3
          <5> QED
            BY <3>1, <4>1, <4>3, <5>1
        <4> QED
          BY <4>2, <4>3
      <3> QED
        BY <1>5, <2>2, <3>1, <3>2
    <2>4. /\ u \o r \in Seq(T) /\ Len(u \o r) = Len(u) + Len(r)
          /\ \A m \in 1 .. Len(u) + Len(r) :
                (u \o r)[m] = IF m <= Len(u) THEN u[m] ELSE r[m - Len(u)]
      <3> HIDE DEF T
      <3> QED
        BY <1>6, <2>3, ConcatProperties
    <2>5. Len(u) + Len(r) = n + 1 /\ t = u \o r
      BY <1>1, <1>3, <1>4, <1>6, <2>3 DEF u, h
    <2>6. ASSUME NEW m \in 1 .. n + 1
          PROVE  t[m] = IF m <= i THEN s[m] ELSE IF m = i + 1 THEN x ELSE s[m - 1]
      <3>1. t[m] = IF m <= i + 1 THEN u[m] ELSE r[m - (i + 1)]
        BY <2>3, <2>4, <2>5
      <3>2. CASE m <= i + 1
        <4>1. m \in 1 .. i + 1 /\ (m <= i \/ m = i + 1) /\ (m = i + 1 => ~(m <= i))
          BY <1>4, <3>2
        <4> QED
          BY <2>3, <3>1, <3>2, <4>1
      <3>3. CASE ~(m <= i + 1)
        <4>1. m \in Int /\ i \in Int /\ n \in Int /\ m <= n + 1 /\ m > i + 1
          BY <1>1, <1>4, <3>3
        <4>2. /\ ~(m <= i) /\ m # i + 1 /\ m - (i + 1) \in 1 .. n - i
              /\ i + (m - (i + 1)) = m - 1
          BY <4>1
        <4> QED
          BY <1>6, <3>1, <3>3, <4>2
      <3> QED
        BY <3>2, <3>3
    <2> QED
      BY <2>4, <2>5, <2>6
  <1> HIDE DEF T
  <1>8. t[i + 1] = x /\ i + 1 \in 1 .. n + 1
    <2>1. i + 1 \in 1 .. n + 1 /\ ~(i + 1 <= i)
      BY <1>1, <1>4
    <2> QED
      BY <1>7, <2>1
  <1>9. \A m \in 1 .. n + 1 : m # i + 1 => t[m] \in S /\ t[m] # x
    <2> SUFFICES ASSUME NEW m \in 1 .. n + 1, m # i + 1
                 PROVE  t[m] \in S
      OBVIOUS
    <2>1. (m <= i /\ m \in 1 .. n) \/ (~(m <= i) /\ m - 1 \in 1 .. n)
      BY <1>1, <1>4
    <2> QED
      BY <1>1, <1>7, <2>1
  <1>10. DOMAIN t = 1 .. n + 1
    BY <1>7
  <1>11. IndexOf(t, x) = i + 1
    BY <1>8, <1>9, <1>10 DEF IndexOf
  <1>12. BuildItemPlacement(t, x) = <<b, a>>
    <2>1. BuildItemPlacement(t, x) =
            <<IF i + 1 = 1 THEN None ELSE t[(i + 1) - 1],
              IF i + 1 = n + 1 THEN None ELSE t[(i + 1) + 1]>>
      BY <1>7, <1>11 DEF BuildItemPlacement
    <2>2. (i + 1 = 1 <=> i = 0) /\ (i + 1 = n + 1 <=> i = n) /\ (i + 1) - 1 = i
      BY <1>1, <1>4
    <2>3. i # 0 => t[i] = s[i]
      <3>1. i # 0 => i \in 1 .. n + 1 /\ i <= i
        BY <1>1, <1>4
      <3> QED
        BY <1>7, <3>1
    <2>4. i # n => t[(i + 1) + 1] = s[i + 1]
      <3>1. i # n => /\ (i + 1) + 1 \in 1 .. n + 1 /\ ~((i + 1) + 1 <= i)
                     /\ (i + 1) + 1 # i + 1 /\ (i + 1) + 1 - 1 = i + 1
        BY <1>1, <1>4
      <3> QED
        BY <1>7, <3>1
    <2> QED
      BY <2>1, <2>2, <2>3, <2>4
  <1>13. /\ i # 0 => i \in 1 .. n /\ b = s[i] /\ b \in S /\ b # None
         /\ i # n => i + 1 \in 1 .. n /\ a = s[i + 1] /\ a \in S /\ a # None
         /\ i = 0 => b = None
         /\ i = n => a = None
    <2>1. (i # 0 => i \in 1 .. n) /\ (i # n => i + 1 \in 1 .. n)
      BY <1>1, <1>4
    <2> QED
      BY <1>1, <2>1
  <1> HIDE DEF b, a
  <1>14. \A m \in 1 .. n : s[m] \in UpTo(S, R, b) <=> m <= i
    <2> SUFFICES ASSUME NEW m \in 1 .. n
                 PROVE  s[m] \in UpTo(S, R, b) <=> m <= i
      OBVIOUS
    <2>1. CASE i = 0
      <3>1. b = None /\ ~(m <= i)
        BY <1>13, <2>1
      <3>2. s[m] # None /\ <<s[m], None>> \notin R
        BY <1>1
      <3> QED
        BY <3>1, <3>2 DEF UpTo
    <2>2. CASE i # 0
      <3>1. s[m] \in UpTo(S, R, b) <=> m = i \/ m < i
        BY <1>1, <1>2, <1>13, <2>2 DEF UpTo
      <3> QED
        BY <1>4, <3>1
    <2> QED
      BY <2>1, <2>2
  <1>15. Resolves(S, R, b, a)
    <2>1. b \in S \cup {None} /\ a \in S \cup {None}
      BY <1>13
    <2>2. b # None /\ a # None => <<b, a>> \in R
      <3>1. b # None /\ a # None => i \in 1 .. n /\ i + 1 \in 1 .. n /\ i < i + 1
        BY <1>4, <1>13
      <3> QED
        BY <1>1, <1>13, <3>1
    <2>3. ASSUME NEW e \in S
          PROVE  \/ b # None /\ (e = b \/ <<e, b>> \in R)
                 \/ a # None /\ (e = a \/ <<a, e>> \in R)
      <3>1. PICK m \in 1 .. n : s[m] = e
        BY <1>1
      <3>2. CASE m <= i
        <4>1. i # 0 /\ (m = i \/ m < i)
          BY <1>4, <3>2
        <4> QED
          BY <1>1, <1>13, <3>1, <4>1
      <3>3. CASE ~(m <= i)
        <4>1. i # n /\ (m = i + 1 \/ i + 1 < m)
          BY <1>1, <1>4, <3>3
        <4> QED
          BY <1>1, <1>13, <3>1, <4>1
      <3> QED
        BY <3>2, <3>3
    <2> QED
      BY <2>1, <2>2, <2>3 DEF Resolves
  <1>16. b \in S \/ UpTo(S, R, b) = {}
    <2>1. CASE i = 0
      <3>1. \A e \in S : e # None /\ <<e, None>> \notin R
        OBVIOUS
      <3> QED
        BY <1>13, <2>1, <3>1 DEF UpTo
    <2> QED
      BY <1>13, <2>1
  <1>17. /\ \A e, f \in S : <<e, f>> \in Q <=> <<e, f>> \in R
         /\ \A e \in S : (<<e, x>> \in Q <=> e \in UpTo(S, R, b))
                        /\ (<<x, e>> \in Q <=> e \notin UpTo(S, R, b))
         /\ <<x, x>> \notin Q
    BY DEF InsertedOrder, UpTo
  <1> HIDE DEF Q
  <1>18. \A e \in T : \E m \in 1 .. n + 1 : t[m] = e
    <2> SUFFICES ASSUME NEW e \in S
                 PROVE  \E m \in 1 .. n + 1 : t[m] = e
      BY <1>8 DEF T
    <2>1. PICK m \in 1 .. n : s[m] = e
      BY <1>1
    <2>2. CASE m <= i
      <3>1. m \in 1 .. n + 1
        BY <1>1
      <3> QED
        BY <1>7, <2>1, <2>2, <3>1
    <2>3. CASE ~(m <= i)
      <3>1. m + 1 \in 1 .. n + 1 /\ ~(m + 1 <= i) /\ m + 1 # i + 1 /\ (m + 1) - 1 = m
        BY <1>1, <1>4, <2>3
      <3>2. t[m + 1] = s[m]
        BY <1>7, <3>1
      <3> QED
        BY <2>1, <3>1, <3>2
    <2> QED
      BY <2>2, <2>3
  <1>19. ASSUME NEW m \in 1 .. n + 1, NEW j \in 1 .. n + 1
         PROVE  <<t[m], t[j]>> \in Q <=> m < j
    <2> DEFINE at(q) == IF q <= i THEN q ELSE q - 1
    <2>1. \A q \in 1 .. n + 1 : q # i + 1 =>
             /\ at(q) \in 1 .. n /\ t[q] = s[at(q)] /\ s[at(q)] \in S
             /\ (at(q) <= i <=> q < i + 1) /\ (at(q) <= i <=> ~(i + 1 < q))
      <3> SUFFICES ASSUME NEW q \in 1 .. n + 1, q # i + 1
                   PROVE  /\ at(q) \in 1 .. n /\ t[q] = s[at(q)] /\ s[at(q)] \in S
                          /\ (at(q) <= i <=> q < i + 1) /\ (at(q) <= i <=> ~(i + 1 < q))
        OBVIOUS
      <3>1. /\ at(q) \in 1 .. n
            /\ (at(q) <= i <=> q < i + 1) /\ (at(q) <= i <=> ~(i + 1 < q))
        BY <1>1, <1>4
      <3>2. t[q] = s[at(q)]
        BY <1>7
      <3> HIDE DEF at
      <3> QED
        BY <1>1, <3>1, <3>2
    <2>2. m # i + 1 /\ j # i + 1 => (at(m) < at(j) <=> m < j)
      BY <1>4
    <2> HIDE DEF at
    <2>3. CASE m = i + 1 /\ j = i + 1
      BY <1>4, <1>8, <1>17, <2>3
    <2>4. CASE m = i + 1 /\ j # i + 1
      <3>1. <<x, s[at(j)]>> \in Q <=> ~(at(j) <= i)
        BY <1>14, <1>17, <2>1, <2>4
      <3> QED
        BY <1>8, <2>1, <2>4, <3>1
    <2>5. CASE m # i + 1 /\ j = i + 1
      <3>1. <<s[at(m)], x>> \in Q <=> at(m) <= i
        BY <1>14, <1>17, <2>1, <2>5
      <3> QED
        BY <1>8, <2>1, <2>5, <3>1
    <2>6. CASE m # i + 1 /\ j # i + 1
      BY <1>1, <1>17, <2>1, <2>2, <2>6
    <2> QED
      BY <2>3, <2>4, <2>5, <2>6
  <1>20. Lists(t, T, Q)
    <2>1. Len(t) = n + 1 /\ n + 1 \in Nat
      BY <1>1, <1>7
    <2> QED
      BY <1>7, <1>18, <1>19, <2>1 DEF Lists
  <1> QED
    BY <1>12, <1>15, <1>16, <1>20 DEF t, T, Q

\* What a client shows when it drops an item is what the server makes of the
\* placement that the client asks for, which it does not refuse.
LEMMA DropsAgree ==
    ASSUME Sound, NEW k \in LiveColumn, NEW x \in DOMAIN position, NEW byVotes \in BOOLEAN,
           NEW i \in 0 .. Cardinality(TopLevel(k) \ {x})
    PROVE  LET rest == TopLevel(k) \ {x}
               final == Dropped(x, k, byVotes, i)
               placement == BuildItemPlacement(final, x)
           IN  /\ Resolves(rest, ItemOrder(rest, byVotes), placement[1], placement[2])
               /\ final = ListOf(rest \cup {x},
                                 InsertedOrder(rest, ItemOrder(rest, byVotes), x, placement[1]))
  <1> DEFINE all == TopLevel(k)
             rest == all \ {x}
             shown == Shown(k, byVotes)
             left == Without(shown, x)
             Q == ItemOrder(all, byVotes)
             R == ItemOrder(rest, byVotes)
             final == Dropped(x, k, byVotes, i)
             placement == BuildItemPlacement(final, x)
             P == InsertedOrder(rest, R, x, placement[1])
  <1>1. /\ all \subseteq DOMAIN position /\ IsFiniteSet(all) /\ None \notin DOMAIN position
    BY ItemFacts DEF Sound
  <1>2. rest \subseteq DOMAIN position /\ IsFiniteSet(rest) /\ None \notin rest
    BY <1>1, FS_Subset
  <1>3. x \notin rest \cup {None} /\ x \notin rest
    BY <1>1
  <1>4. Q \subseteq all \X all /\ StrictOrder(all, Q)
    BY <1>1, ItemOrderStrict
  <1>5. R \subseteq rest \X rest /\ StrictOrder(rest, R)
    BY <1>2, ItemOrderStrict
  <1>6. shown = ListOf(all, Q)
    BY DEF Shown, Items, ItemOrder, VoteOrder
  <1>7. \A h, j \in rest : <<h, j>> \in Q <=> <<h, j>> \in R
    <2>1. \A h, j \in rest : <<h, j>> \in PositionOrder(all, position)
                               <=> <<h, j>> \in PositionOrder(rest, position)
      BY PositionOrderPair
    <2>2. \A h, j \in rest : <<h, j>> \in VoteOrder(all) <=> <<h, j>> \in VoteOrder(rest)
      BY <2>1 DEF VoteOrder
    <2> QED
      BY <2>1, <2>2 DEF ItemOrder
  <1>8. final = InsertAt(left, x, i)
    BY DEF Dropped
  <1> HIDE DEF all, shown, Q, R, left, final
  <1>9. Lists(shown, all, Q)
    BY <1>1, <1>4, <1>6, ListOfInOrder
  <1>10. Lists(left, rest, Q)
    BY <1>4, <1>9, ListedWithout DEF left
  <1> HIDE DEF rest
  <1>11. Lists(left, rest, R)
    <2>1. \A n \in 1 .. Len(left) : left[n] \in rest
      BY <1>10 DEF Lists
    <2> QED
      BY <1>7, <1>10, <2>1 DEF Lists
  <1>12. i \in 0 .. Len(left)
    BY <1>2, <1>5, <1>11, ListedOnce DEF rest, all
  <1>13. /\ Resolves(rest, R, placement[1], placement[2])
         /\ placement[1] \in rest \/ UpTo(rest, R, placement[1]) = {}
         /\ Lists(final, rest \cup {x}, P)
    BY <1>2, <1>3, <1>5, <1>8, <1>11, <1>12, ListedInserted
  <1> HIDE DEF placement
  <1>14. StrictOrder(rest \cup {x}, P)
    BY <1>3, <1>5, <1>13, InsertedOrderStrict
  <1>15. IsFiniteSet(rest \cup {x})
    BY <1>2, FS_AddElement
  <1>16. final = ListOf(rest \cup {x}, P)
    <2> HIDE DEF P
    <2> QED
      BY <1>13, <1>14, <1>15, ListedOnce
  <1> QED
    BY <1>13, <1>16 DEF rest, all, R, final, placement

-----------------------------------------------------------------------------
(* Exports.                                                                *)

\* The export lists a column's items as its pages do.
LEMMA ExportListsItems ==
    ASSUME Sound, NEW k \in LiveColumn
    PROVE  ExportItems(k) = Items(k)
  <1> DEFINE U == Ungrouped(k)
             G == {g \in DOMAIN group : group[g].column = k}
             before(i, j) ==
                 \/ position[i] < position[j]
                 \/ position[i] = position[j] /\ i \in U /\ j \in G
                 \/ position[i] = position[j] /\ (i \in U <=> j \in U) /\ i < j
             S == U \cup G
             Q == {e \in S \X S : before(e[1], e[2])}
             R == PositionOrder(S, position)
  <1>1. ExportItems(k) = ListOf(S, Q) /\ S = TopLevel(k)
    BY DEF ExportItems, TopLevel
  <1>2. U \subseteq Card /\ G \subseteq Group
    BY DEF Ungrouped, Sound, ItemsSound
  <1>3. /\ \A i \in U, j \in G : i < j /\ ~(j < i)
        /\ \A i \in G : i \notin U
    <2>1. /\ \A i \in Card, j \in Group : i < j /\ i \in Nat /\ j \in Nat
          /\ Card \cap Group = {}
      BY ContentAssumption, IdFacts DEF Ids
    <2>2. \A i \in Card, j \in Group : i < j /\ ~(j < i)
      BY <2>1
    <2> QED
      BY <1>2, <2>1, <2>2
  <1> HIDE DEF U, G
  <1>4. \A i, j \in S : <<i, j>> \in Q <=> <<i, j>> \in R
    <2> SUFFICES ASSUME NEW i \in S, NEW j \in S
                 PROVE  <<i, j>> \in Q <=> <<i, j>> \in R
      OBVIOUS
    <2>1. <<i, j>> \in Q <=> before(i, j)
      OBVIOUS
    <2>2. <<i, j>> \in R <=> position[i] < position[j] \/ (position[i] = position[j] /\ i < j)
      BY PositionOrderPair
    <2>3. CASE i \in U /\ j \in G
      BY <1>3, <2>1, <2>2, <2>3
    <2>4. CASE i \in G /\ j \in U
      BY <1>3, <2>1, <2>2, <2>4
    <2>5. CASE (i \in U /\ j \in U) \/ (i \in G /\ j \in G)
      BY <1>3, <2>1, <2>2, <2>5
    <2> QED
      BY <2>3, <2>4, <2>5
  <1>5. Q = R
    <2>1. Q \subseteq S \X S /\ R \subseteq S \X S
      BY PositionOrderPair
    <2> HIDE DEF Q, R, S
    <2> QED
      BY <1>4, <2>1, SamePairs
  <1> QED
    BY <1>1, <1>5 DEF Items

\* What sequences b make, put together from the last one on.
Joined(b, n, f) == [m \in 1 .. n + 1 |-> IF m > n THEN <<>> ELSE b[m] \o f[m + 1]]

\* They can be put together.
LEMMA JoinedExists ==
    ASSUME NEW S, NEW n \in Nat, NEW b \in [1 .. n -> Seq(S)]
    PROVE  \E f : f = Joined(b, n, f)
  <1> DEFINE Ends(f, d) ==
                 f = [m \in (n + 1) - d .. n + 1 |-> IF m > n THEN <<>> ELSE b[m] \o f[m + 1]]
             Missing == {d \in 0 .. n : ~\E f : Ends(f, d)}
  <1>1. Missing = {}
    <2> SUFFICES ASSUME Missing # {} PROVE FALSE
      OBVIOUS
    <2>1. PICK d \in Missing : \A e \in Missing : d <= e
      <3>1. Missing \subseteq Nat
        <4> HIDE DEF Ends
        <4> QED
          OBVIOUS
      <3> HIDE DEF Missing
      <3> QED
        BY <3>1, Least
    <2>2. d \in 0 .. n /\ ~\E f : Ends(f, d)
      OBVIOUS
    <2>3. CASE d = 0
      <3> DEFINE g == [m \in (n + 1) - 0 .. n + 1 |-> <<>>]
      <3>1. \A m \in (n + 1) - 0 .. n + 1 : m > n
        OBVIOUS
      <3>2. g = [m \in (n + 1) - 0 .. n + 1 |-> IF m > n THEN <<>> ELSE b[m] \o g[m + 1]]
        BY <3>1
      <3> QED
        BY <2>2, <2>3, <3>2
    <2>4. CASE d # 0
      <3>1. d - 1 \in 0 .. n /\ ~(d <= d - 1)
        BY <2>2, <2>4
      <3>2. \E f : Ends(f, d - 1)
        <4> HIDE DEF Ends
        <4> QED
          BY <2>1, <3>1
      <3>3. PICK f : Ends(f, d - 1)
        BY <3>2
      <3> DEFINE l == (n + 1) - d
                 D == l .. n + 1
                 g == [m \in D |-> IF m = l THEN b[l] \o f[l + 1] ELSE f[m]]
      <3>4. /\ l \in 1 .. n /\ l + 1 = (n + 1) - (d - 1) /\ ~(l > n)
            /\ \A m \in D : m # l => m \in l + 1 .. n + 1
            /\ \A m \in D : ~(m > n) => m + 1 \in D /\ m + 1 # l
        BY <2>2, <2>4
      <3>5. f = [m \in l + 1 .. n + 1 |-> IF m > n THEN <<>> ELSE b[m] \o f[m + 1]]
        BY <3>3, <3>4
      <3> HIDE DEF l, Ends
      <3>6. \A m \in D : g[m] = IF m > n THEN <<>> ELSE b[m] \o g[m + 1]
        <4> SUFFICES ASSUME NEW m \in D
                     PROVE  g[m] = IF m > n THEN <<>> ELSE b[m] \o g[m + 1]
          OBVIOUS
        <4>1. ~(m > n) => g[m + 1] = f[m + 1]
          BY <3>4
        <4>2. CASE m = l
          BY <3>4, <4>1, <4>2
        <4>3. CASE m # l
          <5>1. m \in l + 1 .. n + 1 /\ g[m] = f[m]
            BY <3>4, <4>3
          <5>2. f[m] = IF m > n THEN <<>> ELSE b[m] \o f[m + 1]
            BY <3>5, <5>1
          <5> QED
            BY <4>1, <5>1, <5>2
        <4> QED
          BY <4>2, <4>3
      <3>7. g = [m \in D |-> IF m > n THEN <<>> ELSE b[m] \o g[m + 1]]
        <4>1. g = [m \in D |-> g[m]]
          OBVIOUS
        <4> HIDE DEF g, D
        <4> QED
          BY <3>6, <4>1
      <3>8. Ends(g, d)
        BY <3>7 DEF Ends, l
      <3> QED
        BY <2>2, <3>8
    <2> QED
      BY <2>3, <2>4
  <1>2. \E f : Ends(f, n)
    <2>1. n \in 0 .. n
      OBVIOUS
    <2> HIDE DEF Ends
    <2> QED
      BY <1>1, <2>1
  <1>3. (n + 1) - n = 1
    OBVIOUS
  <1> QED
    BY <1>2, <1>3 DEF Joined

\* Sequences without common elements, each holding its elements once.
Blocks(S, n, b) ==
    /\ n \in Nat /\ b \in [1 .. n -> Seq(S)] /\ IsFiniteSet(S)
    /\ \A m \in 1 .. n : Len(b[m]) = Cardinality(Range(b[m]))
    /\ \A l, m \in 1 .. n : l # m => Range(b[l]) \cap Range(b[m]) = {}

\* Sequences without common elements, each holding its elements once, put
\* together hold the elements of all, once.
LEMMA JoinedHoldsAll ==
    ASSUME NEW S, NEW n, NEW b, Blocks(S, n, b), NEW f, f = Joined(b, n, f)
    PROVE  /\ Range(f[1]) = {c \in S : \E m \in 1 .. n : c \in Range(b[m])}
           /\ Len(f[1]) = Cardinality(Range(f[1]))
  <1> DEFINE B(m) == {c \in S : \E l \in m .. n : c \in Range(b[l])}
             Right(m) == f[m] \in Seq(S) /\ Range(f[m]) = B(m) /\ Len(f[m]) = Cardinality(B(m))
             Wrong == {d \in 0 .. n : ~Right((n + 1) - d)}
  <1>0. /\ n \in Nat /\ b \in [1 .. n -> Seq(S)] /\ IsFiniteSet(S)
        /\ \A m \in 1 .. n : Len(b[m]) = Cardinality(Range(b[m]))
        /\ \A l, m \in 1 .. n : l # m => Range(b[l]) \cap Range(b[m]) = {}
    BY DEF Blocks
  <1>1. \A m \in 1 .. n + 1 : f[m] = IF m > n THEN <<>> ELSE b[m] \o f[m + 1]
    BY DEF Joined
  <1>2. \A m \in 1 .. n : b[m] \in Seq(S) /\ Range(b[m]) \subseteq S
    <2> SUFFICES ASSUME NEW m \in 1 .. n
                 PROVE  b[m] \in Seq(S) /\ Range(b[m]) \subseteq S
      OBVIOUS
    <2>1. b[m] \in Seq(S)
      BY <1>0
    <2> QED
      BY <2>1 DEF Range
  <1>3. Wrong = {}
    <2> SUFFICES ASSUME Wrong # {} PROVE FALSE
      OBVIOUS
    <2>1. PICK d \in Wrong : \A e \in Wrong : d <= e
      <3>1. Wrong \subseteq Nat
        <4> HIDE DEF Right
        <4> QED
          BY <1>0
      <3> HIDE DEF Wrong
      <3> QED
        BY <3>1, Least
    <2> DEFINE m == (n + 1) - d
    <2> HIDE DEF Right
    <2>2. d \in 0 .. n /\ ~Right(m) /\ m \in 1 .. n + 1
      BY <1>0
    <2>3. CASE d = 0
      <3>1. m > n /\ m .. n = {}
        BY <1>0, <2>3
      <3> HIDE DEF m
      <3>2. f[m] = <<>> /\ B(m) = {}
        BY <1>1, <2>2, <3>1
      <3>3. <<>> \in Seq(S) /\ Len(<<>>) = 0 /\ Range(<<>>) = {}
        BY DEF Range
      <3> QED
        BY <2>2, <3>2, <3>3, FS_EmptySet DEF Right
    <2>4. CASE d # 0
      <3>1. d - 1 \in 0 .. n /\ ~(d <= d - 1) /\ (n + 1) - (d - 1) = m + 1
        BY <1>0, <2>2, <2>4
      <3>2. Right(m + 1)
        BY <2>1, <3>1
      <3>3. m \in 1 .. n /\ ~(m > n) /\ \A l \in m .. n : l = m \/ l \in m + 1 .. n
        BY <1>0, <2>2, <2>4
      <3>4. \A l \in m + 1 .. n : l \in 1 .. n /\ l # m /\ l \in m .. n
        BY <1>0, <2>2
      <3>5. m \in m .. n
        BY <3>3
      <3> HIDE DEF m
      <3>6. f[m] = b[m] \o f[m + 1]
        BY <1>1, <2>2, <3>3
      <3>7. B(m) = Range(b[m]) \cup B(m + 1)
        BY <1>2, <3>3, <3>4, <3>5
      <3>8. Range(b[m]) \cap B(m + 1) = {}
        BY <1>0, <3>3, <3>4
      <3>9. B(m + 1) \subseteq S
        OBVIOUS
      <3> HIDE DEF B
      <3>10. /\ f[m + 1] \in Seq(S) /\ Range(f[m + 1]) = B(m + 1)
             /\ Len(f[m + 1]) = Cardinality(B(m + 1))
        BY <3>2 DEF Right
      <3>11. b[m] \in Seq(S) /\ Range(b[m]) \subseteq S /\ Len(b[m]) = Cardinality(Range(b[m]))
        BY <1>0, <1>2, <3>3
      <3>12. /\ f[m] \in Seq(S) /\ Len(f[m]) = Len(b[m]) + Len(f[m + 1])
             /\ Range(f[m]) = Range(b[m]) \cup Range(f[m + 1])
        <4> DEFINE s == b[m]
                   t == f[m + 1]
        <4>1. s \in Seq(S) /\ t \in Seq(S) /\ f[m] = s \o t
          BY <3>6, <3>10, <3>11
        <4> HIDE DEF s, t
        <4>2. s \o t \in Seq(S) /\ Len(s \o t) = Len(s) + Len(t)
          BY <4>1, ConcatProperties
        <4>3. Range(s \o t) = Range(s) \cup Range(t)
          BY <4>1, RangeConcatenation
        <4> QED
          BY <4>1, <4>2, <4>3 DEF s, t
      <3>13. IsFiniteSet(Range(b[m])) /\ IsFiniteSet(B(m + 1))
        BY <1>0, <3>9, <3>11, FS_Subset
      <3>14. Cardinality(B(m)) = Cardinality(Range(b[m])) + Cardinality(B(m + 1))
        <4>1. Cardinality(Range(b[m]) \cup B(m + 1)) =
                 Cardinality(Range(b[m])) + Cardinality(B(m + 1))
                    - Cardinality(Range(b[m]) \cap B(m + 1))
          BY <3>13, FS_Union
        <4>2. Cardinality(Range(b[m]) \cap B(m + 1)) = 0
          BY <3>8, FS_EmptySet
        <4>3. Cardinality(Range(b[m])) \in Nat /\ Cardinality(B(m + 1)) \in Nat
          BY <3>13, FS_CardinalityType
        <4> QED
          BY <3>7, <4>1, <4>2, <4>3
      <3> QED
        BY <2>2, <3>7, <3>10, <3>11, <3>12, <3>14 DEF Right
    <2> QED
      BY <2>3, <2>4
  <1>4. Right(1)
    <2>1. n \in 0 .. n /\ (n + 1) - n = 1
      BY <1>0
    <2> HIDE DEF Right
    <2> QED
      BY <1>3, <2>1
  <1> QED
    BY <1>4

\* A group's block of rows is its cards, each once.
LEMMA OriginalsHeld ==
    ASSUME ItemsSound, NEW g
    PROVE  /\ Originals(g) \in Seq(DOMAIN card)
           /\ Range(Originals(g)) = Members(g)
           /\ Len(Originals(g)) = Cardinality(Members(g))
  <1> DEFINE M == Members(g)
             R == MemberOrder(M)
             s == ListOf(M, R)
  <1>1. M \subseteq DOMAIN card
    BY DEF Members
  <1>2. IsFiniteSet(M) /\ StrictOrder(M, R)
    BY <1>1, MemberOrderStrict
  <1>3. Originals(g) = s
    BY DEF Originals
  <1> HIDE DEF M, R
  <1>4. /\ s \in Seq(M) /\ Len(s) = Cardinality(M)
        /\ \A c \in M : \E n \in 1 .. Len(s) : s[n] = c
    <2>1. Lists(s, M, R)
      BY <1>2, ListOfInOrder
    <2>2. Len(s) = Cardinality(M)
      BY <1>2, <2>1, ListedOnce
    <2> QED
      BY <2>1, <2>2 DEF Lists
  <1> HIDE DEF s
  <1>5. s \in Seq(DOMAIN card)
    BY <1>1, <1>4, SeqMonotonic
  <1>6. Range(s) = M
    BY <1>4 DEF Range
  <1> QED
    BY <1>3, <1>4, <1>5, <1>6 DEF M

\* Every card of a column is in its export, once, and no other card.
LEMMA ExportHoldsCards ==
    ASSUME Sound, NEW k \in LiveColumn
    PROVE  Range(ExportRows(k)) = CardsIn(k) /\ Len(ExportRows(k)) = Cardinality(CardsIn(k))
  <1> DEFINE s == ExportItems(k)
             n == Len(s)
             b == [m \in 1 .. n |-> IF s[m] \in Group THEN Originals(s[m]) ELSE <<s[m]>>]
             rowsFrom == CHOOSE f : f = [m \in 1 .. n + 1 |->
                             IF m > n THEN <<>>
                             ELSE (IF s[m] \in Group THEN Originals(s[m]) ELSE <<s[m]>>) \o f[m + 1]]
             joined == CHOOSE f : f = Joined(b, n, f)
  <1>1. ExportRows(k) = rowsFrom[1]
    BY DEF ExportRows
  <1>2. /\ n \in Nat
        /\ \A m \in 1 .. n : s[m] \in TopLevel(k)
        /\ \A i \in TopLevel(k) : \E m \in 1 .. n : s[m] = i
        /\ \A m, l \in 1 .. n : s[m] = s[l] => m = l
    BY ExportListsItems, ItemsListed
  <1>3. /\ \A i \in TopLevel(k) : i \in Group =>
              i \in DOMAIN group /\ group[i].column = k
        /\ \A i \in TopLevel(k) : i \notin Group =>
              i \in DOMAIN card /\ card[i].column = k /\ card[i].group = None
        /\ \A c \in DOMAIN card : c \notin Group
        /\ IsFiniteSet(DOMAIN card) /\ None \notin Group
    BY ItemOfColumn, ItemFacts, IdFacts DEF Sound, ItemsSound
  <1> HIDE DEF s
  <1>4. rowsFrom = joined
    <2>1. \A f : Joined(b, n, f) =
                 [m \in 1 .. n + 1 |->
                     IF m > n THEN <<>>
                     ELSE (IF s[m] \in Group THEN Originals(s[m]) ELSE <<s[m]>>) \o f[m + 1]]
      <3>1. \A m \in 1 .. n + 1 : ~(m > n) => m \in 1 .. n
        BY <1>2
      <3> HIDE DEF n
      <3> QED
        BY <3>1 DEF Joined
    <2> HIDE DEF b, n
    <2> QED
      BY <2>1
  <1> HIDE DEF rowsFrom, n
  <1>5. ASSUME NEW m \in 1 .. n
        PROVE  /\ b[m] \in Seq(DOMAIN card) /\ Len(b[m]) = Cardinality(Range(b[m]))
               /\ Range(b[m]) = CardsOf(s[m])
    <2>1. CASE s[m] \in Group
      <3>1. b[m] = Originals(s[m]) /\ CardsOf(s[m]) = Members(s[m])
        BY <2>1 DEF CardsOf
      <3> QED
        BY <3>1, OriginalsHeld DEF Sound
    <2>2. CASE s[m] \notin Group
      <3> DEFINE i == s[m]
      <3>1. b[m] = <<i>> /\ CardsOf(i) = {i} /\ i \in DOMAIN card
        BY <1>2, <1>3, <2>2 DEF CardsOf
      <3> HIDE DEF b, i
      <3>2. Range(<<i>>) = {i} /\ Len(<<i>>) = 1 /\ <<i>> \in Seq(DOMAIN card)
        BY <3>1 DEF Range
      <3>3. Cardinality({i}) = 1
        BY FS_Singleton
      <3> USE DEF i
      <3> QED
        BY <3>1, <3>2, <3>3
    <2> QED
      BY <2>1, <2>2
  <1>6. \A l, m \in 1 .. n : l # m => Range(b[l]) \cap Range(b[m]) = {}
    <2> SUFFICES ASSUME NEW l \in 1 .. n, NEW m \in 1 .. n, NEW c \in CardsOf(s[l]),
                        c \in CardsOf(s[m])
                 PROVE  s[l] = s[m]
      <3> HIDE DEF b
      <3>1. \A l, m \in 1 .. n : s[l] = s[m] => l = m
        BY <1>2
      <3>2. \A m \in 1 .. n : Range(b[m]) = CardsOf(s[m])
        BY <1>5
      <3>3. ASSUME NEW l \in 1 .. n, NEW m \in 1 .. n, l # m
            PROVE  CardsOf(s[l]) \cap CardsOf(s[m]) = {}
        BY <3>1, <3>3
      <3> QED
        BY <3>2, <3>3
    <2>1. \A i \in TopLevel(k) : c \in CardsOf(i) =>
             IF i \in Group THEN card[c].group = i ELSE i = c /\ card[c].group = None
      BY <1>3 DEF CardsOf, Members
    <2> QED
      BY <1>2, <1>3, <2>1
  <1>7. /\ b \in [1 .. n -> Seq(DOMAIN card)]
        /\ \A m \in 1 .. n : Len(b[m]) = Cardinality(Range(b[m]))
    BY <1>5
  <1>8. \A c \in DOMAIN card : c \in CardsIn(k) <=> \E m \in 1 .. n : c \in CardsOf(s[m])
    <2> SUFFICES ASSUME NEW c \in DOMAIN card
                 PROVE  c \in CardsIn(k) <=> \E m \in 1 .. n : c \in CardsOf(s[m])
      OBVIOUS
    <2>1. ASSUME NEW m \in 1 .. n, c \in CardsOf(s[m])
          PROVE  card[c].column = k
      <3>1. s[m] \in TopLevel(k)
        BY <1>2
      <3>2. CASE s[m] \in Group
        <4>1. c \in Members(s[m]) /\ s[m] \in DOMAIN group /\ group[s[m]].column = k
          BY <1>3, <2>1, <3>1, <3>2 DEF CardsOf
        <4> QED
          BY <4>1 DEF Sound, GroupsIntact
      <3>3. CASE s[m] \notin Group
        BY <1>3, <2>1, <3>1, <3>3 DEF CardsOf
      <3> QED
        BY <3>2, <3>3
    <2>2. ASSUME card[c].column = k
          PROVE  \E m \in 1 .. n : c \in CardsOf(s[m])
      <3> DEFINE i == IF card[c].group = None THEN c ELSE card[c].group
      <3>1. i \in TopLevel(k) /\ c \in CardsOf(i)
        <4>1. CASE card[c].group = None
          BY <1>3, <2>2, <4>1, ItemOfColumn DEF CardsOf
        <4>2. CASE card[c].group # None
          <5>1. card[c].group \in DOMAIN group /\ card[c].group \in Group
            BY <4>2 DEF Sound, ItemsSound
          <5>2. c \in Members(card[c].group)
            BY DEF Members
          <5>3. group[card[c].group].column = k
            BY <2>2, <5>1, <5>2 DEF Sound, GroupsIntact
          <5> QED
            BY <4>2, <5>1, <5>2, <5>3, ItemOfColumn DEF CardsOf
        <4> QED
          BY <4>1, <4>2
      <3> HIDE DEF i
      <3> QED
        BY <1>2, <3>1
    <2> QED
      BY <2>1, <2>2 DEF CardsIn
  <1>9. joined = Joined(b, n, joined)
    <2> HIDE DEF b
    <2> DEFINE C == DOMAIN card
    <2>0. n \in Nat /\ b \in [1 .. n -> Seq(C)]
      BY <1>2, <1>7
    <2> HIDE DEF C, joined
    <2>1. \E f : f = Joined(b, n, f)
      BY <2>0, JoinedExists
    <2> QED
      BY <2>1 DEF joined
  <1> HIDE DEF joined
  <1>10. /\ Range(joined[1]) = {c \in DOMAIN card : \E m \in 1 .. n : c \in Range(b[m])}
         /\ Len(joined[1]) = Cardinality(Range(joined[1]))
    <2> HIDE DEF b
    <2> DEFINE C == DOMAIN card
    <2>1. n \in Nat /\ b \in [1 .. n -> Seq(C)] /\ IsFiniteSet(C)
      BY <1>2, <1>3, <1>7
    <2>2. \A m \in 1 .. n : Len(b[m]) = Cardinality(Range(b[m]))
      BY <1>7
    <2> HIDE DEF C
    <2>3. Blocks(C, n, b)
      BY <1>6, <2>1, <2>2 DEF Blocks
    <2> QED
      BY <1>9, <2>3, JoinedHoldsAll DEF C
  <1>11. Range(joined[1]) = CardsIn(k)
    <2>1. CardsIn(k) \subseteq DOMAIN card
      BY DEF CardsIn
    <2> HIDE DEF b
    <2>2. \A c \in DOMAIN card : c \in Range(joined[1]) <=> c \in CardsIn(k)
      BY <1>5, <1>8, <1>10
    <2>3. Range(joined[1]) \subseteq DOMAIN card
      BY <1>10
    <2> QED
      BY <2>1, <2>2, <2>3
  <1> QED
    BY <1>1, <1>4, <1>10, <1>11

\* Whatever the size of the pages, the readers of a column have one list of it, its
\* export has each of its cards once, and a drop is what the server makes of it.
THEOREM ReadersAlwaysAgree == Spec => []ReadersAgree
  <1>1. Sound => ReadersAgree
    <2> SUFFICES ASSUME Sound, NEW k \in LiveColumn
                 PROVE  /\ \A limit \in 1 .. 2 : ReadAll(k, limit) = Items(k)
                        /\ ExportItems(k) = Items(k)
                        /\ Range(ExportRows(k)) = CardsIn(k)
                        /\ Len(ExportRows(k)) = Cardinality(CardsIn(k))
                        /\ \A x \in DOMAIN position, byVotes \in BOOLEAN :
                              (x \in Card => card[x].group = None) =>
                              LET rest == TopLevel(k) \ {x}
                              IN  \A i \in 0 .. Cardinality(rest) :
                                     LET final == Dropped(x, k, byVotes, i)
                                         placement == BuildItemPlacement(final, x)
                                     IN  /\ Resolves(rest, ItemOrder(rest, byVotes), placement[1], placement[2])
                                         /\ final = ListOf(rest \cup {x},
                                                InsertedOrder(rest, ItemOrder(rest, byVotes), x, placement[1]))
      BY DEF ReadersAgree
    <2>1. \A limit \in 1 .. 2 : ReadAll(k, limit) = Items(k)
      <3>1. \A limit \in 1 .. 2 : limit \in Nat \ {0}
        OBVIOUS
      <3> QED
        BY <3>1, PagesMakeTheList
    <2>2. ExportItems(k) = Items(k)
      BY ExportListsItems
    <2>3. Range(ExportRows(k)) = CardsIn(k) /\ Len(ExportRows(k)) = Cardinality(CardsIn(k))
      BY ExportHoldsCards
    <2> QED
      BY <2>1, <2>2, <2>3, DropsAgree
  <1> QED
    BY <1>1, SoundInvariant, PTL

\* The same for pages of any size.
THEOREM PagesAlwaysMakeTheList ==
    Spec => [](\A k \in LiveColumn : \A limit \in Nat \ {0} : ReadAll(k, limit) = Items(k))
  <1>1. Sound => \A k \in LiveColumn : \A limit \in Nat \ {0} : ReadAll(k, limit) = Items(k)
    BY PagesMakeTheList
  <1> QED
    BY <1>1, SoundInvariant, PTL

-----------------------------------------------------------------------------
(* What is offered.  OffersHold says with ENABLED what the server accepts; *)
(* here what an operation asks of the state before it has a name, and what *)
(* each step of the server asks of the page is an action.                  *)

\* Of UpdateCard and of DeleteCard.
MayEdit(m, c) == CardsWritable /\ c \in DOMAIN card /\ MayChange(m, c)

\* Of VoteForCard.
MayVote(m, c) ==
    /\ Writable /\ settings.votingEnabled
    /\ c \in DOMAIN card
    /\ voteLimit[card[c].column] # 0
    /\ <<c, m>> \notin DOMAIN vote
    /\ \E slot \in FreeSlots(c, m) : \A s \in FreeSlots(c, m) : slot <= s

\* Of RemoveVoteFromCard.
MayTakeBack(m, c) ==
    /\ Writable /\ settings.votingEnabled
    /\ <<c, m>> \in DOMAIN vote
    /\ voteLimit[card[c].column] # 0

\* Of a move from one column to another or within one: the placement names a gap of
\* the list as it is sorted, and the votes are within the limit they come to.
MayPlace(x, source, target, b, a, sorted) ==
    /\ target \in LiveColumn /\ sorted \subseteq {source, target}
    /\ LET rest == TopLevel(target) \ {x} IN Resolves(rest, ItemOrder(rest, target \in sorted), b, a)
    /\ source # target => WithinTargetLimit(CardsOf(x), target)

\* Of MoveCard and of MoveCardGroup.
MayMove(m, x, source, target, b, a, sorted) ==
    /\ IF x \in Group
       THEN CardsWritable /\ IsOwner(m) /\ x \in DOMAIN group /\ source = group[x].column
       ELSE MayEdit(m, x) /\ card[x].group = None /\ source = card[x].column
    /\ MayPlace(x, source, target, b, a, sorted)

\* Of CreateCardGroup.
MayGroup(m, k, cards, primary, g) ==
    /\ CardsWritable /\ IsOwner(m)
    /\ k \in LiveColumn
    /\ Cardinality(cards) \in 2 .. MAX_GROUP_CARDS
    /\ primary \in cards
    /\ cards \subseteq Ungrouped(k)
    /\ g \in Group \ DOMAIN group

\* Of UngroupCardGroup.
MayUngroup(m, g) ==
    CardsWritable /\ IsOwner(m) /\ g \in DOMAIN group /\ Cardinality(Members(g)) >= 2

\* Of UpdateBoardColumn, with the limit it has or another one.
MayLimit(m, k, limit) ==
    /\ Writable /\ IsOwner(m)
    /\ k \in LiveColumn
    /\ limit \in 0 .. MAX_VOTE_LIMIT
    /\ limit < voteLimit[k] => \A v \in Member : Cardinality(VotesOf(vote, k, v)) <= limit

\* Of CreateCard.
MayCreate(k) ==
    CardsWritable /\ k \in LiveColumn /\ Cardinality(DOMAIN card) < BOARD_CARD_LIMIT

\* The places and the votes that a move writes; of those created first, none.
PlacesMoved(x, source, target, b, a, sorted) ==
    LET rest == TopLevel(target) \ {x}
        left == TopLevel(source) \ {x}
    IN  IF sorted = {}
        THEN Written(position, Inserted(rest, position, x, b, a))
        ELSE Written(IF source = target
                     THEN position
                     ELSE Written(position, Renumbered(left, ItemOrder(left, source \in sorted))),
                     Renumbered(rest \cup {x}, InsertedOrder(rest, ItemOrder(rest, target \in sorted), x, b)))

VotesMoved(cards, source, target) ==
    IF source = target THEN vote
    ELSE Compacted([u \in DOMAIN vote |->
                      IF u[1] \in cards THEN [vote[u] EXCEPT !.column = target] ELSE vote[u]],
                   {source, target}, {})

\* A move to the index in a column that the item already has changes nothing.
StaysInPlace(x, source, target, b, sorted) ==
    LET rest == TopLevel(target) \ {x} IN
    /\ sorted = {} /\ source = target
    /\ UpTo(rest, PositionOrder(rest, position), b)
          = {i \in rest : <<i, x>> \in PositionOrder(TopLevel(source), position)}

\* What these conditions leave of an operation is one value for each variable, which it
\* can always take while there is a revision left.  That is plain from the operations
\* but for the slot of a vote and for moves, which write in different ways.
LEMMA AcceptedIsDone ==
    ASSUME Sound, NEW m \in Member, IncrementRevision, UNCHANGED <<settings, columnVars, actionVars>>
    PROVE  /\ \A c : /\ MayVote(m, c)
                    /\ vote' = Written(vote, [u \in {<<c, m>>} |->
                                   [column |-> card[c].column,
                                    slot |-> CHOOSE slot \in FreeSlots(c, m) :
                                                \A s \in FreeSlots(c, m) : slot <= s]])
                    /\ UNCHANGED itemVars
                   => VoteForCard(m, c)
           /\ \A j, k, b, a, sorted, x :
                 /\ MayMove(m, x, j, k, b, a, sorted) /\ ~StaysInPlace(x, j, k, b, sorted)
                 /\ position' = PlacesMoved(x, j, k, b, a, sorted)
                 /\ vote' = VotesMoved(CardsOf(x), j, k)
                 => IF x \in Group
                    THEN (/\ card' = [c \in DOMAIN card |->
                                        IF c \in Members(x) THEN [card[c] EXCEPT !.column = k] ELSE card[c]]
                          /\ group' = [group EXCEPT ![x].column = k]
                          => MoveCardGroup(m, x, k, b, a, sorted))
                    ELSE (card' = [card EXCEPT ![x].column = k] /\ UNCHANGED group
                          => MoveCard(m, x, k, b, a, sorted))
  <1>1. ASSUME NEW c, MayVote(m, c), UNCHANGED itemVars,
               vote' = Written(vote, [u \in {<<c, m>>} |->
                          [column |-> card[c].column,
                           slot |-> CHOOSE slot \in FreeSlots(c, m) :
                                       \A s \in FreeSlots(c, m) : slot <= s]])
        PROVE  VoteForCard(m, c)
    <2> DEFINE least == CHOOSE slot \in FreeSlots(c, m) : \A s \in FreeSlots(c, m) : slot <= s
    <2>1. least \in FreeSlots(c, m) /\ \A s \in FreeSlots(c, m) : least <= s
      BY <1>1 DEF MayVote
    <2>2. vote' = Written(vote, [u \in {<<c, m>>} |-> [column |-> card[c].column, slot |-> least]])
      BY <1>1
    <2> HIDE DEF least
    <2> QED
      BY <1>1, <2>1, <2>2 DEF VoteForCard, MayVote
  <1>2. ASSUME NEW j, NEW k, NEW b, NEW a, NEW sorted, NEW x,
               MayPlace(x, j, k, b, a, sorted), ~StaysInPlace(x, j, k, b, sorted),
               position' = PlacesMoved(x, j, k, b, a, sorted)
        PROVE  MoveItem(x, j, k, b, a, sorted)
    <2> DEFINE rest == TopLevel(k) \ {x}
    <2>1. Resolves(rest, ItemOrder(rest, k \in sorted), b, a)
      BY <1>2 DEF MayPlace
    <2>2. CASE sorted = {}
      <3>1. Resolves(rest, PositionOrder(rest, position), b, a)
        BY <2>1, <2>2 DEF ItemOrder
      <3>2. position' = Written(position, Inserted(rest, position, x, b, a))
        BY <1>2, <2>2 DEF PlacesMoved
      <3>3. j = k => UpTo(rest, PositionOrder(rest, position), b)
                        # {i \in rest : <<i, x>> \in PositionOrder(TopLevel(j), position)}
        BY <1>2, <2>2 DEF StaysInPlace
      <3> HIDE DEF rest
      <3>4. PositionedMove(x, j, k, b, a)
        BY <3>1, <3>2, <3>3 DEF PositionedMove, rest
      <3> QED
        BY <2>2, <3>4 DEF MoveItem
    <2>3. CASE sorted # {}
      <3>1. MaterializedMove(x, j, k, b, a, sorted)
        BY <1>2, <2>1, <2>3 DEF PlacesMoved, MaterializedMove
      <3> QED
        BY <2>3, <3>1 DEF MoveItem
    <2> QED
      BY <2>2, <2>3
  <1>3. ASSUME NEW j, NEW k, NEW x, CardsOf(x) # {}, j # k => WithinTargetLimit(CardsOf(x), k),
               vote' = VotesMoved(CardsOf(x), j, k)
        PROVE  MoveVotes(CardsOf(x), j, k)
    <2>1. {} \in SUBSET {u \in DOMAIN vote : u[1] \in CardsOf(x)}
      OBVIOUS
    <2> QED
      BY <1>3, <2>1, Zenon DEF VotesMoved, MoveVotes
  <1>4. ASSUME NEW j, NEW k, NEW b, NEW a, NEW sorted, NEW x,
               MayMove(m, x, j, k, b, a, sorted), ~StaysInPlace(x, j, k, b, sorted),
               position' = PlacesMoved(x, j, k, b, a, sorted),
               vote' = VotesMoved(CardsOf(x), j, k)
        PROVE  /\ MoveItem(x, j, k, b, a, sorted) /\ MoveVotes(CardsOf(x), j, k)
               /\ k \in LiveColumn /\ sorted \subseteq {j, k}
    <2>1. MayPlace(x, j, k, b, a, sorted)
      BY <1>4 DEF MayMove
    <2>2. CardsOf(x) # {}
      BY <1>4 DEF CardsOf, MayMove, Sound, GroupsIntact
    <2> QED
      BY <1>2, <1>3, <1>4, <2>1, <2>2 DEF MayPlace
  <1>5. ASSUME NEW j, NEW k, NEW b, NEW a, NEW sorted, NEW x, x \in Group,
               MayMove(m, x, j, k, b, a, sorted), ~StaysInPlace(x, j, k, b, sorted),
               position' = PlacesMoved(x, j, k, b, a, sorted),
               vote' = VotesMoved(CardsOf(x), j, k),
               card' = [c \in DOMAIN card |->
                          IF c \in Members(x) THEN [card[c] EXCEPT !.column = k] ELSE card[c]],
               group' = [group EXCEPT ![x].column = k]
        PROVE  MoveCardGroup(m, x, k, b, a, sorted)
    <2>1. CardsWritable /\ IsOwner(m) /\ x \in DOMAIN group /\ j = group[x].column
      BY <1>5 DEF MayMove
    <2>2. /\ MoveItem(x, j, k, b, a, sorted) /\ MoveVotes(CardsOf(x), j, k)
          /\ k \in LiveColumn /\ sorted \subseteq {j, k}
      BY <1>4, <1>5
    <2>3. CardsOf(x) = Members(x)
      BY <1>5 DEF CardsOf
    <2> QED
      BY <1>5, <2>1, <2>2, <2>3, Zenon DEF MoveCardGroup
  <1>6. ASSUME NEW j, NEW k, NEW b, NEW a, NEW sorted, NEW x, x \notin Group,
               MayMove(m, x, j, k, b, a, sorted), ~StaysInPlace(x, j, k, b, sorted),
               position' = PlacesMoved(x, j, k, b, a, sorted),
               vote' = VotesMoved(CardsOf(x), j, k),
               card' = [card EXCEPT ![x].column = k], UNCHANGED group
        PROVE  MoveCard(m, x, k, b, a, sorted)
    <2>1. /\ CardsWritable /\ x \in DOMAIN card /\ MayChange(m, x)
          /\ card[x].group = None /\ j = card[x].column
      BY <1>6 DEF MayMove, MayEdit
    <2>2. /\ MoveItem(x, j, k, b, a, sorted) /\ MoveVotes(CardsOf(x), j, k)
          /\ k \in LiveColumn /\ sorted \subseteq {j, k}
      BY <1>4, <1>6
    <2>3. CardsOf(x) = {x}
      BY <1>6 DEF CardsOf
    <2> QED
      BY <1>6, <2>1, <2>2, <2>3, Zenon DEF MoveCard
  <1> QED
    BY <1>1, <1>5, <1>6

\* An operation does not happen but where it may.
LEMMA DoneIsAccepted ==
    ASSUME NEW m \in Member
    PROVE  /\ \A c : UpdateCard(m, c) \/ DeleteCard(m, c) => MayEdit(m, c)
           /\ \A c : VoteForCard(m, c) => MayVote(m, c)
           /\ \A c : RemoveVoteFromCard(m, c) => MayTakeBack(m, c)
           /\ \A k, cards, c, g : CreateCardGroup(m, k, cards, c, g) => MayGroup(m, k, cards, c, g)
           /\ \A g : UngroupCardGroup(m, g) => MayUngroup(m, g)
           /\ \A k, limit : UpdateBoardColumn(m, k, limit) => MayLimit(m, k, limit)
           /\ \A k, c : CreateCard(m, k, c) => MayCreate(k)
  <1>1. \A c : UpdateCard(m, c) \/ DeleteCard(m, c) => MayEdit(m, c)
    BY DEF UpdateCard, DeleteCard, MayEdit
  <1>2. \A c : VoteForCard(m, c) => MayVote(m, c)
    BY DEF VoteForCard, MayVote
  <1>3. \A c : RemoveVoteFromCard(m, c) => MayTakeBack(m, c)
    BY DEF RemoveVoteFromCard, MayTakeBack
  <1>4. \A k, cards, c, g : CreateCardGroup(m, k, cards, c, g) => MayGroup(m, k, cards, c, g)
    BY DEF CreateCardGroup, MayGroup
  <1>5. \A g : UngroupCardGroup(m, g) => MayUngroup(m, g)
    BY DEF UngroupCardGroup, MayUngroup
  <1>6. \A k, limit : UpdateBoardColumn(m, k, limit) => MayLimit(m, k, limit)
    BY DEF UpdateBoardColumn, MayLimit
  <1>7. \A k, c : CreateCard(m, k, c) => MayCreate(k)
    BY DEF CreateCard, MayCreate
  <1> QED
    BY <1>1, <1>2, <1>3, <1>4, <1>5, <1>6, <1>7


\* What the page says of cards, of the votes that remain and of buttons for votes.
VotesOffered(m) ==
    /\ \A c \in DOMAIN card :
          /\ CardCapabilities(m, c).canEdit <=> MayEdit(m, c)
          /\ CardCapabilities(m, c).canDelete <=> MayEdit(m, c)
          /\ CanToggle(m, card[c].column, FALSE) /\ ~ViewerHasVoted(m, c) <=> MayVote(m, c)
    /\ \A k \in LiveColumn :
          /\ \A v \in VoteButtons(m, k) : IF v[2] THEN MayTakeBack(m, v[1]) ELSE MayVote(m, v[1])
          /\ \A c \in CardsIn(k) : MayTakeBack(m, c) => <<c, TRUE>> \in VoteButtons(m, k)

\* What may be dragged, and dropped wherever the client shows it.
DropsOffered(m) ==
    \A j, k \in LiveColumn : \A x \in TopLevel(j), sorted \in SUBSET {j, k} :
        \A i \in 0 .. Cardinality(TopLevel(k) \ {x}) :
           LET placement == BuildItemPlacement(Dropped(x, k, k \in sorted, i), x)
           IN  (HasDragHandle(m, x) /\ (j # k => WithinTargetLimit(CardsOf(x), k)))
                  <=> MayMove(m, x, j, k, placement[1], placement[2], sorted)

\* What the menus of groups and columns offer.
MenusOffered(m) ==
    /\ \A g \in DOMAIN group : Capabilities(m).canManageGroups <=> MayUngroup(m, g)
    /\ \A k \in LiveColumn :
          /\ \A cards \in SUBSET Ungrouped(k) : \A c \in cards, g \in Group \ DOMAIN group :
                Cardinality(cards) \in 2 .. MAX_GROUP_CARDS =>
                   (OpensGroupDialog(m, k) <=> MayGroup(m, k, cards, c, g))
          /\ OffersDeletion(m, k) <=> MayDeleteColumn(m, k)
          /\ \A limit \in voteLimit[k] .. MAX_VOTE_LIMIT :
                Capabilities(m).canManageColumns <=> MayLimit(m, k, limit)
          /\ (Capabilities(m).canCreateCards /\ Cardinality(DOMAIN card) < BOARD_CARD_LIMIT)
                <=> MayCreate(k)

\* A visitor has votes left in a column exactly if a slot is free there.
LEMMA SlotsLeft ==
    ASSUME Sound, QuotaRespected, NEW c \in DOMAIN card, NEW m \in Member
    PROVE  RemainingVotes(m, card[c].column) > 0
              <=> \E slot \in FreeSlots(c, m) : \A s \in FreeSlots(c, m) : slot <= s
  <1> DEFINE k == card[c].column
             S == VotesOf(vote, k, m)
             T == 1 .. voteLimit[k]
             f == [u \in S |-> vote[u].slot]
             free == FreeSlots(c, m)
  <1>1. k \in LiveColumn /\ voteLimit[k] \in Nat
    BY ColumnFacts DEF Sound, ItemsInColumns
  <1>2. \A u \in S : u \in DOMAIN vote /\ u[2] = m /\ vote[u].column = k /\ vote[u] \in VoteRow
    BY DEF VotesOf, Sound, VotesSound
  <1>3. f \in [S -> T]
    BY <1>1, <1>2 DEF QuotaRespected, VoteRow
  <1>4. \A t, u \in S : f[t] = f[u] => t = u
    BY <1>2 DEF QuotaRespected, VoteRow
  <1>5. f \in Injection(S, T)
    BY <1>3, <1>4 DEF Injection, IsInjective
  <1>6. IsFiniteSet(T) /\ Cardinality(T) = voteLimit[k]
    BY <1>1, FS_Interval
  <1>7. \A t \in T : t \in free <=> ~\E u \in S : f[u] = t
    BY DEF FreeSlots
  <1>8. free \subseteq T /\ free \subseteq Nat
    BY DEF FreeSlots
  <1>9. RemainingVotes(m, k) > 0 <=> Cardinality(S) < voteLimit[k]
    <2>1. Cardinality(S) \in Nat
      BY <1>5, <1>6, FS_Injection, FS_CardinalityType
    <2> HIDE DEF S, k
    <2> QED
      BY <1>1, <2>1 DEF RemainingVotes, S
  <1> HIDE DEF S, T, f, free, k
  <1>10. /\ Cardinality(S) <= Cardinality(T) /\ Cardinality(S) \in Nat
         /\ Cardinality(S) = Cardinality(T) <=> f \in Surjection(S, T)
    BY <1>5, <1>6, FS_Injection, FS_CardinalityType
  <1>11. f \in Surjection(S, T) <=> \A t \in T : \E u \in S : f[u] = t
    BY <1>3 DEF Surjection
  <1>12. Cardinality(S) < voteLimit[k] <=> free # {}
    <2>1. free # {} <=> \E t \in T : ~\E u \in S : f[u] = t
      BY <1>7, <1>8
    <2> QED
      BY <1>1, <1>6, <1>10, <1>11, <2>1
  <1>13. free # {} <=> \E slot \in free : \A s \in free : slot <= s
    BY <1>8, Least
  <1> QED
    BY <1>9, <1>12, <1>13 DEF free, k

\* A card may be voted for where the page says so.
LEMMA VoteAccepted ==
    ASSUME Sound, QuotaRespected, NEW m \in Member, NEW c \in DOMAIN card
    PROVE  CanToggle(m, card[c].column, FALSE) /\ ~ViewerHasVoted(m, c) <=> MayVote(m, c)
  <1>1. voteLimit[card[c].column] \in Nat
    BY ColumnFacts DEF Sound, ItemsInColumns
  <1> DEFINE remaining == RemainingVotes(m, card[c].column) > 0
             slots == \E slot \in FreeSlots(c, m) : \A s \in FreeSlots(c, m) : slot <= s
  <1>2. remaining <=> slots
    BY SlotsLeft
  <1>3. CanToggle(m, card[c].column, FALSE)
           <=> ~settings.readOnly /\ settings.votingEnabled /\ voteLimit[card[c].column] > 0 /\ remaining
    BY DEF CanToggle, Capabilities
  <1>4. MayVote(m, c)
           <=> ~settings.readOnly /\ settings.votingEnabled /\ voteLimit[card[c].column] # 0
               /\ <<c, m>> \notin DOMAIN vote /\ slots
    BY DEF MayVote, Writable
  <1>5. voteLimit[card[c].column] > 0 <=> voteLimit[card[c].column] # 0
    BY <1>1
  <1>6. ViewerHasVoted(m, c) <=> <<c, m>> \in DOMAIN vote
    BY DEF ViewerHasVoted
  <1> HIDE DEF remaining, slots
  <1> QED
    BY <1>2, <1>3, <1>4, <1>5, <1>6, Zenon

\* A vote is taken back where the card's column has votes and voting is enabled.
LEMMA TakeBackAccepted ==
    ASSUME Sound, NEW m \in Member, NEW c \in DOMAIN card
    PROVE  CanToggle(m, card[c].column, TRUE) /\ ViewerHasVoted(m, c) <=> MayTakeBack(m, c)
  <1>1. voteLimit[card[c].column] \in Nat
    BY ColumnFacts DEF Sound, ItemsInColumns
  <1>2. voteLimit[card[c].column] > 0 <=> voteLimit[card[c].column] # 0
    BY <1>1
  <1>3. CanToggle(m, card[c].column, TRUE)
           <=> ~settings.readOnly /\ settings.votingEnabled /\ voteLimit[card[c].column] > 0
    BY DEF CanToggle, Capabilities
  <1>4. ViewerHasVoted(m, c) <=> <<c, m>> \in DOMAIN vote
    BY DEF ViewerHasVoted
  <1>5. MayTakeBack(m, c)
           <=> ~settings.readOnly /\ settings.votingEnabled /\ <<c, m>> \in DOMAIN vote
               /\ voteLimit[card[c].column] # 0
    BY DEF MayTakeBack, Writable
  <1> QED
    BY <1>2, <1>3, <1>4, <1>5, Zenon

\* Each button is of a card of the column, and says whether it has the viewer's vote;
\* and each card with the viewer's vote has one.
LEMMA ButtonsOfCards ==
    ASSUME Sound, NEW m \in Member, NEW k \in LiveColumn
    PROVE  /\ \A v \in VoteButtons(m, k) :
                 /\ v[1] \in DOMAIN card /\ card[v[1]].column = k
                 /\ v[2] <=> ViewerHasVoted(m, v[1])
                 /\ CanToggle(m, k, v[2])
           /\ \A c \in CardsIn(k) : ViewerHasVoted(m, c) /\ CanToggle(m, k, TRUE)
                 => <<c, TRUE>> \in VoteButtons(m, k)
  <1>1. GroupsIntact /\ DOMAIN card \cap Group = {} /\ DOMAIN group \subseteq Group
    BY IdFacts DEF Sound, ItemsSound
  <1>2. \A i \in TopLevel(k) :
           LET c == IF i \in Group THEN group[i].primary ELSE i
           IN  c \in DOMAIN card /\ card[c].column = k
    <2> SUFFICES ASSUME NEW i \in TopLevel(k)
                 PROVE  LET c == IF i \in Group THEN group[i].primary ELSE i
                        IN  c \in DOMAIN card /\ card[c].column = k
      OBVIOUS
    <2>1. CASE i \in DOMAIN group /\ group[i].column = k
      BY <1>1, <2>1, GroupInItsColumn
    <2>2. CASE i \in DOMAIN card /\ card[i].column = k
      BY <1>1, <2>2
    <2> QED
      BY <2>1, <2>2, ItemOfColumn
  <1>3. ASSUME NEW v \in VoteButtons(m, k)
        PROVE  /\ v[1] \in DOMAIN card /\ card[v[1]].column = k
               /\ v[2] <=> ViewerHasVoted(m, v[1])
               /\ CanToggle(m, k, v[2])
    <2>1. CASE v \in {ItemVote(m, i) : i \in TopLevel(k)}
      <3>1. PICK i \in TopLevel(k) : v = ItemVote(m, i)
        BY <2>1
      <3> DEFINE c == IF i \in Group THEN group[i].primary ELSE i
      <3>2. c \in DOMAIN card /\ card[c].column = k
        BY <1>2
      <3>3. v = <<c, ViewerHasVoted(m, c)>>
        BY <3>1 DEF ItemVote
      <3> HIDE DEF c
      <3> QED
        BY <3>2, <3>3 DEF VoteButtons, ViewerHasVoted
    <2>2. CASE v \in OriginalVotes(m, k)
      <3>1. PICK c \in CardsIn(k) : ViewerHasVoted(m, c) /\ v = <<c, TRUE>>
        BY <2>2 DEF OriginalVotes
      <3> QED
        BY <3>1 DEF VoteButtons, CardsIn
    <2> QED
      BY <2>1, <2>2 DEF VoteButtons
  <1>4. ASSUME NEW c \in CardsIn(k), ViewerHasVoted(m, c), CanToggle(m, k, TRUE)
        PROVE  <<c, TRUE>> \in VoteButtons(m, k)
    <2>1. c \in DOMAIN card /\ card[c].column = k
      BY DEF CardsIn
    <2>2. ViewerHasVoted(m, c) = TRUE
      BY <1>4 DEF ViewerHasVoted
    <2>3. CASE card[c].group = None
      <3>1. c \in TopLevel(k)
        BY <2>1, <2>3, ItemOfColumn
      <3>2. ItemVote(m, c) = <<c, TRUE>>
        BY <1>1, <2>1, <2>2 DEF ItemVote
      <3> QED
        BY <1>4, <3>1, <3>2 DEF VoteButtons
    <2>4. CASE card[c].group # None /\ c = group[card[c].group].primary
      <3>1. card[c].group \in DOMAIN group
        BY <2>1, <2>4 DEF Sound, ItemsSound
      <3>2. group[card[c].group].column = k
        BY <1>1, <2>1, <2>4, <3>1, GroupInItsColumn
      <3>3. card[c].group \in TopLevel(k)
        BY <3>1, <3>2, ItemOfColumn
      <3>4. ItemVote(m, card[c].group) = <<c, TRUE>>
        BY <1>1, <2>2, <2>4, <3>1 DEF ItemVote
      <3> QED
        BY <1>4, <3>3, <3>4 DEF VoteButtons
    <2>5. CASE card[c].group # None /\ c # group[card[c].group].primary
      <3>1. <<c, TRUE>> \in OriginalVotes(m, k)
        BY <1>4, <2>5 DEF OriginalVotes
      <3> QED
        BY <1>4, <3>1 DEF VoteButtons
    <2> QED
      BY <2>3, <2>4, <2>5
  <1> QED
    BY <1>3, <1>4

LEMMA VotesAccepted ==
    ASSUME Sound, QuotaRespected, NEW m \in Member
    PROVE  VotesOffered(m)
  <1>1. ASSUME NEW c \in DOMAIN card
        PROVE  /\ CardCapabilities(m, c).canEdit <=> MayEdit(m, c)
               /\ CardCapabilities(m, c).canDelete <=> MayEdit(m, c)
    BY DEF CardCapabilities, MayEdit, CardsWritable, Writable
  <1>2. ASSUME NEW k \in LiveColumn, NEW v \in VoteButtons(m, k)
        PROVE  IF v[2] THEN MayTakeBack(m, v[1]) ELSE MayVote(m, v[1])
    <2>1. /\ v[1] \in DOMAIN card /\ card[v[1]].column = k
          /\ v[2] <=> ViewerHasVoted(m, v[1])
          /\ CanToggle(m, k, v[2])
      BY ButtonsOfCards
    <2>2. CASE v[2]
      <3>1. CanToggle(m, k, TRUE)
        BY <2>1, <2>2 DEF CanToggle
      <3> QED
        BY <2>1, <2>2, <3>1, TakeBackAccepted
    <2>3. CASE ~v[2]
      <3>1. CanToggle(m, k, FALSE)
        BY <2>1, <2>3 DEF CanToggle
      <3> QED
        BY <2>1, <2>3, <3>1, VoteAccepted
    <2> QED
      BY <2>2, <2>3
  <1>3. ASSUME NEW k \in LiveColumn, NEW c \in CardsIn(k), MayTakeBack(m, c)
        PROVE  <<c, TRUE>> \in VoteButtons(m, k)
    <2>1. c \in DOMAIN card /\ card[c].column = k
      BY DEF CardsIn
    <2> QED
      BY <1>3, <2>1, TakeBackAccepted, ButtonsOfCards
  <1> QED
    BY <1>1, <1>2, <1>3, VoteAccepted DEF VotesOffered


LEMMA DropsAccepted ==
    ASSUME Sound, NEW m \in Member
    PROVE  DropsOffered(m)
  <1> SUFFICES ASSUME NEW j \in LiveColumn, NEW k \in LiveColumn, NEW x \in TopLevel(j),
                      NEW sorted \in SUBSET {j, k}, NEW i \in 0 .. Cardinality(TopLevel(k) \ {x}),
                      NEW b, NEW a,
                      <<b, a>> = BuildItemPlacement(Dropped(x, k, k \in sorted, i), x)
               PROVE  (HasDragHandle(m, x) /\ (j # k => WithinTargetLimit(CardsOf(x), k)))
                         <=> MayMove(m, x, j, k, b, a, sorted)
    <2>1. ASSUME NEW s, NEW x
          PROVE  LET p == BuildItemPlacement(s, x) IN p = <<p[1], p[2]>>
      BY DEF BuildItemPlacement
    <2> QED
      BY <2>1 DEF DropsOffered
  <1> DEFINE place == BuildItemPlacement(Dropped(x, k, k \in sorted, i), x)
             rest == TopLevel(k) \ {x}
             within == j # k => WithinTargetLimit(CardsOf(x), k)
  <1>1. x \in DOMAIN position /\ (k \in sorted) \in BOOLEAN
    BY ItemOfColumn
  <1>2. Resolves(rest, ItemOrder(rest, k \in sorted), place[1], place[2])
    BY <1>1, DropsAgree
  <1>3. Resolves(rest, ItemOrder(rest, k \in sorted), b, a)
    <2>1. place = <<b, a>>
      OBVIOUS
    <2> HIDE DEF place, rest
    <2>2. b = place[1] /\ a = place[2]
      BY <2>1
    <2> QED
      BY <1>2, <2>2
  <1>4. MayPlace(x, j, k, b, a, sorted) <=> within
    BY <1>3 DEF MayPlace
  <1> HIDE DEF within
  <1>5. CASE x \in DOMAIN group /\ group[x].column = j
    <2>1. x \in Group
      BY <1>5 DEF Sound, ItemsSound
    <2>2. HasDragHandle(m, x) <=> IsOwner(m) /\ ~settings.readOnly /\ settings.cardsEnabled
      BY <2>1 DEF HasDragHandle, Capabilities
    <2>3. MayMove(m, x, j, k, b, a, sorted)
             <=> ~settings.readOnly /\ settings.cardsEnabled /\ IsOwner(m) /\ within
      BY <1>4, <1>5, <2>1 DEF MayMove, CardsWritable, Writable
    <2> QED
      BY <2>2, <2>3 DEF within
  <1>6. CASE x \in DOMAIN card /\ card[x].column = j /\ card[x].group = None
    <2>1. x \notin Group
      BY <1>6, IdFacts DEF Sound, ItemsSound
    <2>2. HasDragHandle(m, x) <=> ~settings.readOnly /\ settings.cardsEnabled /\ MayChange(m, x)
      BY <1>6, <2>1 DEF HasDragHandle, CardCapabilities
    <2>3. MayMove(m, x, j, k, b, a, sorted)
             <=> ~settings.readOnly /\ settings.cardsEnabled /\ MayChange(m, x) /\ within
      BY <1>4, <1>6, <2>1 DEF MayMove, MayEdit, CardsWritable, Writable
    <2> QED
      BY <2>2, <2>3 DEF within
  <1> QED
    BY <1>5, <1>6, ItemOfColumn

\* A column shows nothing exactly if it has no cards, grouped or not.
LEMMA EmptyColumn ==
    ASSUME Sound, NEW k
    PROVE  TopLevel(k) = {} <=> CardsIn(k) = {}
  <1>1. GroupsIntact
    BY DEF Sound
  <1>2. ASSUME NEW c \in CardsIn(k) PROVE TopLevel(k) # {}
    <2>1. c \in DOMAIN card /\ card[c].column = k /\ card[c].group \in DOMAIN group \cup {None}
      BY DEF CardsIn, Sound, ItemsSound
    <2>2. CASE card[c].group = None
      BY <2>1, <2>2, ItemOfColumn
    <2>3. CASE card[c].group \in DOMAIN group
      <3>1. c \in Members(card[c].group)
        BY <2>1 DEF Members
      <3>2. group[card[c].group].column = k
        BY <1>1, <2>1, <2>3, <3>1 DEF GroupsIntact
      <3> QED
        BY <2>3, <3>2, ItemOfColumn
    <2> QED
      BY <2>1, <2>2, <2>3
  <1>3. ASSUME NEW i \in TopLevel(k) PROVE CardsIn(k) # {}
    <2>1. CASE i \in DOMAIN card /\ card[i].column = k
      BY <2>1 DEF CardsIn
    <2>2. CASE i \in DOMAIN group /\ group[i].column = k
      BY <1>1, <2>2, GroupInItsColumn DEF CardsIn
    <2> QED
      BY <2>1, <2>2, ItemOfColumn
  <1> QED
    BY <1>2, <1>3

\* A dialog that a column's menu opens has cards for a group; and a column with cards
\* for one opens it.
LEMMA DialogOpens ==
    ASSUME Sound, NEW m \in Member, NEW k \in LiveColumn,
           NEW cards \in SUBSET Ungrouped(k), Cardinality(cards) \in 2 .. MAX_GROUP_CARDS
    PROVE  OpensGroupDialog(m, k) <=> IsOwner(m) /\ CardsWritable
  <1>1. IsFiniteSet(Ungrouped(k))
    <2>1. Ungrouped(k) \subseteq DOMAIN card /\ IsFiniteSet(DOMAIN card)
      BY ItemFacts DEF Ungrouped, Sound
    <2> QED
      BY <2>1, FS_Subset
  <1>2. Cardinality(cards) <= Cardinality(Ungrouped(k))
    BY <1>1, FS_Subset
  <1>3. Cardinality(Ungrouped(k)) >= 2
    BY <1>1, <1>2, FS_CardinalityType, ContentAssumption
  <1>4. Capabilities(m).canManageGroups <=> IsOwner(m) /\ CardsWritable
    BY DEF Capabilities, CardsWritable, Writable
  <1> QED
    BY <1>3, <1>4 DEF OpensGroupDialog

LEMMA MenusAccepted ==
    ASSUME Sound, NEW m \in Member
    PROVE  MenusOffered(m)
  <1>1. ASSUME NEW g \in DOMAIN group
        PROVE  Capabilities(m).canManageGroups <=> MayUngroup(m, g)
    <2>1. Cardinality(Members(g)) >= 2
      BY DEF Sound, GroupsIntact
    <2> QED
      BY <2>1 DEF Capabilities, MayUngroup, CardsWritable, Writable
  <1>2. ASSUME NEW k \in LiveColumn, NEW cards \in SUBSET Ungrouped(k), NEW c \in cards,
               NEW g \in Group \ DOMAIN group, Cardinality(cards) \in 2 .. MAX_GROUP_CARDS
        PROVE  OpensGroupDialog(m, k) <=> MayGroup(m, k, cards, c, g)
    <2>1. OpensGroupDialog(m, k) <=> IsOwner(m) /\ CardsWritable
      BY <1>2, DialogOpens
    <2>2. MayGroup(m, k, cards, c, g) <=> IsOwner(m) /\ CardsWritable
      BY <1>2 DEF MayGroup
    <2> QED
      BY <2>1, <2>2
  <1>3. ASSUME NEW k \in LiveColumn
        PROVE  OffersDeletion(m, k) <=> MayDeleteColumn(m, k)
    <2>1. TopLevel(k) = {} <=> CardsIn(k) = {}
      BY EmptyColumn
    <2>2. OffersDeletion(m, k)
             <=> /\ IsOwner(m) /\ ~settings.readOnly /\ Cardinality(LiveColumn) > 1
                 /\ TopLevel(k) = {} \/ settings.cardsEnabled
      BY DEF OffersDeletion, Capabilities
    <2>3. MayDeleteColumn(m, k)
             <=> /\ IsOwner(m) /\ ~settings.readOnly /\ Cardinality(LiveColumn) > 1
                 /\ CardsIn(k) # {} => settings.cardsEnabled
      BY DEF MayDeleteColumn, Writable
    <2> QED
      BY <2>1, <2>2, <2>3, Zenon
  <1>4. ASSUME NEW k \in LiveColumn, NEW limit \in voteLimit[k] .. MAX_VOTE_LIMIT
        PROVE  Capabilities(m).canManageColumns <=> MayLimit(m, k, limit)
    <2>1. limit \in 0 .. MAX_VOTE_LIMIT /\ ~(limit < voteLimit[k])
      BY ColumnFacts, ContentAssumption DEF Sound
    <2>2. Capabilities(m).canManageColumns <=> IsOwner(m) /\ ~settings.readOnly
      BY DEF Capabilities
    <2>3. MayLimit(m, k, limit) <=> IsOwner(m) /\ ~settings.readOnly
      BY <2>1 DEF MayLimit, Writable
    <2> QED
      BY <2>2, <2>3
  <1>5. ASSUME NEW k \in LiveColumn
        PROVE  (Capabilities(m).canCreateCards /\ Cardinality(DOMAIN card) < BOARD_CARD_LIMIT)
                  <=> MayCreate(k)
    BY DEF Capabilities, MayCreate, CardsWritable, Writable
  <1> QED
    BY <1>1, <1>2, <1>3, <1>4, <1>5 DEF MenusOffered

\* What a page's snapshot allows its viewer is what the server's conditions allow: the
\* flags, the roles and the votes that remain say the same as the locked rows, every
\* button for a vote works (a group has one, its primary card's, though the server takes
\* a vote for any card of it), a vote can be taken back where it was given whatever its
\* card was grouped with since, and a drop is refused for nothing but the votes it takes
\* along.
THEOREM OffersAreAccepted ==
    Spec => [](\A m \in Member : VotesOffered(m) /\ DropsOffered(m) /\ MenusOffered(m))
  <1>1. Sound /\ QuotaRespected
           => \A m \in Member : VotesOffered(m) /\ DropsOffered(m) /\ MenusOffered(m)
    BY VotesAccepted, DropsAccepted, MenusAccepted
  <1> QED
    BY <1>1, SoundInvariant, QuotaAlwaysRespected, PTL


\* What a step of the server for member m asks of the page he had before.
OfferedTo(m) ==
    /\ \A c \in Card :
          /\ UpdateCard(m, c) => CardCapabilities(m, c).canEdit
          /\ DeleteCard(m, c) => CardCapabilities(m, c).canDelete
          /\ VoteForCard(m, c) => CanToggle(m, card[c].column, FALSE) /\ ~ViewerHasVoted(m, c)
          /\ RemoveVoteFromCard(m, c) => <<c, TRUE>> \in VoteButtons(m, card[c].column)
          /\ \A k \in LiveColumn :
                /\ CreateCard(m, k, c) => Capabilities(m).canCreateCards
                /\ \A ba \in Placements(TopLevel(k)), sorted \in SUBSET LiveColumn :
                      MoveCard(m, c, k, ba[1], ba[2], sorted) =>
                         HasDragHandle(m, c) /\ (k # card[c].column => WithinTargetLimit({c}, k))
    /\ \A g \in Group :
          /\ \A c \in Card : UpdateCardGroup(m, g, c) => Capabilities(m).canManageGroups
          /\ UngroupCardGroup(m, g) => Capabilities(m).canManageGroups
          /\ \A k \in LiveColumn :
                /\ \A cards \in SUBSET Ungrouped(k) : \A c \in cards :
                      CreateCardGroup(m, k, cards, c, g) => OpensGroupDialog(m, k)
                /\ \A ba \in Placements(TopLevel(k)), sorted \in SUBSET LiveColumn :
                      MoveCardGroup(m, g, k, ba[1], ba[2], sorted) =>
                         HasDragHandle(m, g) /\ (k # group[g].column => WithinTargetLimit(Members(g), k))
    /\ \A k \in Column :
          /\ \A limit \in 0 .. MAX_VOTE_LIMIT, ba \in Placements(Column) :
                CreateBoardColumn(m, k, limit, ba[1], ba[2]) \/ UpdateBoardColumn(m, k, limit)
                   \/ MoveBoardColumn(m, k, ba[1], ba[2]) => Capabilities(m).canManageColumns
          /\ \A target \in Column :
                DeleteEmptyColumn(m, k) \/ DeleteColumnMovingCards(m, k, target)
                   \/ DeleteColumnAndCards(m, k) => OffersDeletion(m, k)
    /\ \A i \in ActionItem, source \in Card \cup {None}, ba \in Placements(ActionItem) :
          CreateActionItem(m, i, source) \/ UpdateActionItem(m, i)
             \/ MoveActionItem(m, i, ba[1], ba[2]) \/ DeleteActionItem(m, i)
                => Capabilities(m).canManageActionItems
    /\ ResetBoardVotes(m) => Capabilities(m).canResetVotes /\ DOMAIN vote # {}
    /\ \A s \in Settings : UpdateBoardSettings(m, s) => Capabilities(m).canManageSettings

LEMMA CardStepOffered ==
    ASSUME Sound, QuotaRespected, NEW m \in Member, NEW c \in Card
    PROVE  /\ UpdateCard(m, c) => CardCapabilities(m, c).canEdit
           /\ DeleteCard(m, c) => CardCapabilities(m, c).canDelete
           /\ VoteForCard(m, c) => CanToggle(m, card[c].column, FALSE) /\ ~ViewerHasVoted(m, c)
           /\ RemoveVoteFromCard(m, c) => <<c, TRUE>> \in VoteButtons(m, card[c].column)
           /\ \A k : CreateCard(m, k, c) => Capabilities(m).canCreateCards
           /\ \A k, b, a, sorted : MoveCard(m, c, k, b, a, sorted) =>
                 HasDragHandle(m, c) /\ (k # card[c].column => WithinTargetLimit({c}, k))
  <1>1. MayEdit(m, c) => CardCapabilities(m, c).canEdit /\ CardCapabilities(m, c).canDelete
    BY DEF CardCapabilities, MayEdit, CardsWritable, Writable
  <1>2. MayVote(m, c) => CanToggle(m, card[c].column, FALSE) /\ ~ViewerHasVoted(m, c)
    BY VoteAccepted DEF MayVote
  <1>3. MayTakeBack(m, c) => <<c, TRUE>> \in VoteButtons(m, card[c].column)
    <2> SUFFICES ASSUME MayTakeBack(m, c)
                 PROVE  <<c, TRUE>> \in VoteButtons(m, card[c].column)
      OBVIOUS
    <2>1. c \in DOMAIN card
      BY DEF MayTakeBack, QuotaRespected
    <2>2. card[c].column \in LiveColumn /\ c \in CardsIn(card[c].column)
      BY <2>1 DEF Sound, ItemsInColumns, CardsIn, LiveColumn
    <2> QED
      BY <2>1, <2>2, TakeBackAccepted, ButtonsOfCards
  <1>4. ASSUME NEW k, CreateCard(m, k, c) PROVE Capabilities(m).canCreateCards
    BY <1>4 DEF CreateCard, CardsWritable, Writable, Capabilities
  <1>5. ASSUME NEW k, NEW b, NEW a, NEW sorted, MoveCard(m, c, k, b, a, sorted)
        PROVE  HasDragHandle(m, c) /\ (k # card[c].column => WithinTargetLimit({c}, k))
    <2>1. c \notin Group
      BY IdFacts
    <2>2. CardsWritable /\ MayChange(m, c) /\ card[c].group = None
      BY <1>5 DEF MoveCard
    <2>3. HasDragHandle(m, c)
      BY <2>1, <2>2 DEF HasDragHandle, CardCapabilities, CardsWritable, Writable
    <2>4. MoveVotes({c}, card[c].column, k)
      BY <1>5 DEF MoveCard
    <2>5. k # card[c].column => WithinTargetLimit({c}, k)
      BY <2>4 DEF MoveVotes
    <2> QED
      BY <2>3, <2>5
  <1> QED
    BY <1>1, <1>2, <1>3, <1>4, <1>5, DoneIsAccepted

LEMMA GroupStepOffered ==
    ASSUME Sound, NEW m \in Member, NEW g \in Group
    PROVE  /\ \A c : UpdateCardGroup(m, g, c) => Capabilities(m).canManageGroups
           /\ UngroupCardGroup(m, g) => Capabilities(m).canManageGroups
           /\ \A k \in LiveColumn : \A cards, c :
                 CreateCardGroup(m, k, cards, c, g) => OpensGroupDialog(m, k)
           /\ \A k, b, a, sorted : MoveCardGroup(m, g, k, b, a, sorted) =>
                 HasDragHandle(m, g) /\ (k # group[g].column => WithinTargetLimit(Members(g), k))
  <1>1. IsOwner(m) /\ CardsWritable => Capabilities(m).canManageGroups
    BY DEF Capabilities, CardsWritable, Writable
  <1>2. ASSUME NEW k \in LiveColumn, NEW cards, NEW c, CreateCardGroup(m, k, cards, c, g)
        PROVE  OpensGroupDialog(m, k)
    <2>1. /\ cards \in SUBSET Ungrouped(k) /\ Cardinality(cards) \in 2 .. MAX_GROUP_CARDS
          /\ IsOwner(m) /\ CardsWritable
      BY <1>2 DEF CreateCardGroup
    <2> QED
      BY <2>1, DialogOpens
  <1>3. ASSUME NEW k, NEW b, NEW a, NEW sorted, MoveCardGroup(m, g, k, b, a, sorted)
        PROVE  HasDragHandle(m, g) /\ (k # group[g].column => WithinTargetLimit(Members(g), k))
    <2>1. IsOwner(m) /\ CardsWritable /\ g \in DOMAIN group
      BY <1>3 DEF MoveCardGroup
    <2>2. HasDragHandle(m, g)
      BY <1>1, <2>1 DEF HasDragHandle
    <2>3. MoveVotes(Members(g), group[g].column, k)
      BY <1>3 DEF MoveCardGroup
    <2>4. group[g].primary \in Members(g)
      BY <2>1 DEF Sound, GroupsIntact
    <2>5. k # group[g].column => WithinTargetLimit(Members(g), k)
      BY <2>3, <2>4 DEF MoveVotes
    <2> QED
      BY <2>2, <2>5
  <1> QED
    BY <1>1, <1>2, <1>3 DEF UpdateCardGroup, UngroupCardGroup

LEMMA ColumnStepOffered ==
    ASSUME Sound, NEW m \in Member, NEW k
    PROVE  /\ \A limit, b, a :
                 CreateBoardColumn(m, k, limit, b, a) \/ UpdateBoardColumn(m, k, limit)
                    \/ MoveBoardColumn(m, k, b, a) => Capabilities(m).canManageColumns
           /\ \A target :
                 DeleteEmptyColumn(m, k) \/ DeleteColumnMovingCards(m, k, target)
                    \/ DeleteColumnAndCards(m, k) => OffersDeletion(m, k)
  <1>1. IsOwner(m) /\ Writable => Capabilities(m).canManageColumns
    BY DEF Capabilities, Writable
  <1>2. MayDeleteColumn(m, k) => OffersDeletion(m, k)
    BY MenusAccepted DEF MenusOffered, MayDeleteColumn
  <1> QED
    BY <1>1, <1>2 DEF CreateBoardColumn, UpdateBoardColumn, MoveBoardColumn, DeleteEmptyColumn,
                      DeleteColumnMovingCards, DeleteColumnAndCards

\* The server does nothing for a member that his page's snapshot did not allow him: no
\* flag, role or count of votes is stricter than what the services check.  Of a new vote
\* that is the flag and the votes that remain, as the server takes one for any card of a
\* group, which has one button (board-query-service.ts and the content services).
THEOREM OnlyOfferedIsDone == Spec => [][\A m \in Member : OfferedTo(m)]_vars
  <1>1. ASSUME Sound, QuotaRespected, NEW m \in Member
        PROVE  OfferedTo(m)
    <2>1. \A i, source, b, a :
             CreateActionItem(m, i, source) \/ UpdateActionItem(m, i)
                \/ MoveActionItem(m, i, b, a) \/ DeleteActionItem(m, i)
                   => Capabilities(m).canManageActionItems
      BY DEF CreateActionItem, UpdateActionItem, MoveActionItem, DeleteActionItem, Capabilities, Writable
    <2>2. ResetBoardVotes(m) => Capabilities(m).canResetVotes /\ DOMAIN vote # {}
      BY DEF ResetBoardVotes, Capabilities, Writable
    <2>3. \A s : UpdateBoardSettings(m, s) => Capabilities(m).canManageSettings
      BY DEF UpdateBoardSettings, Capabilities
    <2> QED
      BY <1>1, <2>1, <2>2, <2>3, CardStepOffered, GroupStepOffered, ColumnStepOffered, Zenon
         DEF OfferedTo
  <1>2. Sound /\ QuotaRespected /\ [Next]_vars => [\A m \in Member : OfferedTo(m)]_vars
    BY <1>1
  <1> QED
    BY <1>2, SoundInvariant, QuotaAlwaysRespected, PTL DEF Spec
=============================================================================
