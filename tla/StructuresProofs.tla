-------------------------- MODULE StructuresProofs --------------------------
(***************************************************************************)
(* Proofs about the pieces leveldb is built from.  The memtable's index,   *)
(* for any keys, heights and readers: a search misses nothing, whatever is *)
(* inserted while it runs.  The cache of open tables, for any files,       *)
(* threads and capacity: a table is open exactly as long as it is needed.  *)
(* The database iterator, for any keys and histories: it is a cursor over  *)
(* what its snapshot shows, whatever is written meanwhile.                 *)
(***************************************************************************)
EXTENDS SkipList, TableCache, DBIter, FiniteSetTheorems, WellFoundedInduction, TLAPS

-----------------------------------------------------------------------------
(* Sets of numbers.                                                        *)

\* A set of natural numbers has a least element.
LEMMA LeastNumber ==
    ASSUME NEW T \in SUBSET Nat, T # {}
    PROVE  \E n \in T : \A m \in T : n <= m
<1> DEFINE R == OpToRel(<, Nat)
<1>1. IsWellFoundedOn(R, Nat)
      BY NatLessThanWellFounded
<1>2. PICK n \in T : \A m \in T : <<m, n>> \notin R
  <2> HIDE DEF R
  <2> QED BY <1>1, WFMin
<1>3. \A m \in T : ~(m < n)
      BY <1>2 DEF OpToRel
<1> QED BY <1>3

\* A finite set of natural numbers has a greatest element, which Max gives.
LEMMA MaxFacts ==
    ASSUME NEW S \in SUBSET Nat, S # {}, IsFiniteSet(S)
    PROVE  Max(S) \in S /\ \A y \in S : y <= Max(S)
<1> DEFINE Above(x) == {y \in S : y > x}
           T == {Cardinality(Above(x)) : x \in S}
<1>1. \A x \in S : IsFiniteSet(Above(x)) /\ Cardinality(Above(x)) \in Nat
      BY FS_Subset, FS_CardinalityType
<1>2. T \in SUBSET Nat /\ T # {}
      BY <1>1
<1>3. PICK x \in S : \A z \in S : Cardinality(Above(x)) <= Cardinality(Above(z))
  <2>1. PICK n \in T : \A m \in T : n <= m
    <3> HIDE DEF T
    <3> QED BY <1>2, LeastNumber
  <2>2. PICK x \in S : n = Cardinality(Above(x))
        OBVIOUS
  <2>3. \A z \in S : Cardinality(Above(z)) \in T
        OBVIOUS
  <2> HIDE DEF T, Above
  <2> QED BY <2>1, <2>2, <2>3
<1>4. ASSUME NEW y \in S PROVE y <= x
  <2> SUFFICES ASSUME y > x PROVE FALSE
      OBVIOUS
  <2>1. Above(y) \in SUBSET Above(x) /\ y \in Above(x) /\ y \notin Above(y)
    <3>1. x \in Nat /\ y \in Nat /\ \A z \in S : z \in Nat
          OBVIOUS
    <3>2. \A z \in S : z > y => z > x
          BY <3>1
    <3>3. Above(y) \subseteq Above(x)
          BY <3>2
    <3>4. y \in Above(x)
          OBVIOUS
    <3>5. ~(y > y)
          BY <3>1
    <3> QED BY <3>3, <3>4, <3>5
  <2>2. Cardinality(Above(y)) = Cardinality(Above(x))
    <3>1. Cardinality(Above(y)) <= Cardinality(Above(x))
          BY <1>1, <2>1, FS_Subset
    <3>2. Cardinality(Above(x)) <= Cardinality(Above(y))
          BY <1>3
    <3> HIDE DEF Above
    <3> QED BY <1>1, <3>1, <3>2
  <2>3. Above(x) = Above(y)
        BY <1>1, <2>1, <2>2, FS_Subset
  <2> QED BY <2>1, <2>3
<1>5. \E m \in S : \A y \in S : m >= y
      BY <1>4
<1>6. Max(S) \in S /\ \A y \in S : Max(S) >= y
      BY <1>5 DEF Max
<1> QED BY <1>6

\* nullptr comes after all keys, which come after head_.
LEMMA Order ==
    /\ Null \in Nat /\ Null \notin Nodes
    /\ Nodes \subseteq Nat /\ IsFiniteSet(Nodes)
    /\ Head_ \in Nodes /\ \A k \in ListKeys : Head_ < k
    /\ \A x \in Nodes : x < Null
<1>1. /\ ListKeys \in SUBSET Nat /\ ListKeys # {} /\ IsFiniteSet(ListKeys)
      /\ 0 \notin ListKeys
      BY ListKeysAssumption
<1>2. Max(ListKeys) \in ListKeys /\ \A y \in ListKeys : y <= Max(ListKeys)
      BY <1>1, MaxFacts
<1>3. Null \in Nat /\ Null > 0 /\ \A y \in ListKeys : y < Null
  <2> DEFINE m == Max(ListKeys)
  <2>1. Null = m + 1
        BY DEF Null
  <2>2. m \in Nat /\ \A y \in ListKeys : y \in Nat /\ y <= m
        BY <1>1, <1>2
  <2> HIDE DEF m
  <2> QED BY <2>1, <2>2
<1>4. \A k \in ListKeys : Head_ < k
      BY <1>1 DEF Head_
<1>5. IsFiniteSet(Nodes)
      BY <1>1, FS_AddElement DEF Nodes
<1>6. Nodes \subseteq Nat /\ Head_ \in Nodes /\ \A x \in Nodes : x < Null
      BY <1>1, <1>3 DEF Nodes, Head_
<1>7. Null \notin Nodes
      BY <1>3, <1>6
<1> QED BY <1>3, <1>4, <1>5, <1>6, <1>7

-----------------------------------------------------------------------------
(* The inductive invariant.                                                *)

\* The nodes of the list at level i.
On(i) == {x \in Nodes : x = Head_ \/ \E y \in Nodes : next[y][i] = x}

Ops == {"none", "Seek", "SeekToLast", "Prev"}

Type ==
    /\ next \in [Nodes -> [Heights -> ListKeys \union {Null}]]
    /\ max_height \in Heights
    /\ node \in [Readers -> ListKeys \union {Null}]
    /\ reads \in [Readers -> [busy: BOOLEAN, op: Ops, key: ListKeys \union {Null},
                              x: Nodes, level: Nat, before: SUBSET ListKeys]]

(***************************************************************************)
(* At every level the list ascends and leaves no node of the level out,    *)
(* a node that is not on a level points nowhere there, and a node is on    *)
(* all levels below the ones it is on.                                     *)
(***************************************************************************)
WellLinked ==
    \A i \in Heights :
        /\ \A x \in Nodes : x < next[x][i]
        /\ \A x, y \in On(i) : x < y => next[x][i] <= y
        /\ \A x \in Nodes \ On(i) : next[x][i] = Null
        /\ \A j \in Heights : i <= j => On(j) \subseteq On(i)

(***************************************************************************)
(* The node being inserted is on the levels below the one to be linked     *)
(* next, and prev is still where it belongs on the others.                 *)
(***************************************************************************)
Position(k, p, i) == p \in On(i) /\ p < k /\ k < next[p][i]

InsertionPoint ==
    inserting # Idle =>
        /\ inserting.key \in ListKeys
        /\ inserting.height \in Heights
        /\ inserting.level \in 1 .. inserting.height
        /\ \A i \in 1 .. inserting.level - 1 : inserting.key \in On(i)
        /\ \A i \in inserting.level .. inserting.height :
               Position(inserting.key, inserting.prev[i], i)

\* A search is at a node of its level, before the key it looks for.
SearchAt(s) ==
    s.busy =>
        /\ s.op # "none"
        /\ s.level \in Heights
        /\ s.x \in On(s.level)
        /\ s.x < s.key
        /\ s.before \subseteq On(1)

SearchPoint == \A r \in Readers : SearchAt(reads[r])

Inv == Type /\ WellLinked /\ InsertionPoint /\ SearchPoint /\ SearchMissesNothing

LEMMA HeightsFacts == Heights \subseteq Nat \ {0} /\ 1 \in Heights
BY kMaxHeightAssumption DEF Heights

\* What the pointers may be.
LEMMA NextType ==
    ASSUME Type, NEW x \in Nodes, NEW i \in Heights
    PROVE  /\ next[x][i] \in ListKeys \union {Null}
           /\ next[x][i] \in Nat /\ x \in Nat
           /\ next[x][i] # Null => next[x][i] \in Nodes /\ next[x][i] \in On(i)
<1>1. next[x][i] \in ListKeys \union {Null}
      BY DEF Type
<1>2. ListKeys \subseteq Nodes
      BY DEF Nodes
<1> QED BY <1>1, <1>2, Order DEF On

LEMMA OnNodes == \A i \in Heights : On(i) \subseteq Nodes /\ Head_ \in On(i)
BY Order DEF On

LinkAt(k, p, i) == next' = [next EXCEPT ![k][i] = next[p][i], ![p][i] = k]

\* Linking a node at one level, at its position there.
LEMMA LinkOn ==
    ASSUME Type, WellLinked, NEW i \in Heights, NEW k \in ListKeys, NEW p,
           Position(k, p, i),
           LinkAt(k, p, i)
    PROVE  /\ p \in Nodes /\ k \in Nodes /\ p # k /\ k \notin On(i)
           /\ next'[k][i] = next[p][i] /\ next'[p][i] = k
           /\ \A x \in Nodes : x # k /\ x # p => next'[x][i] = next[x][i]
           /\ \A x \in Nodes : \A j \in Heights : j # i => next'[x][j] = next[x][j]
           /\ next' \in [Nodes -> [Heights -> ListKeys \union {Null}]]
           /\ On(i)' = On(i) \union {k}
           /\ \A j \in Heights : j # i => On(j)' = On(j)
<1>1. p \in Nodes /\ p \in On(i) /\ k \in Nodes /\ p < k /\ k < next[p][i]
      BY DEF Position, On, Nodes
<1>2. p \in Nat /\ k \in Nat /\ next[p][i] \in Nat /\ p # k
      BY <1>1, NextType, Order
<1>3. k \notin On(i)
  <2> SUFFICES ASSUME k \in On(i) PROVE FALSE
      OBVIOUS
  <2>1. next[p][i] <= k
        BY <1>1 DEF WellLinked
  <2> QED BY <1>1, <1>2, <2>1
<1>4. next[p][i] \in ListKeys \union {Null} /\ next \in [Nodes -> [Heights -> ListKeys \union {Null}]]
      BY <1>1, NextType DEF Type
<1>5. /\ next'[k][i] = next[p][i] /\ next'[p][i] = k
      /\ \A x \in Nodes : x # k /\ x # p => next'[x][i] = next[x][i]
      /\ \A x \in Nodes : \A j \in Heights : j # i => next'[x][j] = next[x][j]
      BY <1>1, <1>2, <1>4 DEF LinkAt
<1>6. next' \in [Nodes -> [Heights -> ListKeys \union {Null}]]
      BY <1>1, <1>4 DEF LinkAt
<1>7. \A j \in Heights : j # i => On(j)' = On(j)
      BY <1>5 DEF On
<1>8. On(i)' = On(i) \union {k}
  <2>1. ASSUME NEW x \in On(i) PROVE x \in On(i)'
    <3>1. CASE x = Head_
          BY <3>1, Order DEF On
    <3>2. ASSUME NEW y \in Nodes, next[y][i] = x PROVE x \in On(i)'
      <4>1. CASE y = p
            BY <1>1, <1>5, <3>2, <4>1 DEF On
      <4>2. CASE y = k
        <5>1. next[y][i] = Null
              BY <1>1, <1>3, <4>2 DEF WellLinked
        <5> QED BY <3>2, <5>1, Order DEF On
      <4>3. CASE y # p /\ y # k
            BY <1>5, <3>2, <4>3 DEF On
      <4> QED BY <4>1, <4>2, <4>3
    <3> QED BY <3>1, <3>2 DEF On
  <2>2. k \in On(i)'
        BY <1>1, <1>2, <1>5 DEF On
  <2>3. ASSUME NEW x \in On(i)', x # k PROVE x \in On(i)
        BY <1>1, <1>5, <2>3 DEF On
  <2> QED BY <2>1, <2>2, <2>3
<1> QED BY <1>1, <1>2, <1>3, <1>5, <1>6, <1>7, <1>8

LEMMA LinkWellLinked ==
    ASSUME Type, WellLinked, NEW i \in Heights, NEW k \in ListKeys, NEW p,
           Position(k, p, i), \A j \in 1 .. i - 1 : k \in On(j),
           LinkAt(k, p, i)
    PROVE  WellLinked'
<1>1. /\ p \in Nodes /\ k \in Nodes /\ p # k /\ k \notin On(i)
      /\ next'[k][i] = next[p][i] /\ next'[p][i] = k
      /\ \A x \in Nodes : x # k /\ x # p => next'[x][i] = next[x][i]
      /\ \A x \in Nodes : \A j \in Heights : j # i => next'[x][j] = next[x][j]
      /\ On(i)' = On(i) \union {k}
      /\ \A j \in Heights : j # i => On(j)' = On(j)
      BY LinkOn
<1> DEFINE q == next[p][i]
<1>2. p \in On(i) /\ p < k /\ k < q /\ next'[k][i] = q
      BY <1>1 DEF Position
<1>3. Nodes \subseteq Nat /\ q \in Nat
      BY <1>1, NextType, Order
<1> HIDE DEF q
<1>4. ASSUME NEW j \in Heights, NEW x \in Nodes PROVE x < next'[x][j]
  <2>1. x < next[x][j]
        BY DEF WellLinked
  <2>2. CASE j # i
        BY <1>1, <2>1, <2>2
  <2>3. CASE j = i /\ x # k /\ x # p
        BY <1>1, <2>1, <2>3
  <2>4. CASE j = i /\ (x = k \/ x = p)
        BY <1>1, <1>2, <2>4
  <2> QED BY <2>2, <2>3, <2>4
<1>5. ASSUME NEW j \in Heights, NEW x \in On(j)', NEW y \in On(j)', x < y
      PROVE  next'[x][j] <= y
  <2>1. CASE j # i
    <3>1. x \in On(j) /\ y \in On(j) /\ x \in Nodes
          BY <1>1, <2>1, OnNodes
    <3>2. next[x][j] <= y
          BY <1>5, <3>1 DEF WellLinked
    <3> QED BY <1>1, <2>1, <3>1, <3>2
  <2>2. CASE j = i
    <3>0. x \in Nodes /\ y \in Nodes /\ x \in Nat /\ y \in Nat /\ k \in Nat /\ p \in Nat
          BY <1>1, <1>3, <2>2, OnNodes
    <3>1. CASE x = p
      <4>1. next'[x][i] = k
            BY <1>1, <3>1
      <4>2. CASE y = k
            BY <2>2, <3>0, <4>1, <4>2
      <4>3. CASE y # k
        <5>1. q <= y
              BY <1>1, <1>2, <1>5, <2>2, <3>1, <4>3 DEF WellLinked, q
        <5> QED BY <1>2, <1>3, <2>2, <3>0, <4>1, <5>1
      <4> QED BY <4>2, <4>3
    <3>2. CASE x = k
      <4>1. next'[x][i] = q /\ y \in On(i)
            BY <1>1, <1>2, <1>5, <2>2, <3>0, <3>2
      <4>2. p < y
            BY <1>2, <1>5, <3>0, <3>2
      <4>3. q <= y
            BY <1>2, <4>1, <4>2 DEF WellLinked, q
      <4> QED BY <2>2, <4>1, <4>3
    <3>3. CASE x # p /\ x # k
      <4>1. next'[x][i] = next[x][i] /\ x \in On(i) /\ next[x][i] \in Nat
            BY <1>1, <2>2, <3>0, <3>3, NextType
      <4>2. CASE y # k
            BY <1>1, <1>5, <2>2, <4>1, <4>2 DEF WellLinked
      <4>3. CASE y = k
        <5>1. ~(p < x)
          <6> SUFFICES ASSUME p < x PROVE FALSE
              OBVIOUS
          <6>1. q <= x
                BY <1>2, <4>1 DEF WellLinked, q
          <6> QED BY <1>2, <1>3, <1>5, <3>0, <4>3, <6>1
        <5>2. x < p
              BY <3>0, <3>3, <5>1
        <5>3. next[x][i] <= p
              BY <1>2, <4>1, <5>2 DEF WellLinked
        <5> QED BY <1>2, <2>2, <3>0, <4>1, <4>3, <5>3
      <4> QED BY <4>2, <4>3
    <3> QED BY <3>1, <3>2, <3>3
  <2> QED BY <2>1, <2>2
<1>6. ASSUME NEW j \in Heights, NEW x \in Nodes \ On(j)' PROVE next'[x][j] = Null
  <2>1. x \notin On(j) /\ (j = i => x # k /\ x # p)
        BY <1>1, <1>2
  <2>2. next[x][j] = Null
        BY <2>1 DEF WellLinked
  <2> QED BY <1>1, <2>1, <2>2
<1>7. ASSUME NEW j \in Heights, NEW l \in Heights, j <= l PROVE On(l)' \subseteq On(j)'
  <2>1. On(l) \subseteq On(j)
        BY <1>7 DEF WellLinked
  <2>2. CASE l # i
        BY <1>1, <2>1, <2>2
  <2>3. CASE l = i /\ j = i
        BY <2>3
  <2>4. CASE l = i /\ j # i
    <3>1. j \in 1 .. i - 1
          BY <1>7, <2>4, HeightsFacts
    <3> QED BY <1>1, <2>1, <2>4, <3>1
  <2> QED BY <2>2, <2>3, <2>4
<1> QED BY <1>4, <1>5, <1>6, <1>7 DEF WellLinked

-----------------------------------------------------------------------------
(* Every step keeps the invariant.                                         *)

\* As long as the pointers stay, so does the shape of the list.
LEMMA SameList ==
    ASSUME UNCHANGED next
    PROVE  /\ \A i \in Heights : On(i)' = On(i)
           /\ WellLinked => WellLinked'
<1>1. \A i \in Heights : On(i)' = On(i)
      BY DEF On
<1>2. ASSUME WellLinked PROVE WellLinked'
      BY <1>1, <1>2 DEF WellLinked
<1> QED BY <1>1, <1>2

\* The searches do not mind nodes that join their levels.
LEMMA SearchesKept ==
    ASSUME SearchPoint, SearchMissesNothing, UNCHANGED <<reads, node>>,
           \A i \in Heights : On(i) \subseteq On(i)'
    PROVE  SearchPoint' /\ SearchMissesNothing'
<1>1. SearchPoint'
      BY HeightsFacts DEF SearchPoint, SearchAt
<1>2. SearchMissesNothing'
      BY DEF SearchMissesNothing
<1> QED BY <1>1, <1>2

\* The set NodeBefore picks from: the nodes of level i before k.
LEMMA NodeBeforeFacts ==
    ASSUME Type, WellLinked, NEW k \in ListKeys, NEW i \in Heights, k \notin On(1)
    PROVE  Position(k, NodeBefore(k, i), i)
<1> DEFINE S == {x \in Nodes : x < k /\ (x = Head_ \/ \E y \in Nodes : next[y][i] = x)}
           p == NodeBefore(k, i)
<1>1. S = {x \in On(i) : x < k}
      BY DEF On
<1>2. S \in SUBSET Nat /\ S \in SUBSET Nodes /\ Head_ \in S /\ IsFiniteSet(S)
  <2>1. Head_ \in S
        BY Order
  <2> QED BY <2>1, Order, FS_Subset
<1>3. p = Max(S)
      BY DEF NodeBefore
<1> HIDE DEF S, p
<1>4. p \in S /\ \A y \in S : y <= p
      BY <1>2, <1>3, MaxFacts
<1>5. p \in On(i) /\ p \in Nodes /\ p < k /\ p \in Nat /\ k \in Nat
      BY <1>1, <1>2, <1>4, Order DEF Nodes
<1>6. p < next[p][i] /\ next[p][i] \in Nat
      BY <1>5, NextType DEF WellLinked
<1>7. k < next[p][i]
  <2> SUFFICES ASSUME next[p][i] <= k PROVE FALSE
      BY <1>5, <1>6
  <2>1. next[p][i] # Null
    <3>1. k < Null /\ Null \in Nat
          BY Order DEF Nodes
    <3> QED BY <1>5, <1>6, <3>1
  <2>2. next[p][i] \in On(i)
        BY <1>5, <2>1, NextType
  <2>3. next[p][i] # k
        BY <2>2, HeightsFacts DEF WellLinked
  <2>4. next[p][i] \in S
        BY <1>1, <1>5, <1>6, <2>2, <2>3
  <2> QED BY <1>4, <1>5, <1>6, <2>4
<1> QED BY <1>5, <1>7 DEF Position, p

LEMMA InsertInv ==
    ASSUME Inv, NEW k \in ListKeys, NEW h \in Heights, Insert(k, h) PROVE Inv'
<1>1. /\ k \notin Linked
      /\ inserting' = [key |-> k, height |-> h, level |-> 1,
                       prev |-> [i \in 1 .. h |-> NodeBefore(k, i)]]
      /\ max_height' \in Heights
      /\ UNCHANGED <<next, reads, node>>
      BY DEF Insert, Inv, Type
<1>2. k \notin On(1)
  <2>1. k # Head_
        BY ListKeysAssumption DEF Head_
  <2> QED BY <1>1, <2>1 DEF On, Linked
<1>3. (\A i \in Heights : On(i)' = On(i)) /\ WellLinked'
      BY <1>1, SameList DEF Inv
<1>4. InsertionPoint'
  <2>1. 1 .. h \subseteq Heights /\ h \in Nat /\ h >= 1 /\ 1 \in 1 .. h
        BY kMaxHeightAssumption DEF Heights
  <2>2. ASSUME NEW i \in 1 .. h PROVE Position(k, NodeBefore(k, i), i)'
    <3>1. Position(k, NodeBefore(k, i), i)
          BY <1>2, <2>1, NodeBeforeFacts DEF Inv
    <3>2. NodeBefore(k, i)' = NodeBefore(k, i)
          BY <1>1 DEF NodeBefore
    <3> QED BY <1>1, <1>3, <2>1, <3>1, <3>2 DEF Position
  <2>3. \A i \in 1 .. h : inserting'.prev[i] = NodeBefore(k, i)'
        BY <1>1 DEF NodeBefore
  <2>4. /\ inserting'.key = k /\ inserting'.height = h /\ inserting'.level = 1
        BY <1>1
  <2> QED BY <2>1, <2>2, <2>3, <2>4 DEF InsertionPoint
<1>5. Type'
      BY <1>1 DEF Inv, Type
<1>6. SearchPoint' /\ SearchMissesNothing'
      BY <1>1, <1>3, SearchesKept DEF Inv
<1> QED BY <1>3, <1>4, <1>5, <1>6 DEF Inv

LEMMA LinkInv == ASSUME Inv, Link PROVE Inv'
<1>0. PICK k, i, h, prev :
          k = inserting.key /\ i = inserting.level /\ h = inserting.height
          /\ prev = inserting.prev
      OBVIOUS
<1> DEFINE p == prev[i]
<1>1. /\ k \in ListKeys /\ h \in Heights /\ i \in 1 .. h
      /\ \A j \in 1 .. i - 1 : k \in On(j)
      /\ \A j \in i .. h : Position(k, prev[j], j)
      BY <1>0 DEF Inv, InsertionPoint, Link
<1>2. LinkAt(k, p, i) /\ UNCHANGED <<max_height, reads, node>>
      BY <1>0 DEF Link, Level, LinkAt
<1>3. i \in Heights /\ i \in Nat /\ h \in Nat /\ 1 <= i /\ i <= h
      BY <1>1, kMaxHeightAssumption DEF Heights
<1>4. Position(k, p, i)
      BY <1>1, <1>3
<1>5. inserting' = IF i = h THEN Idle ELSE [inserting EXCEPT !.level = i + 1]
      BY <1>0 DEF Link
<1> HIDE DEF p
<1>6. /\ next' \in [Nodes -> [Heights -> ListKeys \union {Null}]]
      /\ On(i)' = On(i) \union {k}
      /\ \A j \in Heights : j # i => On(j)' = On(j)
      /\ \A x \in Nodes : \A j \in Heights : j # i => next'[x][j] = next[x][j]
      BY <1>1, <1>2, <1>3, <1>4, LinkOn DEF Inv
<1>7. WellLinked'
      BY <1>1, <1>2, <1>3, <1>4, LinkWellLinked DEF Inv
<1>8. Type'
      BY <1>2, <1>6 DEF Inv, Type
<1>9. SearchPoint' /\ SearchMissesNothing'
  <2>1. \A j \in Heights : On(j) \subseteq On(j)'
        BY <1>6
  <2> QED BY <1>2, <2>1, SearchesKept DEF Inv
<1>10. InsertionPoint'
  <2>1. CASE i = h
        BY <1>5, <2>1 DEF InsertionPoint, Idle
  <2>2. CASE i # h
    <3>1. /\ inserting'.key = k /\ inserting'.height = h /\ inserting'.level = i + 1
          /\ inserting'.prev = prev
          BY <1>0, <1>5, <2>2
    <3>2. i + 1 \in 1 .. h
          BY <1>3, <2>2
    <3>3. ASSUME NEW j \in 1 .. i PROVE k \in On(j)'
      <4>1. j \in Heights
            BY <1>1, <1>3, kMaxHeightAssumption DEF Heights
      <4>2. j = i \/ j \in 1 .. i - 1
            BY <1>3
      <4> QED BY <1>1, <1>3, <1>6, <4>1, <4>2
    <3>4. ASSUME NEW j \in i + 1 .. h PROVE Position(k, prev[j], j)'
      <4>1. j \in Heights /\ j # i /\ j \in i .. h
            BY <1>1, <1>3, kMaxHeightAssumption DEF Heights
      <4>2. Position(k, prev[j], j) /\ prev[j] \in Nodes
            BY <1>1, <4>1, OnNodes DEF Position
      <4> QED BY <1>6, <4>1, <4>2 DEF Position
    <3> QED BY <1>1, <1>3, <3>1, <3>2, <3>3, <3>4 DEF InsertionPoint
  <2> QED BY <2>1, <2>2
<1> QED BY <1>7, <1>8, <1>9, <1>10 DEF Inv

\* What one reader's step leaves alone.
ReaderKeeps == UNCHANGED <<next, max_height, inserting>>

LEMMA ListKept ==
    ASSUME Inv, ReaderKeeps
    PROVE  (\A i \in Heights : On(i)' = On(i)) /\ WellLinked' /\ InsertionPoint'
<1>1. (\A i \in Heights : On(i)' = On(i)) /\ WellLinked'
      BY SameList DEF Inv, ReaderKeeps
<1>2. InsertionPoint'
  <2> SUFFICES ASSUME inserting # Idle PROVE InsertionPoint'
      BY DEF InsertionPoint, ReaderKeeps
  <2>1. /\ inserting.height \in Heights /\ inserting.level \in 1 .. inserting.height
        /\ \A i \in 1 .. inserting.height : i \in Heights
        BY kMaxHeightAssumption DEF Inv, InsertionPoint, Heights
  <2>2. /\ \A i \in 1 .. inserting.level - 1 : i \in Heights
        /\ \A i \in inserting.level .. inserting.height : i \in Heights
        BY <2>1, kMaxHeightAssumption DEF Heights
  <2> QED BY <1>1, <2>2 DEF Inv, InsertionPoint, Position, ReaderKeeps
<1> QED BY <1>1, <1>2

\* The other readers stay where they are.
LEMMA OthersSearch ==
    ASSUME SearchPoint, NEW q \in Readers, reads'[q] = reads[q],
           \A i \in Heights : On(i)' = On(i)
    PROVE  SearchAt(reads[q])'
BY HeightsFacts DEF SearchPoint, SearchAt

\* A search begins.
LEMMA StartSearchInv ==
    ASSUME Inv, NEW r \in Readers, NEW o \in {"Seek", "SeekToLast", "Prev"},
           NEW k \in ListKeys \union {Null}, StartSearch(r, o, k)
    PROVE  Inv'
<1>1. ReaderKeeps /\ UNCHANGED node
      BY DEF StartSearch, ReaderKeeps
<1>2. PICK h \in 1 .. max_height :
          reads' = [reads EXCEPT ![r] = [busy |-> TRUE, op |-> o, key |-> k,
                                         x |-> Head_, level |-> h, before |-> Linked]]
      BY DEF StartSearch
<1>3. (\A i \in Heights : On(i)' = On(i)) /\ WellLinked' /\ InsertionPoint'
      BY <1>1, ListKept
<1>4. h \in Heights
      BY kMaxHeightAssumption DEF Inv, Type, Heights
<1>5. Linked \subseteq ListKeys /\ Linked \subseteq On(1)
      BY DEF Linked, On, Nodes
<1>6. Head_ \in On(h)' /\ Head_ < k
      BY <1>4, Order DEF On, Nodes, Head_
<1>7. /\ reads'[r] = [busy |-> TRUE, op |-> o, key |-> k, x |-> Head_, level |-> h,
                      before |-> Linked]
      /\ \A q \in Readers : q # r => reads'[q] = reads[q]
      BY <1>2 DEF Inv, Type
<1>8. Type'
  <2>1. [busy |-> TRUE, op |-> o, key |-> k, x |-> Head_, level |-> h, before |-> Linked]
            \in [busy: BOOLEAN, op: Ops, key: ListKeys \union {Null},
                 x: Nodes, level: Nat, before: SUBSET ListKeys]
        BY <1>4, <1>5, Order, HeightsFacts DEF Ops
  <2> QED BY <1>1, <1>2, <2>1 DEF Inv, Type, ReaderKeeps
<1>9. SearchPoint'
  <2>1. SearchAt(reads[r])'
        BY <1>3, <1>4, <1>5, <1>6, <1>7, HeightsFacts DEF SearchAt
  <2>2. ASSUME NEW q \in Readers, q # r PROVE SearchAt(reads[q])'
        BY <1>3, <1>7, <2>2, OthersSearch DEF Inv
  <2> QED BY <2>1, <2>2 DEF SearchPoint
<1>10. SearchMissesNothing'
  <2> SUFFICES ASSUME NEW q \in Readers, q # r PROVE reads'[q] = reads[q] /\ node'[q] = node[q]
      BY <1>7 DEF SearchMissesNothing, Inv
  <2> QED BY <1>1, <1>7
<1> QED BY <1>3, <1>8, <1>9, <1>10 DEF Inv

\* What SearchMissesNothing says of one search s that ended at n.
Missed(s, n) ==
    LET at == IF n = Null THEN Head_ ELSE n
    IN  ~s.busy =>
          /\ s.op = "Seek" => n >= s.key /\ \A k \in s.before : ~(s.key <= k /\ k < n)
          /\ s.op \in {"Prev", "SeekToLast"} =>
                at < s.key /\ \A k \in s.before : ~(at < k /\ k < s.key)

LEMMA MissedDef == SearchMissesNothing <=> \A r \in Readers : Missed(reads[r], node[r])
BY DEF SearchMissesNothing, Missed

LEMMA MissedDefPrime ==
    SearchMissesNothing' <=> \A r \in Readers : Missed(reads'[r], node'[r])
BY DEF SearchMissesNothing, Missed

\* One turn of a search's loop: to the right, down, or to the end.
LEMMA SearchStepInv == ASSUME Inv, NEW r \in Readers, SearchStep(r) PROVE Inv'
<1>0. PICK s, after : s = reads[r] /\ after = next[s.x][s.level]
      OBVIOUS
<1>1. ReaderKeeps
      BY DEF SearchStep, ReaderKeeps
<1>2. (\A i \in Heights : On(i)' = On(i)) /\ WellLinked' /\ InsertionPoint'
      BY <1>1, ListKept
<1>3. /\ s \in [busy: BOOLEAN, op: Ops, key: ListKeys \union {Null},
                x: Nodes, level: Nat, before: SUBSET ListKeys]
      /\ s.busy /\ s.op # "none" /\ s.level \in Heights /\ s.x \in On(s.level)
      /\ s.x < s.key /\ s.before \subseteq On(1)
      BY <1>0 DEF Inv, Type, SearchPoint, SearchAt, SearchStep
<1>4. /\ after \in ListKeys \union {Null} /\ after \in Nat /\ s.x \in Nat
      /\ s.x < after
      /\ after # Null => after \in Nodes /\ after \in On(s.level)
      BY <1>0, <1>3, NextType DEF Inv, WellLinked
<1>5. s.key \in Nat /\ s.key <= Null /\ Null \in Nat
      BY <1>3, Order DEF Nodes
<1>6. CASE after < s.key /\ reads' = [reads EXCEPT ![r].x = after] /\ UNCHANGED node
  <2>1. after # Null
        BY <1>4, <1>5, <1>6
  <2>2. /\ reads'[r] = [s EXCEPT !.x = after]
        /\ \A q \in Readers : q # r => reads'[q] = reads[q]
        BY <1>0, <1>6 DEF Inv, Type
  <2>3. Type'
        BY <1>1, <1>4, <1>6, <2>1 DEF Inv, Type, ReaderKeeps
  <2>4. SearchAt(reads[r])'
        BY <1>2, <1>3, <1>4, <1>6, <2>1, <2>2, HeightsFacts DEF SearchAt
  <2>5. SearchPoint'
        BY <1>2, <2>2, <2>4, OthersSearch DEF Inv, SearchPoint
  <2>6. Missed(reads'[r], node'[r])
        BY <1>3, <2>2 DEF Missed
  <2>7. SearchMissesNothing'
        BY <1>6, <2>2, <2>6, MissedDef, MissedDefPrime DEF Inv
  <2> QED BY <1>2, <2>3, <2>5, <2>7 DEF Inv
<1>7. CASE /\ after >= s.key /\ s.level > 1
           /\ reads' = [reads EXCEPT ![r].level = s.level - 1] /\ UNCHANGED node
  <2>1. s.level - 1 \in Heights /\ s.level \in Nat /\ s.level - 1 <= s.level
        BY <1>3, <1>7, kMaxHeightAssumption DEF Heights
  <2>2. /\ reads'[r] = [s EXCEPT !.level = s.level - 1]
        /\ \A q \in Readers : q # r => reads'[q] = reads[q]
        BY <1>0, <1>7 DEF Inv, Type
  <2>3. Type'
    <3>1. s.level - 1 \in Nat
          BY <2>1, HeightsFacts
    <3> QED BY <1>1, <1>7, <3>1 DEF Inv, Type, ReaderKeeps
  <2>4. s.x \in On(s.level - 1)
        BY <1>3, <2>1 DEF Inv, WellLinked
  <2>5. SearchAt(reads[r])'
        BY <1>2, <1>3, <2>1, <2>2, <2>4, HeightsFacts DEF SearchAt
  <2>6. SearchPoint'
        BY <1>2, <2>2, <2>5, OthersSearch DEF Inv, SearchPoint
  <2>7. Missed(reads'[r], node'[r])
        BY <1>3, <2>2 DEF Missed
  <2>8. SearchMissesNothing'
        BY <1>7, <2>2, <2>7, MissedDef, MissedDefPrime DEF Inv
  <2> QED BY <1>2, <2>3, <2>6, <2>8 DEF Inv
<1>8. CASE /\ after >= s.key /\ s.level = 1
           /\ node' = [node EXCEPT ![r] = Found(r, after)]
           /\ reads' = [reads EXCEPT ![r].busy = FALSE]
  <2>1. /\ reads'[r] = [s EXCEPT !.busy = FALSE]
        /\ \A q \in Readers : q # r => reads'[q] = reads[q]
        BY <1>0, <1>8 DEF Inv, Type
  <2>2. Found(r, after) = IF s.op = "Seek" THEN after
                          ELSE IF s.x = Head_ THEN Null ELSE s.x
        BY <1>0 DEF Found
  <2>3. Found(r, after) \in ListKeys \union {Null}
        BY <1>3, <1>4, <2>2 DEF Nodes
  <2>4. /\ node'[r] = Found(r, after)
        /\ \A q \in Readers : q # r => node'[q] = node[q]
        BY <1>8 DEF Inv, Type
  <2>5. Type'
        BY <1>1, <1>8, <2>3 DEF Inv, Type, ReaderKeeps
  <2>6. SearchAt(reads[r])'
        BY <1>3, <2>1 DEF SearchAt
  <2>7. SearchPoint'
        BY <1>2, <2>1, <2>6, OthersSearch DEF Inv, SearchPoint
  <2>8. ASSUME NEW k \in s.before PROVE ~(s.x < k /\ k < after)
    <3> SUFFICES ASSUME s.x < k PROVE after <= k /\ k \in Nat
        BY <1>4
    <3>1. k \in On(1) /\ k \in Nat
          BY <1>3, Order DEF Nodes
    <3>2. after <= k
          BY <1>0, <1>3, <1>8, <3>1, HeightsFacts DEF Inv, WellLinked
    <3> QED BY <3>1, <3>2
  <2>9. \A k \in s.before : k \in Nat
        BY <1>3, Order DEF Nodes
  <2>10. Missed(reads'[r], node'[r])
    <3>1. CASE s.op = "Seek"
      <4>1. node'[r] = after /\ ~reads'[r].busy /\ reads'[r].op = "Seek"
            /\ reads'[r].key = s.key /\ reads'[r].before = s.before
            BY <1>3, <2>1, <2>2, <2>4, <3>1
      <4>2. \A k \in s.before : ~(s.key <= k /\ k < after)
            BY <1>3, <1>4, <1>5, <2>8, <2>9
      <4> QED BY <1>8, <4>1, <4>2 DEF Missed
    <3>2. CASE s.op # "Seek"
      <4>1. node'[r] = (IF s.x = Head_ THEN Null ELSE s.x) /\ reads'[r].op # "Seek"
            /\ reads'[r].key = s.key /\ reads'[r].before = s.before
            BY <1>3, <2>1, <2>2, <2>4, <3>2
      <4>2. s.x = IF node'[r] = Null THEN Head_ ELSE node'[r]
            BY <1>3, <4>1, Order
      <4>3. \A k \in s.before : ~(s.x < k /\ k < s.key)
            BY <1>3, <1>4, <1>5, <1>8, <2>8, <2>9
      <4> QED BY <1>3, <4>1, <4>2, <4>3 DEF Missed
    <3> QED BY <3>1, <3>2
  <2>11. SearchMissesNothing'
        BY <2>1, <2>4, <2>10, MissedDef, MissedDefPrime DEF Inv
  <2> QED BY <1>2, <2>5, <2>7, <2>11 DEF Inv
<1> QED BY <1>0, <1>6, <1>7, <1>8 DEF SearchStep

\* Next and SeekToFirst forget the last search.
LEMMA StepForwardInv ==
    ASSUME Inv, NEW r \in Readers, NEW x \in Nodes, StepForward(r, x) PROVE Inv'
<1>1. ReaderKeeps
      BY DEF StepForward, ReaderKeeps
<1>2. (\A i \in Heights : On(i)' = On(i)) /\ WellLinked' /\ InsertionPoint'
      BY <1>1, ListKept
<1>3. /\ reads' = [reads EXCEPT ![r] = NoRead]
      /\ node' = [node EXCEPT ![r] = next[x][1]]
      BY DEF StepForward
<1>4. next[x][1] \in ListKeys \union {Null}
      BY NextType, HeightsFacts DEF Inv
<1>5. /\ reads'[r] = NoRead
      /\ \A q \in Readers : q # r => reads'[q] = reads[q] /\ node'[q] = node[q]
      BY <1>3 DEF Inv, Type
<1>6. Type'
  <2>1. NoRead \in [busy: BOOLEAN, op: Ops, key: ListKeys \union {Null},
                    x: Nodes, level: Nat, before: SUBSET ListKeys]
        BY Order DEF NoRead, Ops
  <2> QED BY <1>1, <1>3, <1>4, <2>1 DEF Inv, Type, ReaderKeeps
<1>7. SearchAt(reads[r])'
      BY <1>5 DEF SearchAt, NoRead
<1>8. SearchPoint'
      BY <1>2, <1>5, <1>7, OthersSearch DEF Inv, SearchPoint
<1>9. Missed(reads'[r], node'[r])
      BY <1>5 DEF Missed, NoRead
<1>10. SearchMissesNothing'
      BY <1>5, <1>9, MissedDef, MissedDefPrime DEF Inv
<1> QED BY <1>2, <1>6, <1>8, <1>10 DEF Inv

LEMMA InitInv == ASSUME SkipInit PROVE Inv
<1>1. Null \in ListKeys \union {Null}
      OBVIOUS
<1>2. NoRead \in [busy: BOOLEAN, op: Ops, key: ListKeys \union {Null},
                  x: Nodes, level: Nat, before: SUBSET ListKeys]
      BY Order DEF NoRead, Ops
<1>3. Type
      BY <1>1, <1>2, HeightsFacts DEF SkipInit, Type
<1>4. \A i \in Heights : On(i) = {Head_}
      BY Order DEF SkipInit, On
<1>5. WellLinked
  <2>1. \A i \in Heights : \A x \in Nodes : next[x][i] = Null /\ x < next[x][i]
        BY Order DEF SkipInit
  <2>2. \A x, y \in {Head_} : ~(x < y)
        BY DEF Head_
  <2> QED BY <1>4, <2>1, <2>2 DEF WellLinked
<1>6. InsertionPoint
      BY DEF InsertionPoint, SkipInit
<1>7. \A r \in Readers : reads[r] = NoRead
      BY DEF SkipInit
<1>8. SearchPoint
      BY <1>7 DEF SearchPoint, SearchAt, NoRead
<1>9. SearchMissesNothing
      BY <1>7, MissedDef DEF Missed, NoRead
<1> QED BY <1>3, <1>5, <1>6, <1>8, <1>9 DEF Inv

LEMMA NextInv == ASSUME Inv, [SkipNext]_skipVars PROVE Inv'
<1>1. CASE UNCHANGED skipVars
  <2>1. UNCHANGED <<reads, node>> /\ ReaderKeeps
        BY <1>1 DEF skipVars, ReaderKeeps
  <2>2. (\A i \in Heights : On(i)' = On(i)) /\ WellLinked' /\ InsertionPoint'
        BY <2>1, ListKept
  <2>3. SearchPoint' /\ SearchMissesNothing'
        BY <2>1, <2>2, SearchesKept DEF Inv
  <2>4. Type'
        BY <2>1 DEF Inv, Type, ReaderKeeps
  <2> QED BY <2>2, <2>3, <2>4 DEF Inv
<1>2. CASE SkipNext
      BY <1>2, InsertInv, LinkInv, StartSearchInv, SearchStepInv, StepForwardInv
         DEF SkipNext
<1> QED BY <1>1, <1>2

(***************************************************************************)
(* The list stays sorted, gapless and nested at every level while a node   *)
(* is linked, and every search stays inside it (SkipList::Insert,          *)
(* FindGreaterOrEqual, FindLessThan, FindLast).                            *)
(***************************************************************************)
THEOREM SkipListInv == SkipSpec => []Inv
<1>1. SkipInit => Inv
      BY InitInv
<1>2. Inv /\ [SkipNext]_skipVars => Inv'
      BY NextInv
<1> QED BY <1>1, <1>2, PTL DEF SkipSpec

(***************************************************************************)
(* With any number of keys, levels and readers, a search that runs without *)
(* a lock beside the writer misses no key that was there when it began.    *)
(***************************************************************************)
THEOREM SkipListSearches == SkipSpec => []SearchMissesNothing
<1>1. Inv => SearchMissesNothing
      BY DEF Inv
<1> QED BY <1>1, SkipListInv, PTL

-----------------------------------------------------------------------------
(* Lists without repetition, as lru_ is.                                   *)

\* LRU_Remove's list.
Unlink(s, h) ==
    IF \E i \in DOMAIN s : s[i] = h
    THEN RemoveAt(s, CHOOSE i \in DOMAIN s : s[i] = h) ELSE s

\* An element at the end.
LEMMA AppendList ==
    ASSUME NEW S, NEW s \in Seq(S), NEW h \in S, IsInjective(s), h \notin Range(s)
    PROVE  /\ Append(s, h) \in Seq(S) /\ IsInjective(Append(s, h))
           /\ Range(Append(s, h)) = Range(s) \cup {h}
<1>1. PICK n \in Nat : n = Len(s) /\ DOMAIN s = 1 .. n
      OBVIOUS
<1>t. PICK t : t = Append(s, h)
      OBVIOUS
<1>2. /\ t \in Seq(S) /\ t = Append(s, h) /\ DOMAIN t = 1 .. n + 1 /\ t[n + 1] = h
      /\ \A i \in 1 .. n : t[i] = s[i]
      BY <1>1, <1>t
<1>3. \A i \in DOMAIN t : i \in DOMAIN s \/ i = n + 1
      BY <1>1, <1>2
<1>4. n + 1 \in DOMAIN t /\ DOMAIN s \subseteq DOMAIN t
      BY <1>1, <1>2
<1>5. \A i \in DOMAIN s : t[i] = s[i] /\ s[i] # h
      BY <1>1, <1>2 DEF Range
<1>6. IsInjective(t)
      BY <1>2, <1>3, <1>5 DEF IsInjective
<1>7. Range(t) = Range(s) \cup {h}
      BY <1>2, <1>3, <1>4, <1>5 DEF Range
<1> QED BY <1>2, <1>6, <1>7

\* An element is taken out.
LEMMA RemoveList ==
    ASSUME NEW S, NEW s \in Seq(S), NEW i \in DOMAIN s, IsInjective(s)
    PROVE  /\ RemoveAt(s, i) \in Seq(S) /\ IsInjective(RemoveAt(s, i))
           /\ Range(RemoveAt(s, i)) = Range(s) \ {s[i]}
<1>a. PICK n \in Nat : n = Len(s) /\ DOMAIN s = 1 .. n /\ i \in 1 .. n
      OBVIOUS
<1>b. PICK a : a = SubSeq(s, 1, i - 1)
      OBVIOUS
<1>c. PICK b : b = SubSeq(s, i + 1, Len(s))
      OBVIOUS
<1>1. a \in Seq(S) /\ Len(a) = i - 1 /\ \A j \in 1 .. i - 1 : a[j] = s[j]
      BY <1>b
<1>2. b \in Seq(S) /\ Len(b) = n - i /\ \A j \in 1 .. n - i : b[j] = s[i + j]
      BY <1>a, <1>c
<1>d. PICK t : t = a \o b
      OBVIOUS
<1>3. t = RemoveAt(s, i) /\ t \in Seq(S)
  <2>1. a \o b \in Seq(S)
        BY <1>1, <1>2
  <2> QED BY <1>b, <1>c, <1>d, <2>1 DEF RemoveAt
<1>e. /\ DOMAIN t = 1 .. n - 1
      /\ \A j \in 1 .. i - 1 : t[j] = a[j]
      /\ \A j \in 1 .. n - i : t[(i - 1) + j] = b[j]
  <2>1. PICK x \in Nat : x = i - 1 /\ Len(a) = x
        BY <1>a, <1>1
  <2>2. PICK y \in Nat : y = n - i /\ Len(b) = y
        BY <1>a, <1>2
  <2>3. x + y = n - 1
        BY <1>a, <2>1, <2>2
  <2>4. /\ DOMAIN t = 1 .. x + y
        /\ \A j \in 1 .. x : t[j] = a[j]
        /\ \A j \in 1 .. y : t[x + j] = b[j]
    <3>1. a \in Seq(S) /\ b \in Seq(S)
          BY <1>1, <1>2
    <3>2. DOMAIN t = 1 .. x + y /\ \A j \in 1 .. x : t[j] = a[j]
          BY <1>d, <2>1, <2>2, <3>1
    <3>3. \A j \in 1 .. y : t[x + j] = b[j]
          BY <1>d, <2>1, <2>2, <3>1
    <3> QED BY <3>2, <3>3
  <2> QED BY <2>1, <2>2, <2>3, <2>4
<1>4. n \in Nat /\ i \in Nat /\ 1 <= i /\ i <= n /\ DOMAIN s = 1 .. n /\ DOMAIN t = 1 .. n - 1
      BY <1>a, <1>e
<1>5. \A j \in 1 .. i - 1 : t[j] = s[j]
      BY <1>1, <1>e
<1>6. \A j \in 1 .. n - i : t[(i - 1) + j] = s[i + j]
      BY <1>2, <1>e
<1>7. ASSUME NEW j \in DOMAIN t
      PROVE  \E x \in DOMAIN s : x # i /\ t[j] = s[x] /\ ((j < i /\ x = j) \/ (j >= i /\ x = j + 1))
  <2>0. j \in Nat /\ 1 <= j /\ j <= n - 1
    <3>1. j \in 1 .. n - 1
          BY <1>4, <1>7
    <3> QED BY <1>4, <3>1
  <2>1. CASE j < i
    <3>1. j \in 1 .. i - 1 /\ j \in DOMAIN s /\ j # i
          BY <1>4, <2>0, <2>1
    <3> QED BY <1>5, <2>1, <3>1
  <2>2. CASE j >= i
    <3>1. PICK x \in Nat : x = (j + 1) - i
          BY <1>4, <2>0, <2>2
    <3>2. x \in 1 .. n - i /\ j = (i - 1) + x /\ j + 1 = i + x
          BY <1>4, <2>0, <2>2, <3>1
    <3>3. t[j] = s[j + 1]
          BY <1>6, <3>2
    <3>4. j + 1 \in DOMAIN s /\ j + 1 # i
          BY <1>4, <2>0, <2>2
    <3> QED BY <2>2, <3>3, <3>4
  <2> QED BY <1>4, <2>0, <2>1, <2>2
<1>8. ASSUME NEW x \in DOMAIN s, x # i PROVE \E j \in DOMAIN t : t[j] = s[x]
  <2>0. x \in Nat /\ 1 <= x /\ x <= n
    <3>1. x \in 1 .. n
          BY <1>4, <1>8
    <3> QED BY <1>4, <3>1
  <2>1. CASE x < i
    <3>1. x \in 1 .. i - 1 /\ x \in DOMAIN t
          BY <1>4, <2>0, <2>1
    <3> QED BY <1>5, <3>1
  <2>2. CASE x > i
    <3>1. PICK j \in Nat : j = x - i
          BY <1>4, <2>0, <2>2
    <3>2. j \in 1 .. n - i /\ x = i + j
          BY <1>4, <2>0, <2>2, <3>1
    <3>3. (i - 1) + j \in 1 .. n - 1
          BY <1>4, <2>0, <2>2, <3>1
    <3> QED BY <1>4, <1>6, <3>2, <3>3
  <2> QED BY <1>4, <1>8, <2>0, <2>1, <2>2
<1>9. IsInjective(t)
  <2> SUFFICES ASSUME NEW j \in DOMAIN t, NEW k \in DOMAIN t, t[j] = t[k] PROVE j = k
      BY DEF IsInjective
  <2>0. j \in Nat /\ k \in Nat
    <3>1. j \in 1 .. n - 1 /\ k \in 1 .. n - 1
          BY <1>4
    <3> QED BY <1>4, <3>1
  <2>1. PICK x \in DOMAIN s : t[j] = s[x] /\ ((j < i /\ x = j) \/ (j >= i /\ x = j + 1))
        BY <1>7
  <2>2. PICK y \in DOMAIN s : t[k] = s[y] /\ ((k < i /\ y = k) \/ (k >= i /\ y = k + 1))
        BY <1>7
  <2>3. x = y
        BY <2>1, <2>2 DEF IsInjective
  <2> QED BY <1>4, <2>0, <2>1, <2>2, <2>3
<1>10. Range(t) = Range(s) \ {s[i]}
  <2>1. \A j \in DOMAIN t : t[j] \in Range(s) \ {s[i]}
        BY <1>7 DEF IsInjective, Range
  <2>2. \A x \in DOMAIN s : s[x] # s[i] => s[x] \in Range(t)
        BY <1>8 DEF Range
  <2> QED BY <2>1, <2>2 DEF Range
<1> QED BY <1>3, <1>9, <1>10

\* The entry is in the list no more, wherever it was.
LEMMA UnlinkList ==
    ASSUME NEW S, NEW s \in Seq(S), NEW h, IsInjective(s)
    PROVE  /\ Unlink(s, h) \in Seq(S) /\ IsInjective(Unlink(s, h))
           /\ Range(Unlink(s, h)) = Range(s) \ {h}
<1>1. CASE \E i \in DOMAIN s : s[i] = h
  <2>1. PICK i \in DOMAIN s : i = (CHOOSE x \in DOMAIN s : s[x] = h) /\ s[i] = h
        BY <1>1
  <2>2. Unlink(s, h) = RemoveAt(s, i)
        BY <1>1, <2>1 DEF Unlink
  <2> QED BY <2>1, <2>2, RemoveList
<1>2. CASE ~\E i \in DOMAIN s : s[i] = h
      BY <1>2 DEF Unlink, Range
<1> QED BY <1>1, <1>2

\* How many numbers there are up to n.
LEMMA Counting == \A n \in Nat : IsFiniteSet(1 .. n) /\ Cardinality(1 .. n) = n
<1> SUFFICES ASSUME NEW n \in Nat PROVE IsFiniteSet(1 .. n) /\ Cardinality(1 .. n) = n
    OBVIOUS
<1>1. 1 \in Int /\ n \in Int
      OBVIOUS
<1>2. IsFiniteSet(1 .. n) /\ Cardinality(1 .. n) = IF 1 > n THEN 0 ELSE n - 1 + 1
      BY <1>1, FS_Interval
<1> QED BY <1>2

\* The n first elements of list s are H, those after them r.
Oldest(s, n, r, H) ==
    /\ n \in 0 .. Len(s) /\ H = {s[i] : i \in 1 .. n}
    /\ r = SubSeq(s, n + 1, Len(s))
Rest(s, n, r, H) ==
    /\ IsInjective(r) /\ Range(r) = Range(s) \ H /\ H \subseteq Range(s)
    /\ IsFiniteSet(H) /\ Cardinality(H) = n
    /\ n = Len(s) => Range(r) = {}

\* The n oldest entries leave.
LEMMA RestList ==
    ASSUME NEW S, NEW s \in Seq(S), IsInjective(s), NEW n, NEW r, NEW H, Oldest(s, n, r, H)
    PROVE  r \in Seq(S) /\ Rest(s, n, r, H)
<1>0. H = {s[i] : i \in 1 .. n}
      BY DEF Oldest
<1>s. n \in 0 .. Len(s) /\ r = SubSeq(s, n + 1, Len(s))
      BY DEF Oldest
<1>1. PICK m \in Nat : /\ m = Len(s) /\ DOMAIN s = 1 .. m
                       /\ n \in Nat /\ n <= m /\ 1 .. n \subseteq 1 .. m
      BY <1>s
<1>2. /\ r \in Seq(S) /\ Len(r) = m - n /\ DOMAIN r = 1 .. m - n
      /\ \A j \in 1 .. m - n : r[j] = s[n + j]
      BY <1>1, <1>s
<1>3. \A j \in DOMAIN r : n + j \in DOMAIN s /\ n + j \notin 1 .. n /\ j \in Nat
      BY <1>1, <1>2
<1>4. IsInjective(r)
  <2> SUFFICES ASSUME NEW j \in DOMAIN r, NEW k \in DOMAIN r, r[j] = r[k] PROVE j = k
      BY DEF IsInjective
  <2>1. s[n + j] = s[n + k] /\ n + j \in DOMAIN s /\ n + k \in DOMAIN s
        BY <1>2, <1>3
  <2>2. n + j = n + k
        BY <2>1 DEF IsInjective
  <2> QED BY <1>1, <1>3, <2>2
<1>5. H \subseteq Range(s)
      BY <1>0, <1>1 DEF Range
<1>6. Range(r) \subseteq Range(s) \ H
  <2> SUFFICES ASSUME NEW j \in DOMAIN r PROVE r[j] \in Range(s) \ H
      BY DEF Range
  <2>1. r[j] = s[n + j] /\ n + j \in DOMAIN s /\ n + j \notin 1 .. n
        BY <1>2, <1>3
  <2>2. \A i \in 1 .. n : s[i] # s[n + j]
        BY <1>1, <2>1 DEF IsInjective
  <2> QED BY <1>0, <2>1, <2>2 DEF Range
<1>7. Range(s) \ H \subseteq Range(r)
  <2> SUFFICES ASSUME NEW x \in DOMAIN s, s[x] \notin H PROVE s[x] \in Range(r)
      BY DEF Range
  <2>1. x \in 1 .. m /\ x \notin 1 .. n
        BY <1>0, <1>1
  <2>2. PICK j \in Nat : j = x - n
        BY <1>1, <2>1
  <2>3. j \in DOMAIN r /\ n + j = x
        BY <1>1, <1>2, <2>1, <2>2
  <2> QED BY <1>2, <2>3 DEF Range
<1>8. IsFiniteSet(H) /\ Cardinality(H) = n
  <2>1. PICK g : g = [i \in 1 .. n |-> s[i]]
        OBVIOUS
  <2>2. g \in Surjection(1 .. n, H)
        BY <1>0, <2>1 DEF Surjection
  <2>3. g \in Injection(1 .. n, H)
        BY <1>0, <1>1, <2>1 DEF Injection, IsInjective
  <2>4. IsFiniteSet(1 .. n) /\ Cardinality(1 .. n) = n
        BY <1>1, Counting
  <2> QED BY <2>2, <2>3, <2>4, FS_Surjection
<1>9. n = m => DOMAIN r = {}
      BY <1>1, <1>2
<1> QED BY <1>1, <1>2, <1>4, <1>5, <1>6, <1>7, <1>8, <1>9 DEF Range, Rest

-----------------------------------------------------------------------------
(* The table cache: what is kept between the calls.                        *)

Entry == [file: Files, refs: Nat, in_cache: BOOLEAN, open: BOOLEAN]

CacheType == [lru: Seq(Nat), in_use: SUBSET Nat, table: [Files -> Nat],
              usage: Int, entry: Seq(Entry)]

Call == [at: {"idle", "opening", "using"}, file: Files \cup {0}, handle: Nat]

\* The users of handle h, and the entries that are in the cache.
Held(U, h) == {t \in Threads : U[t].at = "using" /\ U[t].handle = h}
Cached(c) == {h \in DOMAIN c.entry : c.entry[h].in_cache}

\* The references to an entry are its users' and the cache's.
RefsOK(c, U) ==
    \A h \in DOMAIN c.entry :
        /\ c.entry[h].refs =
              Cardinality(Held(U, h)) + (IF c.entry[h].in_cache THEN 1 ELSE 0)
        /\ c.entry[h].open <=> c.entry[h].refs # 0

\* The table has the entries that are in the cache, none of a deleted file.
TableOK(c, O) ==
    /\ \A f \in Files : c.table[f] # NoHandle =>
           c.table[f] \in DOMAIN c.entry /\ c.entry[c.table[f]].file = f
    /\ \A h \in DOMAIN c.entry :
           /\ c.entry[h].in_cache <=> c.table[c.entry[h].file] = h
           /\ c.entry[h].in_cache => c.entry[h].file \notin O

\* The list has the cached entries that nobody uses, each once.
ListOK(c, U) ==
    IsInjective(c.lru) /\ Range(c.lru) = {h \in Cached(c) : Held(U, h) = {}}

CacheOK(c, U, O) ==
    /\ c \in CacheType /\ RefsOK(c, U) /\ TableOK(c, O) /\ ListOK(c, U)
    /\ c.usage = Cardinality(Cached(c))

\* The entries of a cache.
LEMMA EntryType ==
    ASSUME NEW c \in CacheType
    PROVE  /\ c.lru \in Seq(Nat) /\ c.entry \in Seq(Entry)
           /\ c.table \in [Files -> Nat] /\ c.usage \in Int
           /\ Len(c.entry) \in Nat /\ DOMAIN c.entry = 1 .. Len(c.entry)
           /\ \A h \in DOMAIN c.entry :
                 /\ h \in Nat /\ h # NoHandle
                 /\ c.entry[h] \in Entry /\ c.entry[h].refs \in Nat
                 /\ c.entry[h].file \in Files /\ c.entry[h].in_cache \in BOOLEAN
<1>1. /\ c.lru \in Seq(Nat) /\ c.entry \in Seq(Entry)
      /\ c.table \in [Files -> Nat] /\ c.usage \in Int
      BY DEF CacheType
<1>2. PICK E \in Seq(Entry) : E = c.entry
      BY <1>1
<1>3. /\ Len(E) \in Nat /\ DOMAIN E = 1 .. Len(E)
      /\ \A h \in DOMAIN E : h \in Nat /\ h # 0 /\ E[h] \in Entry
      OBVIOUS
<1> QED BY <1>1, <1>2, <1>3 DEF Entry, NoHandle

\* Finitely many threads use a table.
LEMMA HeldFacts ==
    ASSUME NEW U, NEW h
    PROVE  /\ IsFiniteSet(Held(U, h)) /\ Cardinality(Held(U, h)) \in Nat
           /\ Cardinality(Held(U, h)) = 0 <=> Held(U, h) = {}
<1>1. Held(U, h) \in SUBSET Threads
      BY DEF Held
<1>2. IsFiniteSet(Held(U, h))
      BY <1>1, ThreadsAssumption, FS_Subset
<1> HIDE DEF Held
<1> QED BY <1>2, FS_CardinalityType, FS_EmptySet

\* Thread t begins to use h, or stops.
Grabs(U, V, h, t) ==
    /\ t \notin Held(U, h) /\ Held(V, h) = Held(U, h) \cup {t}
    /\ \A x : x # h => Held(V, x) = Held(U, x)

\* How the number of users changes.
LEMMA GrabsFacts ==
    ASSUME NEW U, NEW V, NEW h, NEW t, Grabs(U, V, h, t)
    PROVE  /\ Cardinality(Held(V, h)) = Cardinality(Held(U, h)) + 1
           /\ Held(V, h) # {}
<1>1. IsFiniteSet(Held(U, h))
      BY HeldFacts
<1> QED BY <1>1, FS_AddElement DEF Grabs

\* A thread that was idle or opened a table uses handle h.
LEMMA GrabsUsing ==
    ASSUME NEW U \in [Threads -> Call], NEW t \in Threads, NEW r \in Call,
           U[t].at # "using", r.at = "using"
    PROVE  Grabs(U, [U EXCEPT ![t] = r], r.handle, t)
<1>1. PICK V : V = [U EXCEPT ![t] = r]
      OBVIOUS
<1>2. V[t] = r /\ \A x \in Threads : x # t => V[x] = U[x]
      BY <1>1
<1> QED BY <1>1, <1>2 DEF Grabs, Held

\* A thread stops using its handle.
LEMMA GrabsReleased ==
    ASSUME NEW U \in [Threads -> Call], NEW t \in Threads, NEW r \in Call,
           U[t].at = "using", r.at # "using"
    PROVE  Grabs([U EXCEPT ![t] = r], U, U[t].handle, t)
<1>1. PICK V : V = [U EXCEPT ![t] = r]
      OBVIOUS
<1>2. V[t] = r /\ \A x \in Threads : x # t => V[x] = U[x]
      BY <1>1
<1> QED BY <1>1, <1>2 DEF Grabs, Held

\* Nobody's use changes.
LEMMA SameHeld ==
    ASSUME NEW U \in [Threads -> Call], NEW t \in Threads, NEW r \in Call,
           U[t].at # "using", r.at # "using"
    PROVE  \A h : Held([U EXCEPT ![t] = r], h) = Held(U, h)
<1>1. PICK V : V = [U EXCEPT ![t] = r]
      OBVIOUS
<1>2. V[t] = r /\ \A x \in Threads : x # t => V[x] = U[x]
      BY <1>1
<1> QED BY <1>1, <1>2 DEF Held

\* The fields after LRU_Remove.
LEMMA LRU_RemoveFields ==
    ASSUME NEW c \in CacheType, NEW h, IsInjective(c.lru)
    PROVE  /\ LRU_Remove(c, h) \in CacheType
           /\ LRU_Remove(c, h).lru = Unlink(c.lru, h)
           /\ LRU_Remove(c, h).table = c.table
           /\ LRU_Remove(c, h).usage = c.usage
           /\ LRU_Remove(c, h).entry = c.entry
<1>1. LRU_Remove(c, h) = [c EXCEPT !.lru = Unlink(c.lru, h), !.in_use = c.in_use \ {h}]
      BY DEF LRU_Remove, Unlink, CacheType
<1>2. Unlink(c.lru, h) \in Seq(Nat) /\ c.in_use \ {h} \in SUBSET Nat
      BY UnlinkList DEF CacheType
<1>3. PICK s \in Seq(Nat), u \in SUBSET Nat : s = Unlink(c.lru, h) /\ u = c.in_use \ {h}
      BY <1>2
<1>4. LRU_Remove(c, h) = [c EXCEPT !.lru = s, !.in_use = u]
      BY <1>1, <1>3
<1> QED BY <1>3, <1>4 DEF CacheType

\* The fields after Ref.
LEMMA RefFields ==
    ASSUME NEW c \in CacheType, NEW h \in DOMAIN c.entry, IsInjective(c.lru)
    PROVE  \E e \in Entry :
              /\ e.refs = c.entry[h].refs + 1 /\ e.file = c.entry[h].file
              /\ e.in_cache = c.entry[h].in_cache /\ e.open = c.entry[h].open
              /\ Ref(c, h) \in CacheType
              /\ Ref(c, h).entry = [c.entry EXCEPT ![h] = e]
              /\ Ref(c, h).table = c.table /\ Ref(c, h).usage = c.usage
              /\ Ref(c, h).lru = IF c.entry[h].refs = 1 /\ c.entry[h].in_cache
                                 THEN Unlink(c.lru, h) ELSE c.lru
<1>1. PICK d : d = IF c.entry[h].refs = 1 /\ c.entry[h].in_cache
                   THEN [LRU_Remove(c, h) EXCEPT !.in_use = @ \union {h}] ELSE c
      OBVIOUS
<1>2. Ref(c, h) = [d EXCEPT !.entry[h].refs = @ + 1]
      BY <1>1 DEF Ref
<1>3. /\ d \in CacheType /\ d.entry = c.entry /\ d.table = c.table /\ d.usage = c.usage
      /\ d.lru = IF c.entry[h].refs = 1 /\ c.entry[h].in_cache
                 THEN Unlink(c.lru, h) ELSE c.lru
  <2>1. CASE c.entry[h].refs = 1 /\ c.entry[h].in_cache
    <3>1. PICK a \in CacheType : a = LRU_Remove(c, h)
          BY LRU_RemoveFields
    <3>2. /\ a.lru = Unlink(c.lru, h) /\ a.table = c.table /\ a.usage = c.usage
          /\ a.entry = c.entry
          BY <3>1, LRU_RemoveFields
    <3>3. d = [a EXCEPT !.in_use = @ \union {h}] /\ h \in Nat
          BY <1>1, <2>1, <3>1, EntryType
    <3> QED BY <2>1, <3>2, <3>3 DEF CacheType
  <2>2. CASE ~(c.entry[h].refs = 1 /\ c.entry[h].in_cache)
        BY <1>1, <2>2
  <2> QED BY <2>1, <2>2
<1>4. PICK e : e = [c.entry[h] EXCEPT !.refs = @ + 1]
      OBVIOUS
<1>5. /\ e \in Entry /\ e.refs = c.entry[h].refs + 1 /\ e.file = c.entry[h].file
      /\ e.in_cache = c.entry[h].in_cache /\ e.open = c.entry[h].open
  <2>1. PICK g \in Entry : g = c.entry[h]
        BY EntryType
  <2>2. e = [g EXCEPT !.refs = @ + 1]
        BY <1>4, <2>1
  <2>3. e \in Entry /\ e.refs = g.refs + 1 /\ e.file = g.file /\ e.in_cache = g.in_cache /\ e.open = g.open
        BY <2>2 DEF Entry
  <2> QED BY <2>1, <2>3
<1>6. PICK E : E = [c.entry EXCEPT ![h] = e]
      OBVIOUS
<1>7. E \in Seq(Entry)
      BY <1>5, <1>6, EntryType
<1>8. Ref(c, h) = [d EXCEPT !.entry = E]
      BY <1>2, <1>3, <1>4, <1>6 DEF CacheType
<1>9. /\ Ref(c, h) \in CacheType /\ Ref(c, h).entry = E
      /\ Ref(c, h).table = d.table /\ Ref(c, h).usage = d.usage /\ Ref(c, h).lru = d.lru
      BY <1>3, <1>7, <1>8 DEF CacheType
<1> QED BY <1>3, <1>5, <1>6, <1>9

\* The fields after Unref.
LEMMA UnrefFields ==
    ASSUME NEW c \in CacheType, NEW h \in DOMAIN c.entry, IsInjective(c.lru),
           c.entry[h].refs # 0, h \notin Range(c.lru)
    PROVE  \E e \in Entry :
              /\ e.refs = c.entry[h].refs - 1 /\ e.file = c.entry[h].file
              /\ e.in_cache = c.entry[h].in_cache
              /\ e.open = IF e.refs = 0 THEN FALSE ELSE c.entry[h].open
              /\ Unref(c, h) \in CacheType
              /\ Unref(c, h).entry = [c.entry EXCEPT ![h] = e]
              /\ Unref(c, h).table = c.table /\ Unref(c, h).usage = c.usage
              /\ Unref(c, h).lru = IF e.refs = 1 /\ e.in_cache
                                   THEN Append(Unlink(c.lru, h), h) ELSE c.lru
<1>1. PICK g \in Entry : g = c.entry[h]
      BY EntryType
<1>2. PICK e1 : e1 = [g EXCEPT !.refs = @ - 1]
      OBVIOUS
<1>3. /\ e1 \in Entry /\ e1.refs = g.refs - 1 /\ e1.file = g.file
      /\ e1.in_cache = g.in_cache /\ e1.open = g.open
      BY <1>1, <1>2 DEF Entry
<1>4. PICK E1 : E1 = [c.entry EXCEPT ![h] = e1]
      OBVIOUS
<1>5. E1 \in Seq(Entry) /\ DOMAIN E1 = DOMAIN c.entry /\ E1[h] = e1
      BY <1>3, <1>4, EntryType
<1>6. PICK d : d = [c EXCEPT !.entry[h].refs = @ - 1]
      OBVIOUS
<1>7. d = [c EXCEPT !.entry = E1]
      BY <1>1, <1>2, <1>4, <1>6 DEF CacheType
<1>8. /\ d \in CacheType /\ d.entry = E1 /\ d.lru = c.lru
      /\ d.table = c.table /\ d.usage = c.usage
      BY <1>5, <1>7 DEF CacheType
<1>9. Unref(c, h) = IF e1.refs = 0 THEN [d EXCEPT !.entry[h].open = FALSE]
                    ELSE IF e1.in_cache /\ e1.refs = 1
                    THEN [LRU_Remove(d, h) EXCEPT !.lru = Append(@, h)]
                    ELSE d
      BY <1>5, <1>6, <1>8 DEF Unref
<1>10. CASE e1.refs = 0
  <2>1. PICK e : e = [e1 EXCEPT !.open = FALSE]
        OBVIOUS
  <2>2. /\ e \in Entry /\ e.refs = 0 /\ e.file = g.file /\ e.in_cache = g.in_cache
        /\ e.open = FALSE
        BY <1>3, <1>10, <2>1 DEF Entry
  <2>3. PICK E : E = [E1 EXCEPT ![h] = e]
        OBVIOUS
  <2>4. E \in Seq(Entry) /\ E = [c.entry EXCEPT ![h] = e]
        BY <1>4, <1>5, <2>2, <2>3
  <2>5. Unref(c, h) = [d EXCEPT !.entry = E]
        BY <1>5, <1>8, <1>9, <1>10, <2>1, <2>3 DEF CacheType
  <2>6. /\ Unref(c, h) \in CacheType /\ Unref(c, h).entry = E
        /\ Unref(c, h).table = d.table /\ Unref(c, h).usage = d.usage /\ Unref(c, h).lru = d.lru
        BY <1>8, <2>4, <2>5 DEF CacheType
  <2>7. g.refs - 1 = 0
        BY <1>3, <1>10
  <2>8. /\ e.refs = c.entry[h].refs - 1 /\ e.file = c.entry[h].file
        /\ e.in_cache = c.entry[h].in_cache
        BY <1>1, <2>2, <2>7
  <2>9. e.open = IF e.refs = 0 THEN FALSE ELSE c.entry[h].open
        BY <2>2
  <2>10. Unref(c, h).lru = IF e.refs = 1 /\ e.in_cache
                           THEN Append(Unlink(c.lru, h), h) ELSE c.lru
        BY <1>8, <2>2, <2>6
  <2>11. /\ Unref(c, h) \in CacheType /\ Unref(c, h).entry = [c.entry EXCEPT ![h] = e]
         /\ Unref(c, h).table = c.table /\ Unref(c, h).usage = c.usage
        BY <1>8, <2>4, <2>6
  <2> QED BY <2>2, <2>8, <2>9, <2>10, <2>11
<1>11. CASE e1.refs # 0 /\ e1.in_cache /\ e1.refs = 1
  <2>1. PICK a \in CacheType : a = LRU_Remove(d, h)
        BY <1>8, LRU_RemoveFields
  <2>2. /\ a.lru = Unlink(c.lru, h) /\ a.table = c.table /\ a.usage = c.usage
        /\ a.entry = E1
        BY <1>8, <2>1, LRU_RemoveFields
  <2>3. Append(a.lru, h) \in Seq(Nat)
        BY EntryType
  <2>6. PICK s \in Seq(Nat) : s = Append(a.lru, h)
        BY <2>3
  <2>4. Unref(c, h) = [a EXCEPT !.lru = s]
        BY <1>9, <1>11, <2>1, <2>6 DEF CacheType
  <2>7. /\ Unref(c, h) \in CacheType /\ Unref(c, h).entry = E1
        /\ Unref(c, h).table = a.table /\ Unref(c, h).usage = a.usage
        /\ Unref(c, h).lru = s
        BY <2>2, <2>4 DEF CacheType
  <2>5. /\ Unref(c, h) \in CacheType /\ Unref(c, h).entry = E1
        /\ Unref(c, h).table = a.table /\ Unref(c, h).usage = a.usage
        /\ Unref(c, h).lru = Append(a.lru, h)
        BY <2>6, <2>7
  <2> QED BY <1>1, <1>3, <1>4, <1>11, <2>2, <2>5
<1>12. CASE e1.refs # 0 /\ ~(e1.in_cache /\ e1.refs = 1)
       BY <1>1, <1>3, <1>4, <1>8, <1>9, <1>12
<1> QED BY <1>10, <1>11, <1>12

\* What is left of an entry that the cache gives up.
Dropped(e, g) ==
    /\ e \in Entry /\ e.file = g.file /\ e.in_cache = FALSE /\ e.refs = g.refs - 1
    /\ e.open = IF g.refs = 1 THEN FALSE ELSE g.open

\* An entry that is dropped.
LEMMA DropFields ==
    ASSUME NEW g \in Entry, g.refs # 0 PROVE Dropped(Drop(g), g)
<1>1. PICK b \in BOOLEAN : b = IF g.refs = 1 THEN FALSE ELSE g.open
      BY DEF Entry
<1>2. PICK n \in Nat : n = g.refs - 1
      BY DEF Entry
<1>3. Drop(g) = [g EXCEPT !.in_cache = FALSE, !.refs = n, !.open = b]
      BY <1>1, <1>2 DEF Drop, Entry
<1> QED BY <1>1, <1>2, <1>3 DEF Dropped, Entry

\* Entry h is given up.
Erased(c, d, h) ==
    /\ d \in CacheType /\ d.entry = [c.entry EXCEPT ![h] = Drop(c.entry[h])]
    /\ d.usage = c.usage - 1 /\ d.lru = Unlink(c.lru, h)

\* The fields after an entry left the table.
LEMMA FinishEraseFields ==
    ASSUME NEW c \in CacheType, NEW h \in DOMAIN c.entry, IsInjective(c.lru),
           c.entry[h].refs # 0
    PROVE  Erased(c, FinishErase(c, h), h) /\ FinishErase(c, h).table = c.table
<1>1. PICK g \in Entry : g = c.entry[h] /\ g.refs # 0
      BY EntryType
<1>2. PICK e \in Entry : e = Drop(g) /\ Dropped(e, g)
      BY <1>1, DropFields DEF Dropped
<1>3. PICK a \in CacheType : a = LRU_Remove(c, h)
      BY LRU_RemoveFields
<1>4. /\ a.lru = Unlink(c.lru, h) /\ a.table = c.table /\ a.usage = c.usage
      /\ a.entry = c.entry
      BY <1>3, LRU_RemoveFields
<1>5. PICK E : E = [c.entry EXCEPT ![h] = e]
      OBVIOUS
<1>6. E \in Seq(Entry)
      BY <1>2, <1>5, EntryType
<1>7. PICK u \in Int : u = c.usage - 1
      BY EntryType
<1>8. FinishErase(c, h) = [a EXCEPT !.entry = E, !.usage = u]
  <2>1. h # NoHandle
        BY EntryType
  <2>2. FinishErase(c, h) = [a EXCEPT !.entry[h] = Drop(@), !.usage = @ - 1]
        BY <1>3, <2>1 DEF FinishErase
  <2> QED BY <1>1, <1>2, <1>4, <1>5, <1>7, <2>2 DEF CacheType
<1>9. /\ FinishErase(c, h) \in CacheType /\ FinishErase(c, h).entry = E
      /\ FinishErase(c, h).table = a.table /\ FinishErase(c, h).usage = u
      /\ FinishErase(c, h).lru = a.lru
      BY <1>6, <1>7, <1>8 DEF CacheType
<1> QED BY <1>1, <1>2, <1>4, <1>5, <1>7, <1>9 DEF Erased

\* The entries of H leave the cache: c becomes d.
Drops(c, d, H) ==
    /\ d \in CacheType /\ H \subseteq Cached(c) /\ DOMAIN d.entry = DOMAIN c.entry
    /\ \A h \in DOMAIN c.entry : IF h \in H THEN Dropped(d.entry[h], c.entry[h])
                                 ELSE d.entry[h] = c.entry[h]
    /\ \A f \in Files : d.table[f] = IF c.table[f] \in H THEN NoHandle ELSE c.table[f]
    /\ IsInjective(d.lru) /\ Range(d.lru) = Range(c.lru) \ H
    /\ d.usage = c.usage - Cardinality(H)

\* The cached entries are finitely many.
LEMMA CachedFinite ==
    ASSUME NEW c \in CacheType
    PROVE  IsFiniteSet(Cached(c)) /\ Cardinality(Cached(c)) \in Nat
<1>1. IsFiniteSet(DOMAIN c.entry)
      BY EntryType, Counting
<1>2. Cached(c) \in SUBSET (DOMAIN c.entry)
      BY DEF Cached
<1> HIDE DEF Cached
<1>3. IsFiniteSet(Cached(c))
      BY <1>1, <1>2, FS_Subset
<1> QED BY <1>3, FS_CardinalityType

\* An entry that leaves keeps its users' references only.
LEMMA DropsRefs ==
    ASSUME NEW c \in CacheType, NEW d, NEW U, NEW H, RefsOK(c, U), Drops(c, d, H)
    PROVE  RefsOK(d, U)
<1> SUFFICES ASSUME NEW h \in DOMAIN c.entry
             PROVE  /\ d.entry[h].refs =
                          Cardinality(Held(U, h)) + (IF d.entry[h].in_cache THEN 1 ELSE 0)
                    /\ d.entry[h].open <=> d.entry[h].refs # 0
    BY DEF RefsOK, Drops
<1>1. PICK k \in Nat : k = Cardinality(Held(U, h))
      BY HeldFacts
<1>2. CASE h \in H
  <2>1. c.entry[h].in_cache /\ Dropped(d.entry[h], c.entry[h])
        BY <1>2 DEF Drops, Cached
  <2>2. c.entry[h].refs = k + 1 /\ c.entry[h].open
        BY <1>1, <2>1 DEF RefsOK
  <2> QED BY <1>1, <2>1, <2>2 DEF Dropped
<1>3. CASE h \notin H
      BY <1>3 DEF Drops, RefsOK
<1> QED BY <1>2, <1>3

\* It leaves the table.
LEMMA DropsTable ==
    ASSUME NEW c \in CacheType, NEW d, NEW O, NEW H, TableOK(c, O), Drops(c, d, H)
    PROVE  TableOK(d, O)
<1>1. ASSUME NEW f \in Files, d.table[f] # NoHandle
      PROVE  d.table[f] \in DOMAIN d.entry /\ d.entry[d.table[f]].file = f
      BY <1>1 DEF Drops, TableOK
<1>2. ASSUME NEW h \in DOMAIN c.entry
      PROVE  /\ d.entry[h].in_cache <=> d.table[d.entry[h].file] = h
             /\ d.entry[h].in_cache => d.entry[h].file \notin O
  <2>0. c.entry[h].file \in Files /\ h # NoHandle
        BY EntryType
  <2>1. CASE h \in H
    <3>1. /\ c.entry[h].in_cache /\ d.entry[h].file = c.entry[h].file
          /\ d.entry[h].in_cache = FALSE
          BY <2>1 DEF Drops, Cached, Dropped
    <3>2. c.table[c.entry[h].file] = h
          BY <3>1 DEF TableOK
    <3> QED BY <2>0, <2>1, <3>1, <3>2 DEF Drops
  <2>2. CASE h \notin H
    <3>1. d.entry[h] = c.entry[h]
          BY <2>2 DEF Drops
    <3> QED BY <2>0, <2>2, <3>1 DEF Drops, TableOK
  <2> QED BY <2>1, <2>2
<1>3. DOMAIN d.entry = DOMAIN c.entry
      BY DEF Drops
<1> QED BY <1>1, <1>2, <1>3 DEF TableOK

\* What is in the cache afterwards.
LEMMA DropsCached ==
    ASSUME NEW c \in CacheType, NEW d, NEW H, Drops(c, d, H)
    PROVE  Cached(d) = Cached(c) \ H
<1>1. \A h \in DOMAIN c.entry : h \in H => ~d.entry[h].in_cache
      BY DEF Drops, Dropped
<1>2. \A h \in DOMAIN c.entry : h \notin H => d.entry[h] = c.entry[h]
      BY DEF Drops
<1>3. DOMAIN d.entry = DOMAIN c.entry
      BY DEF Drops
<1> QED BY <1>1, <1>2, <1>3 DEF Cached

\* The cache is in order afterwards.
LEMMA DropsOK ==
    ASSUME NEW c, NEW d, NEW U, NEW O, NEW H, CacheOK(c, U, O), Drops(c, d, H)
    PROVE  CacheOK(d, U, O)
<1>1. c \in CacheType /\ d \in CacheType
      BY DEF CacheOK, Drops
<1>2. RefsOK(d, U)
      BY <1>1, DropsRefs DEF CacheOK
<1>3. TableOK(d, O)
      BY <1>1, DropsTable DEF CacheOK
<1>4. Cached(d) = Cached(c) \ H
      BY <1>1, DropsCached
<1>5. ListOK(d, U)
      BY <1>4 DEF CacheOK, ListOK, Drops
<1>6. d.usage = Cardinality(Cached(d))
  <2>1. H \in SUBSET Cached(c) /\ IsFiniteSet(Cached(c))
        BY <1>1, CachedFinite DEF Drops
  <2>2. PICK A : A = Cached(c)
        OBVIOUS
  <2>3. H \in SUBSET A /\ IsFiniteSet(A) /\ A \cap H = H
        BY <2>1, <2>2
  <2>5. Cardinality(A \ H) = Cardinality(A) - Cardinality(A \cap H)
        BY <2>3, FS_Difference
  <2>4. Cardinality(A \ H) = Cardinality(A) - Cardinality(H)
        BY <2>3, <2>5
  <2> QED BY <1>4, <2>2, <2>4 DEF CacheOK, Drops
<1> QED BY <1>1, <1>2, <1>3, <1>5, <1>6 DEF CacheOK

\* The entry of file f is dropped and leaves the table.
Evicted(c, d, f) ==
    /\ Drops(c, d, {c.table[f]}) /\ Erased(c, d, c.table[f])
    /\ d.table = [c.table EXCEPT ![f] = NoHandle]

\* The entry of a file is erased, if there is one.
LEMMA EraseFileDrops ==
    ASSUME NEW c, NEW U, NEW O, NEW f \in Files, CacheOK(c, U, O), c.table[f] # NoHandle
    PROVE  Evicted(c, EraseFile(c, f), f)
<1>0. c \in CacheType /\ c.lru \in Seq(Nat) /\ IsInjective(c.lru)
      BY EntryType DEF CacheOK, ListOK
<1>1. PICK h : h = c.table[f]
      OBVIOUS
<1>2. h \in DOMAIN c.entry /\ c.entry[h].file = f /\ c.entry[h].in_cache
      BY <1>1 DEF CacheOK, TableOK
<1>3. c.entry[h] \in Entry /\ c.entry[h].refs # 0
  <2>1. c.entry[h].refs = Cardinality(Held(U, h)) + 1
        BY <1>2 DEF CacheOK, RefsOK
  <2> QED BY <1>0, <1>2, <2>1, EntryType, HeldFacts
<1>4. PICK T \in [Files -> Nat] : T = [c.table EXCEPT ![f] = NoHandle]
      BY <1>0, EntryType DEF NoHandle
<1>9. PICK a : a = [c EXCEPT !.table = T]
      OBVIOUS
<1>5. /\ a \in CacheType /\ a.table = T /\ a.entry = c.entry
      /\ a.usage = c.usage /\ a.lru = c.lru
      BY <1>0, <1>9 DEF CacheType
<1>6. EraseFile(c, f) = FinishErase(a, h)
      BY <1>0, <1>1, <1>4, <1>9 DEF EraseFile, CacheType
<1>7. PICK d \in CacheType :
          /\ d = EraseFile(c, f)
          /\ d.entry = [c.entry EXCEPT ![h] = Drop(c.entry[h])]
          /\ d.table = T /\ d.usage = c.usage - 1 /\ d.lru = Unlink(c.lru, h)
  <2>1. h \in DOMAIN a.entry /\ IsInjective(a.lru) /\ a.entry[h].refs # 0
        BY <1>0, <1>2, <1>3, <1>5
  <2>2. Erased(a, FinishErase(a, h), h) /\ FinishErase(a, h).table = a.table
        BY <1>5, <2>1, FinishEraseFields
  <2> QED BY <1>5, <1>6, <2>2 DEF Erased
<1>8. Drops(c, d, {h})
  <2>1. Dropped(d.entry[h], c.entry[h])
        BY <1>2, <1>3, <1>7, DropFields, EntryType
  <2>2. \A x \in DOMAIN c.entry : x # h => d.entry[x] = c.entry[x]
        BY <1>7
  <2>3. \A x \in Files : d.table[x] = IF c.table[x] = h THEN NoHandle ELSE c.table[x]
    <3>1. \A x \in Files : c.table[x] = h <=> x = f
          BY <1>0, <1>1, <1>2 DEF CacheOK, TableOK
    <3> QED BY <1>0, <1>4, <1>7, <3>1, EntryType
  <2>4. IsInjective(d.lru) /\ Range(d.lru) = Range(c.lru) \ {h}
        BY <1>0, <1>7, UnlinkList
  <2>5. Cardinality({h}) = 1
        BY FS_Singleton
  <2>6. {h} \subseteq Cached(c) /\ DOMAIN d.entry = DOMAIN c.entry
        BY <1>2, <1>7 DEF Cached
  <2> QED BY <1>7, <2>1, <2>2, <2>3, <2>4, <2>5, <2>6 DEF Drops
<1>10. Erased(c, d, h)
      BY <1>7 DEF Erased
<1> QED BY <1>1, <1>4, <1>7, <1>8, <1>10 DEF Evicted

\* An erased file is not in the table.
LEMMA EraseFileOK ==
    ASSUME NEW c, NEW U, NEW O, NEW f \in Files, CacheOK(c, U, O)
    PROVE  /\ CacheOK(EraseFile(c, f), U, O)
           /\ EraseFile(c, f).table[f] = NoHandle
           /\ DOMAIN EraseFile(c, f).entry = DOMAIN c.entry
           /\ EraseFile(c, f).usage <= c.usage
<1>0. c \in CacheType /\ c.table \in [Files -> Nat] /\ c.usage \in Int
      BY EntryType DEF CacheOK
<1>1. CASE c.table[f] # NoHandle
  <2>5. /\ Drops(c, EraseFile(c, f), {c.table[f]})
        /\ Erased(c, EraseFile(c, f), c.table[f])
        /\ EraseFile(c, f).table = [c.table EXCEPT ![f] = NoHandle]
        BY <1>1, EraseFileDrops DEF Evicted
  <2>1. CacheOK(EraseFile(c, f), U, O)
        BY <2>5, DropsOK
  <2>2. DOMAIN EraseFile(c, f).entry = DOMAIN c.entry
        BY <2>5 DEF Drops
  <2>3. EraseFile(c, f).table[f] = NoHandle
        BY <1>0, <2>5
  <2>4. EraseFile(c, f).usage = c.usage - 1
        BY <2>5 DEF Erased
  <2> QED BY <1>0, <2>1, <2>2, <2>3, <2>4
<1>2. CASE c.table[f] = NoHandle
  <2>1. [c.table EXCEPT ![f] = NoHandle] = c.table
        BY <1>0, <1>2
  <2>2. EraseFile(c, f) = c
        BY <1>0, <1>2, <2>1 DEF EraseFile, FinishErase, CacheType
  <2> QED BY <1>0, <1>2, <2>2
<1> QED BY <1>1, <1>2

\* The loop of Insert drops entries that nobody uses, until there are few enough.
LEMMA PushOutDrops ==
    ASSUME NEW c, NEW U, NEW O, CacheOK(c, U, O)
    PROVE  \E H : /\ Drops(c, PushOut(c), H)
                  /\ PushOut(c).usage <= Capacity \/ Range(PushOut(c).lru) = {}
<1>0. /\ c \in CacheType /\ c.lru \in Seq(Nat) /\ IsInjective(c.lru) /\ c.usage \in Nat
      /\ c.table \in [Files -> Nat] /\ c.entry \in Seq(Entry)
      BY EntryType, CachedFinite DEF CacheOK, ListOK
<1>1. PICK n \in 0 .. Len(c.lru) :
          /\ n = IF c.usage <= Capacity THEN 0
                 ELSE IF c.usage - Capacity < Len(c.lru) THEN c.usage - Capacity
                 ELSE Len(c.lru)
          /\ c.usage - n <= Capacity \/ n = Len(c.lru)
  <2>1. PICK l \in Nat : l = Len(c.lru)
        BY <1>0
  <2>2. PICK u \in Nat : u = c.usage
        BY <1>0
  <2> QED BY <2>1, <2>2, CapacityAssumption
<1>2. PICK r : r = SubSeq(c.lru, n + 1, Len(c.lru))
      OBVIOUS
<1>3. PICK H : H = {c.lru[i] : i \in 1 .. n}
      OBVIOUS
<1>4. /\ r \in Seq(Nat) /\ IsInjective(r) /\ Range(r) = Range(c.lru) \ H
      /\ H \subseteq Range(c.lru) /\ IsFiniteSet(H) /\ Cardinality(H) = n
      /\ n = Len(c.lru) => Range(r) = {}
  <2>1. PICK s \in Seq(Nat) : s = c.lru
        BY <1>0
  <2>2. s \in Seq(Nat) /\ IsInjective(s)
        BY <1>0, <2>1
  <2>3. Oldest(s, n, r, H)
        BY <1>2, <1>3, <2>1 DEF Oldest
  <2>4. r \in Seq(Nat) /\ Rest(s, n, r, H)
        BY <2>2, <2>3, RestList
  <2> QED BY <2>1, <2>4 DEF Rest
<1>5. H \subseteq Cached(c)
      BY <1>4 DEF CacheOK, ListOK
<1>6. \A h \in H : c.entry[h] \in Entry /\ c.entry[h].refs # 0
  <2>1. \A h \in H : h \in DOMAIN c.entry /\ c.entry[h].refs = Cardinality(Held(U, h)) + 1
        BY <1>5 DEF CacheOK, RefsOK, Cached
  <2> QED BY <1>0, <2>1, EntryType, HeldFacts
<1>7. PICK T : T = [f \in Files |-> IF c.table[f] \in H THEN NoHandle ELSE c.table[f]]
      OBVIOUS
<1>8. T \in [Files -> Nat]
      BY <1>0, <1>7 DEF NoHandle
<1>9. PICK E : E = [h \in DOMAIN c.entry |-> IF h \in H THEN Drop(c.entry[h]) ELSE c.entry[h]]
      OBVIOUS
<1>10. E \in Seq(Entry) /\ DOMAIN E = DOMAIN c.entry
  <2>1. PICK m \in Nat : DOMAIN c.entry = 1 .. m
        BY <1>0
  <2>2. \A h \in DOMAIN c.entry : c.entry[h] \in Entry
        BY <1>0, EntryType
  <2>3. \A h \in DOMAIN c.entry : E[h] \in Entry
        BY <1>6, <1>9, <2>2, DropFields DEF Dropped
  <2>4. E \in [1 .. m -> Entry]
        BY <1>9, <2>1, <2>3
  <2> QED BY <1>9, <2>1, <2>4
<1>11. PICK u \in Int : u = c.usage - n
      BY <1>0
<1>12. PushOut(c) = [c EXCEPT !.lru = r, !.table = T, !.entry = E, !.usage = u]
      BY <1>0, <1>1, <1>2, <1>3, <1>7, <1>9, <1>11 DEF PushOut, CacheType
<1>13. PICK d \in CacheType : /\ d = PushOut(c) /\ d.lru = r /\ d.table = T
                              /\ d.entry = E /\ d.usage = u
      BY <1>0, <1>4, <1>8, <1>10, <1>11, <1>12 DEF CacheType
<1>14. Drops(c, d, H)
  <2>1. \A h \in DOMAIN c.entry : IF h \in H THEN Dropped(d.entry[h], c.entry[h])
                                  ELSE d.entry[h] = c.entry[h]
        BY <1>6, <1>9, <1>13, DropFields
  <2>2. \A f \in Files : d.table[f] = IF c.table[f] \in H THEN NoHandle ELSE c.table[f]
        BY <1>7, <1>13
  <2> QED BY <1>4, <1>5, <1>10, <1>11, <1>13, <2>1, <2>2 DEF Drops
<1>15. d.usage <= Capacity \/ Range(d.lru) = {}
      BY <1>1, <1>4, <1>11, <1>13
<1> QED BY <1>13, <1>14, <1>15

\* Tables that are all in use are no more than the threads.
LEMMA UsedByThreads ==
    ASSUME NEW c, NEW U, NEW O, CacheOK(c, U, O), Range(c.lru) = {}
    PROVE  c.usage <= Cardinality(Threads)
<1>1. \A h \in Cached(c) : Held(U, h) # {}
      BY DEF CacheOK, ListOK
<1>2. PICK g : g = [h \in Cached(c) |-> CHOOSE t \in Threads : t \in Held(U, h)]
      OBVIOUS
<1>3. \A h \in Cached(c) : g[h] \in Threads /\ g[h] \in Held(U, h)
      BY <1>1, <1>2 DEF Held
<1>4. \A h \in Cached(c), k \in Cached(c) : g[h] = g[k] => h = k
      BY <1>3 DEF Held
<1> HIDE DEF Cached, Held
<1>5. g \in Injection(Cached(c), Threads)
      BY <1>2, <1>3, <1>4 DEF Injection, IsInjective
<1>6. Cardinality(Cached(c)) <= Cardinality(Threads)
      BY <1>5, ThreadsAssumption, FS_Injection
<1> QED BY <1>6 DEF CacheOK

\* After the loop the cache is in order and not too large.
LEMMA PushOutOK ==
    ASSUME NEW c, NEW U, NEW O, CacheOK(c, U, O)
    PROVE  /\ CacheOK(PushOut(c), U, O)
           /\ DOMAIN PushOut(c).entry = DOMAIN c.entry
           /\ PushOut(c).usage <= Max({Capacity, Cardinality(Threads)})
<1>1. PICK H : /\ Drops(c, PushOut(c), H)
               /\ PushOut(c).usage <= Capacity \/ Range(PushOut(c).lru) = {}
      BY PushOutDrops
<1>2. PICK d : d = PushOut(c)
      OBVIOUS
<1>3. CacheOK(d, U, O)
      BY <1>1, <1>2, DropsOK
<1>4. d.usage <= Capacity \/ d.usage <= Cardinality(Threads)
      BY <1>1, <1>2, <1>3, UsedByThreads
<1>5. Cardinality(Threads) \in Nat /\ Capacity \in Nat /\ d.usage \in Int
      BY <1>3, ThreadsAssumption, CapacityAssumption, FS_CardinalityType, EntryType DEF CacheOK
<1>6. PICK m \in Nat : /\ m = Max({Capacity, Cardinality(Threads)})
                       /\ m >= Capacity /\ m >= Cardinality(Threads)
  <2>1. PICK S : S = {Capacity, Cardinality(Threads)}
        OBVIOUS
  <2>2. S \in SUBSET Nat /\ S # {}
        BY <1>5, <2>1
  <2>3. IsFiniteSet(S)
    <3>1. IsFiniteSet({Capacity}) /\ S = {Capacity} \cup {Cardinality(Threads)}
          BY <2>1, FS_Singleton
    <3> QED BY <3>1, FS_AddElement
  <2>4. Max(S) \in S /\ \A y \in S : y <= Max(S)
        BY <2>2, <2>3, MaxFacts
  <2> QED BY <1>5, <2>1, <2>2, <2>4
<1>7. d.usage <= m
      BY <1>4, <1>5, <1>6
<1>8. DOMAIN d.entry = DOMAIN c.entry
      BY <1>1, <1>2 DEF Drops
<1> QED BY <1>2, <1>3, <1>6, <1>7, <1>8

\* Entry h is counted anew: c becomes d, where it is e.
Recounted(c, d, h, e) ==
    /\ d \in CacheType /\ e \in Entry /\ d.entry = [c.entry EXCEPT ![h] = e]
    /\ d.table = c.table /\ d.usage = c.usage
    /\ e.file = c.entry[h].file /\ e.in_cache = c.entry[h].in_cache

\* A count of references that follows the users keeps the cache in order.
LEMMA RecountOK ==
    ASSUME NEW c, NEW d, NEW U, NEW V, NEW O, CacheOK(c, U, O),
           NEW h \in DOMAIN c.entry, NEW e, Recounted(c, d, h, e), ListOK(d, V),
           \A x : x # h => Held(V, x) = Held(U, x),
           e.refs = Cardinality(Held(V, h)) + (IF e.in_cache THEN 1 ELSE 0),
           e.open <=> e.refs # 0
    PROVE  CacheOK(d, V, O)
<1>0. c \in CacheType /\ d \in CacheType
      BY DEF CacheOK, Recounted
<1>1. /\ DOMAIN d.entry = DOMAIN c.entry /\ d.entry[h] = e
      /\ \A x \in DOMAIN c.entry : x # h => d.entry[x] = c.entry[x]
      BY <1>0 DEF Recounted
<1>2. \A x \in DOMAIN c.entry : /\ d.entry[x].file = c.entry[x].file
                                /\ d.entry[x].in_cache = c.entry[x].in_cache
      BY <1>1 DEF Recounted
<1>3. RefsOK(d, V)
  <2> SUFFICES ASSUME NEW x \in DOMAIN c.entry
               PROVE  /\ d.entry[x].refs =
                            Cardinality(Held(V, x)) + (IF d.entry[x].in_cache THEN 1 ELSE 0)
                      /\ d.entry[x].open <=> d.entry[x].refs # 0
      BY <1>1 DEF RefsOK
  <2>1. CASE x = h
        BY <1>1, <2>1
  <2>2. CASE x # h
    <3>1. d.entry[x] = c.entry[x] /\ Held(V, x) = Held(U, x)
          BY <1>1, <2>2
    <3> QED BY <3>1 DEF CacheOK, RefsOK
  <2> QED BY <2>1, <2>2
<1>4. TableOK(d, O)
  <2>1. d.table = c.table /\ TableOK(c, O)
        BY DEF Recounted, CacheOK
  <2> QED BY <1>1, <1>2, <2>1 DEF TableOK
<1>5. Cached(d) = Cached(c)
      BY <1>1, <1>2 DEF Cached
<1>6. d.usage = Cardinality(Cached(d))
      BY <1>5 DEF Recounted, CacheOK
<1> QED BY <1>0, <1>3, <1>4, <1>6 DEF CacheOK

\* The cached entries are the same.
LEMMA RecountCached ==
    ASSUME NEW c \in CacheType, NEW d, NEW h \in DOMAIN c.entry, NEW e, Recounted(c, d, h, e)
    PROVE  Cached(d) = Cached(c) /\ DOMAIN d.entry = DOMAIN c.entry
<1>1. /\ DOMAIN d.entry = DOMAIN c.entry /\ d.entry[h] = e
      /\ \A x \in DOMAIN c.entry : x # h => d.entry[x] = c.entry[x]
      BY DEF Recounted
<1>2. \A x \in DOMAIN c.entry : d.entry[x].in_cache = c.entry[x].in_cache
      BY <1>1 DEF Recounted
<1> QED BY <1>1, <1>2 DEF Cached

\* A thread takes a cached entry.
LEMMA RefOK ==
    ASSUME NEW c, NEW U, NEW V, NEW O, CacheOK(c, U, O), NEW h \in Cached(c), NEW t,
           Grabs(U, V, h, t)
    PROVE  /\ CacheOK(Ref(c, h), V, O) /\ DOMAIN Ref(c, h).entry = DOMAIN c.entry
           /\ Ref(c, h).usage = c.usage
<1>0. /\ c \in CacheType /\ c.lru \in Seq(Nat) /\ IsInjective(c.lru)
      /\ h \in DOMAIN c.entry /\ c.entry[h].in_cache
      BY EntryType DEF CacheOK, ListOK, Cached
<1>1. PICK k \in Nat : k = Cardinality(Held(U, h)) /\ (k = 0 <=> Held(U, h) = {})
      BY HeldFacts
<1>2. c.entry[h].refs = k + 1 /\ c.entry[h].open
      BY <1>0, <1>1 DEF CacheOK, RefsOK
<1>3. /\ Cardinality(Held(V, h)) = k + 1 /\ Held(V, h) # {}
      /\ \A x : x # h => Held(V, x) = Held(U, x)
      BY <1>1, GrabsFacts DEF Grabs
<1>4. PICK e \in Entry :
              /\ e.refs = c.entry[h].refs + 1 /\ e.file = c.entry[h].file
              /\ e.in_cache = c.entry[h].in_cache /\ e.open = c.entry[h].open
              /\ Ref(c, h) \in CacheType
              /\ Ref(c, h).entry = [c.entry EXCEPT ![h] = e]
              /\ Ref(c, h).table = c.table /\ Ref(c, h).usage = c.usage
              /\ Ref(c, h).lru = IF c.entry[h].refs = 1 /\ c.entry[h].in_cache
                                 THEN Unlink(c.lru, h) ELSE c.lru
      BY <1>0, RefFields
<1>5. PICK d : d = Ref(c, h)
      OBVIOUS
<1>6. Recounted(c, d, h, e)
      BY <1>4, <1>5 DEF Recounted
<1>7. Cached(d) = Cached(c) /\ DOMAIN d.entry = DOMAIN c.entry
      BY <1>0, <1>6, RecountCached
<1>8. d.lru = IF k = 0 THEN Unlink(c.lru, h) ELSE c.lru
      BY <1>0, <1>1, <1>2, <1>4, <1>5
<1>9. IsInjective(d.lru) /\ Range(d.lru) = Range(c.lru) \ {h}
  <2>1. CASE k = 0
        BY <1>0, <1>8, <2>1, UnlinkList
  <2>2. CASE k # 0
    <3>1. h \notin Range(c.lru)
          BY <1>1, <2>2 DEF CacheOK, ListOK
    <3> QED BY <1>0, <1>8, <2>2, <3>1
  <2> QED BY <2>1, <2>2
<1>10. ListOK(d, V)
      BY <1>3, <1>7, <1>9 DEF CacheOK, ListOK
<1>11. /\ e.refs = Cardinality(Held(V, h)) + (IF e.in_cache THEN 1 ELSE 0)
       /\ e.open <=> e.refs # 0
      BY <1>0, <1>1, <1>2, <1>3, <1>4
<1>12. CacheOK(d, V, O)
      BY <1>0, <1>3, <1>6, <1>10, <1>11, RecountOK
<1> QED BY <1>4, <1>5, <1>7, <1>12

\* A thread gives its entry back.
LEMMA UnrefOK ==
    ASSUME NEW c, NEW U, NEW V, NEW O, CacheOK(c, U, O), NEW h \in DOMAIN c.entry, NEW t,
           Grabs(V, U, h, t)
    PROVE  /\ CacheOK(Unref(c, h), V, O) /\ DOMAIN Unref(c, h).entry = DOMAIN c.entry
           /\ Unref(c, h).usage = c.usage
<1>0. c \in CacheType /\ c.lru \in Seq(Nat) /\ IsInjective(c.lru) /\ h \in Nat
      BY EntryType DEF CacheOK, ListOK
<1>1. PICK k \in Nat : k = Cardinality(Held(V, h)) /\ (k = 0 <=> Held(V, h) = {})
      BY HeldFacts
<1>3. /\ Cardinality(Held(U, h)) = k + 1 /\ Held(U, h) # {}
      /\ \A x : x # h => Held(V, x) = Held(U, x)
      BY <1>1, GrabsFacts DEF Grabs
<1>2. /\ c.entry[h].refs = (k + 1) + (IF c.entry[h].in_cache THEN 1 ELSE 0)
      /\ c.entry[h].refs # 0 /\ c.entry[h].open
  <2>1. c.entry[h].refs = (k + 1) + (IF c.entry[h].in_cache THEN 1 ELSE 0)
        BY <1>3 DEF CacheOK, RefsOK
  <2>2. c.entry[h].refs # 0
        BY <1>1, <2>1
  <2> QED BY <2>1, <2>2 DEF CacheOK, RefsOK
<1>13. h \notin Range(c.lru)
      BY <1>3 DEF CacheOK, ListOK
<1>4. PICK e \in Entry :
              /\ e.refs = c.entry[h].refs - 1 /\ e.file = c.entry[h].file
              /\ e.in_cache = c.entry[h].in_cache
              /\ e.open = IF e.refs = 0 THEN FALSE ELSE c.entry[h].open
              /\ Unref(c, h) \in CacheType
              /\ Unref(c, h).entry = [c.entry EXCEPT ![h] = e]
              /\ Unref(c, h).table = c.table /\ Unref(c, h).usage = c.usage
              /\ Unref(c, h).lru = IF e.refs = 1 /\ e.in_cache
                                   THEN Append(Unlink(c.lru, h), h) ELSE c.lru
      BY <1>0, <1>2, <1>13, UnrefFields
<1>5. PICK d : d = Unref(c, h)
      OBVIOUS
<1>6. Recounted(c, d, h, e)
      BY <1>4, <1>5 DEF Recounted
<1>7. Cached(d) = Cached(c) /\ DOMAIN d.entry = DOMAIN c.entry
      BY <1>0, <1>6, RecountCached
<1>14. e.refs = k + (IF e.in_cache THEN 1 ELSE 0)
      BY <1>1, <1>2, <1>4
<1>8. d.lru = IF k = 0 /\ e.in_cache THEN Append(Unlink(c.lru, h), h) ELSE c.lru
  <2>1. (e.refs = 1 /\ e.in_cache) <=> (k = 0 /\ e.in_cache)
        BY <1>1, <1>14
  <2> QED BY <1>4, <1>5, <2>1
<1>15. h \in Cached(c) <=> e.in_cache
      BY <1>4 DEF Cached
<1>10. ListOK(d, V)
  <2>1. CASE k = 0 /\ e.in_cache
    <3>1. PICK s \in Seq(Nat) : /\ s = Unlink(c.lru, h) /\ IsInjective(s)
                                /\ Range(s) = Range(c.lru) \ {h}
          BY <1>0, UnlinkList
    <3>2. IsInjective(Append(s, h)) /\ Range(Append(s, h)) = Range(s) \cup {h}
          BY <1>0, <3>1, AppendList
    <3>3. IsInjective(d.lru) /\ Range(d.lru) = Range(c.lru) \cup {h}
          BY <1>8, <1>13, <2>1, <3>1, <3>2
    <3> QED BY <1>1, <1>3, <1>7, <1>15, <2>1, <3>3 DEF CacheOK, ListOK
  <2>2. CASE ~(k = 0 /\ e.in_cache)
    <3>1. d.lru = c.lru
          BY <1>8, <2>2
    <3>2. h \notin {x \in Cached(d) : Held(V, x) = {}}
          BY <1>1, <1>7, <1>15, <2>2
    <3> QED BY <1>3, <1>7, <1>13, <3>1, <3>2 DEF CacheOK, ListOK
  <2> QED BY <2>1, <2>2
<1>11. /\ e.refs = Cardinality(Held(V, h)) + (IF e.in_cache THEN 1 ELSE 0)
       /\ e.open <=> e.refs # 0
      BY <1>1, <1>2, <1>4, <1>14
<1>12. CacheOK(d, V, O)
      BY <1>3, <1>6, <1>10, <1>11, RecountOK
<1> QED BY <1>4, <1>5, <1>7, <1>12

\* A new entry g of file f under handle h: c becomes d.
Adds(c, d, h, f, g) ==
    /\ d \in CacheType /\ g \in Entry /\ h # NoHandle /\ h \notin DOMAIN c.entry
    /\ DOMAIN d.entry = DOMAIN c.entry \cup {h} /\ d.entry[h] = g
    /\ \A x \in DOMAIN c.entry : d.entry[x] = c.entry[x]
    /\ d.lru = c.lru /\ g.file = f /\ g.open
    /\ IF g.in_cache
       THEN /\ g.refs = 2 /\ d.table = [c.table EXCEPT ![f] = h]
            /\ d.usage = c.usage + 1
       ELSE g.refs = 1 /\ d.table = c.table /\ d.usage = c.usage

\* The table and a new entry.
LEMMA AddsTable ==
    ASSUME NEW c \in CacheType, NEW d, NEW O, NEW f \in Files \ O, NEW h, NEW g,
           TableOK(c, O), Adds(c, d, h, f, g), g.in_cache => c.table[f] = NoHandle
    PROVE  TableOK(d, O)
<1>0. /\ c.table \in [Files -> Nat] /\ g \in Entry /\ g.file = f
      /\ h # NoHandle /\ h \notin DOMAIN c.entry
      /\ DOMAIN d.entry = DOMAIN c.entry \cup {h} /\ d.entry[h] = g
      /\ \A x \in DOMAIN c.entry : d.entry[x] = c.entry[x]
      BY EntryType DEF Adds
<1>1. \A x \in Files : d.table[x] = IF g.in_cache /\ x = f THEN h ELSE c.table[x]
      BY <1>0 DEF Adds
<1>2. ASSUME NEW x \in Files, d.table[x] # NoHandle
      PROVE  d.table[x] \in DOMAIN d.entry /\ d.entry[d.table[x]].file = x
  <2>1. CASE g.in_cache /\ x = f
        BY <1>0, <1>1, <2>1
  <2>2. CASE ~(g.in_cache /\ x = f)
    <3>1. d.table[x] = c.table[x]
          BY <1>1, <2>2
    <3>2. c.table[x] \in DOMAIN c.entry /\ c.entry[c.table[x]].file = x
          BY <1>2, <3>1 DEF TableOK
    <3> QED BY <1>0, <3>1, <3>2
  <2> QED BY <2>1, <2>2
<1>3. ASSUME NEW x \in DOMAIN c.entry
      PROVE  /\ d.entry[x].in_cache <=> d.table[d.entry[x].file] = x
             /\ d.entry[x].in_cache => d.entry[x].file \notin O
  <2>1. d.entry[x] = c.entry[x] /\ c.entry[x].file \in Files /\ x # NoHandle /\ x # h
        BY <1>0, EntryType
  <2>2. d.table[c.entry[x].file] = x <=> c.table[c.entry[x].file] = x
        BY <1>1, <2>1
  <2> QED BY <2>1, <2>2 DEF TableOK
<1>4. g.in_cache <=> d.table[f] = h
  <2>1. c.table[f] # h
        BY <1>0 DEF TableOK
  <2> QED BY <1>1, <2>1
<1> QED BY <1>0, <1>2, <1>3, <1>4 DEF TableOK

\* The thread that opened a table uses its new entry.
LEMMA AddsOK ==
    ASSUME NEW c, NEW d, NEW U, NEW V, NEW O, NEW f \in Files \ O, NEW h, NEW g, NEW t,
           CacheOK(c, U, O), Adds(c, d, h, f, g), g.in_cache => c.table[f] = NoHandle,
           Grabs(U, V, h, t), Held(U, h) = {}
    PROVE  CacheOK(d, V, O)
<1>0. /\ c \in CacheType /\ d \in CacheType /\ h \notin DOMAIN c.entry
      /\ DOMAIN d.entry = DOMAIN c.entry \cup {h} /\ d.entry[h] = g
      /\ \A x \in DOMAIN c.entry : d.entry[x] = c.entry[x] /\ x # h
      BY DEF CacheOK, Adds
<1>1. /\ Cardinality(Held(V, h)) = 1 /\ Held(V, h) # {}
      /\ \A x : x # h => Held(V, x) = Held(U, x)
  <2>1. Cardinality(Held(U, h)) = 0
        BY HeldFacts
  <2> QED BY <2>1, GrabsFacts DEF Grabs
<1>2. RefsOK(d, V)
  <2>1. ASSUME NEW x \in DOMAIN c.entry
        PROVE  /\ d.entry[x].refs =
                     Cardinality(Held(V, x)) + (IF d.entry[x].in_cache THEN 1 ELSE 0)
               /\ d.entry[x].open <=> d.entry[x].refs # 0
    <3>1. d.entry[x] = c.entry[x] /\ Held(V, x) = Held(U, x)
          BY <1>0, <1>1
    <3> QED BY <3>1 DEF CacheOK, RefsOK
  <2>2. /\ g.refs = 1 + (IF g.in_cache THEN 1 ELSE 0)
        /\ g.open <=> g.refs # 0
        BY DEF Adds
  <2> QED BY <1>0, <1>1, <2>1, <2>2 DEF RefsOK
<1>3. TableOK(d, O)
      BY <1>0, AddsTable DEF CacheOK
<1>4. Cached(d) = Cached(c) \cup (IF g.in_cache THEN {h} ELSE {})
      BY <1>0 DEF Cached
<1>5. ListOK(d, V)
  <2>1. h \notin Cached(c)
        BY <1>0 DEF Cached
  <2>2. {x \in Cached(d) : Held(V, x) = {}} = {x \in Cached(c) : Held(U, x) = {}}
        BY <1>1, <1>4, <2>1
  <2>3. d.lru = c.lru
        BY DEF Adds
  <2> QED BY <2>2, <2>3 DEF CacheOK, ListOK
<1>6. d.usage = Cardinality(Cached(d))
  <2>1. c.usage = Cardinality(Cached(c)) /\ IsFiniteSet(Cached(c)) /\ h \notin Cached(c)
        BY <1>0, CachedFinite DEF CacheOK, Cached
  <2>2. CASE g.in_cache
    <3>1. Cached(d) = Cached(c) \cup {h}
          BY <1>4, <2>2
    <3>2. Cardinality(Cached(c) \cup {h}) = Cardinality(Cached(c)) + 1
          BY <2>1, FS_AddElement
    <3>3. d.usage = c.usage + 1
          BY <2>2 DEF Adds
    <3> QED BY <2>1, <3>1, <3>2, <3>3
  <2>3. CASE ~g.in_cache
    <3>1. Cached(d) = Cached(c) /\ d.usage = c.usage
          BY <1>4, <2>3 DEF Adds
    <3> QED BY <2>1, <3>1
  <2> QED BY <2>2, <2>3
<1> QED BY <1>0, <1>2, <1>3, <1>5, <1>6 DEF CacheOK

\* The entries with one more at the end.
LEMMA AppendEntry ==
    ASSUME NEW c \in CacheType, NEW g \in Entry
    PROVE  /\ Append(c.entry, g) \in Seq(Entry)
           /\ DOMAIN Append(c.entry, g) = DOMAIN c.entry \cup {Len(c.entry) + 1}
           /\ Append(c.entry, g)[Len(c.entry) + 1] = g
           /\ \A x \in DOMAIN c.entry : Append(c.entry, g)[x] = c.entry[x]
           /\ Len(c.entry) + 1 \in Nat /\ Len(c.entry) + 1 # NoHandle
           /\ Len(c.entry) + 1 \notin DOMAIN c.entry
<1>1. PICK E \in Seq(Entry) : E = c.entry
      BY EntryType
<1>2. PICK n \in Nat : n = Len(E) /\ DOMAIN E = 1 .. n
      OBVIOUS
<1>3. PICK F : F = Append(E, g)
      OBVIOUS
<1>4. /\ F \in Seq(Entry) /\ DOMAIN F = 1 .. n + 1 /\ F[n + 1] = g
      /\ \A x \in 1 .. n : F[x] = E[x]
      BY <1>2, <1>3
<1>5. 1 .. n + 1 = (1 .. n) \cup {n + 1} /\ n + 1 \notin 1 .. n /\ n + 1 \in Nat /\ n + 1 # NoHandle
      BY <1>2 DEF NoHandle
<1> QED BY <1>1, <1>2, <1>3, <1>4, <1>5

\* Entry h of file f takes the place of the one the table had.
Replaces(c, f, h, g) ==
    EraseReplaced([c EXCEPT !.entry = Append(@, g), !.usage = @ + 1,
                            !.in_use = @ \union {h}, !.table[f] = h],
                  c.table[f])

\* A table that is cached replaces the one of its file.
LEMMA InsertAdds ==
    ASSUME NEW c, NEW U, NEW O, NEW f \in Files, CacheOK(c, U, O), NEW g \in Entry,
           g.file = f, g.open, g.in_cache, g.refs = 2, NEW h, h = Len(c.entry) + 1
    PROVE  Adds(EraseFile(c, f), Replaces(c, f, h, g), h, f, g)
<1>0. /\ c \in CacheType /\ c.lru \in Seq(Nat) /\ IsInjective(c.lru)
      /\ c.table \in [Files -> Nat] /\ c.usage \in Int
      BY EntryType DEF CacheOK, ListOK
<1>1. PICK F : F = Append(c.entry, g)
      OBVIOUS
<1>2. /\ F \in Seq(Entry) /\ DOMAIN F = DOMAIN c.entry \cup {h} /\ F[h] = g
      /\ \A x \in DOMAIN c.entry : F[x] = c.entry[x]
      /\ h \in Nat /\ h # NoHandle /\ h \notin DOMAIN c.entry
      BY <1>0, <1>1, AppendEntry
<1>3. PICK T \in [Files -> Nat] : T = [c.table EXCEPT ![f] = h]
      BY <1>0, <1>2
<1>4. PICK u \in Int : u = c.usage + 1
      BY <1>0
<1>5. PICK I \in SUBSET Nat : I = c.in_use \union {h}
      BY <1>0, <1>2 DEF CacheType
<1>6. PICK a : a = [c EXCEPT !.entry = Append(@, g), !.usage = @ + 1,
                             !.in_use = @ \union {h}, !.table[f] = h]
      OBVIOUS
<1>7. a = [c EXCEPT !.entry = F, !.usage = u, !.in_use = I, !.table = T]
      BY <1>0, <1>1, <1>3, <1>4, <1>5, <1>6 DEF CacheType
<1>8. a \in CacheType /\ a.entry = F /\ a.usage = u /\ a.table = T /\ a.lru = c.lru
      BY <1>0, <1>2, <1>3, <1>4, <1>5, <1>7 DEF CacheType
<1>9. CASE c.table[f] = NoHandle
  <2>1. [c.table EXCEPT ![f] = NoHandle] = c.table
        BY <1>0, <1>9
  <2>2. EraseFile(c, f) = c
        BY <1>0, <1>9, <2>1 DEF EraseFile, FinishErase, CacheType
  <2>3. EraseReplaced(a, c.table[f]) = a
        BY <1>9 DEF EraseReplaced, FinishErase
  <2>4. Adds(c, a, h, f, g)
        BY <1>2, <1>3, <1>4, <1>8 DEF Adds
  <2> QED BY <1>6, <2>2, <2>3, <2>4 DEF Replaces
<1>10. CASE c.table[f] # NoHandle
  <2>1. PICK x : x = c.table[f]
        OBVIOUS
  <2>2. PICK b : b = EraseFile(c, f)
        OBVIOUS
  <2>3. /\ Drops(c, b, {x}) /\ Erased(c, b, x)
        /\ b.table = [c.table EXCEPT ![f] = NoHandle]
    <3>1. Evicted(c, EraseFile(c, f), f)
          BY <1>10, EraseFileDrops
    <3> QED BY <2>1, <2>2, <3>1 DEF Evicted
  <2>4. x \in DOMAIN c.entry /\ c.entry[x].in_cache
        BY <2>3 DEF Drops, Cached
  <2>5. c.entry[x].refs # 0
    <3>1. c.entry[x].refs = Cardinality(Held(U, x)) + 1
          BY <2>4 DEF CacheOK, RefsOK
    <3> QED BY <3>1, HeldFacts
  <2>6. /\ x \in DOMAIN a.entry /\ a.entry[x] = c.entry[x] /\ x # h
        /\ IsInjective(a.lru)
        BY <1>0, <1>2, <1>8, <2>4
  <2>7. PICK d : d = FinishErase(a, x)
        OBVIOUS
  <2>8. Erased(a, d, x) /\ d.table = T
        BY <1>8, <2>5, <2>6, <2>7, FinishEraseFields
  <2>9. /\ d \in CacheType /\ d.entry = [F EXCEPT ![x] = Drop(c.entry[x])]
        /\ d.usage = u - 1 /\ d.lru = Unlink(c.lru, x)
        BY <1>8, <2>6, <2>8 DEF Erased
  <2>10. /\ b.entry = [c.entry EXCEPT ![x] = Drop(c.entry[x])]
         /\ b.usage = c.usage - 1 /\ b.lru = Unlink(c.lru, x)
        BY <2>3 DEF Erased
  <2>11. /\ DOMAIN b.entry = DOMAIN c.entry
         /\ DOMAIN d.entry = DOMAIN b.entry \cup {h} /\ d.entry[h] = g
         /\ \A y \in DOMAIN b.entry : d.entry[y] = b.entry[y]
        BY <1>2, <2>4, <2>6, <2>9, <2>10
  <2>12. d.table = [b.table EXCEPT ![f] = h] /\ d.usage = b.usage + 1
    <3>1. d.table = [c.table EXCEPT ![f] = h]
          BY <1>3, <2>8
    <3>2. d.table = [b.table EXCEPT ![f] = h]
          BY <1>0, <2>3, <3>1
    <3>3. d.usage = b.usage + 1
          BY <1>0, <1>4, <2>9, <2>10
    <3> QED BY <3>2, <3>3
  <2>13. Adds(b, d, h, f, g)
        BY <1>2, <2>9, <2>10, <2>11, <2>12 DEF Adds
  <2>14. EraseReplaced(a, c.table[f]) = d
        BY <2>1, <2>7 DEF EraseReplaced
  <2> QED BY <1>6, <2>2, <2>13, <2>14 DEF Replaces
<1> QED BY <1>9, <1>10

\* The handle of the next entry, and a cache that has it.
NextHandle(c, h) == h = Len(c.entry) + 1
Inserted(c, d, h, U, O) ==
    /\ CacheOK(d, U, O) /\ DOMAIN d.entry = DOMAIN c.entry \cup {h}
    /\ d.usage <= Max({Capacity, Cardinality(Threads)})

\* Insert keeps the cache in order and pushes out what is too much.
LEMMA CacheInsertOK ==
    ASSUME NEW c, NEW U, NEW V, NEW O, NEW f \in Files \ O, NEW t, NEW h,
           CacheOK(c, U, O), NextHandle(c, h), Grabs(U, V, h, t), Held(U, h) = {}
    PROVE  Inserted(c, CacheInsert(c, f), h, V, O)
<1>h. h = Len(c.entry) + 1
      BY DEF NextHandle
<1>0. c \in CacheType
      BY DEF CacheOK
<1>1. PICK new : new = [file |-> f, refs |-> 1, in_cache |-> FALSE, open |-> TRUE]
      OBVIOUS
<1>2. PICK g : g = [new EXCEPT !.refs = 2, !.in_cache = TRUE]
      OBVIOUS
<1>3. /\ g \in Entry /\ g.file = f /\ g.open /\ g.in_cache /\ g.refs = 2
      BY <1>1, <1>2 DEF Entry
<1>4. new \in Entry /\ new.file = f /\ new.open /\ ~new.in_cache /\ new.refs = 1
      BY <1>1 DEF Entry
<1>5. \E q : /\ CacheInsert(c, f) = PushOut(q) /\ CacheOK(q, V, O)
             /\ DOMAIN q.entry = DOMAIN c.entry \cup {h}
  <2>1. CASE Capacity > 0
    <3>1. PICK q : q = Replaces(c, f, h, g)
          OBVIOUS
    <3>2. CacheInsert(c, f) = PushOut(q)
          BY <1>1, <1>2, <1>h, <2>1, <3>1 DEF CacheInsert, Replaces
    <3>3. PICK b : b = EraseFile(c, f)
          OBVIOUS
    <3>4. CacheOK(b, U, O) /\ b.table[f] = NoHandle /\ DOMAIN b.entry = DOMAIN c.entry
          BY <3>3, EraseFileOK
    <3>5. Adds(b, q, h, f, g)
          BY <1>3, <1>h, <3>1, <3>3, InsertAdds
    <3>6. CacheOK(q, V, O)
          BY <3>4, <3>5, AddsOK
    <3> QED BY <3>2, <3>4, <3>5, <3>6 DEF Adds
  <2>2. CASE ~(Capacity > 0)
    <3>1. PICK q : q = [c EXCEPT !.entry = Append(@, new)]
          OBVIOUS
    <3>2. CacheInsert(c, f) = PushOut(q)
          BY <1>1, <2>2, <3>1 DEF CacheInsert
    <3>3. PICK F : F = Append(c.entry, new)
          OBVIOUS
    <3>4. /\ F \in Seq(Entry) /\ DOMAIN F = DOMAIN c.entry \cup {h} /\ F[h] = new
          /\ \A x \in DOMAIN c.entry : F[x] = c.entry[x]
          /\ h \in Nat /\ h # NoHandle /\ h \notin DOMAIN c.entry
          BY <1>0, <1>4, <1>h, <3>3, AppendEntry
    <3>5. q = [c EXCEPT !.entry = F]
          BY <1>0, <3>1, <3>3 DEF CacheType
    <3>6. /\ q \in CacheType /\ q.entry = F /\ q.lru = c.lru /\ q.table = c.table
          /\ q.usage = c.usage
          BY <1>0, <3>4, <3>5 DEF CacheType
    <3>7. Adds(c, q, h, f, new)
          BY <1>4, <3>4, <3>6 DEF Adds
    <3>8. CacheOK(q, V, O)
          BY <1>4, <3>7, AddsOK
    <3> QED BY <3>2, <3>4, <3>6, <3>8
  <2> QED BY <2>1, <2>2
<1>6. PICK q : /\ CacheInsert(c, f) = PushOut(q) /\ CacheOK(q, V, O)
               /\ DOMAIN q.entry = DOMAIN c.entry \cup {h}
      BY <1>5
<1>7. /\ CacheOK(PushOut(q), V, O) /\ DOMAIN PushOut(q).entry = DOMAIN q.entry
      /\ PushOut(q).usage <= Max({Capacity, Cardinality(Threads)})
      BY <1>6, PushOutOK
<1> QED BY <1>6, <1>7 DEF Inserted

-----------------------------------------------------------------------------
(* The invariant of the table cache.  A thread opens or uses a table only  *)
(* of a file that is not deleted, and only while the cache is open.  When  *)
(* it is destroyed nobody uses a table, so every entry goes.               *)

UserOK(c, u, O, done) ==
    \/ u = NotBusy
    \/ /\ ~done /\ u.file \in Files \ O
       /\ \/ u.at = "opening" /\ u.handle = NoHandle
          \/ u.at = "using" /\ u.handle \in DOMAIN c.entry

CacheBound == Max({Capacity, Cardinality(Threads)})

InOrder(c, U, O, done) ==
    /\ c \in CacheType /\ U \in [Threads -> Call] /\ done \in BOOLEAN
    /\ \A t \in Threads : UserOK(c, U[t], O, done)
    /\ RefsOK(c, U) /\ c.usage <= CacheBound
    /\ done => Cached(c) = {}
    /\ ~done => CacheOK(c, U, O)

CacheInv == InOrder(cache, users, obsolete, closed)

\* The bound is a number of tables.
LEMMA BoundFacts ==
    CacheBound \in Nat /\ Capacity <= CacheBound /\ Cardinality(Threads) <= CacheBound
<1>1. Cardinality(Threads) \in Nat /\ Capacity \in Nat
      BY ThreadsAssumption, CapacityAssumption, FS_CardinalityType
<1>2. PICK S : S = {Capacity, Cardinality(Threads)}
      OBVIOUS
<1>3. S \in SUBSET Nat /\ S # {}
      BY <1>1, <1>2
<1>4. IsFiniteSet(S)
  <2>1. IsFiniteSet({Capacity}) /\ S = {Capacity} \cup {Cardinality(Threads)}
        BY <1>2, FS_Singleton
  <2> QED BY <2>1, FS_AddElement
<1>5. Max(S) \in S /\ \A y \in S : y <= Max(S)
      BY <1>3, <1>4, MaxFacts
<1> QED BY <1>1, <1>2, <1>3, <1>5 DEF CacheBound

\* An idle thread.
LEMMA IdleThread == NotBusy \in Call /\ NotBusy.at = "idle"
BY DEF NotBusy, Call, NoHandle

\* The empty cache.
LEMMA CacheInitInv == ASSUME CacheInit PROVE CacheInv
<1>1. PICK c : c = cache
      OBVIOUS
<1>2. /\ c \in CacheType /\ c.entry = <<>> /\ c.lru = <<>> /\ c.usage = 0
      /\ \A f \in Files : c.table[f] = NoHandle
      BY <1>1 DEF CacheInit, CacheType, NoHandle
<1>3. DOMAIN c.entry = {} /\ Range(c.lru) = {} /\ IsInjective(c.lru) /\ Cached(c) = {}
      BY <1>2 DEF Range, IsInjective, Cached
<1>4. RefsOK(c, users) /\ TableOK(c, obsolete) /\ ListOK(c, users)
      BY <1>2, <1>3 DEF RefsOK, TableOK, ListOK
<1>5. Cardinality(Cached(c)) = 0
      BY <1>3, FS_EmptySet
<1>6. CacheOK(c, users, obsolete)
      BY <1>2, <1>4, <1>5 DEF CacheOK
<1>7. users \in [Threads -> Call] /\ \A t \in Threads : UserOK(c, users[t], obsolete, closed)
      BY IdleThread DEF CacheInit, UserOK
<1>8. 0 <= CacheBound
      BY BoundFacts
<1> QED BY <1>1, <1>2, <1>4, <1>6, <1>7, <1>8 DEF CacheInv, InOrder, CacheInit

\* A step of one thread that takes, keeps or gives back a table.
LEMMA ThreadStep ==
    ASSUME NEW c, NEW d, NEW U, NEW O, NEW t \in Threads, NEW r \in Call,
           InOrder(c, U, O, FALSE), CacheOK(d, [U EXCEPT ![t] = r], O),
           DOMAIN c.entry \subseteq DOMAIN d.entry, d.usage <= CacheBound,
           UserOK(d, r, O, FALSE)
    PROVE  InOrder(d, [U EXCEPT ![t] = r], O, FALSE)
<1>1. PICK V : V = [U EXCEPT ![t] = r]
      OBVIOUS
<1>2. V \in [Threads -> Call] /\ V[t] = r /\ \A x \in Threads : x # t => V[x] = U[x]
      BY <1>1 DEF InOrder
<1>3. \A x \in Threads : UserOK(d, V[x], O, FALSE)
      BY <1>2 DEF InOrder, UserOK
<1>4. d \in CacheType /\ RefsOK(d, V)
      BY <1>1 DEF CacheOK
<1> QED BY <1>1, <1>2, <1>3, <1>4 DEF InOrder

\* A table that is in the cache, or one that is to be opened.
LEMMA FindTableInv ==
    ASSUME CacheInv, NEW t \in Threads, NEW f \in Files, FindTable(t, f) PROVE CacheInv'
<1>0. /\ InOrder(cache, users, obsolete, FALSE) /\ closed = FALSE
      /\ CacheOK(cache, users, obsolete) /\ users \in [Threads -> Call]
      /\ f \in Files \ obsolete /\ cache.usage <= CacheBound /\ users[t] = NotBusy
      BY DEF CacheInv, InOrder, FindTable
<1>1. CASE cache.table[f] # NoHandle /\ cache' = Ref(cache, cache.table[f])
           /\ users' = [users EXCEPT ![t] = [at |-> "using", file |-> f,
                                             handle |-> cache.table[f]]]
  <2>1. PICK h : h = cache.table[f]
        OBVIOUS
  <2>2. h \in Cached(cache) /\ h \in DOMAIN cache.entry
        BY <1>0, <1>1, <2>1 DEF CacheOK, TableOK, Cached
  <2>12. PICK r : r = [at |-> "using", file |-> f, handle |-> h]
        OBVIOUS
  <2>3. r \in Call /\ r.at = "using" /\ r.handle = h /\ r.file = f
    <3>1. h \in Nat
          BY <1>0, <2>2, EntryType DEF CacheOK
    <3> QED BY <2>12, <3>1 DEF Call
  <2>4. PICK V : V = [users EXCEPT ![t] = r]
        OBVIOUS
  <2>5. users' = V /\ cache' = Ref(cache, h)
        BY <1>1, <2>1, <2>12, <2>4
  <2>6. Grabs(users, V, h, t)
        BY <1>0, <2>3, <2>4, GrabsUsing, IdleThread
  <2>7. PICK d : d = Ref(cache, h)
        OBVIOUS
  <2>8. CacheOK(d, V, obsolete) /\ DOMAIN d.entry = DOMAIN cache.entry /\ d.usage = cache.usage
        BY <1>0, <2>2, <2>6, <2>7, RefOK
  <2>9. UserOK(d, r, obsolete, FALSE)
        BY <1>0, <2>2, <2>3, <2>8 DEF UserOK
  <2>10. InOrder(d, V, obsolete, FALSE)
        BY <1>0, <2>3, <2>4, <2>8, <2>9, ThreadStep
  <2>11. cache' = d /\ users' = V /\ obsolete' = obsolete /\ closed' = FALSE
        BY <1>0, <2>5, <2>7 DEF FindTable
  <2> QED BY <2>10, <2>11 DEF CacheInv
<1>2. CASE cache.table[f] = NoHandle /\ cache' = cache
           /\ users' = [users EXCEPT ![t] = [at |-> "opening", file |-> f,
                                             handle |-> NoHandle]]
  <2>8. PICK r : r = [at |-> "opening", file |-> f, handle |-> NoHandle]
        OBVIOUS
  <2>1. r \in Call /\ r.at = "opening" /\ r.handle = NoHandle /\ r.file = f
        BY <2>8 DEF Call, NoHandle
  <2>2. PICK V : V = [users EXCEPT ![t] = r]
        OBVIOUS
  <2>3. \A h : Held(V, h) = Held(users, h)
        BY <1>0, <2>1, <2>2, SameHeld, IdleThread
  <2>4. CacheOK(cache, V, obsolete)
        BY <1>0, <2>3 DEF CacheOK, RefsOK, ListOK
  <2>5. UserOK(cache, r, obsolete, FALSE)
        BY <1>0, <2>1 DEF UserOK
  <2>6. InOrder(cache, V, obsolete, FALSE)
        BY <1>0, <2>1, <2>2, <2>4, <2>5, ThreadStep
  <2>7. cache' = cache /\ users' = V /\ obsolete' = obsolete /\ closed' = FALSE
        BY <1>0, <1>2, <2>8, <2>2 DEF FindTable
  <2> QED BY <2>6, <2>7 DEF CacheInv
<1> QED BY <1>1, <1>2 DEF FindTable

\* The cache is open while a thread opens or uses a table.
LEMMA BusyFacts ==
    ASSUME CacheInv, NEW t \in Threads, users[t].at # "idle"
    PROVE  /\ InOrder(cache, users, obsolete, FALSE) /\ closed = FALSE
           /\ CacheOK(cache, users, obsolete) /\ users \in [Threads -> Call]
           /\ users[t].file \in Files \ obsolete /\ cache.usage <= CacheBound
           /\ users[t].at = "using" => users[t].handle \in DOMAIN cache.entry
<1>1. UserOK(cache, users[t], obsolete, closed) /\ closed \in BOOLEAN /\ users[t] # NotBusy
      BY IdleThread DEF CacheInv, InOrder
<1>2. closed = FALSE
      BY <1>1 DEF UserOK
<1> QED BY <1>1, <1>2 DEF CacheInv, InOrder, UserOK

\* The new entry has no user yet.
LEMMA OpenedTableInv ==
    ASSUME CacheInv, NEW t \in Threads, OpenedTable(t) PROVE CacheInv'
<1>0. /\ InOrder(cache, users, obsolete, FALSE) /\ closed = FALSE
      /\ CacheOK(cache, users, obsolete) /\ users \in [Threads -> Call]
      /\ users[t].file \in Files \ obsolete /\ users[t].at = "opening"
      BY BusyFacts DEF OpenedTable
<1>1. PICK h : h = Len(cache.entry) + 1
      OBVIOUS
<1>2. PICK f \in Files \ obsolete : f = users[t].file
      BY <1>0
<1>3. h \in Nat /\ h \notin DOMAIN cache.entry
      BY <1>0, <1>1, EntryType DEF CacheOK
<1>4. PICK r : r = [users[t] EXCEPT !.at = "using", !.handle = h]
      OBVIOUS
<1>5. r \in Call /\ r.at = "using" /\ r.handle = h /\ r.file = f
  <2>1. PICK u \in Call : u = users[t]
        BY <1>0
  <2>2. r = [u EXCEPT !.at = "using", !.handle = h] /\ u.file = f
        BY <1>2, <1>4, <2>1
  <2> QED BY <1>3, <2>2 DEF Call
<1>6. PICK V : V = [users EXCEPT ![t] = r]
      OBVIOUS
<1>7. users' = V
      BY <1>0, <1>1, <1>4, <1>6 DEF OpenedTable
<1>8. Grabs(users, V, h, t)
      BY <1>0, <1>5, <1>6, GrabsUsing
<1>9. Held(users, h) = {}
  <2>1. \A x \in Threads : users[x].at = "using" => users[x].handle # h
        BY <1>0, <1>3, IdleThread DEF InOrder, UserOK
  <2> QED BY <2>1 DEF Held
<1>10. PICK d : d = CacheInsert(cache, f)
      OBVIOUS
<1>11. /\ CacheOK(d, V, obsolete) /\ DOMAIN d.entry = DOMAIN cache.entry \cup {h}
       /\ d.usage <= CacheBound
  <2>1. NextHandle(cache, h)
        BY <1>1 DEF NextHandle
  <2>2. Inserted(cache, CacheInsert(cache, f), h, V, obsolete)
        BY <1>0, <1>2, <1>8, <1>9, <2>1, CacheInsertOK
  <2> QED BY <1>10, <2>2 DEF Inserted, CacheBound
<1>12. UserOK(d, r, obsolete, FALSE)
      BY <1>2, <1>5, <1>11 DEF UserOK
<1>13. InOrder(d, V, obsolete, FALSE)
      BY <1>0, <1>5, <1>6, <1>11, <1>12, ThreadStep
<1>14. cache' = d /\ users' = V /\ obsolete' = obsolete /\ closed' = FALSE
      BY <1>0, <1>2, <1>7, <1>10 DEF OpenedTable
<1> QED BY <1>13, <1>14 DEF CacheInv

\* Nothing was opened.
LEMMA OpenTableFailsInv ==
    ASSUME CacheInv, NEW t \in Threads, OpenTableFails(t) PROVE CacheInv'
<1>0. /\ InOrder(cache, users, obsolete, FALSE) /\ closed = FALSE
      /\ CacheOK(cache, users, obsolete) /\ users \in [Threads -> Call]
      /\ cache.usage <= CacheBound /\ users[t].at = "opening"
      BY BusyFacts DEF OpenTableFails
<1>1. PICK V : V = [users EXCEPT ![t] = NotBusy]
      OBVIOUS
<1>2. \A h : Held(V, h) = Held(users, h)
      BY <1>0, <1>1, SameHeld, IdleThread
<1>3. CacheOK(cache, V, obsolete)
      BY <1>0, <1>2 DEF CacheOK, RefsOK, ListOK
<1>4. InOrder(cache, V, obsolete, FALSE)
      BY <1>0, <1>1, <1>3, ThreadStep, IdleThread DEF UserOK
<1>5. cache' = cache /\ users' = V /\ obsolete' = obsolete /\ closed' = FALSE
      BY <1>0, <1>1 DEF OpenTableFails
<1> QED BY <1>4, <1>5 DEF CacheInv

\* The table is given back.
LEMMA ReleaseTableInv ==
    ASSUME CacheInv, NEW t \in Threads, ReleaseTable(t) PROVE CacheInv'
<1>0. /\ InOrder(cache, users, obsolete, FALSE) /\ closed = FALSE
      /\ CacheOK(cache, users, obsolete) /\ users \in [Threads -> Call]
      /\ cache.usage <= CacheBound /\ users[t].at = "using"
      /\ users[t].handle \in DOMAIN cache.entry
      BY BusyFacts DEF ReleaseTable
<1>1. PICK V : V = [users EXCEPT ![t] = NotBusy]
      OBVIOUS
<1>2. PICK h \in DOMAIN cache.entry : h = users[t].handle
      BY <1>0
<1>3. Grabs(V, users, h, t)
      BY <1>0, <1>1, <1>2, GrabsReleased, IdleThread
<1>4. PICK d : d = Unref(cache, h)
      OBVIOUS
<1>5. CacheOK(d, V, obsolete) /\ DOMAIN d.entry = DOMAIN cache.entry /\ d.usage = cache.usage
      BY <1>0, <1>2, <1>3, <1>4, UnrefOK
<1>6. InOrder(d, V, obsolete, FALSE)
      BY <1>0, <1>1, <1>5, ThreadStep, IdleThread DEF UserOK
<1>7. cache' = d /\ users' = V /\ obsolete' = obsolete /\ closed' = FALSE
      BY <1>0, <1>1, <1>2, <1>4 DEF ReleaseTable
<1> QED BY <1>6, <1>7 DEF CacheInv

\* A file that nobody reads is deleted.
LEMMA EvictInv ==
    ASSUME CacheInv, NEW f \in Files, Evict(f) PROVE CacheInv'
<1>0. /\ InOrder(cache, users, obsolete, FALSE) /\ closed = FALSE
      /\ CacheOK(cache, users, obsolete) /\ users \in [Threads -> Call]
      /\ cache.usage <= CacheBound /\ \A t \in Threads : users[t].file # f
      BY DEF CacheInv, InOrder, Evict
<1>1. PICK d : d = EraseFile(cache, f)
      OBVIOUS
<1>2. /\ CacheOK(d, users, obsolete) /\ d.table[f] = NoHandle
      /\ DOMAIN d.entry = DOMAIN cache.entry /\ d.usage <= cache.usage
      BY <1>0, <1>1, EraseFileOK
<1>3. PICK O : O = obsolete \union {f}
      OBVIOUS
<1>4. CacheOK(d, users, O)
  <2>1. d \in CacheType /\ TableOK(d, obsolete)
        BY <1>2 DEF CacheOK
  <2>2. \A h \in DOMAIN d.entry : d.entry[h].in_cache => d.entry[h].file # f
        BY <1>2, <2>1, EntryType DEF TableOK
  <2>3. TableOK(d, O)
        BY <1>3, <2>1, <2>2 DEF TableOK
  <2> QED BY <1>2, <2>3 DEF CacheOK
<1>5. \A t \in Threads : UserOK(d, users[t], O, FALSE)
      BY <1>0, <1>2, <1>3 DEF InOrder, UserOK
<1>6. d.usage <= CacheBound
  <2>1. d.usage \in Int /\ cache.usage \in Int /\ CacheBound \in Int
        BY <1>0, <1>2, EntryType, BoundFacts DEF CacheOK
  <2> QED BY <1>0, <1>2, <2>1
<1>7. InOrder(d, users, O, FALSE)
      BY <1>0, <1>4, <1>5, <1>6 DEF InOrder, CacheOK
<1>8. cache' = d /\ users' = users /\ obsolete' = O /\ closed' = FALSE
      BY <1>0, <1>1, <1>3 DEF Evict
<1> QED BY <1>7, <1>8 DEF CacheInv

\* Nobody uses a table when the cache is destroyed.
LEMMA DestroyCacheInv == ASSUME CacheInv, DestroyCache PROVE CacheInv'
<1>0. /\ CacheOK(cache, users, obsolete) /\ users \in [Threads -> Call]
      /\ cache.usage <= CacheBound /\ \A t \in Threads : users[t] = NotBusy
      BY DEF CacheInv, InOrder, DestroyCache
<1>1. \A h : Held(users, h) = {} /\ Cardinality(Held(users, h)) = 0
  <2>1. \A h : Held(users, h) = {}
        BY <1>0, IdleThread DEF Held
  <2> QED BY <2>1, HeldFacts
<1>2. Range(cache.lru) = Cached(cache)
      BY <1>0, <1>1 DEF CacheOK, ListOK
<1>3. PICK c \in CacheType : c = cache
      BY <1>0 DEF CacheOK
<1>4. \A h \in DOMAIN c.entry :
          /\ c.entry[h] \in Entry
          /\ c.entry[h].refs = (IF c.entry[h].in_cache THEN 1 ELSE 0)
          /\ c.entry[h].open <=> c.entry[h].refs # 0
  <2>1. RefsOK(c, users)
        BY <1>0, <1>3 DEF CacheOK
  <2>2. \A h \in DOMAIN c.entry : c.entry[h] \in Entry
        BY <1>3, EntryType
  <2>3. \A h \in DOMAIN c.entry :
            /\ c.entry[h].refs = (IF c.entry[h].in_cache THEN 1 ELSE 0)
            /\ c.entry[h].open <=> c.entry[h].refs # 0
        BY <1>1, <2>1 DEF RefsOK
  <2> QED BY <2>2, <2>3
<1>5. PICK E : E = [h \in DOMAIN c.entry |->
                       IF h \in Range(c.lru) THEN Drop(c.entry[h]) ELSE c.entry[h]]
      OBVIOUS
<1>6. \A h \in DOMAIN c.entry : /\ E[h] \in Entry /\ E[h].refs = 0
                                /\ ~E[h].in_cache /\ ~E[h].open
  <2> SUFFICES ASSUME NEW h \in DOMAIN c.entry
               PROVE  /\ E[h] \in Entry /\ E[h].refs = 0
                      /\ ~E[h].in_cache /\ ~E[h].open
      OBVIOUS
  <2>1. CASE h \in Range(c.lru)
    <3>1. c.entry[h].in_cache /\ c.entry[h].refs = 1 /\ c.entry[h] \in Entry
          BY <1>2, <1>3, <1>4, <2>1 DEF Cached
    <3>2. Dropped(Drop(c.entry[h]), c.entry[h])
          BY <3>1, DropFields
    <3>3. E[h] = Drop(c.entry[h])
          BY <1>5, <2>1
    <3>4. PICK e, g : e = E[h] /\ g = c.entry[h]
          OBVIOUS
    <3>5. g.refs = 1 /\ Dropped(e, g)
          BY <3>1, <3>2, <3>3, <3>4
    <3>6. e \in Entry /\ e.refs = 0 /\ e.in_cache = FALSE /\ e.open = FALSE
          BY <3>5 DEF Dropped
    <3> QED BY <3>4, <3>6
  <2>2. CASE h \notin Range(c.lru)
    <3>1. ~c.entry[h].in_cache
          BY <1>2, <1>3, <2>2 DEF Cached
    <3>2. E[h] = c.entry[h]
          BY <1>5, <2>2
    <3> QED BY <1>4, <3>1, <3>2
  <2> QED BY <2>1, <2>2
<1>7. E \in Seq(Entry) /\ DOMAIN E = DOMAIN c.entry
  <2>1. PICK m \in Nat : DOMAIN c.entry = 1 .. m
        BY <1>3, EntryType
  <2>2. E \in [1 .. m -> Entry]
        BY <1>5, <1>6, <2>1
  <2> QED BY <1>5, <2>2
<1>8. PICK d : d = [c EXCEPT !.entry = E]
      OBVIOUS
<1>9. d \in CacheType /\ d.entry = E /\ d.usage = c.usage
      BY <1>3, <1>7, <1>8 DEF CacheType
<1>10. cache' = d /\ users' = users /\ obsolete' = obsolete /\ closed' = TRUE
  <2>1. cache' = [cache EXCEPT !.entry = [h \in DOMAIN @ |->
                      IF h \in Range(cache.lru) THEN Drop(@[h]) ELSE @[h]]]
        BY DEF DestroyCache
  <2>2. cache' = [c EXCEPT !.entry = E]
        BY <1>3, <1>5, <2>1 DEF CacheType
  <2> QED BY <1>8, <2>2 DEF DestroyCache
<1>11. RefsOK(d, users) /\ Cached(d) = {}
      BY <1>1, <1>6, <1>7, <1>9 DEF RefsOK, Cached
<1>12. \A t \in Threads : UserOK(d, users[t], obsolete, TRUE)
      BY <1>0 DEF UserOK
<1>13. InOrder(d, users, obsolete, TRUE)
      BY <1>0, <1>3, <1>9, <1>11, <1>12 DEF InOrder
<1> QED BY <1>10, <1>13 DEF CacheInv

\* Every step keeps the cache in order.
LEMMA CacheNextInv == ASSUME CacheInv, [CacheNext]_cacheVars PROVE CacheInv'
<1>1. CASE CacheNext
  <2>1. ASSUME NEW t \in Threads, NEW f \in Files, FindTable(t, f) PROVE CacheInv'
        BY <2>1, FindTableInv
  <2>2. ASSUME NEW t \in Threads, OpenedTable(t) PROVE CacheInv'
        BY <2>2, OpenedTableInv
  <2>3. ASSUME NEW t \in Threads, OpenTableFails(t) PROVE CacheInv'
        BY <2>3, OpenTableFailsInv
  <2>4. ASSUME NEW t \in Threads, ReleaseTable(t) PROVE CacheInv'
        BY <2>4, ReleaseTableInv
  <2>5. ASSUME NEW f \in Files, Evict(f) PROVE CacheInv'
        BY <2>5, EvictInv
  <2>6. CASE DestroyCache
        BY <2>6, DestroyCacheInv
  <2> QED BY <1>1, <2>1, <2>2, <2>3, <2>4, <2>5, <2>6 DEF CacheNext
<1>2. CASE UNCHANGED cacheVars
      BY <1>2 DEF cacheVars, CacheInv
<1> QED BY <1>1, <1>2

\* What a cache that is in order tells its users.
LEMMA CacheInvOpen == ASSUME CacheInv PROVE OpenWhileUsed
<1>0. /\ cache \in CacheType /\ RefsOK(cache, users) /\ cache.usage <= CacheBound
      /\ closed \in BOOLEAN /\ closed => Cached(cache) = {}
      /\ ~closed => CacheOK(cache, users, obsolete)
      BY DEF CacheInv, InOrder
<1> SUFFICES ASSUME NEW h \in DOMAIN cache.entry, NEW kept,
                    kept = (~closed /\ cache.table[cache.entry[h].file] = h)
             PROVE  /\ cache.entry[h].open <=> Holders(h) # {} \/ kept
                    /\ kept => cache.entry[h].file \notin obsolete
                    /\ h \in Range(cache.lru) /\ ~closed <=> kept /\ Holders(h) = {}
    BY <1>0 DEF OpenWhileUsed, CacheBound
<1>1. Holders(h) = Held(users, h)
      BY DEF Holders, Held
<1>2. PICK k \in Nat : k = Cardinality(Held(users, h)) /\ (k = 0 <=> Held(users, h) = {})
      BY HeldFacts
<1>3. /\ cache.entry[h].refs = k + (IF cache.entry[h].in_cache THEN 1 ELSE 0)
      /\ cache.entry[h].open <=> cache.entry[h].refs # 0
      BY <1>0, <1>2 DEF RefsOK
<1>4. cache.entry[h].open <=> Holders(h) # {} \/ cache.entry[h].in_cache
      BY <1>1, <1>2, <1>3
<1>5. CASE closed
      BY <1>0, <1>4, <1>5 DEF Cached
<1>6. CASE ~closed
  <2>1. TableOK(cache, obsolete) /\ ListOK(cache, users)
        BY <1>0, <1>6 DEF CacheOK
  <2>2. kept <=> cache.entry[h].in_cache
        BY <1>6, <2>1 DEF TableOK
  <2>3. kept => cache.entry[h].file \notin obsolete
        BY <2>1, <2>2 DEF TableOK
  <2>4. h \in Range(cache.lru) <=> cache.entry[h].in_cache /\ Held(users, h) = {}
        BY <2>1 DEF ListOK, Cached
  <2> QED BY <1>1, <1>4, <1>6, <2>2, <2>3, <2>4
<1> QED BY <1>5, <1>6

(***************************************************************************)
(* Whatever the threads open, use and release and whichever files are      *)
(* deleted, for any number of files and threads and any capacity: a table  *)
(* is open exactly as long as a thread uses it or the table cache may hand *)
(* it out, the list of entries to push out has exactly the cached ones     *)
(* nobody uses, and the cache is never larger than its capacity or the     *)
(* number of threads (Ref, Unref, FinishErase, Insert, ~LRUCache).         *)
(***************************************************************************)
THEOREM TableCacheOpen == CacheSpec => []OpenWhileUsed
<1>1. CacheInit => CacheInv
      BY CacheInitInv
<1>2. CacheInv /\ [CacheNext]_cacheVars => CacheInv'
      BY CacheNextInv
<1>3. CacheInv => OpenWhileUsed
      BY CacheInvOpen
<1> QED BY <1>1, <1>2, <1>3, PTL DEF CacheSpec

-----------------------------------------------------------------------------
(* The database iterator: what it keeps between its steps.                 *)

Item == [child: Children, key: UserKeys, seq: Nat, value: BOOLEAN]
EntriesOK(E) ==
    /\ E \subseteq Item /\ IsFiniteSet(E)
    /\ \A e, f \in E : e.seq = f.seq => e = f

\* What of the entries the snapshot sees, and what it shows of those.
Visible(E) == {e \in E : e.seq <= Snapshot}
Newest(T) == {e \in T : e.value /\ \A f \in T : f.key = e.key => f.seq <= e.seq}

\* None of T is between x and y, which is the next, or none is after x.
NextIn(T, x, y) ==
    /\ y # NoEntry => Less(x, y)
    /\ \A e \in T : Less(x, e) => y # NoEntry /\ ~Less(e, y)
PrevIn(T, x, y) ==
    /\ y # NoEntry => Less(y, x)
    /\ \A e \in T : Less(e, x) => y # NoEntry /\ ~Less(y, e)

\* Every child is at one of its entries or at none, the other children on
\* the side of the current entry that the direction says, and no child has
\* passed an entry that the snapshot sees.
MergedOK(E, m) ==
    /\ m \in [at: [Children -> E \cup {NoEntry}], current: Children \cup {NoChild},
              direction: {"forward", "reverse"}]
    /\ \A c \in Children : m.at[c] # NoEntry => m.at[c].child = c
    /\ m.current # NoChild =>
          LET x == m.at[m.current]
          IN  /\ x # NoEntry
              /\ \A c \in Children \ {m.current} :
                    IF m.direction = "forward"
                    THEN NextIn(Of(Visible(E), c), x, m.at[c])
                    ELSE PrevIn(Of(Visible(E), c), x, m.at[c])

\* The keys among which the answer of a call is.
Asks(o, s, k) ==
    /\ o.name = "Seek" => k >= o.target
    /\ o.name = "Next" => k > s.key
    /\ o.name = "Prev" => k < s.key
Wanted(T, o, s) == {e \in Newest(T) : Asks(o, s, e.key)}

\* FindNextUserEntry at x has passed nothing that is wanted, and skips the
\* keys of what it passed.
FindsNext(T, x, skip, k, o, s) ==
    /\ x # NoEntry /\ o.name \in {"Seek", "SeekToFirst", "Next"}
    /\ \A e \in Wanted(T, o, s) : ~Less(e, x) /\ (skip => e.key > k)
    /\ \A f \in T : Less(f, x) /\ f.key = x.key => skip /\ x.key <= k
    /\ o.name = "Seek" => x.key >= o.target
    /\ o.name = "Next" => skip /\ k >= s.key /\ \A f \in T : f.key < s.key => Less(f, x)

\* Prev's loop is at an entry of the current key, or at one inserted before it.
ScansBack(T, x, k, o, s) ==
    /\ x # NoEntry /\ o.name = "Prev" /\ k = s.key
    /\ \A e \in T : e.key < k => Less(e, x)

\* FindPrevUserEntry at x has saved what it passed last, unless that was a
\* deletion.
FindsPrev(T, x, isValue, v, k, o, s) ==
    /\ o.name \in {"SeekToLast", "Prev"}
    /\ x # NoEntry /\ o.name = "Prev" => x.key < s.key
    /\ IF isValue
       THEN /\ v \in T /\ v.value /\ k = v.key /\ Asks(o, s, k)
            /\ PrevIn(T, v, x)
            /\ \A e \in Wanted(T, o, s) : e.key <= k
       ELSE \A e \in Wanted(T, o, s) : x # NoEntry /\ ~Less(x, e)

\* After a move back the iterator stands just before the keys it shows.
StandsBefore(T, x, v, k, s) ==
    /\ v = s /\ k = s.key
    /\ x # NoEntry => x.key < s.key
    /\ \A e \in T : e.key < s.key => x # NoEntry /\ ~Less(x, e)

IterType ==
    /\ EntriesOK(entries) /\ MergedOK(entries, merged)
    /\ saved_key \in Nat /\ direction \in {"forward", "reverse"}
    /\ skipping \in BOOLEAN /\ value_type \in BOOLEAN /\ valid \in BOOLEAN
    /\ iterPC \in {"idle", "findNext", "scanBack", "findPrev"}
    /\ op = NoCall \/ op \in C!Calls
    /\ shown \in View \cup {NoEntry}
    /\ valid <=> shown # NoEntry
    /\ op.name \in {"Next", "Prev"} => valid
    /\ iterPC # "idle" => op # NoCall

IterInv ==
    /\ IterType
    /\ iterPC = "idle" /\ valid =>
          IF direction = "forward" THEN iter = shown
          ELSE StandsBefore(Seen, iter, saved, saved_key, shown)
    /\ iterPC = "findNext" =>
          direction = "forward" /\ FindsNext(Seen, iter, skipping, saved_key, op, shown)
    /\ iterPC = "scanBack" => ScansBack(Seen, iter, saved_key, op, shown)
    /\ iterPC = "findPrev" =>
          /\ direction = "reverse"
          /\ FindsPrev(Seen, iter, value_type, saved, saved_key, op, shown)

\* The fields of an entry.
LEMMA ItemType ==
    ASSUME NEW e \in Item
    PROVE  /\ e.key \in UserKeys /\ e.key \in Nat /\ e.key # 0 /\ e.seq \in Nat
           /\ e.child \in Children /\ e.value \in BOOLEAN /\ e # NoEntry
BY KeysAssumption, NoEntryAssumption DEF Item

\* Internal keys are ordered.
LEMMA LessOrder ==
    ASSUME NEW e, NEW f, NEW g, e.key \in Nat, f.key \in Nat, g.key \in Nat,
           e.seq \in Nat, f.seq \in Nat, g.seq \in Nat
    PROVE  /\ ~Less(e, e) /\ (Less(e, f) => ~Less(f, e))
           /\ Less(e, f) /\ Less(f, g) => Less(e, g)
           /\ Less(e, f) /\ ~Less(g, f) => Less(e, g)
           /\ ~Less(f, e) /\ Less(f, g) => Less(e, g)
           /\ ~Less(f, e) /\ ~Less(g, f) => ~Less(g, e)
BY DEF Less

\* The order and the keys.
LEMMA LessKeys ==
    ASSUME NEW e, NEW f, e.key \in Nat, f.key \in Nat, e.seq \in Nat, f.seq \in Nat
    PROVE  /\ Less(e, f) => e.key <= f.key /\ (e.key = f.key => e.seq > f.seq)
           /\ e.key < f.key => Less(e, f)
           /\ e.key = f.key /\ e.seq > f.seq => Less(e, f)
           /\ ~Less(e, f) => f.key <= e.key
BY DEF Less

\* No two entries have the same place.
LEMMA LessTotal ==
    ASSUME NEW E, EntriesOK(E), NEW e \in E, NEW f \in E
    PROVE  e = f \/ Less(e, f) \/ Less(f, e)
<1>1. e.key \in Nat /\ f.key \in Nat /\ e.seq \in Nat /\ f.seq \in Nat
      BY ItemType DEF EntriesOK
<1>2. e.seq = f.seq => e = f
      BY DEF EntriesOK
<1> QED BY <1>1, <1>2 DEF Less

\* Of any set of entries there is a first.
LEMMA LeastFacts ==
    ASSUME NEW E, EntriesOK(E), NEW S, S \subseteq E
    PROVE  /\ S = {} => Least(S) = NoEntry
           /\ S # {} => Least(S) \in S /\ Least(S) # NoEntry /\ \A f \in S : ~Less(f, Least(S))
<1>0. S = {} => Least(S) = NoEntry
      BY DEF Least
<1> SUFFICES ASSUME S # {}
             PROVE  Least(S) \in S /\ Least(S) # NoEntry /\ \A f \in S : ~Less(f, Least(S))
    BY <1>0
<1>1. IsFiniteSet(S)
      BY FS_Subset DEF EntriesOK
<1> DEFINE Under(e) == {f \in S : Less(f, e)}
           N == {Cardinality(Under(e)) : e \in S}
<1>2. \A e \in S : IsFiniteSet(Under(e)) /\ Cardinality(Under(e)) \in Nat
      BY <1>1, FS_Subset, FS_CardinalityType
<1>3. N \in SUBSET Nat /\ N # {}
      BY <1>2
<1>4. PICK e \in S : \A g \in S : Cardinality(Under(e)) <= Cardinality(Under(g))
  <2>1. PICK n \in N : \A k \in N : n <= k
    <3> HIDE DEF N
    <3> QED BY <1>3, LeastNumber
  <2>2. PICK e \in S : n = Cardinality(Under(e))
        OBVIOUS
  <2>3. \A g \in S : Cardinality(Under(g)) \in N
        OBVIOUS
  <2> HIDE DEF N, Under
  <2> QED BY <2>1, <2>2, <2>3
<1>5. \A f \in S : ~Less(f, e)
  <2> SUFFICES ASSUME NEW f \in S, Less(f, e) PROVE FALSE
      OBVIOUS
  <2>1. \A g \in S : g.key \in Nat /\ g.seq \in Nat
        BY ItemType DEF EntriesOK
  <2>2. Under(f) \subseteq Under(e) /\ f \in Under(e) /\ f \notin Under(f)
        BY <2>1, LessOrder
  <2>3. Under(f) \in SUBSET Under(e) /\ Under(f) # Under(e)
        BY <2>2
  <2> HIDE DEF Under
  <2>4. Cardinality(Under(f)) <= Cardinality(Under(e)) /\ Cardinality(Under(e)) # Cardinality(Under(f))
        BY <1>2, <2>3, FS_Subset
  <2> QED BY <1>2, <1>4, <2>4
<1>6. Least(S) = CHOOSE x \in S : \A f \in S : ~Less(f, x)
      BY DEF Least
<1>7. Least(S) \in S /\ \A f \in S : ~Less(f, Least(S))
      BY <1>4, <1>5, <1>6
<1> QED BY <1>7, ItemType DEF EntriesOK

\* And there is a last.
LEMMA GreatestFacts ==
    ASSUME NEW E, EntriesOK(E), NEW S, S \subseteq E
    PROVE  /\ S = {} => Greatest(S) = NoEntry
           /\ S # {} => /\ Greatest(S) \in S /\ Greatest(S) # NoEntry
                        /\ \A f \in S : ~Less(Greatest(S), f)
<1>0. S = {} => Greatest(S) = NoEntry
      BY DEF Greatest
<1> SUFFICES ASSUME S # {}
             PROVE  /\ Greatest(S) \in S /\ Greatest(S) # NoEntry
                    /\ \A f \in S : ~Less(Greatest(S), f)
    BY <1>0
<1>1. IsFiniteSet(S)
      BY FS_Subset DEF EntriesOK
<1> DEFINE Over(e) == {f \in S : Less(e, f)}
           N == {Cardinality(Over(e)) : e \in S}
<1>2. \A e \in S : IsFiniteSet(Over(e)) /\ Cardinality(Over(e)) \in Nat
      BY <1>1, FS_Subset, FS_CardinalityType
<1>3. N \in SUBSET Nat /\ N # {}
      BY <1>2
<1>4. PICK e \in S : \A g \in S : Cardinality(Over(e)) <= Cardinality(Over(g))
  <2>1. PICK n \in N : \A k \in N : n <= k
    <3> HIDE DEF N
    <3> QED BY <1>3, LeastNumber
  <2>2. PICK e \in S : n = Cardinality(Over(e))
        OBVIOUS
  <2>3. \A g \in S : Cardinality(Over(g)) \in N
        OBVIOUS
  <2> HIDE DEF N, Over
  <2> QED BY <2>1, <2>2, <2>3
<1>5. \A f \in S : ~Less(e, f)
  <2> SUFFICES ASSUME NEW f \in S, Less(e, f) PROVE FALSE
      OBVIOUS
  <2>1. \A g \in S : g.key \in Nat /\ g.seq \in Nat
        BY ItemType DEF EntriesOK
  <2>2. Over(f) \subseteq Over(e) /\ f \in Over(e) /\ f \notin Over(f)
        BY <2>1, LessOrder
  <2>3. Over(f) \in SUBSET Over(e) /\ Over(f) # Over(e)
        BY <2>2
  <2> HIDE DEF Over
  <2>4. Cardinality(Over(f)) <= Cardinality(Over(e)) /\ Cardinality(Over(e)) # Cardinality(Over(f))
        BY <1>2, <2>3, FS_Subset
  <2> QED BY <1>2, <1>4, <2>4
<1>6. Greatest(S) = CHOOSE x \in S : \A f \in S : ~Less(x, f)
      BY DEF Greatest
<1>7. Greatest(S) \in S /\ \A f \in S : ~Less(Greatest(S), f)
      BY <1>4, <1>5, <1>6
<1> QED BY <1>7, ItemType DEF EntriesOK

-----------------------------------------------------------------------------
(* The merging iterator.                                                   *)

\* The numbers of entries.
LEMMA EntryNumbers ==
    ASSUME NEW E, EntriesOK(E), NEW e \in E
    PROVE  e.key \in Nat /\ e.seq \in Nat /\ e # NoEntry /\ e.child \in Children
BY ItemType DEF EntriesOK

\* The first entry of a child after x.
LEMMA AfterNext ==
    ASSUME NEW E, EntriesOK(E), NEW x \in E, NEW c, NEW y, y = After(E, c, x)
    PROVE  /\ y \in E \cup {NoEntry} /\ (y # NoEntry => y.child = c)
           /\ NextIn(Of(Visible(E), c), x, y)
<1>1. PICK S : S = {f \in Of(E, c) : Less(x, f)}
      OBVIOUS
<1>2. S \subseteq E /\ y = Least(S)
      BY <1>1 DEF Of, After
<1>3. /\ S = {} => y = NoEntry
      /\ S # {} => y \in S /\ y # NoEntry /\ \A f \in S : ~Less(f, y)
      BY <1>2, LeastFacts
<1>4. \A e \in Of(Visible(E), c) : Less(x, e) => e \in S
      BY <1>1 DEF Of, Visible
<1>5. \A e \in S : e \in E /\ e.child = c /\ Less(x, e)
      BY <1>1 DEF Of
<1> QED BY <1>3, <1>4, <1>5 DEF NextIn

\* The last entry of a child before x.
LEMMA BeforePrev ==
    ASSUME NEW E, EntriesOK(E), NEW x \in E, NEW c, NEW y, y = Before(E, c, x)
    PROVE  /\ y \in E \cup {NoEntry} /\ (y # NoEntry => y.child = c)
           /\ PrevIn(Of(Visible(E), c), x, y)
<1>1. PICK S : S = {f \in Of(E, c) : Less(f, x)}
      OBVIOUS
<1>2. S \subseteq E /\ y = Greatest(S)
      BY <1>1 DEF Of, Before
<1>3. /\ S = {} => y = NoEntry
      /\ S # {} => y \in S /\ y # NoEntry /\ \A f \in S : ~Less(y, f)
      BY <1>2, GreatestFacts
<1>4. \A e \in Of(Visible(E), c) : Less(e, x) => e \in S
      BY <1>1 DEF Of, Visible
<1>5. \A e \in S : e \in E /\ e.child = c /\ Less(e, x)
      BY <1>1 DEF Of
<1> QED BY <1>3, <1>4, <1>5 DEF PrevIn

\* The children's positions.
AtOK(E, at) ==
    /\ at \in [Children -> E \cup {NoEntry}]
    /\ \A c \in Children : at[c] # NoEntry => at[c].child = c

\* No child has passed an entry of P, and P has all that the snapshot sees
\* from a child's position on.
AllAhead(E, at, P) ==
    /\ P \subseteq Visible(E)
    /\ \A e \in P : at[e.child] # NoEntry /\ ~Less(e, at[e.child])
    /\ \A c \in Children : at[c] # NoEntry =>
          \A e \in Visible(E) : ~Less(e, at[c]) => e \in P
AllBehind(E, at, P) ==
    /\ P \subseteq Visible(E)
    /\ \A e \in P : at[e.child] # NoEntry /\ ~Less(at[e.child], e)
    /\ \A c \in Children : at[c] # NoEntry =>
          \A e \in Visible(E) : ~Less(at[c], e) => e \in P

\* The smallest of the positions is the first entry of P or comes before it.
LEMMA FindSmallestOK ==
    ASSUME NEW E, EntriesOK(E), NEW at, AtOK(E, at), NEW P, AllAhead(E, at, P),
           NEW m, m = FindSmallest(at), NEW y, y = Current(m)
    PROVE  /\ MergedOK(E, m) /\ y \in E \cup {NoEntry}
           /\ y # NoEntry => \E c \in Children : y = at[c]
           /\ \A e \in P : y # NoEntry /\ ~Less(e, y)
<1>1. PICK S : S = Positions(at)
      OBVIOUS
<1>2. S \subseteq E /\ \A c \in Children : at[c] # NoEntry => at[c] \in S
      BY <1>1 DEF Positions, AtOK
<1>3. \A e \in S : e \in E /\ \E c \in Children : e = at[c] /\ e # NoEntry
      BY <1>1 DEF Positions, AtOK
<1>4. PICK z : z = Least(S)
      OBVIOUS
<1>5. /\ S = {} => z = NoEntry
      /\ S # {} => z \in S /\ z # NoEntry /\ \A f \in S : ~Less(f, z)
      BY <1>2, <1>4, LeastFacts
<1>6. m.at = at /\ m.current = ChildAt(z) /\ m.direction = "forward"
      /\ m = [at |-> at, current |-> ChildAt(z), direction |-> "forward"]
      BY <1>1, <1>4 DEF FindSmallest
<1>7. CASE S = {}
  <2>1. m.current = NoChild /\ y = NoEntry
        BY <1>5, <1>6, <1>7 DEF ChildAt, Current
  <2>2. MergedOK(E, m)
    <3>1. m \in [at: [Children -> E \cup {NoEntry}], current: Children \cup {NoChild},
                 direction: {"forward", "reverse"}]
          BY <1>5, <1>6, <1>7 DEF ChildAt, AtOK
    <3> QED BY <1>6, <2>1, <3>1 DEF MergedOK, AtOK
  <2>3. P = {}
    <3>1. \A e \in P : e.child \in Children
          BY EntryNumbers DEF AllAhead, Visible
    <3> QED BY <1>2, <1>7, <3>1 DEF AllAhead
  <2> QED BY <2>1, <2>2, <2>3
<1>8. CASE S # {}
  <2>1. z \in S /\ z \in E /\ z # NoEntry /\ \A f \in S : ~Less(f, z)
        BY <1>3, <1>5, <1>8
  <2>2. PICK d \in Children : z = at[d] /\ z.child = d
        BY <1>3, <2>1 DEF AtOK
  <2>3. m.current = d /\ d # NoChild /\ y = z
        BY <1>6, <2>1, <2>2 DEF ChildAt, Current, Children, NoChild
  <2>4. m \in [at: [Children -> E \cup {NoEntry}], current: Children \cup {NoChild},
               direction: {"forward", "reverse"}]
    <3>1. ChildAt(z) \in Children
          BY <1>6, <2>2, <2>3
    <3> QED BY <1>6, <3>1 DEF AtOK
  <2>5. ASSUME NEW c \in Children \ {d} PROVE NextIn(Of(Visible(E), c), z, at[c])
    <3>1. at[c] # NoEntry => Less(z, at[c])
      <4>1. at[c] # NoEntry => at[c] \in S /\ at[c] \in E /\ at[c] # z
            BY <1>2, <2>2, <2>5 DEF AtOK
      <4> QED BY <2>1, <4>1, LessTotal
    <3>2. ASSUME NEW e \in Of(Visible(E), c), Less(z, e) PROVE at[c] # NoEntry /\ ~Less(e, at[c])
      <4>1. e \in E /\ e \in Visible(E) /\ e.child = c
            BY DEF Of, Visible
      <4>2. ~Less(e, z)
            BY <2>1, <3>2, <4>1, EntryNumbers, LessOrder
      <4>3. e \in P
            BY <2>1, <2>2, <4>1, <4>2 DEF AllAhead
      <4> QED BY <4>1, <4>3 DEF AllAhead
    <3> QED BY <3>1, <3>2 DEF NextIn
  <2>6. MergedOK(E, m)
        BY <1>6, <2>1, <2>2, <2>3, <2>4, <2>5 DEF MergedOK, AtOK
  <2>7. \A e \in P : ~Less(e, z)
    <3> SUFFICES ASSUME NEW e \in P PROVE ~Less(e, z)
        OBVIOUS
    <3>1. /\ e \in E /\ e.child \in Children
          /\ at[e.child] # NoEntry /\ ~Less(e, at[e.child])
          BY EntryNumbers DEF AllAhead, Visible
    <3>2. at[e.child] \in S /\ at[e.child] \in E /\ ~Less(at[e.child], z)
          BY <1>2, <2>1, <3>1
    <3> QED BY <2>1, <3>1, <3>2, EntryNumbers, LessOrder
  <2> QED BY <2>1, <2>2, <2>3, <2>6, <2>7
<1> QED BY <1>7, <1>8

\* The largest of the positions is the last entry of P or comes after it.
LEMMA FindLargestOK ==
    ASSUME NEW E, EntriesOK(E), NEW at, AtOK(E, at), NEW P, AllBehind(E, at, P),
           NEW m, m = FindLargest(at), NEW y, y = Current(m)
    PROVE  /\ MergedOK(E, m) /\ y \in E \cup {NoEntry}
           /\ y # NoEntry => \E c \in Children : y = at[c]
           /\ \A e \in P : y # NoEntry /\ ~Less(y, e)
<1>1. PICK S : S = Positions(at)
      OBVIOUS
<1>2. S \subseteq E /\ \A c \in Children : at[c] # NoEntry => at[c] \in S
      BY <1>1 DEF Positions, AtOK
<1>3. \A e \in S : e \in E /\ \E c \in Children : e = at[c] /\ e # NoEntry
      BY <1>1 DEF Positions, AtOK
<1>4. PICK z : z = Greatest(S)
      OBVIOUS
<1>5. /\ S = {} => z = NoEntry
      /\ S # {} => z \in S /\ z # NoEntry /\ \A f \in S : ~Less(z, f)
      BY <1>2, <1>4, GreatestFacts
<1>6. m.at = at /\ m.current = ChildAt(z) /\ m.direction = "reverse"
      /\ m = [at |-> at, current |-> ChildAt(z), direction |-> "reverse"]
      BY <1>1, <1>4 DEF FindLargest
<1>7. CASE S = {}
  <2>1. m.current = NoChild /\ y = NoEntry
        BY <1>5, <1>6, <1>7 DEF ChildAt, Current
  <2>2. MergedOK(E, m)
    <3>1. m \in [at: [Children -> E \cup {NoEntry}], current: Children \cup {NoChild},
                 direction: {"forward", "reverse"}]
          BY <1>5, <1>6, <1>7 DEF ChildAt, AtOK
    <3> QED BY <1>6, <2>1, <3>1 DEF MergedOK, AtOK
  <2>3. P = {}
    <3>1. \A e \in P : e.child \in Children
          BY EntryNumbers DEF AllBehind, Visible
    <3> QED BY <1>2, <1>7, <3>1 DEF AllBehind
  <2> QED BY <2>1, <2>2, <2>3
<1>8. CASE S # {}
  <2>1. z \in S /\ z \in E /\ z # NoEntry /\ \A f \in S : ~Less(z, f)
        BY <1>3, <1>5, <1>8
  <2>2. PICK d \in Children : z = at[d] /\ z.child = d
        BY <1>3, <2>1 DEF AtOK
  <2>3. m.current = d /\ d # NoChild /\ y = z
        BY <1>6, <2>1, <2>2 DEF ChildAt, Current, Children, NoChild
  <2>4. m \in [at: [Children -> E \cup {NoEntry}], current: Children \cup {NoChild},
               direction: {"forward", "reverse"}]
    <3>1. ChildAt(z) \in Children
          BY <1>6, <2>2, <2>3
    <3> QED BY <1>6, <3>1 DEF AtOK
  <2>5. ASSUME NEW c \in Children \ {d} PROVE PrevIn(Of(Visible(E), c), z, at[c])
    <3>1. at[c] # NoEntry => Less(at[c], z)
      <4>1. at[c] # NoEntry => at[c] \in S /\ at[c] \in E /\ at[c] # z
            BY <1>2, <2>2, <2>5 DEF AtOK
      <4> QED BY <2>1, <4>1, LessTotal
    <3>2. ASSUME NEW e \in Of(Visible(E), c), Less(e, z) PROVE at[c] # NoEntry /\ ~Less(at[c], e)
      <4>1. e \in E /\ e \in Visible(E) /\ e.child = c
            BY DEF Of, Visible
      <4>2. ~Less(z, e)
            BY <2>1, <3>2, <4>1, EntryNumbers, LessOrder
      <4>3. e \in P
            BY <2>1, <2>2, <4>1, <4>2 DEF AllBehind
      <4> QED BY <4>1, <4>3 DEF AllBehind
    <3> QED BY <3>1, <3>2 DEF PrevIn
  <2>6. MergedOK(E, m)
        BY <1>6, <2>1, <2>2, <2>3, <2>4, <2>5 DEF MergedOK, AtOK
  <2>7. \A e \in P : ~Less(z, e)
    <3> SUFFICES ASSUME NEW e \in P PROVE ~Less(z, e)
        OBVIOUS
    <3>1. /\ e \in E /\ e.child \in Children
          /\ at[e.child] # NoEntry /\ ~Less(at[e.child], e)
          BY EntryNumbers DEF AllBehind, Visible
    <3>2. at[e.child] \in S /\ at[e.child] \in E /\ ~Less(z, at[e.child])
          BY <1>2, <2>1, <3>1
    <3> QED BY <2>1, <3>1, <3>2, EntryNumbers, LessOrder
  <2> QED BY <2>1, <2>2, <2>3, <2>6, <2>7
<1> QED BY <1>7, <1>8

\* The child at the current entry, and where the others are.
LEMMA CurrentFacts ==
    ASSUME NEW E, EntriesOK(E), NEW m, MergedOK(E, m), NEW x, x = Current(m), x # NoEntry
    PROVE  /\ x \in E /\ m.current \in Children /\ m.at[m.current] = x
           /\ AtOK(E, m.at)
           /\ \A c \in Children \ {m.current} :
                 IF m.direction = "forward" THEN NextIn(Of(Visible(E), c), x, m.at[c])
                 ELSE m.direction = "reverse" /\ PrevIn(Of(Visible(E), c), x, m.at[c])
<1>1. m.current # NoChild /\ x = m.at[m.current]
      BY DEF Current
<1>2. m.current \in Children /\ m.at \in [Children -> E \cup {NoEntry}]
      /\ m.direction \in {"forward", "reverse"}
      BY <1>1 DEF MergedOK
<1> QED BY <1>1, <1>2 DEF MergedOK, AtOK

\* Every child next after x: nothing after x is passed.
LEMMA NextAhead ==
    ASSUME NEW E, EntriesOK(E), NEW x \in E, NEW at, AtOK(E, at),
           \A c \in Children : NextIn(Of(Visible(E), c), x, at[c]),
           NEW P, P = {e \in Visible(E) : Less(x, e)}
    PROVE  AllAhead(E, at, P)
<1>1. ASSUME NEW e \in P PROVE at[e.child] # NoEntry /\ ~Less(e, at[e.child])
  <2>1. e \in Visible(E) /\ e \in E /\ Less(x, e)
        BY <1>1 DEF Visible
  <2>2. e.child \in Children /\ e \in Of(Visible(E), e.child)
        BY <2>1, EntryNumbers DEF Of
  <2> QED BY <2>1, <2>2 DEF NextIn
<1>2. ASSUME NEW c \in Children, at[c] # NoEntry, NEW e \in Visible(E), ~Less(e, at[c])
      PROVE  e \in P
  <2>1. at[c] \in E /\ e \in E
        BY <1>2 DEF AtOK, Visible
  <2>2. Less(x, at[c])
        BY <1>2 DEF NextIn
  <2>3. Less(x, e)
        BY <1>2, <2>1, <2>2, EntryNumbers, LessOrder
  <2> QED BY <1>2, <2>3
<1> QED BY <1>1, <1>2 DEF AllAhead

\* Every child next before x: nothing before x is passed.
LEMMA PrevBehind ==
    ASSUME NEW E, EntriesOK(E), NEW x \in E, NEW at, AtOK(E, at),
           \A c \in Children : PrevIn(Of(Visible(E), c), x, at[c]),
           NEW P, P = {e \in Visible(E) : Less(e, x)}
    PROVE  AllBehind(E, at, P)
<1>1. ASSUME NEW e \in P PROVE at[e.child] # NoEntry /\ ~Less(at[e.child], e)
  <2>1. e \in Visible(E) /\ e \in E /\ Less(e, x)
        BY <1>1 DEF Visible
  <2>2. e.child \in Children /\ e \in Of(Visible(E), e.child)
        BY <2>1, EntryNumbers DEF Of
  <2> QED BY <2>1, <2>2 DEF PrevIn
<1>2. ASSUME NEW c \in Children, at[c] # NoEntry, NEW e \in Visible(E), ~Less(at[c], e)
      PROVE  e \in P
  <2>1. at[c] \in E /\ e \in E
        BY <1>2 DEF AtOK, Visible
  <2>2. Less(at[c], x)
        BY <1>2 DEF PrevIn
  <2>3. Less(e, x)
        BY <1>2, <2>1, <2>2, EntryNumbers, LessOrder
  <2> QED BY <1>2, <2>3
<1> QED BY <1>1, <1>2 DEF AllBehind

\* Next of the merging iterator passes nothing that the snapshot sees.
LEMMA MergedNextOK ==
    ASSUME NEW E, EntriesOK(E), NEW m, MergedOK(E, m), NEW x, x = Current(m), x # NoEntry,
           NEW n, n = MergedNext(E, m), NEW y, y = Current(n)
    PROVE  MergedOK(E, n) /\ y \in E \cup {NoEntry} /\ NextIn(Visible(E), x, y)
<1>0. PICK d : d = m.current
      OBVIOUS
<1>1. /\ x \in E /\ d \in Children /\ m.at[d] = x /\ AtOK(E, m.at)
      /\ \A c \in Children \ {d} :
            IF m.direction = "forward" THEN NextIn(Of(Visible(E), c), x, m.at[c])
            ELSE m.direction = "reverse" /\ PrevIn(Of(Visible(E), c), x, m.at[c])
      BY <1>0, CurrentFacts
<1>2. PICK a : a = IF m.direction = "forward" THEN m.at ELSE AfterCurrent(E, m)
      OBVIOUS
<1>3. \A c \in Children : m.at[c] \in E \cup {NoEntry} /\ (m.at[c] # NoEntry => m.at[c].child = c)
      BY <1>1 DEF AtOK
<1>4. /\ DOMAIN a = Children /\ a[d] = x
      /\ \A c \in Children \ {d} : /\ a[c] \in E \cup {NoEntry}
                                   /\ (a[c] # NoEntry => a[c].child = c)
                                   /\ NextIn(Of(Visible(E), c), x, a[c])
  <2>1. CASE m.direction = "forward"
    <3>1. a = m.at
          BY <1>2, <2>1
    <3>2. DOMAIN a = Children
          BY <1>1, <3>1 DEF AtOK
    <3> QED BY <1>1, <1>3, <2>1, <3>1, <3>2
  <2>2. CASE m.direction # "forward"
    <3>1. a = [c \in Children |-> IF c = d THEN m.at[c] ELSE After(E, c, x)]
          BY <1>0, <1>2, <2>2 DEF AfterCurrent
    <3>2. \A c \in Children \ {d} : a[c] = After(E, c, x)
          BY <3>1
    <3>3. DOMAIN a = Children /\ a[d] = x
          BY <1>1, <3>1
    <3> QED BY <1>1, <3>2, <3>3, AfterNext
  <2> QED BY <2>1, <2>2
<1>5. PICK b : b = [a EXCEPT ![d] = After(E, d, x)]
      OBVIOUS
<1>6. /\ b = [c \in Children |-> b[c]] /\ b[d] = After(E, d, x)
      /\ \A c \in Children \ {d} : b[c] = a[c]
  <2>1. b = [c \in Children |-> IF c = d THEN After(E, d, x) ELSE a[c]]
        BY <1>4, <1>5
  <2> QED BY <1>1, <2>1
<1>7. n = FindSmallest(b)
      BY <1>0, <1>2, <1>4, <1>5 DEF MergedNext
<1>8. ASSUME NEW c \in Children
      PROVE  /\ b[c] \in E \cup {NoEntry} /\ (b[c] # NoEntry => b[c].child = c)
             /\ NextIn(Of(Visible(E), c), x, b[c])
      BY <1>1, <1>4, <1>6, <1>8, AfterNext
<1>9. AtOK(E, b)
  <2>1. b \in [Children -> E \cup {NoEntry}]
    <3>1. \A c \in Children : b[c] \in E \cup {NoEntry}
          BY <1>8
    <3>2. b = [c \in Children |-> b[c]]
          BY <1>6
    <3> QED BY <3>1, <3>2
  <2>2. \A c \in Children : b[c] # NoEntry => b[c].child = c
        BY <1>8
  <2> QED BY <2>1, <2>2 DEF AtOK
<1>10. PICK P : P = {e \in Visible(E) : Less(x, e)}
       OBVIOUS
<1>11. AllAhead(E, b, P)
       BY <1>1, <1>8, <1>9, <1>10, NextAhead
<1>12. /\ MergedOK(E, n) /\ y \in E \cup {NoEntry}
       /\ y # NoEntry => \E c \in Children : y = b[c]
       /\ \A e \in P : y # NoEntry /\ ~Less(e, y)
       BY <1>7, <1>9, <1>11, FindSmallestOK
<1>13. y # NoEntry => Less(x, y)
       BY <1>8, <1>12 DEF NextIn
<1> QED BY <1>10, <1>12, <1>13 DEF NextIn

\* Prev of the merging iterator passes nothing that the snapshot sees.
LEMMA MergedPrevOK ==
    ASSUME NEW E, EntriesOK(E), NEW m, MergedOK(E, m), NEW x, x = Current(m), x # NoEntry,
           NEW n, n = MergedPrev(E, m), NEW y, y = Current(n)
    PROVE  MergedOK(E, n) /\ y \in E \cup {NoEntry} /\ PrevIn(Visible(E), x, y)
<1>0. PICK d : d = m.current
      OBVIOUS
<1>1. /\ x \in E /\ d \in Children /\ m.at[d] = x /\ AtOK(E, m.at)
      /\ \A c \in Children \ {d} :
            IF m.direction = "reverse" THEN PrevIn(Of(Visible(E), c), x, m.at[c])
            ELSE m.direction = "forward" /\ NextIn(Of(Visible(E), c), x, m.at[c])
      BY <1>0, CurrentFacts
<1>2. PICK a : a = IF m.direction = "reverse" THEN m.at ELSE BeforeCurrent(E, m)
      OBVIOUS
<1>3. \A c \in Children : m.at[c] \in E \cup {NoEntry} /\ (m.at[c] # NoEntry => m.at[c].child = c)
      BY <1>1 DEF AtOK
<1>4. /\ DOMAIN a = Children /\ a[d] = x
      /\ \A c \in Children \ {d} : /\ a[c] \in E \cup {NoEntry}
                                   /\ (a[c] # NoEntry => a[c].child = c)
                                   /\ PrevIn(Of(Visible(E), c), x, a[c])
  <2>1. CASE m.direction = "reverse"
    <3>1. a = m.at
          BY <1>2, <2>1
    <3>2. DOMAIN a = Children
          BY <1>1, <3>1 DEF AtOK
    <3> QED BY <1>1, <1>3, <2>1, <3>1, <3>2
  <2>2. CASE m.direction # "reverse"
    <3>1. a = [c \in Children |-> IF c = d THEN m.at[c] ELSE Before(E, c, x)]
          BY <1>0, <1>2, <2>2 DEF BeforeCurrent
    <3>2. \A c \in Children \ {d} : a[c] = Before(E, c, x)
          BY <3>1
    <3>3. DOMAIN a = Children /\ a[d] = x
          BY <1>1, <3>1
    <3> QED BY <1>1, <3>2, <3>3, BeforePrev
  <2> QED BY <2>1, <2>2
<1>5. PICK b : b = [a EXCEPT ![d] = Before(E, d, x)]
      OBVIOUS
<1>6. /\ b = [c \in Children |-> b[c]] /\ b[d] = Before(E, d, x)
      /\ \A c \in Children \ {d} : b[c] = a[c]
  <2>1. b = [c \in Children |-> IF c = d THEN Before(E, d, x) ELSE a[c]]
        BY <1>4, <1>5
  <2> QED BY <1>1, <2>1
<1>7. n = FindLargest(b)
      BY <1>0, <1>2, <1>4, <1>5 DEF MergedPrev
<1>8. ASSUME NEW c \in Children
      PROVE  /\ b[c] \in E \cup {NoEntry} /\ (b[c] # NoEntry => b[c].child = c)
             /\ PrevIn(Of(Visible(E), c), x, b[c])
      BY <1>1, <1>4, <1>6, <1>8, BeforePrev
<1>9. AtOK(E, b)
  <2>1. b \in [Children -> E \cup {NoEntry}]
    <3>1. \A c \in Children : b[c] \in E \cup {NoEntry}
          BY <1>8
    <3>2. b = [c \in Children |-> b[c]]
          BY <1>6
    <3> QED BY <3>1, <3>2
  <2>2. \A c \in Children : b[c] # NoEntry => b[c].child = c
        BY <1>8
  <2> QED BY <2>1, <2>2 DEF AtOK
<1>10. PICK P : P = {e \in Visible(E) : Less(e, x)}
       OBVIOUS
<1>11. AllBehind(E, b, P)
       BY <1>1, <1>8, <1>9, <1>10, PrevBehind
<1>12. /\ MergedOK(E, n) /\ y \in E \cup {NoEntry}
       /\ y # NoEntry => \E c \in Children : y = b[c]
       /\ \A e \in P : y # NoEntry /\ ~Less(y, e)
       BY <1>7, <1>9, <1>11, FindLargestOK
<1>13. y # NoEntry => Less(y, x)
       BY <1>8, <1>12 DEF PrevIn
<1> QED BY <1>10, <1>12, <1>13 DEF PrevIn

\* SeekToFirst of the merging iterator.
LEMMA MergedFirstOK ==
    ASSUME NEW E, EntriesOK(E), NEW n, n = MergedFirst(E), NEW y, y = Current(n)
    PROVE  /\ MergedOK(E, n) /\ y \in E \cup {NoEntry}
           /\ \A e \in Visible(E) : y # NoEntry /\ ~Less(e, y)
<1>1. PICK b : b = [c \in Children |-> Least(Of(E, c))]
      OBVIOUS
<1>2. n = FindSmallest(b)
      BY <1>1 DEF MergedFirst
<1>3. ASSUME NEW c \in Children
      PROVE  /\ b[c] \in E \cup {NoEntry} /\ (b[c] # NoEntry => b[c].child = c)
             /\ \A e \in Of(E, c) : b[c] # NoEntry /\ ~Less(e, b[c])
  <2>1. PICK S : S = Of(E, c)
        OBVIOUS
  <2>2. S \subseteq E /\ \A e \in S : e.child = c
        BY <2>1 DEF Of
  <2>3. b[c] = Least(S)
        BY <1>1, <1>3, <2>1
  <2> QED BY <2>1, <2>2, <2>3, LeastFacts
<1>4. AtOK(E, b)
  <2>1. \A c \in Children : b[c] \in E \cup {NoEntry} /\ (b[c] # NoEntry => b[c].child = c)
        BY <1>3
  <2>2. b = [c \in Children |-> b[c]]
        BY <1>1
  <2>3. b \in [Children -> E \cup {NoEntry}]
        BY <2>1, <2>2
  <2> QED BY <2>1, <2>3 DEF AtOK
<1>5. AllAhead(E, b, Visible(E))
  <2>1. ASSUME NEW e \in Visible(E) PROVE b[e.child] # NoEntry /\ ~Less(e, b[e.child])
    <3>1. e \in E /\ e.child \in Children
          BY EntryNumbers DEF Visible
    <3> QED BY <1>3, <3>1 DEF Of
  <2> QED BY <2>1 DEF AllAhead
<1> QED BY <1>2, <1>4, <1>5, FindSmallestOK

\* SeekToLast of the merging iterator.
LEMMA MergedLastOK ==
    ASSUME NEW E, EntriesOK(E), NEW n, n = MergedLast(E), NEW y, y = Current(n)
    PROVE  /\ MergedOK(E, n) /\ y \in E \cup {NoEntry}
           /\ \A e \in Visible(E) : y # NoEntry /\ ~Less(y, e)
<1>1. PICK b : b = [c \in Children |-> Greatest(Of(E, c))]
      OBVIOUS
<1>2. n = FindLargest(b)
      BY <1>1 DEF MergedLast
<1>3. ASSUME NEW c \in Children
      PROVE  /\ b[c] \in E \cup {NoEntry} /\ (b[c] # NoEntry => b[c].child = c)
             /\ \A e \in Of(E, c) : b[c] # NoEntry /\ ~Less(b[c], e)
  <2>1. PICK S : S = Of(E, c)
        OBVIOUS
  <2>2. S \subseteq E /\ \A e \in S : e.child = c
        BY <2>1 DEF Of
  <2>3. b[c] = Greatest(S)
        BY <1>1, <1>3, <2>1
  <2> QED BY <2>1, <2>2, <2>3, GreatestFacts
<1>4. AtOK(E, b)
  <2>1. \A c \in Children : b[c] \in E \cup {NoEntry} /\ (b[c] # NoEntry => b[c].child = c)
        BY <1>3
  <2>2. b = [c \in Children |-> b[c]]
        BY <1>1
  <2>3. b \in [Children -> E \cup {NoEntry}]
        BY <2>1, <2>2
  <2> QED BY <2>1, <2>3 DEF AtOK
<1>5. AllBehind(E, b, Visible(E))
  <2>1. ASSUME NEW e \in Visible(E) PROVE b[e.child] # NoEntry /\ ~Less(b[e.child], e)
    <3>1. e \in E /\ e.child \in Children
          BY EntryNumbers DEF Visible
    <3> QED BY <1>3, <3>1 DEF Of
  <2> QED BY <2>1 DEF AllBehind
<1> QED BY <1>2, <1>4, <1>5, FindLargestOK

\* Seek of the merging iterator.
LEMMA MergedSeekOK ==
    ASSUME NEW E, EntriesOK(E), NEW r, r.key \in Nat, r.seq \in Nat,
           NEW n, n = MergedSeek(E, r), NEW y, y = Current(n)
    PROVE  /\ MergedOK(E, n) /\ y \in E \cup {NoEntry}
           /\ y # NoEntry => ~Less(y, r)
           /\ \A e \in Visible(E) : ~Less(e, r) => y # NoEntry /\ ~Less(e, y)
<1>1. PICK b : b = [c \in Children |-> Least({e \in Of(E, c) : ~Less(e, r)})]
      OBVIOUS
<1>2. n = FindSmallest(b)
      BY <1>1 DEF MergedSeek
<1>3. ASSUME NEW c \in Children
      PROVE  /\ b[c] \in E \cup {NoEntry} /\ (b[c] # NoEntry => b[c].child = c /\ ~Less(b[c], r))
             /\ \A e \in Of(E, c) : ~Less(e, r) => b[c] # NoEntry /\ ~Less(e, b[c])
  <2>1. PICK S : S = {e \in Of(E, c) : ~Less(e, r)}
        OBVIOUS
  <2>2. S \subseteq E /\ \A e \in S : e.child = c /\ ~Less(e, r)
        BY <2>1 DEF Of
  <2>3. b[c] = Least(S)
        BY <1>1, <1>3, <2>1
  <2> QED BY <2>1, <2>2, <2>3, LeastFacts
<1>4. AtOK(E, b)
  <2>1. \A c \in Children : b[c] \in E \cup {NoEntry} /\ (b[c] # NoEntry => b[c].child = c)
        BY <1>3
  <2>2. b = [c \in Children |-> b[c]]
        BY <1>1
  <2>3. b \in [Children -> E \cup {NoEntry}]
        BY <2>1, <2>2
  <2> QED BY <2>1, <2>3 DEF AtOK
<1>5. PICK P : P = {e \in Visible(E) : ~Less(e, r)}
      OBVIOUS
<1>6. AllAhead(E, b, P)
  <2>1. ASSUME NEW e \in P PROVE b[e.child] # NoEntry /\ ~Less(e, b[e.child])
    <3>1. e \in E /\ e.child \in Children /\ ~Less(e, r)
          BY <1>5, <2>1, EntryNumbers DEF Visible
    <3> QED BY <1>3, <3>1 DEF Of
  <2>2. ASSUME NEW c \in Children, b[c] # NoEntry, NEW e \in Visible(E), ~Less(e, b[c])
        PROVE  e \in P
    <3>1. b[c] \in E /\ e \in E /\ ~Less(b[c], r)
          BY <1>3, <2>2 DEF Visible
    <3>2. ~Less(e, r)
          BY <2>2, <3>1, EntryNumbers, LessOrder
    <3> QED BY <1>5, <2>2, <3>2
  <2>3. P \subseteq Visible(E)
        BY <1>5
  <2> QED BY <2>1, <2>2, <2>3 DEF AllAhead
<1>7. /\ MergedOK(E, n) /\ y \in E \cup {NoEntry}
      /\ y # NoEntry => \E c \in Children : y = b[c]
      /\ \A e \in P : y # NoEntry /\ ~Less(e, y)
      BY <1>2, <1>4, <1>6, FindSmallestOK
<1> QED BY <1>3, <1>5, <1>7

-----------------------------------------------------------------------------
(* What the snapshot shows.                                                *)

\* Of each key the snapshot shows one entry, and every other that it sees
\* of that key comes after it.
LEMMA NewestFacts ==
    ASSUME NEW E, EntriesOK(E), NEW T, T = Visible(E), NEW e \in Newest(T)
    PROVE  /\ e \in T /\ e \in E /\ e.value /\ e.seq <= Snapshot
           /\ e.key \in Nat /\ e.seq \in Nat /\ e # NoEntry
           /\ \A f \in T : f.key = e.key => ~Less(f, e)
           /\ \A f \in Newest(T) : f.key = e.key => f = e
<1>1. e \in T /\ e \in E /\ e.value /\ e.seq <= Snapshot /\ \A f \in T : f.key = e.key => f.seq <= e.seq
      BY DEF Newest, Visible
<1>2. e.key \in Nat /\ e.seq \in Nat /\ e # NoEntry
      BY <1>1, EntryNumbers
<1>3. ASSUME NEW f \in T, f.key = e.key PROVE ~Less(f, e)
  <2>1. f.key \in Nat /\ f.seq \in Nat /\ f.seq <= e.seq
        BY <1>1, <1>3, EntryNumbers DEF Visible
  <2> QED BY <1>2, <1>3, <2>1, LessKeys
<1>4. ASSUME NEW f \in Newest(T), f.key = e.key PROVE f = e
  <2>1. f \in T /\ f \in E /\ \A g \in T : g.key = f.key => g.seq <= f.seq
        BY <1>4 DEF Newest, Visible
  <2>2. f.seq \in Nat /\ f.seq <= e.seq /\ e.seq <= f.seq
        BY <1>1, <1>4, <2>1, EntryNumbers
  <2>3. f.seq = e.seq
        BY <1>2, <2>2
  <2> QED BY <1>1, <2>1, <2>3 DEF EntriesOK
<1> QED BY <1>1, <1>2, <1>3, <1>4

\* The least and the greatest of a set of shown entries.
LEMMA FirstIs ==
    ASSUME NEW E, EntriesOK(E), NEW T, T = Visible(E), NEW W, W \subseteq Newest(T),
           NEW e \in W, \A f \in W : e.key <= f.key
    PROVE  C!First(W) = e
<1>1. \A f \in W : f.key \in Nat
      BY NewestFacts
<1>2. W # {} /\ C!First(W) = CHOOSE x \in W : \A f \in W : x.key <= f.key
      BY DEF C!First
<1>3. PICK x : x = CHOOSE z \in W : \A f \in W : z.key <= f.key
      OBVIOUS
<1>4. x \in W /\ \A f \in W : x.key <= f.key
      BY <1>3
<1>5. x.key = e.key
      BY <1>1, <1>4
<1>6. x = e
      BY <1>4, <1>5, NewestFacts
<1> QED BY <1>2, <1>3, <1>6

\* The greatest of them.
LEMMA FinalIs ==
    ASSUME NEW E, EntriesOK(E), NEW T, T = Visible(E), NEW W, W \subseteq Newest(T),
           NEW e \in W, \A f \in W : e.key >= f.key
    PROVE  C!Final(W) = e
<1>1. \A f \in W : f.key \in Nat
      BY NewestFacts
<1>2. W # {} /\ C!Final(W) = CHOOSE x \in W : \A f \in W : x.key >= f.key
      BY DEF C!Final
<1>3. PICK x : x = CHOOSE z \in W : \A f \in W : z.key >= f.key
      OBVIOUS
<1>4. x \in W /\ \A f \in W : x.key >= f.key
      BY <1>3
<1>5. x.key = e.key
      BY <1>1, <1>4
<1>6. x = e
      BY <1>4, <1>5, NewestFacts
<1> QED BY <1>2, <1>3, <1>6

\* The key and the entry that a call may refer to.
AsksOK(T, o, s) ==
    /\ o.name \in {"Next", "Prev"} => s \in Newest(T)
    /\ o.name = "Seek" => o.target \in Nat

\* What is wanted is shown.
LEMMA WantedFacts ==
    ASSUME NEW E, EntriesOK(E), NEW T, T = Visible(E), NEW o, NEW s, NEW e \in Wanted(T, o, s)
    PROVE  /\ e \in Newest(T) /\ Asks(o, s, e.key)
           /\ e \in T /\ e \in E /\ e.value /\ e.seq <= Snapshot
           /\ e.key \in Nat /\ e.seq \in Nat /\ e # NoEntry
           /\ \A f \in T : f.key = e.key => ~Less(f, e)
BY NewestFacts DEF Wanted

\* A turn of FindNextUserEntry that does not end it.
LEMMA FindNextStep ==
    ASSUME NEW E, EntriesOK(E), NEW T, T = Visible(E), NEW o, NEW s, AsksOK(T, o, s),
           NEW x \in E, NEW skip \in BOOLEAN, NEW k \in Nat, FindsNext(T, x, skip, k, o, s),
           NEW y \in E \cup {NoEntry}, NextIn(T, x, y),
           NEW hides \in BOOLEAN, hides <=> x.seq <= Snapshot /\ ~x.value,
           ~(x.seq <= Snapshot /\ x.value /\ ~(skip /\ x.key <= k)),
           NEW skip2 \in BOOLEAN, skip2 <=> skip \/ hides,
           NEW k2, k2 = IF hides THEN x.key ELSE k
    PROVE  /\ y = NoEntry => Wanted(T, o, s) = {}
           /\ y # NoEntry => FindsNext(T, y, skip2, k2, o, s)
<1>1. x.key \in Nat /\ x.seq \in Nat /\ x # NoEntry /\ Snapshot \in Nat
      BY EntryNumbers, SnapshotAssumption
<1>2. x.seq <= Snapshot => x \in T
      BY DEF Visible
<1>3. ASSUME NEW e \in Wanted(T, o, s)
      PROVE  Less(x, e) /\ y # NoEntry /\ ~Less(e, y) /\ (skip2 => e.key > k2)
  <2>1. /\ e \in T /\ e \in E /\ e.value /\ e.seq <= Snapshot /\ e.key \in Nat /\ e.seq \in Nat
        /\ \A f \in T : f.key = e.key => ~Less(f, e)
        BY <1>3, WantedFacts
  <2>2. ~Less(e, x) /\ (skip => e.key > k)
        BY <1>3 DEF FindsNext
  <2>3. e # x
    <3> SUFFICES ASSUME e = x PROVE FALSE
        OBVIOUS
    <3>1. x.seq <= Snapshot /\ x.value
          BY <2>1
    <3>2. skip /\ x.key <= k
          BY <3>1
    <3> QED BY <1>1, <2>2, <3>2
  <2>4. Less(x, e)
        BY <2>1, <2>2, <2>3, LessTotal
  <2>5. y # NoEntry /\ ~Less(e, y)
        BY <2>1, <2>4 DEF NextIn
  <2>6. ASSUME hides PROVE e.key > x.key
    <3>1. x \in T
          BY <1>2, <2>6
    <3>2. x.key <= e.key /\ x.key # e.key
          BY <1>1, <2>1, <2>4, <3>1, LessKeys
    <3> QED BY <1>1, <2>1, <3>2
  <2> QED BY <2>2, <2>4, <2>5, <2>6
<1>4. y = NoEntry => Wanted(T, o, s) = {}
      BY <1>3
<1>5. ASSUME y # NoEntry PROVE FindsNext(T, y, skip2, k2, o, s)
  <2>1. y \in E /\ y.key \in Nat /\ y.seq \in Nat /\ Less(x, y)
        BY <1>5, EntryNumbers DEF NextIn
  <2>2. x.key <= y.key
        BY <1>1, <2>1, LessKeys
  <2>3. ASSUME NEW f \in T, Less(f, y), f.key = y.key PROVE skip2 /\ y.key <= k2
    <3>1. f \in E /\ f.key \in Nat /\ f.seq \in Nat
          BY <2>3, EntryNumbers DEF Visible
    <3>2. ~Less(x, f)
          BY <2>3 DEF NextIn
    <3>3. f = x \/ Less(f, x)
          BY <3>1, <3>2, LessTotal
    <3>4. f.key <= x.key
          BY <1>1, <3>1, <3>3, LessKeys
    <3>5. x.key = y.key
          BY <1>1, <2>1, <2>2, <2>3, <3>4
    <3>6. hides \/ (skip /\ x.key <= k)
      <4>1. CASE f = x
        <5>1. x.seq <= Snapshot
              BY <2>3, <4>1 DEF Visible
        <5> QED BY <5>1
      <4>2. CASE Less(f, x)
            BY <2>3, <3>5, <4>2 DEF FindsNext
      <4> QED BY <3>3, <4>1, <4>2
    <3> QED BY <1>1, <3>5, <3>6
  <2>4. o.name = "Seek" => y.key >= o.target
    <3>1. o.name = "Seek" => x.key >= o.target /\ o.target \in Nat
          BY DEF FindsNext, AsksOK
    <3> QED BY <1>1, <2>1, <2>2, <3>1
  <2>5. ASSUME o.name = "Next"
        PROVE  skip2 /\ k2 >= s.key /\ \A f \in T : f.key < s.key => Less(f, y)
    <3>1. skip /\ k >= s.key /\ \A f \in T : f.key < s.key => Less(f, x)
          BY <2>5 DEF FindsNext
    <3>2. s.key \in Nat
          BY <2>5, NewestFacts DEF AsksOK
    <3>3. hides => x.key >= s.key
      <4>1. hides => x \in T /\ ~Less(x, x)
            BY <1>1, <1>2, LessOrder
      <4> QED BY <1>1, <3>1, <3>2, <4>1
    <3>4. ASSUME NEW f \in T, f.key < s.key PROVE Less(f, y)
      <4>1. f.key \in Nat /\ f.seq \in Nat /\ Less(f, x)
            BY <3>1, <3>4, EntryNumbers DEF Visible
      <4> QED BY <1>1, <2>1, <4>1, LessOrder
    <3> QED BY <3>1, <3>3, <3>4
  <2>6. o.name \in {"Seek", "SeekToFirst", "Next"}
        BY DEF FindsNext
  <2> QED BY <1>3, <1>5, <2>3, <2>4, <2>5, <2>6 DEF FindsNext
<1> QED BY <1>4, <1>5

\* The turn of FindNextUserEntry that ends at an entry.
LEMMA FindNextYields ==
    ASSUME NEW E, EntriesOK(E), NEW T, T = Visible(E), NEW o, NEW s, AsksOK(T, o, s),
           NEW x \in E, NEW skip \in BOOLEAN, NEW k \in Nat, FindsNext(T, x, skip, k, o, s),
           x.seq <= Snapshot, x.value, ~(skip /\ x.key <= k)
    PROVE  x \in Wanted(T, o, s) /\ \A f \in Wanted(T, o, s) : x.key <= f.key
<1>1. x.key \in Nat /\ x.seq \in Nat /\ x # NoEntry
      BY EntryNumbers
<1>2. x \in T
      BY DEF Visible
<1>3. ASSUME NEW f \in T, f.key = x.key PROVE f.seq <= x.seq
  <2>1. f.key \in Nat /\ f.seq \in Nat
        BY EntryNumbers DEF Visible
  <2>2. ~Less(f, x)
        BY <1>3 DEF FindsNext
  <2>3. ~(f.seq > x.seq)
        BY <1>1, <1>3, <2>1, <2>2, LessKeys
  <2> QED BY <1>1, <2>1, <2>3
<1>4. x \in Newest(T)
      BY <1>2, <1>3 DEF Newest
<1>5. Asks(o, s, x.key)
  <2>1. o.name = "Seek" => x.key >= o.target
        BY DEF FindsNext
  <2>2. ASSUME o.name = "Next" PROVE x.key > s.key
    <3>1. skip /\ k >= s.key
          BY <2>2 DEF FindsNext
    <3>2. s.key \in Nat
          BY <2>2, NewestFacts DEF AsksOK
    <3> QED BY <1>1, <3>1, <3>2
  <2>3. o.name # "Prev"
        BY DEF FindsNext
  <2> QED BY <2>1, <2>2, <2>3 DEF Asks
<1>6. ASSUME NEW f \in Wanted(T, o, s) PROVE x.key <= f.key
  <2>1. f.key \in Nat /\ f.seq \in Nat /\ ~Less(f, x)
        BY WantedFacts DEF FindsNext
  <2> QED BY <1>1, <2>1, LessKeys
<1> QED BY <1>4, <1>5, <1>6 DEF Wanted

\* FindNextUserEntry starts where Seek left the merging iterator.
LEMMA SeekStarts ==
    ASSUME NEW E, EntriesOK(E), NEW T, T = Visible(E), NEW o, NEW s, AsksOK(T, o, s),
           o.name = "Seek", NEW y \in E \cup {NoEntry},
           NEW r, r.key = o.target, r.seq = Snapshot, y # NoEntry => ~Less(y, r),
           \A e \in T : ~Less(e, r) => y # NoEntry /\ ~Less(e, y)
    PROVE  /\ y = NoEntry => Wanted(T, o, s) = {}
           /\ y # NoEntry => FindsNext(T, y, FALSE, 0, o, s)
<1>1. r.key \in Nat /\ r.seq \in Nat /\ Snapshot \in Nat
      BY SnapshotAssumption DEF AsksOK
<1>2. ASSUME NEW f \in T, f.key >= o.target PROVE y # NoEntry /\ ~Less(f, y)
  <2>1. f.key \in Nat /\ f.seq \in Nat /\ f.seq <= Snapshot
        BY EntryNumbers DEF Visible
  <2>2. ~Less(f, r)
        BY <1>1, <1>2, <2>1 DEF Less
  <2> QED BY <2>2
<1>3. ASSUME NEW e \in Wanted(T, o, s) PROVE y # NoEntry /\ ~Less(e, y)
      BY <1>2, WantedFacts DEF Asks
<1>4. ASSUME y # NoEntry PROVE FindsNext(T, y, FALSE, 0, o, s)
  <2>1. y.key \in Nat /\ y.seq \in Nat
        BY <1>4, EntryNumbers
  <2>2. y.key >= o.target
        BY <1>1, <1>4, <2>1, LessKeys
  <2>3. ASSUME NEW f \in T, Less(f, y), f.key = y.key PROVE FALSE
        BY <1>2, <2>2, <2>3
  <2> QED BY <1>3, <1>4, <2>2, <2>3 DEF FindsNext
<1> QED BY <1>3, <1>4

\* And where SeekToFirst left it.
LEMMA FirstStarts ==
    ASSUME NEW E, EntriesOK(E), NEW T, T = Visible(E), NEW o, NEW s,
           o.name = "SeekToFirst", NEW y \in E \cup {NoEntry}, NEW k,
           \A e \in T : y # NoEntry /\ ~Less(e, y)
    PROVE  /\ y = NoEntry => Wanted(T, o, s) = {}
           /\ y # NoEntry => FindsNext(T, y, FALSE, k, o, s)
<1>1. \A e \in Wanted(T, o, s) : e \in T
      BY WantedFacts
<1> QED BY <1>1 DEF FindsNext

\* Next while moving forward: the entry shown is passed by skipping its key.
LEMMA NextStarts ==
    ASSUME NEW E, EntriesOK(E), NEW T, T = Visible(E), NEW o, NEW s, AsksOK(T, o, s),
           o.name = "Next"
    PROVE  s \in E /\ s # NoEntry /\ FindsNext(T, s, TRUE, s.key, o, s)
<1>1. s \in E /\ s # NoEntry /\ s.key \in Nat /\ s.seq \in Nat
      BY NewestFacts DEF AsksOK
<1>2. ASSUME NEW e \in Wanted(T, o, s) PROVE ~Less(e, s) /\ e.key > s.key
  <2>1. e.key \in Nat /\ e.seq \in Nat /\ e.key > s.key
        BY <1>2, WantedFacts DEF Asks
  <2> QED BY <1>1, <2>1 DEF Less
<1>3. ASSUME NEW f \in T, f.key < s.key PROVE Less(f, s)
      BY <1>3 DEF Less
<1> QED BY <1>1, <1>2, <1>3 DEF FindsNext

\* Next after a move back: the merging iterator goes to the keys shown.
LEMMA NextTurns ==
    ASSUME NEW E, EntriesOK(E), NEW T, T = Visible(E), NEW o, NEW s, AsksOK(T, o, s),
           o.name = "Next", NEW x \in E \cup {NoEntry}, NEW v, NEW k, StandsBefore(T, x, v, k, s),
           NEW y \in E \cup {NoEntry}, x # NoEntry => NextIn(T, x, y),
           x = NoEntry => \A e \in T : y # NoEntry /\ ~Less(e, y)
    PROVE  y # NoEntry /\ FindsNext(T, y, TRUE, k, o, s)
<1>1. s \in T /\ s \in E /\ s # NoEntry /\ s.key \in Nat /\ s.seq \in Nat
      BY NewestFacts DEF AsksOK
<1>2. k = s.key
      BY DEF StandsBefore
<1>3. ASSUME NEW e \in T, e.key >= s.key PROVE y # NoEntry /\ ~Less(e, y)
  <2>1. CASE x = NoEntry
        BY <2>1
  <2>2. CASE x # NoEntry
    <3>1. x.key \in Nat /\ x.seq \in Nat /\ e.key \in Nat /\ e.seq \in Nat
          BY <2>2, EntryNumbers DEF Visible
    <3>2. x.key < s.key
          BY <2>2 DEF StandsBefore
    <3>3. Less(x, e)
          BY <1>1, <1>3, <3>1, <3>2, LessKeys
    <3> QED BY <2>2, <3>3 DEF NextIn
  <2> QED BY <2>1, <2>2
<1>4. y # NoEntry
      BY <1>1, <1>3
<1>5. ASSUME NEW e \in T, e.key < s.key PROVE Less(e, y)
  <2>1. x # NoEntry /\ ~Less(x, e)
        BY <1>5 DEF StandsBefore
  <2>2. Less(x, y)
        BY <1>4, <2>1 DEF NextIn
  <2>3. e \in E /\ x \in E /\ y \in E
        BY <1>4, <2>1 DEF Visible
  <2> QED BY <2>1, <2>2, <2>3, EntryNumbers, LessOrder
<1>6. ASSUME NEW e \in Wanted(T, o, s) PROVE ~Less(e, y) /\ e.key > k
  <2>1. e \in T /\ e.key > s.key /\ e.key \in Nat
        BY <1>6, WantedFacts DEF Asks
  <2> QED BY <1>1, <1>2, <1>3, <2>1
<1>7. ASSUME NEW f \in T, Less(f, y), f.key = y.key PROVE y.key <= k
  <2>1. f.key \in Nat
        BY <1>7, EntryNumbers DEF Visible
  <2>2. ~(f.key >= s.key)
        BY <1>3, <1>7
  <2> QED BY <1>1, <1>2, <1>7, <2>1, <2>2
<1>8. k >= s.key
      BY <1>1, <1>2
<1> QED BY <1>4, <1>5, <1>6, <1>7, <1>8 DEF FindsNext

\* Prev while moving forward starts at the entry shown.
LEMMA ScanStarts ==
    ASSUME NEW E, EntriesOK(E), NEW T, T = Visible(E), NEW o, NEW s, AsksOK(T, o, s),
           o.name = "Prev"
    PROVE  ScansBack(T, s, s.key, o, s)
<1>1. s # NoEntry
      BY NewestFacts DEF AsksOK
<1> QED BY <1>1 DEF ScansBack, Less

\* A turn of Prev's loop.
LEMMA ScanStep ==
    ASSUME NEW E, EntriesOK(E), NEW T, T = Visible(E), NEW o, NEW s, AsksOK(T, o, s),
           NEW x \in E, NEW k, ScansBack(T, x, k, o, s), NEW y \in E \cup {NoEntry},
           PrevIn(T, x, y), NEW v
    PROVE  /\ y = NoEntry => Wanted(T, o, s) = {}
           /\ y # NoEntry /\ y.key >= k => ScansBack(T, y, k, o, s)
           /\ y # NoEntry /\ y.key < k => FindsPrev(T, y, FALSE, v, k, o, s)
<1>1. o.name = "Prev" /\ k = s.key /\ k \in Nat
      BY NewestFacts DEF ScansBack, AsksOK
<1>2. ASSUME NEW e \in Wanted(T, o, s) PROVE y # NoEntry /\ ~Less(y, e)
  <2>1. e \in T /\ e.key < k
        BY <1>1, <1>2, WantedFacts DEF Asks
  <2>2. Less(e, x)
        BY <2>1 DEF ScansBack
  <2> QED BY <2>1, <2>2 DEF PrevIn
<1>3. ASSUME y # NoEntry, y.key >= k PROVE ScansBack(T, y, k, o, s)
  <2>1. y.key \in Nat
        BY <1>3, EntryNumbers
  <2>2. ASSUME NEW e \in T, e.key < k PROVE Less(e, y)
    <3>1. e.key \in Nat
          BY EntryNumbers DEF Visible
    <3> QED BY <1>1, <1>3, <2>1, <2>2, <3>1 DEF Less
  <2> QED BY <1>1, <1>3, <2>2 DEF ScansBack
<1>4. ASSUME y # NoEntry, y.key < k PROVE FindsPrev(T, y, FALSE, v, k, o, s)
      BY <1>1, <1>2, <1>4 DEF FindsPrev
<1> QED BY <1>2, <1>3, <1>4

\* FindPrevUserEntry starts where SeekToLast left the merging iterator.
LEMMA LastStarts ==
    ASSUME NEW E, EntriesOK(E), NEW T, T = Visible(E), NEW o, NEW s,
           o.name = "SeekToLast", NEW y, NEW v, NEW k,
           \A e \in T : y # NoEntry /\ ~Less(y, e)
    PROVE  FindsPrev(T, y, FALSE, v, k, o, s)
<1>1. \A e \in Wanted(T, o, s) : e \in T
      BY WantedFacts
<1> QED BY <1>1 DEF FindsPrev

\* And where the move back before left it.
LEMMA PrevStarts ==
    ASSUME NEW E, EntriesOK(E), NEW T, T = Visible(E), NEW o, NEW s,
           o.name = "Prev", NEW x, NEW v, NEW k, StandsBefore(T, x, v, k, s)
    PROVE  FindsPrev(T, x, FALSE, v, k, o, s)
<1>1. \A e \in Wanted(T, o, s) : e \in T /\ e.key < s.key
      BY WantedFacts DEF Asks
<1> QED BY <1>1 DEF FindsPrev, StandsBefore

\* FindPrevUserEntry at x goes on to y, and what it has saved then.
PrevTurn(T, x, y, isValue, v, k, o, s) ==
    /\ FindsPrev(T, x, isValue, v, k, o, s)
    /\ ~(x.seq <= Snapshot /\ isValue /\ x.key < k)
    /\ PrevIn(T, x, y)
PrevTurned(T, x, y, isValue, v, k, o, s) ==
    /\ x.seq > Snapshot => FindsPrev(T, y, isValue, v, k, o, s)
    /\ x.seq <= Snapshot /\ x.value => FindsPrev(T, y, TRUE, x, x.key, o, s)
    /\ x.seq <= Snapshot /\ ~x.value => FindsPrev(T, y, FALSE, NoEntry, 0, o, s)

\* A turn of FindPrevUserEntry that does not end it.
LEMMA FindPrevStep ==
    ASSUME NEW E, EntriesOK(E), NEW T, T = Visible(E), NEW o, NEW s, AsksOK(T, o, s),
           NEW x \in E, NEW isValue \in BOOLEAN, NEW v, NEW k, NEW y \in E \cup {NoEntry},
           PrevTurn(T, x, y, isValue, v, k, o, s)
    PROVE  PrevTurned(T, x, y, isValue, v, k, o, s)
<1>0. /\ FindsPrev(T, x, isValue, v, k, o, s)
      /\ ~(x.seq <= Snapshot /\ isValue /\ x.key < k)
      /\ PrevIn(T, x, y)
      BY DEF PrevTurn
<1>1. x.key \in Nat /\ x.seq \in Nat /\ x # NoEntry /\ Snapshot \in Nat
      BY EntryNumbers, SnapshotAssumption
<1>2. /\ o.name \in {"SeekToLast", "Prev"}
      /\ o.name = "Prev" => x.key < s.key /\ s.key \in Nat
      BY <1>0, <1>1, NewestFacts DEF FindsPrev, AsksOK
<1>3. y # NoEntry => y \in E /\ Less(y, x) /\ y.key \in Nat /\ y.seq \in Nat /\ y.key <= x.key
  <2>1. y # NoEntry => y \in E /\ Less(y, x)
        BY <1>0 DEF PrevIn
  <2> QED BY <1>1, <2>1, EntryNumbers, LessKeys
<1>4. y # NoEntry /\ o.name = "Prev" => y.key < s.key
      BY <1>1, <1>2, <1>3
<1>5. ASSUME isValue
      PROVE  /\ v \in T /\ v \in E /\ v.value /\ k = v.key /\ k \in Nat /\ v.seq \in Nat
             /\ Asks(o, s, k) /\ PrevIn(T, v, x) /\ Less(x, v)
             /\ \A e \in Wanted(T, o, s) : e.key <= k
  <2>1. /\ v \in T /\ v.value /\ k = v.key /\ Asks(o, s, k) /\ PrevIn(T, v, x)
        /\ \A e \in Wanted(T, o, s) : e.key <= k
        BY <1>0, <1>5 DEF FindsPrev
  <2>2. v \in E /\ v.key \in Nat /\ v.seq \in Nat
        BY <2>1, EntryNumbers DEF Visible
  <2>3. Less(x, v)
        BY <1>1, <2>1 DEF PrevIn
  <2> QED BY <2>1, <2>2, <2>3
<1>6. ASSUME ~isValue, NEW e \in Wanted(T, o, s) PROVE ~Less(x, e)
      BY <1>0, <1>6 DEF FindsPrev
<1>7. ASSUME x.seq > Snapshot PROVE FindsPrev(T, y, isValue, v, k, o, s)
  <2>1. x \notin T
        BY <1>1, <1>7 DEF Visible
  <2>2. ASSUME NEW e \in T, ~Less(x, e) PROVE y # NoEntry /\ ~Less(y, e)
    <3>1. e \in E /\ e # x
          BY <2>1, <2>2 DEF Visible
    <3>2. Less(e, x)
          BY <2>2, <3>1, LessTotal
    <3> QED BY <1>0, <2>2, <3>2 DEF PrevIn
  <2>3. CASE isValue
    <3>1. PrevIn(T, v, y)
      <4>1. y # NoEntry => Less(y, v)
            BY <1>1, <1>3, <1>5, <2>3, LessOrder
      <4>2. ASSUME NEW e \in T, Less(e, v) PROVE y # NoEntry /\ ~Less(y, e)
            BY <1>5, <2>2, <2>3, <4>2 DEF PrevIn
      <4> QED BY <4>1, <4>2 DEF PrevIn
    <3> QED BY <1>2, <1>4, <1>5, <2>3, <3>1 DEF FindsPrev
  <2>4. CASE ~isValue
    <3>1. \A e \in Wanted(T, o, s) : y # NoEntry /\ ~Less(y, e)
          BY <1>6, <2>2, <2>4, WantedFacts
    <3> QED BY <1>2, <1>4, <2>4, <3>1 DEF FindsPrev
  <2> QED BY <2>3, <2>4
<1>8. ASSUME NEW e \in Wanted(T, o, s), x.seq <= Snapshot PROVE e.key <= x.key
  <2>1. e.key \in Nat /\ e.seq \in Nat
        BY <1>8, WantedFacts
  <2>2. CASE isValue
        BY <1>0, <1>1, <1>5, <1>8, <2>1, <2>2
  <2>3. CASE ~isValue
        BY <1>1, <1>6, <1>8, <2>1, <2>3, LessKeys
  <2> QED BY <2>2, <2>3
<1>9. ASSUME x.seq <= Snapshot, x.value PROVE FindsPrev(T, y, TRUE, x, x.key, o, s)
  <2>1. x \in T
        BY <1>9 DEF Visible
  <2>2. Asks(o, s, x.key)
        BY <1>2 DEF Asks
  <2> QED BY <1>0, <1>2, <1>4, <1>8, <1>9, <2>1, <2>2 DEF FindsPrev
<1>10. ASSUME x.seq <= Snapshot, ~x.value PROVE FindsPrev(T, y, FALSE, NoEntry, 0, o, s)
  <2>1. x \in T
        BY <1>10 DEF Visible
  <2>2. ASSUME NEW e \in Wanted(T, o, s) PROVE y # NoEntry /\ ~Less(y, e)
    <3>1. /\ e \in T /\ e \in E /\ e.value /\ e.key \in Nat /\ e.seq \in Nat
          /\ \A f \in T : f.key = e.key => ~Less(f, e)
          BY <2>2, WantedFacts
    <3>2. e.key <= x.key
          BY <1>8, <1>10, <2>2
    <3>3. ~Less(x, e)
          BY <1>1, <2>1, <3>1, <3>2 DEF Less
    <3>4. e # x
          BY <1>10, <3>1
    <3>5. Less(e, x)
          BY <3>1, <3>3, <3>4, LessTotal
    <3> QED BY <1>0, <3>1, <3>5 DEF PrevIn
  <2> QED BY <1>2, <1>4, <2>2 DEF FindsPrev
<1> QED BY <1>7, <1>9, <1>10 DEF PrevTurned

\* The end of FindPrevUserEntry.
LEMMA FindPrevEnds ==
    ASSUME NEW E, EntriesOK(E), NEW T, T = Visible(E), NEW o, NEW s, AsksOK(T, o, s),
           NEW x \in E \cup {NoEntry}, NEW isValue \in BOOLEAN, NEW v, NEW k,
           FindsPrev(T, x, isValue, v, k, o, s), x # NoEntry => isValue /\ x.key < k
    PROVE  /\ ~isValue => Wanted(T, o, s) = {}
           /\ isValue => /\ v \in Wanted(T, o, s) /\ \A f \in Wanted(T, o, s) : v.key >= f.key
                         /\ StandsBefore(T, x, v, k, v)
<1>1. ~isValue => Wanted(T, o, s) = {}
      BY DEF FindsPrev
<1>2. ASSUME isValue
      PROVE  /\ v \in Wanted(T, o, s) /\ \A f \in Wanted(T, o, s) : v.key >= f.key
             /\ StandsBefore(T, x, v, k, v)
  <2>1. /\ v \in T /\ v.value /\ k = v.key /\ Asks(o, s, k) /\ PrevIn(T, v, x)
        /\ \A e \in Wanted(T, o, s) : e.key <= k
        BY <1>2 DEF FindsPrev
  <2>2. v \in E /\ v.key \in Nat /\ v.seq \in Nat
        BY <2>1, EntryNumbers DEF Visible
  <2>3. ASSUME NEW f \in T, f.key = v.key PROVE f.seq <= v.seq
    <3>1. f.key \in Nat /\ f.seq \in Nat
          BY <2>3, EntryNumbers DEF Visible
    <3>2. ~Less(f, v)
      <4> SUFFICES ASSUME Less(f, v) PROVE FALSE
          OBVIOUS
      <4>1. x # NoEntry /\ ~Less(x, f)
            BY <2>1, <2>3 DEF PrevIn
      <4>2. x.key < f.key
            BY <2>1, <2>3, <4>1
      <4> QED BY <4>1, <4>2 DEF Less
    <3>3. ~(f.seq > v.seq)
          BY <2>2, <2>3, <3>1, <3>2 DEF Less
    <3> QED BY <2>2, <3>1, <3>3
  <2>4. v \in Wanted(T, o, s)
        BY <2>1, <2>3 DEF Wanted, Newest
  <2>5. \A f \in Wanted(T, o, s) : v.key >= f.key
    <3>1. \A f \in Wanted(T, o, s) : f.key \in Nat
          BY WantedFacts
    <3> QED BY <2>1, <2>2, <3>1
  <2>6. ASSUME NEW e \in T, e.key < v.key PROVE x # NoEntry /\ ~Less(x, e)
    <3>1. Less(e, v)
          BY <2>6 DEF Less
    <3> QED BY <2>1, <2>6, <3>1 DEF PrevIn
  <2>7. StandsBefore(T, x, v, k, v)
        BY <1>2, <2>1, <2>6 DEF StandsBefore
  <2> QED BY <2>4, <2>5, <2>7
<1> QED BY <1>1, <1>2

-----------------------------------------------------------------------------
(* The steps of DBIter and of the cursor.                                  *)

\* A step of the cursor, or none.
CursorStep == [C!CursorNext]_<<View, op, shown>>

\* The calls.
LEMMA CallFacts ==
    ASSUME NEW o \in C!Calls
    PROVE  /\ o # NoCall /\ o.name \in {"Seek", "SeekToFirst", "SeekToLast", "Next", "Prev"}
           /\ o.name = "Seek" => o.target \in Nat
<1>1. CASE o \in {[name |-> n, target |-> 0] : n \in {"SeekToFirst", "SeekToLast", "Next", "Prev"}}
      BY <1>1 DEF NoCall
<1>2. CASE o \in [name: {"Seek"}, target: UserKeys]
  <2>1. o.name = "Seek" /\ o.target \in UserKeys
        BY <1>2
  <2>2. NoCall.name = "none"
        BY DEF NoCall
  <2> QED BY <2>1, <2>2, KeysAssumption
<1> QED BY <1>1, <1>2 DEF C!Calls

\* The invariant, as the lemmas about the entries use it.
LEMMA IterFacts ==
    ASSUME IterInv
    PROVE  /\ EntriesOK(entries) /\ MergedOK(entries, merged)
           /\ iter \in entries \cup {NoEntry}
           /\ Seen = Visible(entries) /\ View = Newest(Seen)
           /\ shown \in View \cup {NoEntry}
           /\ op # NoCall => op \in C!Calls /\ AsksOK(Seen, op, shown)
           /\ Snapshot \in Nat /\ saved_key \in Nat
           /\ skipping \in BOOLEAN /\ value_type \in BOOLEAN
<1>1. /\ EntriesOK(entries) /\ MergedOK(entries, merged)
      /\ shown \in View \cup {NoEntry} /\ (valid <=> shown # NoEntry)
      /\ op.name \in {"Next", "Prev"} => valid
      /\ op = NoCall \/ op \in C!Calls
      /\ saved_key \in Nat /\ skipping \in BOOLEAN /\ value_type \in BOOLEAN
      BY DEF IterInv, IterType
<1>2. Seen = Visible(entries) /\ View = Newest(Seen)
      BY DEF Seen, View, Visible, Newest
<1>3. iter \in entries \cup {NoEntry}
      BY <1>1 DEF iter, Current, MergedOK
<1>4. ASSUME op # NoCall PROVE op \in C!Calls /\ AsksOK(Seen, op, shown)
  <2>1. op \in C!Calls
        BY <1>1, <1>4
  <2>2. op.name = "Seek" => op.target \in Nat
        BY <2>1, CallFacts
  <2>3. op.name \in {"Next", "Prev"} => shown \in Newest(Seen)
        BY <1>1, <1>2
  <2> QED BY <2>1, <2>2, <2>3 DEF AsksOK
<1> QED BY <1>1, <1>2, <1>3, <1>4, SnapshotAssumption

\* What the cursor's call returns is the first or the last that is wanted.
LEMMA ResultWanted ==
    ASSUME IterInv, op # NoCall, NEW W, W = Wanted(Seen, op, shown)
    PROVE  /\ op.name \in {"Seek", "SeekToFirst", "Next"} => C!Result = C!First(W)
           /\ op.name \in {"SeekToLast", "Prev"} => C!Result = C!Final(W)
<1>1. View = Newest(Seen)
      BY IterFacts
<1>2. W = {e \in View : Asks(op, shown, e.key)}
      BY <1>1 DEF Wanted
<1>3. CASE op.name = "Seek"
  <2>1. W = {e \in View : e.key >= op.target}
        BY <1>2, <1>3 DEF Asks
  <2> QED BY <1>3, <2>1 DEF C!Result
<1>4. CASE op.name = "SeekToFirst"
  <2>1. W = View
        BY <1>2, <1>4 DEF Asks
  <2> QED BY <1>4, <2>1 DEF C!Result
<1>5. CASE op.name = "SeekToLast"
  <2>1. W = View
        BY <1>2, <1>5 DEF Asks
  <2> QED BY <1>5, <2>1 DEF C!Result
<1>6. CASE op.name = "Next"
  <2>1. W = {e \in View : e.key > shown.key}
        BY <1>2, <1>6 DEF Asks
  <2> QED BY <1>6, <2>1 DEF C!Result
<1>7. CASE op.name = "Prev"
  <2>1. W = {e \in View : e.key < shown.key}
        BY <1>2, <1>7 DEF Asks
  <2> QED BY <1>7, <2>1 DEF C!Result
<1> QED BY <1>3, <1>4, <1>5, <1>6, <1>7

\* Nothing is wanted: the call leaves the cursor at no entry.
LEMMA ResultNone ==
    ASSUME IterInv, op # NoCall, Wanted(Seen, op, shown) = {}
    PROVE  C!Result = NoEntry
<1>1. op.name \in {"Seek", "SeekToFirst", "SeekToLast", "Next", "Prev"}
      BY IterFacts, CallFacts
<1>2. C!First({}) = NoEntry /\ C!Final({}) = NoEntry
      BY DEF C!First, C!Final
<1> QED BY <1>1, <1>2, ResultWanted

\* A call of DBIter that returns what the cursor's does is a step of it.
LEMMA ReturnsStep ==
    ASSUME IterInv, op # NoCall, entries' = entries, op' = NoCall, shown' = C!Result
    PROVE  CursorStep
<1>1. View' = View
      BY DEF View, Seen
<1>2. op # C!NoCall /\ op' = C!NoCall
      BY DEF NoCall, C!NoCall
<1>3. C!Return
      BY <1>1, <1>2 DEF C!Return
<1> QED BY <1>3 DEF CursorStep, C!CursorNext

\* The other steps of a call are none of the cursor.
LEMMA SilentStep ==
    ASSUME entries' = entries, op' = op, shown' = shown
    PROVE  CursorStep
<1>1. View' = View
      BY DEF View, Seen
<1> QED BY <1>1 DEF CursorStep

\* FindNextUserEntry goes on at an entry, or ends at none.
LEMMA FindNextFromInv ==
    ASSUME IterInv, op # NoCall, entries' = entries, op.name \in {"Seek", "SeekToFirst", "Next"},
           NEW m, NEW skip \in BOOLEAN, NEW key \in Nat, FindNextFrom(m, skip, key),
           NEW y, y = Current(m), MergedOK(entries, m),
           y = NoEntry => Wanted(Seen, op, shown) = {},
           y # NoEntry => FindsNext(Seen, y, skip, key, op, shown)
    PROVE  IterInv' /\ CursorStep
<1>1. /\ EntriesOK(entries') /\ MergedOK(entries', merged') /\ merged' = m
      /\ direction' = "forward" /\ value_type' \in BOOLEAN
      BY IterFacts DEF FindNextFrom
<1>2. Seen' = Seen /\ View' = View /\ iter' = y
      BY <1>1 DEF View, Seen, iter
<1>3. CASE y # NoEntry
  <2>1. /\ iterPC' = "findNext" /\ skipping' = skip /\ saved_key' = key
        /\ valid' = valid /\ op' = op /\ shown' = shown
        BY <1>3 DEF FindNextFrom
  <2>2. IterType'
        BY <1>1, <1>2, <2>1 DEF IterInv, IterType
  <2>3. FindsNext(Seen', iter', skipping', saved_key', op', shown')
        BY <1>2, <1>3, <2>1
  <2>4. IterInv'
        BY <1>1, <2>1, <2>2, <2>3 DEF IterInv
  <2> QED BY <2>1, <2>4, SilentStep
<1>4. CASE y = NoEntry
  <2>1. /\ iterPC' = "idle" /\ skipping' = FALSE /\ saved_key' = 0
        /\ valid' = FALSE /\ op' = NoCall /\ shown' = NoEntry
        BY <1>4 DEF FindNextFrom, Returns
  <2>2. NoCall.name = "none"
        BY DEF NoCall
  <2>3. IterType'
        BY <1>1, <1>2, <2>1, <2>2 DEF IterType
  <2>4. IterInv'
        BY <2>1, <2>3 DEF IterInv
  <2>5. C!Result = NoEntry
        BY <1>4, ResultNone
  <2> QED BY <2>1, <2>4, <2>5, ReturnsStep
<1> QED BY <1>3, <1>4

\* Seek.
LEMMA SeekInv == ASSUME IterInv, Seek PROVE IterInv' /\ CursorStep
<1>1. op.name = "Seek" /\ op # NoCall /\ entries' = entries
      BY DEF Seek, NoCall
<1>2. /\ EntriesOK(entries) /\ Seen = Visible(entries) /\ AsksOK(Seen, op, shown)
      /\ op.target \in Nat /\ Snapshot \in Nat
      BY <1>1, IterFacts DEF AsksOK
<1>3. PICK r : r = [key |-> op.target, seq |-> Snapshot]
      OBVIOUS
<1>4. r.key = op.target /\ r.seq = Snapshot /\ r.key \in Nat /\ r.seq \in Nat
      BY <1>2, <1>3
<1>5. PICK m : m = MergedSeek(entries, r)
      OBVIOUS
<1>6. PICK y : y = Current(m)
      OBVIOUS
<1>7. /\ MergedOK(entries, m) /\ y \in entries \cup {NoEntry}
      /\ y # NoEntry => ~Less(y, r)
      /\ \A e \in Seen : ~Less(e, r) => y # NoEntry /\ ~Less(e, y)
      BY <1>2, <1>4, <1>5, <1>6, MergedSeekOK
<1>8. /\ y = NoEntry => Wanted(Seen, op, shown) = {}
      /\ y # NoEntry => FindsNext(Seen, y, FALSE, 0, op, shown)
      BY <1>1, <1>2, <1>4, <1>7, SeekStarts
<1>9. FindNextFrom(m, FALSE, 0)
      BY <1>3, <1>5 DEF Seek
<1> QED BY <1>1, <1>6, <1>7, <1>8, <1>9, FindNextFromInv

\* SeekToFirst.
LEMMA SeekToFirstInv == ASSUME IterInv, SeekToFirst PROVE IterInv' /\ CursorStep
<1>1. op.name = "SeekToFirst" /\ op # NoCall /\ entries' = entries
      BY DEF SeekToFirst, NoCall
<1>2. EntriesOK(entries) /\ Seen = Visible(entries) /\ saved_key \in Nat
      BY IterFacts
<1>3. PICK m : m = MergedFirst(entries)
      OBVIOUS
<1>4. PICK y : y = Current(m)
      OBVIOUS
<1>5. /\ MergedOK(entries, m) /\ y \in entries \cup {NoEntry}
      /\ \A e \in Seen : y # NoEntry /\ ~Less(e, y)
      BY <1>2, <1>3, <1>4, MergedFirstOK
<1>6. /\ y = NoEntry => Wanted(Seen, op, shown) = {}
      /\ y # NoEntry => FindsNext(Seen, y, FALSE, saved_key, op, shown)
      BY <1>1, <1>2, <1>5, FirstStarts
<1>7. FindNextFrom(m, FALSE, saved_key)
      BY <1>3 DEF SeekToFirst
<1> QED BY <1>1, <1>2, <1>4, <1>5, <1>6, <1>7, FindNextFromInv

\* Next, in either direction.
LEMMA Next_Inv == ASSUME IterInv, Next_ PROVE IterInv' /\ CursorStep
<1>1. op.name = "Next" /\ op # NoCall /\ iterPC = "idle" /\ entries' = entries
      BY DEF Next_, NoCall
<1>2. /\ EntriesOK(entries) /\ MergedOK(entries, merged) /\ Seen = Visible(entries)
      /\ AsksOK(Seen, op, shown) /\ saved_key \in Nat /\ iter \in entries \cup {NoEntry}
      BY <1>1, IterFacts
<1>3. valid
      BY <1>1 DEF IterInv, IterType
<1>4. op # NoCall /\ entries' = entries /\ op.name \in {"Seek", "SeekToFirst", "Next"}
      BY <1>1
<1>5. saved_key \in Nat
      BY <1>2
<1>6. CASE direction = "forward" /\ FindNextFrom(merged, TRUE, iter.key)
  <2>1. iter = shown
        BY <1>1, <1>3, <1>6 DEF IterInv
  <2>2. shown \in entries /\ shown # NoEntry /\ FindsNext(Seen, shown, TRUE, shown.key, op, shown)
        BY <1>1, <1>2, NextStarts
  <2>3. PICK key \in Nat : key = shown.key
        BY <1>2, <2>2, EntryNumbers
  <2>4. shown = Current(merged) /\ FindNextFrom(merged, TRUE, key)
        BY <1>6, <2>1, <2>3 DEF iter
  <2>5. /\ shown = NoEntry => Wanted(Seen, op, shown) = {}
        /\ shown # NoEntry => FindsNext(Seen, shown, TRUE, key, op, shown)
        BY <2>2, <2>3
  <2>6. MergedOK(entries, merged)
        BY <1>2
  <2> QED BY <1>4, <2>3, <2>4, <2>5, <2>6, FindNextFromInv
<1>7. ASSUME direction = "reverse",
             FindNextFrom(IF iter = NoEntry THEN MergedFirst(entries) ELSE MergedNext(entries, merged),
                          TRUE, saved_key)
      PROVE  IterInv' /\ CursorStep
  <2>1. StandsBefore(Seen, iter, saved, saved_key, shown)
        BY <1>1, <1>3, <1>7 DEF IterInv
  <2>2. PICK m : m = IF iter = NoEntry THEN MergedFirst(entries) ELSE MergedNext(entries, merged)
        OBVIOUS
  <2>3. PICK y : y = Current(m)
        OBVIOUS
  <2>4. FindNextFrom(m, TRUE, saved_key)
        BY <1>7, <2>2
  <2>5. CASE iter = NoEntry
    <3>1. m = MergedFirst(entries)
          BY <2>2, <2>5
    <3>2. /\ MergedOK(entries, m) /\ y \in entries \cup {NoEntry}
          /\ \A e \in Seen : y # NoEntry /\ ~Less(e, y)
          BY <1>2, <2>3, <3>1, MergedFirstOK
    <3>3. y # NoEntry /\ FindsNext(Seen, y, TRUE, saved_key, op, shown)
          BY <1>1, <1>2, <2>1, <2>5, <3>2, NextTurns
    <3>4. /\ y = NoEntry => Wanted(Seen, op, shown) = {}
          /\ y # NoEntry => FindsNext(Seen, y, TRUE, saved_key, op, shown)
          BY <3>3
    <3>5. MergedOK(entries, m)
          BY <3>2
    <3> QED BY <1>4, <1>5, <2>3, <2>4, <3>4, <3>5, FindNextFromInv
  <2>6. CASE iter # NoEntry
    <3>1. m = MergedNext(entries, merged) /\ iter = Current(merged)
          BY <2>2, <2>6 DEF iter
    <3>2. /\ MergedOK(entries, m) /\ y \in entries \cup {NoEntry}
          /\ NextIn(Seen, iter, y)
          BY <1>2, <2>3, <2>6, <3>1, MergedNextOK
    <3>3. y # NoEntry /\ FindsNext(Seen, y, TRUE, saved_key, op, shown)
          BY <1>1, <1>2, <2>1, <2>6, <3>2, NextTurns
    <3>4. /\ y = NoEntry => Wanted(Seen, op, shown) = {}
          /\ y # NoEntry => FindsNext(Seen, y, TRUE, saved_key, op, shown)
          BY <3>3
    <3>5. MergedOK(entries, m)
          BY <3>2
    <3> QED BY <1>4, <1>5, <2>3, <2>4, <3>4, <3>5, FindNextFromInv
  <2> QED BY <2>5, <2>6
<1> QED BY <1>6, <1>7 DEF Next_

\* A turn of FindNextUserEntry.
LEMMA FindNextUserEntryInv ==
    ASSUME IterInv, FindNextUserEntry PROVE IterInv' /\ CursorStep
<1>1. iterPC = "findNext" /\ op # NoCall /\ entries' = entries
      BY DEF FindNextUserEntry, IterInv, IterType
<1>2. /\ EntriesOK(entries) /\ MergedOK(entries, merged) /\ Seen = Visible(entries)
      /\ View = Newest(Seen) /\ AsksOK(Seen, op, shown) /\ saved_key \in Nat
      /\ skipping \in BOOLEAN /\ value_type \in BOOLEAN /\ iter \in entries \cup {NoEntry}
      BY <1>1, IterFacts
<1>3. FindsNext(Seen, iter, skipping, saved_key, op, shown)
      BY <1>1 DEF IterInv
<1>4. iter \in entries /\ iter # NoEntry /\ op.name \in {"Seek", "SeekToFirst", "Next"}
      BY <1>2, <1>3 DEF FindsNext
<1>5. iter.value \in BOOLEAN /\ iter.key \in Nat
      BY <1>2, <1>4, ItemType DEF EntriesOK
<1>6. PICK yields \in BOOLEAN :
         yields <=> iter.seq <= Snapshot /\ iter.value /\ ~(skipping /\ iter.key <= saved_key)
      OBVIOUS
<1>7. PICK hides \in BOOLEAN : hides <=> iter.seq <= Snapshot /\ ~iter.value
      OBVIOUS
<1>8. CASE yields
  <2>1. /\ saved_key' = 0 /\ Returns(TRUE, iter) /\ merged' = merged /\ direction' = direction
        /\ skipping' = skipping /\ value_type' = value_type
        BY <1>6, <1>8 DEF FindNextUserEntry
  <2>2. /\ iterPC' = "idle" /\ op' = NoCall /\ valid' = TRUE /\ shown' = iter
        BY <2>1 DEF Returns
  <2>3. /\ iter \in Wanted(Seen, op, shown)
        /\ \A f \in Wanted(Seen, op, shown) : iter.key <= f.key
        BY <1>2, <1>3, <1>4, <1>6, <1>8, FindNextYields
  <2>4. PICK W : W = Wanted(Seen, op, shown)
        OBVIOUS
  <2>5. W \subseteq Newest(Seen)
        BY <2>4 DEF Wanted
  <2>6. C!First(W) = iter
        BY <1>2, <2>3, <2>4, <2>5, FirstIs
  <2>7. C!Result = iter
        BY <1>1, <1>4, <2>4, <2>6, ResultWanted
  <2>8. Seen' = Seen /\ View' = View /\ iter' = iter /\ iter \in View
        BY <1>1, <1>2, <2>1, <2>3, <2>4, <2>5 DEF View, Seen, iter
  <2>9. NoCall.name = "none"
        BY DEF NoCall
  <2>10. direction = "forward"
        BY <1>1 DEF IterInv
  <2>11. IterType'
        BY <1>1, <1>2, <1>4, <2>1, <2>2, <2>8, <2>9, <2>10 DEF IterType
  <2>12. IterInv'
        BY <2>1, <2>2, <2>8, <2>10, <2>11 DEF IterInv
  <2> QED BY <1>1, <2>2, <2>7, <2>12, ReturnsStep
<1>9. CASE ~yields
  <2>1. PICK skip \in BOOLEAN : skip = (skipping \/ hides)
        BY <1>2
  <2>2. PICK key \in Nat : key = IF hides THEN iter.key ELSE saved_key
        BY <1>2, <1>5
  <2>3. PICK m : m = MergedNext(entries, merged)
        OBVIOUS
  <2>4. PICK y : y = Current(m)
        OBVIOUS
  <2>5. FindNextFrom(m, skip, key)
        BY <1>6, <1>7, <1>9, <2>1, <2>2, <2>3 DEF FindNextUserEntry
  <2>6. MergedOK(entries, m) /\ y \in entries \cup {NoEntry} /\ NextIn(Seen, iter, y)
        BY <1>2, <1>4, <2>3, <2>4, MergedNextOK DEF iter
  <2>7. /\ y = NoEntry => Wanted(Seen, op, shown) = {}
        /\ y # NoEntry => FindsNext(Seen, y, skip, key, op, shown)
        BY <1>2, <1>3, <1>4, <1>6, <1>7, <1>9, <2>1, <2>2, <2>6, FindNextStep
  <2> QED BY <1>1, <1>4, <2>4, <2>5, <2>6, <2>7, FindNextFromInv
<1> QED BY <1>8, <1>9

\* FindPrevUserEntry starts, or Prev's loop goes on: the call is not over.
LEMMA BackwardInv ==
    ASSUME IterInv, op # NoCall, entries' = entries, op' = op, shown' = shown, valid' = valid,
           MergedOK(entries, merged'), saved_key' \in Nat, direction' \in {"forward", "reverse"},
           skipping' = skipping, value_type' \in BOOLEAN,
           \/ /\ iterPC' = "scanBack"
              /\ ScansBack(Seen, Current(merged'), saved_key', op, shown)
           \/ /\ iterPC' = "findPrev" /\ direction' = "reverse"
              /\ FindsPrev(Seen, Current(merged'), value_type', saved', saved_key', op, shown)
    PROVE  IterInv' /\ CursorStep
<1>1. Seen' = Seen /\ View' = View /\ iter' = Current(merged')
      BY DEF View, Seen, iter
<1>2. /\ EntriesOK(entries) /\ (op = NoCall \/ op \in C!Calls) /\ shown \in View \cup {NoEntry}
      /\ valid \in BOOLEAN /\ (valid <=> shown # NoEntry) /\ skipping \in BOOLEAN
      /\ op.name \in {"Next", "Prev"} => valid
      BY DEF IterInv, IterType
<1>3. iterPC' \in {"scanBack", "findPrev"}
      OBVIOUS
<1>4. IterType'
      BY <1>1, <1>2, <1>3 DEF IterType
<1>5. /\ iterPC' = "scanBack" => ScansBack(Seen', iter', saved_key', op', shown')
      /\ iterPC' = "findPrev" =>
            /\ direction' = "reverse"
            /\ FindsPrev(Seen', iter', value_type', saved', saved_key', op', shown')
      BY <1>1
<1>6. IterInv'
      BY <1>3, <1>4, <1>5 DEF IterInv
<1> QED BY <1>6, SilentStep

\* SeekToLast.
LEMMA SeekToLastInv == ASSUME IterInv, SeekToLast PROVE IterInv' /\ CursorStep
<1>1. op.name = "SeekToLast" /\ op # NoCall /\ entries' = entries
      BY DEF SeekToLast, NoCall
<1>2. EntriesOK(entries) /\ Seen = Visible(entries) /\ saved_key \in Nat
      BY IterFacts
<1>3. PICK m : m = MergedLast(entries)
      OBVIOUS
<1>4. PICK y : y = Current(m)
      OBVIOUS
<1>5. MergedOK(entries, m) /\ \A e \in Seen : y # NoEntry /\ ~Less(y, e)
      BY <1>2, <1>3, <1>4, MergedLastOK
<1>6. /\ merged' = m /\ direction' = "reverse" /\ iterPC' = "findPrev" /\ value_type' = FALSE
      /\ skipping' = skipping /\ valid' = valid /\ op' = op /\ shown' = shown
      /\ saved_key' = saved_key
      BY <1>3 DEF SeekToLast, FindPrevFrom
<1>7. FindsPrev(Seen, y, FALSE, saved', saved_key', op, shown)
      BY <1>1, <1>2, <1>5, LastStarts
<1>8. FindsPrev(Seen, Current(merged'), value_type', saved', saved_key', op, shown)
      BY <1>4, <1>6, <1>7
<1> QED BY <1>1, <1>2, <1>5, <1>6, <1>8, BackwardInv

\* Prev, in either direction.
LEMMA PrevInv == ASSUME IterInv, Prev PROVE IterInv' /\ CursorStep
<1>1. op.name = "Prev" /\ op # NoCall /\ iterPC = "idle" /\ entries' = entries
      BY DEF Prev, NoCall
<1>2. /\ EntriesOK(entries) /\ MergedOK(entries, merged) /\ Seen = Visible(entries)
      /\ AsksOK(Seen, op, shown) /\ saved_key \in Nat /\ value_type \in BOOLEAN
      BY <1>1, IterFacts
<1>3. valid /\ direction \in {"forward", "reverse"}
      BY <1>1 DEF IterInv, IterType
<1>4. CASE direction = "forward"
  <2>1. iter = shown
        BY <1>1, <1>3, <1>4 DEF IterInv
  <2>2. /\ saved_key' = iter.key /\ iterPC' = "scanBack" /\ merged' = merged
        /\ direction' = direction /\ valid' = valid /\ skipping' = skipping
        /\ value_type' = value_type /\ op' = op /\ shown' = shown
        BY <1>4 DEF Prev
  <2>3. ScansBack(Seen, shown, shown.key, op, shown)
        BY <1>1, <1>2, ScanStarts
  <2>4. ScansBack(Seen, Current(merged'), saved_key', op, shown)
        BY <2>1, <2>2, <2>3 DEF iter
  <2>5. saved_key' \in Nat
        BY <1>1, <1>2, <2>1, <2>2, NewestFacts DEF AsksOK
  <2> QED BY <1>1, <1>2, <1>3, <2>2, <2>4, <2>5, BackwardInv
<1>5. CASE direction = "reverse"
  <2>1. StandsBefore(Seen, iter, saved, saved_key, shown)
        BY <1>1, <1>3, <1>5 DEF IterInv
  <2>2. /\ merged' = merged /\ direction' = "reverse" /\ iterPC' = "findPrev" /\ value_type' = FALSE
        /\ skipping' = skipping /\ valid' = valid /\ op' = op /\ shown' = shown
        /\ saved_key' = saved_key /\ saved' = saved
        BY <1>5 DEF Prev, FindPrevFrom
  <2>3. FindsPrev(Seen, iter, FALSE, saved, saved_key, op, shown)
        BY <1>1, <1>2, <2>1, PrevStarts
  <2>4. FindsPrev(Seen, Current(merged'), value_type', saved', saved_key', op, shown)
        BY <2>2, <2>3 DEF iter
  <2> QED BY <1>1, <1>2, <2>2, <2>4, BackwardInv
<1> QED BY <1>3, <1>4, <1>5

\* A call that ends with nothing found.
LEMMA EndsAtNone ==
    ASSUME IterInv, op # NoCall, entries' = entries, MergedOK(entries, merged'),
           saved_key' = 0, direction' \in {"forward", "reverse"}, skipping' = skipping,
           value_type' = value_type, Wanted(Seen, op, shown) = {},
           iterPC' = "idle", op' = NoCall, valid' = FALSE, shown' = NoEntry
    PROVE  IterInv' /\ CursorStep
<1>1. EntriesOK(entries) /\ skipping \in BOOLEAN /\ value_type \in BOOLEAN
      BY IterFacts
<1>2. NoCall.name = "none"
      BY DEF NoCall
<1>3. IterType'
      BY <1>1, <1>2 DEF IterType
<1>4. IterInv'
      BY <1>3 DEF IterInv
<1>5. C!Result = NoEntry
      BY ResultNone
<1> QED BY <1>4, <1>5, ReturnsStep

\* A turn of Prev's loop.
LEMMA ScanBackInv == ASSUME IterInv, ScanBack PROVE IterInv' /\ CursorStep
<1>1. iterPC = "scanBack" /\ op # NoCall /\ entries' = entries
      BY DEF ScanBack, IterInv, IterType
<1>2. /\ EntriesOK(entries) /\ MergedOK(entries, merged) /\ Seen = Visible(entries)
      /\ AsksOK(Seen, op, shown) /\ saved_key \in Nat /\ value_type \in BOOLEAN
      /\ iter \in entries \cup {NoEntry}
      BY <1>1, IterFacts
<1>3. direction \in {"forward", "reverse"} /\ ScansBack(Seen, iter, saved_key, op, shown)
      BY <1>1 DEF IterInv, IterType
<1>4. iter # NoEntry /\ iter \in entries
      BY <1>2, <1>3 DEF ScansBack
<1>5. PICK m : m = MergedPrev(entries, merged)
      OBVIOUS
<1>6. PICK y : y = Current(m)
      OBVIOUS
<1>7. MergedOK(entries, m) /\ y \in entries \cup {NoEntry} /\ PrevIn(Seen, iter, y)
      BY <1>2, <1>4, <1>5, <1>6, MergedPrevOK DEF iter
<1>8. /\ y = NoEntry => Wanted(Seen, op, shown) = {}
      /\ y # NoEntry /\ y.key >= saved_key => ScansBack(Seen, y, saved_key, op, shown)
      /\ y # NoEntry /\ y.key < saved_key => FindsPrev(Seen, y, FALSE, saved, saved_key, op, shown)
      BY <1>2, <1>3, <1>4, <1>7, ScanStep
<1>9. CASE y = NoEntry /\ merged' = m /\ saved_key' = 0 /\ saved' = NoEntry
           /\ Returns(FALSE, NoEntry) /\ UNCHANGED <<direction, skipping, value_type>>
  <2>1. iterPC' = "idle" /\ op' = NoCall /\ valid' = FALSE /\ shown' = NoEntry
        BY <1>9 DEF Returns
  <2>2. MergedOK(entries, merged')
        BY <1>7, <1>9
  <2>3. Wanted(Seen, op, shown) = {}
        BY <1>8, <1>9
  <2> QED BY <1>1, <1>3, <1>9, <2>1, <2>2, <2>3, EndsAtNone
<1>10. CASE y # NoEntry /\ y.key >= saved_key /\ merged' = m
            /\ UNCHANGED <<direction, saved_key, saved, valid, iterPC, skipping, value_type, op, shown>>
  <2>1. ScansBack(Seen, Current(merged'), saved_key', op, shown) /\ MergedOK(entries, merged')
        BY <1>6, <1>7, <1>8, <1>10
  <2> QED BY <1>1, <1>2, <1>3, <1>10, <2>1, BackwardInv
<1>11. CASE y # NoEntry /\ y.key < saved_key /\ FindPrevFrom(m) /\ UNCHANGED <<saved_key, saved>>
  <2>1. /\ merged' = m /\ direction' = "reverse" /\ iterPC' = "findPrev" /\ value_type' = FALSE
        /\ skipping' = skipping /\ valid' = valid /\ op' = op /\ shown' = shown
        BY <1>11 DEF FindPrevFrom
  <2>2. /\ FindsPrev(Seen, Current(merged'), value_type', saved', saved_key', op, shown)
        /\ MergedOK(entries, merged')
        BY <1>6, <1>7, <1>8, <1>11, <2>1
  <2> QED BY <1>1, <1>2, <1>11, <2>1, <2>2, BackwardInv
<1> QED BY <1>5, <1>6, <1>9, <1>10, <1>11 DEF ScanBack

\* A turn of FindPrevUserEntry.
LEMMA FindPrevUserEntryInv ==
    ASSUME IterInv, FindPrevUserEntry PROVE IterInv' /\ CursorStep
<1>1. /\ iterPC = "findPrev" /\ op # NoCall /\ entries' = entries /\ iter # NoEntry
      /\ merged' = MergedPrev(entries, merged) /\ direction' = direction /\ valid' = valid
      /\ iterPC' = "findPrev" /\ skipping' = skipping /\ op' = op /\ shown' = shown
      BY DEF FindPrevUserEntry, IterInv, IterType
<1>2. /\ EntriesOK(entries) /\ MergedOK(entries, merged) /\ Seen = Visible(entries)
      /\ AsksOK(Seen, op, shown) /\ saved_key \in Nat /\ value_type \in BOOLEAN
      /\ iter \in entries
      BY <1>1, IterFacts
<1>3. direction = "reverse" /\ FindsPrev(Seen, iter, value_type, saved, saved_key, op, shown)
      BY <1>1 DEF IterInv
<1>4. PICK y : y = Current(merged')
      OBVIOUS
<1>5. MergedOK(entries, merged') /\ y \in entries \cup {NoEntry} /\ PrevIn(Seen, iter, y)
      BY <1>1, <1>2, <1>4, MergedPrevOK DEF iter
<1>6. iter.value \in BOOLEAN /\ iter.key \in Nat /\ iter.seq \in Nat /\ Snapshot \in Nat
      BY <1>2, ItemType, SnapshotAssumption DEF EntriesOK
<1>7. ~(iter.seq <= Snapshot /\ value_type /\ iter.key < saved_key)
      BY DEF FindPrevUserEntry, PassedTheSaved
<1>8. /\ iter.seq > Snapshot => FindsPrev(Seen, y, value_type, saved, saved_key, op, shown)
      /\ iter.seq <= Snapshot /\ iter.value => FindsPrev(Seen, y, TRUE, iter, iter.key, op, shown)
      /\ iter.seq <= Snapshot /\ ~iter.value => FindsPrev(Seen, y, FALSE, NoEntry, 0, op, shown)
  <2>1. PrevTurn(Seen, iter, y, value_type, saved, saved_key, op, shown)
        BY <1>3, <1>5, <1>7 DEF PrevTurn
  <2>2. PrevTurned(Seen, iter, y, value_type, saved, saved_key, op, shown)
        BY <1>2, <1>5, <2>1, FindPrevStep
  <2> QED BY <2>2 DEF PrevTurned
<1>9. /\ FindsPrev(Seen, y, value_type', saved', saved_key', op, shown)
      /\ value_type' \in BOOLEAN /\ saved_key' \in Nat
  <2>1. CASE iter.seq > Snapshot
    <3>1. value_type' = value_type /\ saved' = saved /\ saved_key' = saved_key
          BY <1>6, <2>1 DEF FindPrevUserEntry
    <3> QED BY <1>2, <1>8, <2>1, <3>1
  <2>2. CASE iter.seq <= Snapshot /\ iter.value
    <3>1. value_type' = TRUE /\ saved' = iter /\ saved_key' = iter.key
      <4>1. ~(iter.seq > Snapshot)
            BY <1>6, <2>2
      <4>2. value_type' = iter.value /\ saved' = iter /\ saved_key' = iter.key
            BY <2>2, <4>1 DEF FindPrevUserEntry
      <4>3. iter.value = TRUE
            BY <1>6, <2>2
      <4> QED BY <4>2, <4>3
    <3>2. FindsPrev(Seen, y, TRUE, iter, iter.key, op, shown)
          BY <1>8, <2>2
    <3> QED BY <1>6, <3>1, <3>2
  <2>3. CASE iter.seq <= Snapshot /\ ~iter.value
    <3>1. value_type' = FALSE /\ saved' = NoEntry /\ saved_key' = 0
          BY <1>6, <2>3 DEF FindPrevUserEntry
    <3>2. FindsPrev(Seen, y, FALSE, NoEntry, 0, op, shown)
          BY <1>8, <2>3
    <3> QED BY <3>1, <3>2
  <2> QED BY <1>6, <2>1, <2>2, <2>3
<1>10. /\ iterPC' = "findPrev" /\ direction' = "reverse"
       /\ FindsPrev(Seen, Current(merged'), value_type', saved', saved_key', op, shown)
       BY <1>1, <1>3, <1>4, <1>9
<1> QED BY <1>1, <1>5, <1>9, <1>10, BackwardInv

\* The end of FindPrevUserEntry.
LEMMA FoundPrevInv == ASSUME IterInv, FoundPrev PROVE IterInv' /\ CursorStep
<1>1. /\ iterPC = "findPrev" /\ op # NoCall /\ entries' = entries /\ merged' = merged
      /\ skipping' = skipping /\ value_type' = value_type /\ iterPC' = "idle" /\ op' = NoCall
      /\ valid' = value_type /\ shown' = IF value_type THEN saved ELSE NoEntry
      BY DEF FoundPrev, Returns, IterInv, IterType
<1>2. /\ EntriesOK(entries) /\ MergedOK(entries, merged) /\ Seen = Visible(entries)
      /\ View = Newest(Seen) /\ AsksOK(Seen, op, shown) /\ saved_key \in Nat
      /\ value_type \in BOOLEAN /\ skipping \in BOOLEAN /\ iter \in entries \cup {NoEntry}
      BY <1>1, IterFacts
<1>3. direction = "reverse" /\ FindsPrev(Seen, iter, value_type, saved, saved_key, op, shown)
      BY <1>1 DEF IterInv
<1>4. iter # NoEntry => value_type /\ iter.key < saved_key
      BY DEF FoundPrev, PassedTheSaved
<1>5. /\ ~value_type => Wanted(Seen, op, shown) = {}
      /\ value_type => /\ saved \in Wanted(Seen, op, shown)
                       /\ \A f \in Wanted(Seen, op, shown) : saved.key >= f.key
                       /\ StandsBefore(Seen, iter, saved, saved_key, saved)
      BY <1>2, <1>3, <1>4, FindPrevEnds
<1>6. CASE ~value_type
  <2>1. saved_key' = 0 /\ direction' = "forward" /\ valid' = FALSE /\ shown' = NoEntry
        BY <1>1, <1>6 DEF FoundPrev
  <2>2. MergedOK(entries, merged')
        BY <1>1, <1>2
  <2> QED BY <1>1, <1>5, <1>6, <2>1, <2>2, EndsAtNone
<1>7. CASE value_type
  <2>1. /\ saved_key' = saved_key /\ saved' = saved /\ direction' = direction
        /\ valid' = TRUE /\ shown' = saved
        BY <1>1, <1>7 DEF FoundPrev
  <2>2. PICK W : W = Wanted(Seen, op, shown)
        OBVIOUS
  <2>3. W \subseteq Newest(Seen) /\ saved \in W /\ \A f \in W : saved.key >= f.key
        BY <1>5, <1>7, <2>2 DEF Wanted
  <2>4. C!Final(W) = saved
        BY <1>2, <2>3, FinalIs
  <2>5. op.name \in {"SeekToLast", "Prev"}
        BY <1>3 DEF FindsPrev
  <2>6. C!Result = saved
        BY <1>1, <2>2, <2>4, <2>5, ResultWanted
  <2>7. Seen' = Seen /\ View' = View /\ iter' = iter /\ saved \in View /\ saved # NoEntry
        BY <1>1, <1>2, <2>3, NewestFacts DEF View, Seen, iter
  <2>8. NoCall.name = "none"
        BY DEF NoCall
  <2>9. IterType'
        BY <1>1, <1>2, <1>3, <2>1, <2>7, <2>8 DEF IterType
  <2>10. StandsBefore(Seen', iter', saved', saved_key', shown')
        BY <1>5, <1>7, <2>1, <2>7
  <2>11. IterInv'
        BY <1>1, <1>3, <2>1, <2>9, <2>10 DEF IterInv
  <2> QED BY <1>1, <2>1, <2>6, <2>11, ReturnsStep
<1> QED BY <1>2, <1>6, <1>7

\* A user calls one of the operations.
LEMMA CallsInv ==
    ASSUME IterInv, NEW n \in {"Seek", "SeekToFirst", "SeekToLast", "Next", "Prev"},
           NEW t \in UserKeys \union {0}, Calls(n, t)
    PROVE  IterInv' /\ CursorStep
<1>1. /\ iterPC = "idle" /\ op = NoCall /\ (n \in {"Next", "Prev"} => valid)
      /\ (n = "Seek" <=> t # 0) /\ op' = [name |-> n, target |-> t]
      /\ entries' = entries /\ merged' = merged /\ direction' = direction
      /\ saved_key' = saved_key /\ saved' = saved /\ valid' = valid /\ iterPC' = iterPC
      /\ skipping' = skipping /\ value_type' = value_type /\ shown' = shown
      BY DEF Calls
<1>2. PICK c : c = [name |-> n, target |-> t]
      OBVIOUS
<1>3. c \in C!Calls /\ c.name = n
  <2>1. CASE n = "Seek"
        BY <1>1, <1>2, <2>1 DEF C!Calls
  <2>2. CASE n # "Seek"
        BY <1>1, <1>2, <2>2 DEF C!Calls
  <2> QED BY <2>1, <2>2
<1>4. Seen' = Seen /\ View' = View /\ iter' = iter
      BY <1>1 DEF View, Seen, iter
<1>5. op' = c
      BY <1>1, <1>2
<1>6. IterType'
      BY <1>1, <1>3, <1>4, <1>5 DEF IterInv, IterType
<1>7. IterInv'
      BY <1>1, <1>4, <1>6 DEF IterInv
<1>8. C!Call(c)
  <2>1. valid => shown # NoEntry
        BY DEF IterInv, IterType
  <2>2. op = C!NoCall
        BY <1>1 DEF NoCall, C!NoCall
  <2> QED BY <1>1, <1>3, <1>4, <1>5, <2>1, <2>2 DEF C!Call
<1> QED BY <1>3, <1>7, <1>8 DEF CursorStep, C!CursorNext

\* The number that a new entry gets is above the others and the snapshot's.
LEMMA NewNumber ==
    ASSUME NEW E, EntriesOK(E), NEW n, n = Max({e.seq : e \in E} \union {Snapshot}) + 1
    PROVE  n \in Nat /\ n > Snapshot /\ \A e \in E : n > e.seq
<1>1. PICK H : H = {e.seq : e \in E}
      OBVIOUS
<1>2. IsFiniteSet(H)
  <2>1. PICK f : f = [e \in E |-> e.seq]
        OBVIOUS
  <2>2. f \in Surjection(E, H)
        BY <1>1, <2>1 DEF Surjection
  <2> QED BY <2>2, FS_Surjection DEF EntriesOK
<1>3. PICK S : S = H \union {Snapshot}
      OBVIOUS
<1>4. IsFiniteSet(S) /\ S # {}
      BY <1>2, <1>3, FS_AddElement
<1>5. S \in SUBSET Nat
      BY <1>1, <1>3, EntryNumbers, SnapshotAssumption
<1>6. PICK g \in Nat : g = Max(S) /\ \A y \in S : y <= g
      BY <1>4, <1>5, MaxFacts
<1>7. n = g + 1
      BY <1>1, <1>3, <1>6
<1>8. Snapshot \in S /\ \A e \in E : e.seq \in S
      BY <1>1, <1>3
<1>9. Snapshot <= g /\ Snapshot \in Nat /\ \A e \in E : e.seq <= g /\ e.seq \in Nat
      BY <1>5, <1>6, <1>8
<1> QED BY <1>6, <1>7, <1>9

\* An entry newer than the snapshot changes nothing for it.
LEMMA NewEntryOK ==
    ASSUME NEW E, EntriesOK(E), NEW n \in Item, n.seq > Snapshot, \A e \in E : n.seq > e.seq,
           NEW F, F = E \union {n}, NEW m, MergedOK(E, m)
    PROVE  EntriesOK(F) /\ Visible(F) = Visible(E) /\ MergedOK(F, m)
<1>1. n.seq \in Nat /\ Snapshot \in Nat /\ \A e \in E : e.seq \in Nat
      BY ItemType, EntryNumbers, SnapshotAssumption
<1>2. EntriesOK(F)
  <2>1. F \subseteq Item
        BY DEF EntriesOK
  <2>2. IsFiniteSet(F)
        BY FS_AddElement DEF EntriesOK
  <2>3. ASSUME NEW e \in F, NEW f \in F, e.seq = f.seq PROVE e = f
    <3>1. e \in E /\ f \in E => e = f
          BY <2>3 DEF EntriesOK
    <3>2. e = n \/ f = n => e = f
          BY <1>1, <2>3
    <3> QED BY <3>1, <3>2
  <2> QED BY <2>1, <2>2, <2>3 DEF EntriesOK
<1>3. Visible(F) = Visible(E)
  <2>1. ~(n.seq <= Snapshot)
        BY <1>1
  <2> QED BY <2>1 DEF Visible
<1>4. MergedOK(F, m)
  <2>1. m \in [at: [Children -> F \cup {NoEntry}], current: Children \cup {NoChild},
               direction: {"forward", "reverse"}]
    <3>1. m \in [at: [Children -> E \cup {NoEntry}], current: Children \cup {NoChild},
                 direction: {"forward", "reverse"}]
          BY DEF MergedOK
    <3>2. [Children -> E \cup {NoEntry}] \subseteq [Children -> F \cup {NoEntry}]
          OBVIOUS
    <3> QED BY <3>1, <3>2
  <2> QED BY <1>3, <2>1 DEF MergedOK
<1> QED BY <1>2, <1>3, <1>4

\* A writer inserts meanwhile.
LEMMA InsertEntryInv ==
    ASSUME IterInv, NEW k \in UserKeys, NEW isValue \in BOOLEAN, InsertEntry(k, isValue)
    PROVE  IterInv' /\ CursorStep
<1>1. EntriesOK(entries) /\ MergedOK(entries, merged) /\ Seen = Visible(entries)
      BY IterFacts
<1>2. PICK q : q = Max({e.seq : e \in entries} \union {Snapshot}) + 1
      OBVIOUS
<1>3. q \in Nat /\ q > Snapshot /\ \A e \in entries : q > e.seq
      BY <1>1, <1>2, NewNumber
<1>4. PICK n : n = [child |-> "memtable", key |-> k, value |-> isValue, seq |-> q]
      OBVIOUS
<1>5. n \in Item /\ n.seq = q
      BY <1>3, <1>4 DEF Item, Children
<1>6. entries' = entries \union {n}
      BY <1>2, <1>4 DEF InsertEntry
<1>7. EntriesOK(entries') /\ Visible(entries') = Visible(entries) /\ MergedOK(entries', merged)
      BY <1>1, <1>3, <1>5, <1>6, NewEntryOK
<1>8. /\ merged' = merged /\ direction' = direction /\ saved_key' = saved_key /\ saved' = saved
      /\ valid' = valid /\ iterPC' = iterPC /\ skipping' = skipping /\ value_type' = value_type
      /\ op' = op /\ shown' = shown
      BY DEF InsertEntry, iterVars
<1>9. Seen' = Seen
      BY <1>7 DEF Seen, Visible
<1>10. View' = View /\ iter' = iter
       BY <1>8, <1>9 DEF View, iter
<1>11. IterType'
       BY <1>7, <1>8, <1>10 DEF IterInv, IterType
<1>12. IterInv'
       BY <1>8, <1>9, <1>10, <1>11 DEF IterInv
<1> QED BY <1>8, <1>10, <1>12 DEF CursorStep

\* A history of the database is made of entries with a number each.
LEMMA HistoriesOK == ASSUME NEW E \in Histories PROVE EntriesOK(E)
<1>1. PICK h \in [1 .. Snapshot -> UserKeys \X BOOLEAN], split \in 0 .. Snapshot :
         E = {[child |-> IF s <= split THEN "table" ELSE "memtable",
               key |-> h[s][1], seq |-> s, value |-> h[s][2]] : s \in 1 .. Snapshot}
      BY DEF Histories
<1>2. PICK f : f = [s \in 1 .. Snapshot |->
                       [child |-> IF s <= split THEN "table" ELSE "memtable",
                        key |-> h[s][1], seq |-> s, value |-> h[s][2]]]
      OBVIOUS
<1>3. DOMAIN f = 1 .. Snapshot /\ E = {f[s] : s \in 1 .. Snapshot}
      BY <1>1, <1>2
<1>4. ASSUME NEW s \in 1 .. Snapshot PROVE f[s] \in Item /\ f[s].seq = s
  <2>1. h[s][1] \in UserKeys /\ h[s][2] \in BOOLEAN /\ s \in Nat
        BY <1>1, SnapshotAssumption
  <2>2. PICK c \in Children : c = IF s <= split THEN "table" ELSE "memtable"
        BY DEF Children
  <2>3. f[s] = [child |-> c, key |-> h[s][1], seq |-> s, value |-> h[s][2]]
        BY <1>2, <2>2
  <2> QED BY <2>1, <2>3 DEF Item
<1>5. E \subseteq Item
      BY <1>3, <1>4
<1>6. IsFiniteSet(E)
  <2>1. f = [s \in 1 .. Snapshot |-> f[s]]
        BY <1>2
  <2>2. f \in Surjection(1 .. Snapshot, E)
        BY <1>3, <2>1 DEF Surjection
  <2>3. IsFiniteSet(1 .. Snapshot)
        BY FS_Interval, SnapshotAssumption
  <2> QED BY <2>2, <2>3, FS_Surjection
<1>7. ASSUME NEW e \in E, NEW g \in E, e.seq = g.seq PROVE e = g
      BY <1>3, <1>4, <1>7
<1> QED BY <1>5, <1>6, <1>7 DEF EntriesOK

\* The first state.
LEMMA IterInitInv == ASSUME DBIterInit PROVE IterInv
<1>1. EntriesOK(entries)
      BY HistoriesOK DEF DBIterInit
<1>2. PICK a : a = [c \in Children |-> NoEntry]
      OBVIOUS
<1>3. a \in [Children -> entries \cup {NoEntry}] /\ \A c \in Children : a[c] = NoEntry
      BY <1>2
<1>4. merged = [at |-> a, current |-> NoChild, direction |-> "forward"]
      BY <1>2 DEF DBIterInit, NewIterator
<1>5. MergedOK(entries, merged)
  <2>1. merged \in [at: [Children -> entries \cup {NoEntry}], current: Children \cup {NoChild},
                    direction: {"forward", "reverse"}]
        BY <1>3, <1>4
  <2>2. merged.at = a /\ merged.current = NoChild
        BY <1>4
  <2> QED BY <1>3, <2>1, <2>2 DEF MergedOK
<1>6. /\ direction = "forward" /\ saved_key = 0 /\ valid = FALSE /\ iterPC = "idle"
      /\ skipping = FALSE /\ value_type = FALSE /\ op = NoCall /\ shown = NoEntry
      BY DEF DBIterInit, NewIterator
<1>7. NoCall.name = "none"
      BY DEF NoCall
<1>8. IterType
      BY <1>1, <1>5, <1>6, <1>7 DEF IterType
<1> QED BY <1>6, <1>8 DEF IterInv

\* Every step keeps the invariant and is a step of the cursor.
LEMMA IterStep == ASSUME IterInv, [DBIterNext]_dbIterVars PROVE IterInv' /\ CursorStep
<1>1. CASE UNCHANGED dbIterVars
  <2>1. /\ entries' = entries /\ merged' = merged /\ direction' = direction
        /\ saved_key' = saved_key /\ saved' = saved /\ valid' = valid /\ iterPC' = iterPC
        /\ skipping' = skipping /\ value_type' = value_type /\ op' = op /\ shown' = shown
        BY <1>1 DEF dbIterVars, iterVars
  <2>2. Seen' = Seen /\ View' = View /\ iter' = iter
        BY <2>1 DEF View, Seen, iter
  <2>3. IterType'
        BY <2>1, <2>2 DEF IterInv, IterType
  <2>4. IterInv'
        BY <2>1, <2>2, <2>3 DEF IterInv
  <2> QED BY <2>1, <2>4, SilentStep
<1>2. CASE DBIterStep
      BY <1>2, SeekInv, SeekToFirstInv, SeekToLastInv, Next_Inv, PrevInv, FindNextUserEntryInv,
         ScanBackInv, FoundPrevInv, FindPrevUserEntryInv DEF DBIterStep
<1>3. ASSUME NEW n \in {"Seek", "SeekToFirst", "SeekToLast", "Next", "Prev"},
             NEW t \in UserKeys \union {0}, Calls(n, t)
      PROVE  IterInv' /\ CursorStep
      BY <1>3, CallsInv
<1>4. ASSUME NEW k \in UserKeys, NEW v \in BOOLEAN, InsertEntry(k, v)
      PROVE  IterInv' /\ CursorStep
      BY <1>4, InsertEntryInv
<1> QED BY <1>1, <1>2, <1>3, <1>4 DEF DBIterNext

(***************************************************************************)
(* The iterator of the database is a cursor over what its snapshot shows,  *)
(* for any keys, any history and any entries written meanwhile: whatever   *)
(* mixture of moves in both directions is made, over hidden and deleted    *)
(* entries, each call of DBIter leaves it at the entry at which the same   *)
(* call of the cursor leaves that (FindNextUserEntry, FindPrevUserEntry,   *)
(* the changes of direction in Next and Prev and in MergingIterator).      *)
(***************************************************************************)
THEOREM DBIterImplementsCursor == DBIterSpec => ImplementsCursor
<1>1. DBIterInit => IterInv
      BY IterInitInv
<1>2. IterInv /\ [DBIterNext]_dbIterVars => IterInv' /\ CursorStep
      BY IterStep
<1>3. DBIterInit => C!CursorInit
      BY DEF DBIterInit, NewIterator, NoCall, C!CursorInit, C!NoCall
<1>4. CursorStep => [C!CursorNext]_<<View, op, shown>>
      BY DEF CursorStep
<1> QED BY <1>1, <1>2, <1>3, <1>4, PTL DEF DBIterSpec, ImplementsCursor, C!CursorSpec

=============================================================================
