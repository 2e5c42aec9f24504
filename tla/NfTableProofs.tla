----------------------------- MODULE NfTableProofs -----------------------------
(***************************************************************************)
(* The table of NfTable implements the map of NfMap, whatever its keys are *)
(* and however many nodes it gets.                                         *)
(*                                                                         *)
(* The inductive invariant is Inv.  A node is found because it is where    *)
(* its hash says (NodesInPlace), also while the table grows; from that     *)
(* follows that no regular key gets a second node (OneNodePerKey), and     *)
(* from both that a look-up finds the value stored last.                   *)
(***************************************************************************)
EXTENDS NfTable, WellFoundedInduction, TLAPS

Entries == [key : Keys, value : Values]
InSet == at \in {"grow", "rehash", "find"}

(* Keys of nodes, and the key to be set, are not taken for indices of the  *)
(* array part.                                                             *)
HashedKeys ==
  /\ \A node \in Ids : ~InArrayPart(nodes[node].key)
  /\ InSet => ~InArrayPart(op.key) /\ node_count < MaxNodes

(* Once Table_set has looked at the load there is room for a node.         *)
RoomForNode == at = "find" => node_count + 1 <= node_alloc

Inv ==
  /\ TypeOK
  /\ NodesInPlace
  /\ OneNodePerKey
  /\ LoadAtMostOne
  /\ HashedKeys
  /\ RoomForNode

-----------------------------------------------------------------------------
(* Chains. *)

In(chain, node) == Times(chain, node) # {}

LEMMA InIsElement ==
  ASSUME NEW chain, NEW node
  PROVE  In(chain, node) <=> \E j \in 1..Len(chain) : chain[j] = node
  BY DEF In, Times

(* A node put first is in the chain, and so are those that were.           *)
LEMMA PutFirstIn ==
  ASSUME NEW S, NEW chain \in Seq(S), NEW m \in S, NEW node
  PROVE  /\ <<m>> \o chain \in Seq(S)
         /\ In(<<m>> \o chain, m)
         /\ In(chain, node) => In(<<m>> \o chain, node)
  <1> DEFINE longer == <<m>> \o chain
  <1>1. longer \in Seq(S) /\ Len(longer) = Len(chain) + 1
    OBVIOUS
  <1>2. longer[1] = m /\ \A j \in 1..Len(chain) : longer[j + 1] = chain[j]
    OBVIOUS
  <1>3. In(longer, m)
    <2>1. 1 \in 1..Len(longer) /\ longer[1] = m
      BY <1>1, <1>2
    <2> HIDE DEF longer
    <2> QED BY <2>1, InIsElement
  <1>4. ASSUME In(chain, node) PROVE In(longer, node)
    <2>1. PICK j \in 1..Len(chain) : chain[j] = node
      BY <1>4, InIsElement
    <2>2. j + 1 \in 1..Len(longer) /\ longer[j + 1] = node
      BY <1>1, <1>2, <2>1
    <2> HIDE DEF longer
    <2> QED BY <2>2, InIsElement
  <1> QED BY <1>1, <1>3, <1>4

(* Taking the first node off leaves all others in the chain.               *)
LEMMA RestIn ==
  ASSUME NEW S, NEW chain \in Seq(S), chain # <<>>, NEW node
  PROVE  /\ Tail(chain) \in Seq(S) /\ Head(chain) \in S
         /\ In(chain, node) /\ node # Head(chain) => In(Tail(chain), node)
  <1>1. Tail(chain) \in Seq(S) /\ Len(Tail(chain)) = Len(chain) - 1
    OBVIOUS
  <1>2. Head(chain) = chain[1] /\ chain[1] \in S
    OBVIOUS
  <1>3. \A j \in 1..Len(Tail(chain)) : Tail(chain)[j] = chain[j + 1]
    OBVIOUS
  <1>4. ASSUME In(chain, node), node # Head(chain) PROVE In(Tail(chain), node)
    <2>1. PICK j \in 1..Len(chain) : chain[j] = node
      BY <1>4, InIsElement
    <2>2. j # 1
      BY <1>4, <1>2, <2>1
    <2>3. j - 1 \in 1..Len(Tail(chain)) /\ Tail(chain)[j - 1] = node
      BY <1>1, <1>3, <2>1, <2>2
    <2> QED BY <2>3, InIsElement
  <1> QED BY <1>1, <1>2, <1>4

(* A set of naturals that is not empty has a least element.                *)
LEMMA LeastElement ==
  ASSUME NEW M \in SUBSET Nat, M # {}
  PROVE  \E j \in M : \A l \in M : j <= l
  <1> DEFINE R == {p \in Nat \X Nat : p[1] < p[2]}
  <1>1. IsWellFoundedOn(R, Nat)
    BY NatLessThanWellFounded DEF OpToRel
  <1>2. PICK j \in M : \A l \in M : <<l, j>> \notin R
    <2> HIDE DEF R
    <2> QED BY <1>1, WFMin
  <1>3. ASSUME NEW l \in M PROVE j <= l
    <2>1. j \in Nat /\ l \in Nat
      OBVIOUS
    <2>2. <<l, j>> \in R <=> l < j
      BY <2>1
    <2> QED BY <1>2, <2>1, <2>2
  <1> QED BY <1>3

(* What NodeIn returns: 0 if no node of the chain has the key, or one that *)
(* has it.                                                                 *)
LEMMA NodeInReturns ==
  ASSUME NEW S, NEW chain \in Seq(S), NEW key
  PROVE  \/ /\ NodeIn(chain, key) = 0
            /\ \A j \in 1..Len(chain) : ~Same(nodes[chain[j]].key, key)
         \/ /\ NodeIn(chain, key) \in S
            /\ In(chain, NodeIn(chain, key))
            /\ Same(nodes[NodeIn(chain, key)].key, key)
  <1>1. CASE Matches(chain, key) = {}
    BY <1>1 DEF NodeIn, Matches
  <1>2. CASE Matches(chain, key) # {}
    <2> DEFINE M == Matches(chain, key)
    <2>1. M \in SUBSET Nat /\ M # {}
      BY <1>2 DEF Matches
    <2>2. \E j \in M : \A l \in M : j <= l
      <3> HIDE DEF M
      <3> QED BY <2>1, LeastElement
    <2>3. PICK j \in M : NodeIn(chain, key) = chain[j]
      BY <1>2, <2>2 DEF NodeIn
    <2>4. j \in 1..Len(chain) /\ Same(nodes[chain[j]].key, key)
      BY DEF Matches
    <2> QED BY <2>3, <2>4, InIsElement
  <1> QED BY <1>1, <1>2

-----------------------------------------------------------------------------
(* Buckets. *)

(* The bucket of a key that is hashed is one of the buckets.               *)
LEMMA BucketExists ==
  ASSUME NEW key \in Keys, ~InArrayPart(key), NEW alloc \in Nat, alloc >= 1
  PROVE  Bucket(key, alloc) \in 0..(alloc - 1)
  <1>1. Hash(key) \in Nat
    BY TableAssumption DEF Hash, InArrayPart
  <1> QED BY <1>1 DEF Bucket

(* The powers of two: NextPowerOf2 is recursive, so first that there is    *)
(* such a function.                                                        *)

Less == {ss \in Nat \X Nat : ss[1] < ss[2]}

(* A set of natural numbers that is not empty has a least one.             *)
LEMMA Least ==
  ASSUME NEW S, S \subseteq Nat, S # {}
  PROVE  \E n \in S : \A m \in S : n <= m
  <1>1. IsWellFoundedOn(Less, Nat)
    BY NatLessThanWellFounded DEF OpToRel, Less
  <1>2. PICK n \in S : \A m \in S : ~(<<m, n>> \in Less)
    BY <1>1, WFMin
  <1>3. ASSUME NEW m \in S
        PROVE  n <= m
    <2>1. m \in Nat /\ n \in Nat /\ ~(<<m, n>> \in Less)
      BY <1>2
    <2> QED BY <2>1 DEF Less
  <1> QED BY <1>3

(* f is the function up to n.                                              *)
Powers(f, n) ==
  /\ f = [s \in 0..n |-> f[s]]
  /\ \A s \in 0..n : f[s] = IF s = 0 THEN 1 ELSE 2 * f[s \div 2]

(* Halving a positive number gives a smaller one.                         *)
LEMMA Halves ==
  ASSUME NEW s \in Nat, s # 0
  PROVE  s \div 2 \in Nat /\ s \div 2 < s /\ (s = 2 * (s \div 2) \/ s = 2 * (s \div 2) + 1)
  OBVIOUS

(* It exists as far as one likes,                                          *)
LEMMA PowersExist == \A n \in Nat : \E f : Powers(f, n)
  <1> DEFINE Bad == {n \in Nat : ~ \E f : Powers(f, n)}
  <1>1. SUFFICES ASSUME Bad # {} PROVE FALSE
    OBVIOUS
  <1>2. PICK n \in Bad : \A m \in Bad : n <= m
    <2> Bad \subseteq Nat
      OBVIOUS
    <2> HIDE DEF Bad
    <2> QED BY <1>1, Least
  <1>3. n \in Nat /\ ~ \E f : Powers(f, n)
    OBVIOUS
  <1>4. n # 0
    <2>1. SUFFICES ASSUME n = 0 PROVE FALSE
      OBVIOUS
    <2>2. PICK g : g = [s \in 0..0 |-> 1]
      OBVIOUS
    <2>3. \A s \in 0..0 : s = 0
      OBVIOUS
    <2>4. Powers(g, 0)
      BY <2>2, <2>3 DEF Powers
    <2> QED BY <1>3, <2>1, <2>4
  <1>5. PICK k \in Nat : n = k + 1 /\ ~(n <= k)
    <2>1. n - 1 \in Nat /\ n = (n - 1) + 1 /\ ~(n <= n - 1)
      BY <1>3, <1>4
    <2> QED BY <2>1
  <1>6. PICK f : Powers(f, k)
    BY <1>2, <1>5
  <1>7. PICK g : g = [s \in 0..n |-> IF s = n THEN 2 * f[n \div 2] ELSE f[s]]
    OBVIOUS
  <1>8. \A s \in 0..n : s \in Nat /\ (s # n => s \in 0..k)
    BY <1>5
  <1>9. \A s \in 0..n : s # 0 => s \div 2 \in 0..k /\ s \div 2 \in 0..n /\ s \div 2 # n
    BY <1>5, Halves
  <1>10. ASSUME NEW s \in 0..n
         PROVE  g[s] = IF s = 0 THEN 1 ELSE 2 * g[s \div 2]
    <2>1. s # 0 => g[s \div 2] = f[s \div 2]
      BY <1>7, <1>9
    <2>2. CASE s = n
      BY <1>4, <1>7, <2>1, <2>2
    <2>3. CASE s # n
      <3>1. f[s] = IF s = 0 THEN 1 ELSE 2 * f[s \div 2]
        BY <1>6, <1>8, <2>3 DEF Powers
      <3> QED BY <1>7, <2>1, <2>3, <3>1
    <2> QED BY <2>2, <2>3
  <1>11. g = [s \in 0..n |-> g[s]]
    BY <1>7
  <1>12. Powers(g, n)
    BY <1>10, <1>11 DEF Powers
  <1> QED BY <1>3, <1>12

(* always with the same values.                                            *)
LEMMA PowersAgree ==
  ASSUME NEW n \in Nat, NEW m \in Nat, NEW f, NEW g, Powers(f, n), Powers(g, m),
         NEW s \in 0..n, s \in 0..m
  PROVE  f[s] = g[s]
  <1> DEFINE Bad == {k \in Nat : k <= s /\ f[k] # g[k]}
  <1>1. SUFFICES ASSUME Bad # {} PROVE FALSE
    <2>1. s \in Nat /\ s <= s
      OBVIOUS
    <2> QED BY <1>1, <2>1
  <1>2. PICK k \in Bad : \A j \in Bad : k <= j
    <2> Bad \subseteq Nat
      OBVIOUS
    <2> HIDE DEF Bad
    <2> QED BY <1>1, Least
  <1>3. k \in 0..n /\ k \in 0..m /\ f[k] # g[k] /\ k \in Nat /\ k <= s
    OBVIOUS
  <1>4. /\ f[k] = IF k = 0 THEN 1 ELSE 2 * f[k \div 2]
        /\ g[k] = IF k = 0 THEN 1 ELSE 2 * g[k \div 2]
    BY <1>3 DEF Powers
  <1>5. k # 0
    BY <1>3, <1>4
  <1>6. k \div 2 \in Nat /\ ~(k <= k \div 2) /\ k \div 2 <= s
    BY <1>3, <1>5, Halves
  <1>7. f[k \div 2] = g[k \div 2]
    BY <1>2, <1>6
  <1> QED BY <1>3, <1>4, <1>7

(* So NextPowerOf2 is what its equation says.                              *)
LEMMA PowerOfHalf ==
  /\ NextPowerOf2[0] = 1
  /\ \A s \in Nat : s # 0 => NextPowerOf2[s] = 2 * NextPowerOf2[s \div 2]
  <1> DEFINE UpTo(n) == CHOOSE f : Powers(f, n)
             Solves(f) == f = [s \in Nat |-> IF s = 0 THEN 1 ELSE 2 * f[s \div 2]]
  <1>1. \A n \in Nat : Powers(UpTo(n), n)
    BY PowersExist
  <1> HIDE DEF UpTo
  <1>2. PICK F : F = [s \in Nat |-> UpTo(s)[s]]
    OBVIOUS
  <1>3. ASSUME NEW s \in Nat
        PROVE  F[s] = IF s = 0 THEN 1 ELSE 2 * F[s \div 2]
    <2>1. UpTo(s)[s] = IF s = 0 THEN 1 ELSE 2 * UpTo(s)[s \div 2]
      <3>1. s \in 0..s
        OBVIOUS
      <3> QED BY <1>1, <3>1 DEF Powers
    <2>2. ASSUME s # 0
          PROVE  UpTo(s)[s \div 2] = F[s \div 2]
      <3>1. PICK h \in Nat : h = s \div 2 /\ h \in 0..s /\ h \in 0..h
        BY <2>2, Halves
      <3>2. Powers(UpTo(s), s) /\ Powers(UpTo(h), h)
        BY <1>1
      <3>3. UpTo(s)[h] = UpTo(h)[h]
        BY <3>1, <3>2, PowersAgree
      <3> QED BY <1>2, <3>1, <3>3
    <2> QED BY <1>2, <2>1, <2>2
  <1>4. Solves(F)
    <2>1. F = [s \in Nat |-> F[s]]
      BY <1>2
    <2> QED BY <1>3, <2>1
  <1>5. NextPowerOf2 = CHOOSE f : Solves(f)
    BY DEF NextPowerOf2
  <1>6. Solves(NextPowerOf2)
    <2> HIDE DEF Solves
    <2> QED BY <1>4, <1>5
  <1>7. PICK N : N = NextPowerOf2 /\ N = [s \in Nat |-> IF s = 0 THEN 1 ELSE 2 * N[s \div 2]]
    BY <1>6
  <1>8. \A s \in Nat : N[s] = IF s = 0 THEN 1 ELSE 2 * N[s \div 2]
    BY <1>7
  <1> QED BY <1>7, <1>8

(* next_power_of_2 of a number lies above it, and not above its double:    *)
(* there are always more buckets after a rehash than there were nodes.     *)
THEOREM PowerAbove == \A n \in Nat \ {0} : NextPowerOf2[n] \in (n + 1)..(2 * n)
  <1> DEFINE Bad == {n \in Nat : n # 0 /\ NextPowerOf2[n] \notin (n + 1)..(2 * n)}
  <1>1. SUFFICES ASSUME Bad # {} PROVE FALSE
    OBVIOUS
  <1>2. PICK n \in Bad : \A m \in Bad : n <= m
    <2> Bad \subseteq Nat
      OBVIOUS
    <2> HIDE DEF Bad
    <2> QED BY <1>1, Least
  <1>3. n \in Nat /\ n # 0 /\ NextPowerOf2[n] \notin (n + 1)..(2 * n)
    OBVIOUS
  <1>4. PICK h \in Nat : h = n \div 2 /\ ~(n <= h) /\ (n = 2 * h \/ n = 2 * h + 1)
    BY <1>3, Halves
  <1>5. NextPowerOf2[n] = 2 * NextPowerOf2[h]
    BY <1>3, <1>4, PowerOfHalf
  <1>6. CASE h = 0
    <2>1. NextPowerOf2[h] = 1 /\ n = 1
      BY <1>3, <1>4, <1>6, PowerOfHalf
    <2> QED BY <1>3, <1>5, <2>1
  <1>7. CASE h # 0
    <2>1. NextPowerOf2[h] \in (h + 1)..(2 * h)
      BY <1>2, <1>4, <1>7
    <2>2. PICK p \in Int : p = NextPowerOf2[h] /\ h + 1 <= p /\ p <= 2 * h
      BY <2>1
    <2>3. 2 * p \in (n + 1)..(2 * n)
      BY <1>3, <1>4, <2>2
    <2> QED BY <1>3, <1>5, <2>2, <2>3
  <1> QED BY <1>6, <1>7

(* A rehash makes room for one node more.                                  *)
LEMMA NewAllocLarger ==
  ASSUME node_count \in 0..MaxNodes
  PROVE  NewAlloc \in Nat /\ NewAlloc >= node_count + 1
  <1>1. node_count + 1 \in Nat \ {0}
    BY TableAssumption
  <1>2. NextPowerOf2[node_count + 1] \in ((node_count + 1) + 1)..(2 * (node_count + 1))
    BY <1>1, PowerAbove
  <1> QED BY <1>2 DEF NewAlloc

(* A key that compares equal to a regular key is that key.                 *)
LEMMA SameRegular ==
  ASSUME NEW j \in Keys, NEW k \in Keys, Same(j, k), j \in Regular \/ k \in Regular
  PROVE  j = k
  <1>1. Same(k, j)
    BY TableAssumption DEF Same
  <1> QED BY <1>1 DEF Regular

(* What every node and every chain is, taken from Inv.                     *)
LEMMA NodeFacts ==
  ASSUME Inv
  PROVE  /\ Len(nodes) \in Nat /\ nodes \in [Ids -> Entries]
         /\ \A node \in Ids : nodes[node].key \in Keys /\ nodes[node].value \in Values
         /\ \A b \in 0..(node_alloc - 1) : node_ptr[b] \in Seq(Ids)
  <1>1. nodes \in Seq(Entries) /\ node_ptr \in [0..(node_alloc - 1) -> Seq(Ids)]
    BY DEF Inv, TypeOK, Entries, ChainsOf
  <1>2. Len(nodes) \in Nat /\ nodes \in [1..Len(nodes) -> Entries]
    BY <1>1
  <1> QED BY <1>1, <1>2 DEF Entries, Ids

-----------------------------------------------------------------------------
(* Every action keeps Inv. *)

LEMMA InitInv == Init => Inv
  <1> SUFFICES ASSUME Init PROVE Inv
    OBVIOUS
  <1>1. NoOp \in [key : Keys, value : Values]
    BY TableAssumption DEF NoOp
  <1>2. Ids = {} /\ Len(nodes) = 0
    BY DEF Init, Ids
  <1>3. TypeOK
    BY <1>1, <1>2, TableAssumption DEF Init, TypeOK, ChainsOf, Points
  <1> QED BY <1>2, <1>3 DEF Init, Inv, NodesInPlace, OneNodePerKey, LoadAtMostOne,
                            HashedKeys, InSet, RoomForNode

LEMMA StutterInv == ASSUME Inv, UNCHANGED tvars PROVE Inv'
  BY DEF Inv, tvars, TypeOK, NodesInPlace, InPlace, OneNodePerKey, LoadAtMostOne, HashedKeys,
         RoomForNode, InSet, Ids, NewAlloc, ChainsOf, Points, Entries, Times, Bucket

LEMMA SetInv ==
  ASSUME Inv, NEW key \in Keys, NEW value \in Values, Set(key, value)
  PROVE  Inv'
  <1>1. TypeOK'
    BY DEF Inv, TypeOK, Set, Points, ChainsOf, Ids
  <1>2. NodesInPlace'
    BY DEF Inv, NodesInPlace, InPlace, Set, Ids, Times, Bucket
  <1>3. OneNodePerKey' /\ LoadAtMostOne'
    BY DEF Inv, OneNodePerKey, LoadAtMostOne, Set, Ids
  <1>4. HashedKeys'
    BY DEF Inv, HashedKeys, InSet, Set, Ids
  <1>5. RoomForNode'
    BY DEF Inv, TypeOK, RoomForNode, Set, MustGrow
  <1> QED BY <1>1, <1>2, <1>3, <1>4, <1>5 DEF Inv

LEMMA GrowInv == ASSUME Inv, Grow PROVE Inv'
  <1>1. NewAlloc \in Nat /\ NewAlloc' = NewAlloc
    BY NewAllocLarger DEF Inv, TypeOK, Grow, NewAlloc
  <1>2. new_ptr' \in [0..(NewAlloc - 1) -> Seq(Ids)]
    BY <1>1 DEF Grow, EmptyBuckets
  <1>3. TypeOK'
    BY <1>1, <1>2 DEF Inv, TypeOK, Grow, Points, ChainsOf, Ids
  <1>4. NodesInPlace'
    <2> SUFFICES ASSUME NEW node \in Ids PROVE InPlace(node)'
      BY DEF NodesInPlace, Grow, Ids
    <2>1. PICK b \in DOMAIN node_ptr :
            b = Bucket(nodes[node].key, node_alloc) /\ Times(node_ptr[b], node) # {}
      BY DEF Inv, NodesInPlace, InPlace, Grow
    <2>2. b \in Nat
      BY DEF Inv, TypeOK, ChainsOf
    <2> QED BY <2>1, <2>2 DEF InPlace, Grow, Times, Bucket
  <1>5. OneNodePerKey' /\ LoadAtMostOne' /\ HashedKeys' /\ RoomForNode'
    BY DEF Inv, OneNodePerKey, LoadAtMostOne, HashedKeys, RoomForNode, InSet, Grow, Ids
  <1> QED BY <1>3, <1>4, <1>5 DEF Inv

LEMMA MoveInv == ASSUME Inv, Move PROVE Inv'
  <1> DEFINE chain == node_ptr[i]
             moved == Head(chain)
             there == Bucket(nodes[moved].key, NewAlloc)
  <1>1. /\ NewAlloc \in Nat /\ NewAlloc >= 1 /\ NewAlloc' = NewAlloc
        /\ node_ptr \in [0..(node_alloc - 1) -> Seq(Ids)]
        /\ new_ptr \in [0..(NewAlloc - 1) -> Seq(Ids)]
        /\ i \in 0..(node_alloc - 1) /\ Ids' = Ids
    BY NewAllocLarger DEF Inv, TypeOK, Move, NewAlloc, ChainsOf, Ids
  <1>2. chain \in Seq(Ids) /\ chain # <<>>
    BY <1>1 DEF Move
  <1>3. moved \in Ids /\ Tail(chain) \in Seq(Ids)
    BY <1>2, RestIn
  <1>4. there \in 0..(NewAlloc - 1)
    BY <1>1, <1>3, BucketExists, NodeFacts DEF Inv, HashedKeys
  <1>5. /\ node_ptr' = [node_ptr EXCEPT ![i] = Tail(chain)]
        /\ new_ptr' = [new_ptr EXCEPT ![there] = <<moved>> \o new_ptr[there]]
    BY <1>1, <1>4 DEF Move, PutFirst, Rest
  <1>6. new_ptr[there] \in Seq(Ids) /\ <<moved>> \o new_ptr[there] \in Seq(Ids)
    BY <1>1, <1>3, <1>4, PutFirstIn
  <1> HIDE DEF moved, there, chain
  <1>7. /\ node_ptr' \in [0..(node_alloc - 1) -> Seq(Ids)]
        /\ new_ptr' \in [0..(NewAlloc - 1) -> Seq(Ids)]
    BY <1>1, <1>3, <1>5, <1>6
  <1>8. TypeOK'
    BY <1>1, <1>7 DEF Inv, TypeOK, Move, ChainsOf
  <1>9. NodesInPlace'
    <2> SUFFICES ASSUME NEW node \in Ids PROVE InPlace(node)'
      BY <1>1 DEF NodesInPlace
    <2> DEFINE old == Bucket(nodes[node].key, node_alloc)
               new == Bucket(nodes[node].key, NewAlloc)
    <2>0. /\ old' = old /\ new' = new /\ at = "rehash" /\ at' = "rehash" /\ i' = i
          /\ new \in 0..(NewAlloc - 1)
      BY <1>1, BucketExists, NodeFacts DEF Inv, HashedKeys, Bucket, Move
    <2>1. CASE node = moved
      <3>1. In(<<moved>> \o new_ptr[there], moved)
        BY <1>3, <1>6, PutFirstIn
      <3>2. new = there
        BY <2>1 DEF there
      <3>3. In(new_ptr'[new], node)
        BY <1>1, <1>5, <2>0, <2>1, <3>1, <3>2
      <3> HIDE DEF old, new
      <3> QED BY <2>0, <3>3 DEF InPlace, In, new
    <2>2. CASE node # moved /\ In(new_ptr[new], node)
      <3>1. new = there => In(<<moved>> \o new_ptr[there], node)
        BY <1>3, <1>6, <2>2, PutFirstIn
      <3>2. In(new_ptr'[new], node)
        BY <1>1, <1>5, <2>0, <2>2, <3>1
      <3> QED BY <2>0, <3>2 DEF InPlace, In
    <2>3. CASE node # moved /\ ~In(new_ptr[new], node)
      <3>1. old \in DOMAIN node_ptr /\ In(node_ptr[old], node) /\ i <= old
        BY <2>0, <2>3 DEF Inv, NodesInPlace, InPlace, In
      <3>2. old = i => In(Tail(chain), node)
        BY <1>2, <2>3, <3>1, RestIn DEF moved, chain
      <3>3. old \in DOMAIN node_ptr' /\ In(node_ptr'[old], node)
        BY <1>1, <1>5, <3>1, <3>2
      <3> QED BY <2>0, <3>1, <3>3 DEF InPlace, In
    <2> QED BY <2>1, <2>2, <2>3
  <1>10. OneNodePerKey' /\ LoadAtMostOne' /\ HashedKeys' /\ RoomForNode'
    BY DEF Inv, OneNodePerKey, LoadAtMostOne, HashedKeys, RoomForNode, InSet, Move, Ids
  <1> QED BY <1>8, <1>9, <1>10 DEF Inv

LEMMA NextBucketInv == ASSUME Inv, NextBucket PROVE Inv'
  <1>1. i' = i + 1 /\ i \in Nat /\ node_ptr[i] = <<>>
    BY DEF Inv, TypeOK, NextBucket, NextI
  <1>2. TypeOK'
    BY <1>1 DEF Inv, TypeOK, NextBucket, ChainsOf, NewAlloc, Ids
  <1>3. NodesInPlace'
    <2> SUFFICES ASSUME NEW node \in Ids PROVE InPlace(node)'
      BY DEF NodesInPlace, NextBucket, Ids
    <2>1. ~In(node_ptr[i], node)
      BY <1>1, InIsElement
    <2>2. ASSUME NEW b \in DOMAIN node_ptr, In(node_ptr[b], node), i <= b PROVE i + 1 <= b
      <3>1. b \in Int
        BY DEF Inv, TypeOK, ChainsOf
      <3> QED BY <1>1, <2>1, <2>2, <3>1
    <2> QED BY <1>1, <2>2 DEF Inv, NodesInPlace, InPlace, NextBucket, NewAlloc, In, Times, Bucket
  <1>4. OneNodePerKey' /\ LoadAtMostOne' /\ HashedKeys' /\ RoomForNode'
    BY DEF Inv, OneNodePerKey, LoadAtMostOne, HashedKeys, RoomForNode, InSet, NextBucket, Ids
  <1> QED BY <1>2, <1>3, <1>4 DEF Inv

(* All old buckets are empty by now, so that every node is in a new one.   *)
LEMMA InstallInv == ASSUME Inv, Install PROVE Inv'
  <1>1. NewAlloc \in Nat /\ NewAlloc >= node_count + 1
    BY NewAllocLarger DEF Inv, TypeOK
  <1>2. TypeOK'
    BY <1>1 DEF Inv, TypeOK, Install, ChainsOf, Ids, Points
  <1>3. NodesInPlace'
    <2> SUFFICES ASSUME NEW node \in Ids PROVE InPlace(node)'
      BY DEF NodesInPlace, Install, Ids
    <2> DEFINE new == Bucket(nodes[node].key, NewAlloc)
    <2>1. ASSUME NEW b \in DOMAIN node_ptr PROVE ~(i <= b)
      BY DEF Inv, TypeOK, ChainsOf, Install
    <2>2. In(new_ptr[new], node)
      BY <2>1 DEF Inv, NodesInPlace, InPlace, In, Install
    <2>3. new \in 0..(NewAlloc - 1) /\ DOMAIN new_ptr = 0..(NewAlloc - 1)
      BY <1>1, BucketExists, NodeFacts DEF Inv, TypeOK, HashedKeys, ChainsOf, Install
    <2>4. /\ node_ptr' = new_ptr /\ at' # "rehash"
          /\ Bucket(nodes[node].key, node_alloc)' = new
      BY DEF Install, Bucket
    <2> HIDE DEF new
    <2> QED BY <2>2, <2>3, <2>4 DEF InPlace, In
  <1>4. OneNodePerKey' /\ LoadAtMostOne' /\ HashedKeys'
    BY DEF Inv, OneNodePerKey, LoadAtMostOne, HashedKeys, InSet, Install, Ids
  <1>5. RoomForNode'
    BY <1>1 DEF RoomForNode, Install
  <1> QED BY <1>2, <1>3, <1>4, <1>5 DEF Inv

(* The bucket Table_set looks in, and what it finds there.                 *)
LEMMA HereFacts ==
  ASSUME Inv, at = "find"
  PROVE  /\ op.key \in Keys /\ op.value \in Values
         /\ Here \in 0..(node_alloc - 1)
         /\ node_ptr[Here] \in Seq(Ids)
         /\ NodeIn(node_ptr[Here], op.key) \in Ids \cup {0}
         /\ NodeIn(node_ptr[Here], op.key) # 0
              => Same(nodes[NodeIn(node_ptr[Here], op.key)].key, op.key)
  <1>1. op.key \in Keys /\ op.value \in Values /\ ~InArrayPart(op.key)
    BY DEF Inv, TypeOK, HashedKeys, InSet
  <1>2. node_alloc \in Nat /\ node_alloc >= 1
    BY DEF Inv, TypeOK, RoomForNode
  <1>3. Here \in 0..(node_alloc - 1)
    BY <1>1, <1>2, BucketExists DEF Here
  <1>4. node_ptr[Here] \in Seq(Ids)
    BY <1>3, NodeFacts
  <1> QED BY <1>1, <1>3, <1>4, NodeInReturns

LEMMA FoundInv == ASSUME Inv, Found PROVE Inv'
  <1> DEFINE node == NodeIn(node_ptr[Here], op.key)
  <1>1. /\ node \in Ids /\ op.value \in Values
        /\ nodes' = [nodes EXCEPT ![node].value = op.value]
    BY HereFacts DEF Found
  <1> HIDE DEF node
  <1>2. nodes \in Seq(Entries) /\ Len(nodes) \in Nat
    BY DEF Inv, TypeOK, Entries
  <1>3. nodes' \in Seq(Entries) /\ Len(nodes') = Len(nodes)
    BY <1>1, <1>2, NodeFacts DEF Entries, Ids
  <1>4. Ids' = Ids /\ \A n \in Ids : nodes'[n].key = nodes[n].key
    BY <1>1, <1>3, NodeFacts DEF Ids, Entries
  <1>5. TypeOK'
    <2>1. NoOp \in Entries
      BY TableAssumption DEF NoOp, Entries
    <2> QED BY <1>3, <1>4, <2>1 DEF Inv, TypeOK, Found, ChainsOf, Points, Entries
  <1>6. NodesInPlace'
    BY <1>4 DEF Inv, NodesInPlace, InPlace, Found, Bucket, Times
  <1>7. OneNodePerKey'
    BY <1>4 DEF Inv, OneNodePerKey
  <1>8. LoadAtMostOne'
    BY <1>3 DEF Inv, TypeOK, LoadAtMostOne, RoomForNode, Found
  <1>9. HashedKeys' /\ RoomForNode'
    BY <1>4 DEF Inv, HashedKeys, RoomForNode, InSet, Found
  <1> QED BY <1>5, <1>6, <1>7, <1>8, <1>9 DEF Inv

(* No node has the key if the chain of its bucket has none.                *)
LEMMA NotThere ==
  ASSUME Inv, at \in {"idle", "find"}, NEW key \in Regular, NEW n \in Ids, nodes[n].key = key
  PROVE  /\ Bucket(key, node_alloc) \in DOMAIN node_ptr
         /\ NodeIn(node_ptr[Bucket(key, node_alloc)], key) = n
  <1> DEFINE b == Bucket(key, node_alloc)
  <1>1. b \in DOMAIN node_ptr /\ In(node_ptr[b], n)
    BY DEF Inv, NodesInPlace, InPlace, In
  <1>2. node_ptr[b] \in Seq(Ids) /\ key \in Keys /\ Same(key, key)
    BY <1>1 DEF Inv, TypeOK, ChainsOf, Regular
  <1>3. PICK j \in 1..Len(node_ptr[b]) : node_ptr[b][j] = n
    BY <1>1, InIsElement
  <1> DEFINE found == NodeIn(node_ptr[b], key)
  <1>4. found \in Ids /\ Same(nodes[found].key, key)
    <2> HIDE DEF b
    <2> QED BY <1>2, <1>3, NodeInReturns
  <1>5. nodes[found].key = key
    BY <1>2, <1>4, SameRegular, NodeFacts
  <1>6. found = n
    BY <1>4, <1>5 DEF Inv, OneNodePerKey
  <1> QED BY <1>1, <1>6

LEMMA InsertInv == ASSUME Inv, Insert PROVE Inv'
  <1> DEFINE node == Len(nodes) + 1
             chain == node_ptr[Here]
  <1>1. /\ Len(nodes) \in Nat /\ nodes \in Seq(Entries)
        /\ [key |-> op.key, value |-> op.value] \in Entries
        /\ Here \in 0..(node_alloc - 1) /\ chain \in Seq(Ids) /\ at = "find"
        /\ node_ptr \in [0..(node_alloc - 1) -> Seq(Ids)]
    BY HereFacts DEF Inv, TypeOK, Insert, Entries, ChainsOf
  <1>2. /\ nodes' \in Seq(Entries) /\ Len(nodes') = node
        /\ \A n \in Ids : nodes'[n] = nodes[n]
        /\ nodes'[node] = [key |-> op.key, value |-> op.value]
    BY <1>1 DEF Insert, Ids
  <1>3. Ids' = Ids \cup {node} /\ node \notin Ids
    BY <1>1, <1>2 DEF Ids
  <1>4. chain \in Seq(Ids') /\ node_ptr \in [0..(node_alloc - 1) -> Seq(Ids')]
    <2>1. \A c \in Seq(Ids) : c \in Seq(Ids')
      BY <1>3
    <2> QED BY <1>1, <2>1
  <1>5. /\ <<node>> \o chain \in Seq(Ids')
        /\ In(<<node>> \o chain, node)
        /\ \A n : In(chain, n) => In(<<node>> \o chain, n)
    <2> HIDE DEF chain, node
    <2> QED BY <1>3, <1>4, PutFirstIn
  <1>6. node_ptr' = [node_ptr EXCEPT ![Here] = <<node>> \o chain]
    BY <1>1 DEF Insert
  <1> HIDE DEF node, chain
  <1>7. node_ptr' \in [0..(node_alloc - 1) -> Seq(Ids')]
    BY <1>1, <1>4, <1>5, <1>6
  <1>8. LoadAtMostOne' /\ node_count' \in 0..MaxNodes
    BY <1>1, <1>2, TableAssumption
       DEF Inv, TypeOK, LoadAtMostOne, HashedKeys, RoomForNode, InSet, Insert, node
  <1>9. TypeOK'
    <2>1. NoOp \in Entries
      BY TableAssumption DEF NoOp, Entries
    <2> QED BY <1>2, <1>7, <1>8, <2>1 DEF Inv, TypeOK, Insert, ChainsOf, Points, Entries
  <1>10. NodesInPlace'
    <2> SUFFICES ASSUME NEW n \in Ids' PROVE InPlace(n)'
      BY DEF NodesInPlace
    <2> DEFINE b == Bucket(nodes'[n].key, node_alloc)
    <2>1. CASE n = node
      <3>1. b = Here
        BY <1>2, <2>1 DEF Here
      <3>2. b \in DOMAIN node_ptr' /\ In(node_ptr'[b], n)
        BY <1>1, <1>5, <1>6, <2>1, <3>1
      <3> QED BY <3>2 DEF InPlace, In, Insert, Bucket
    <2>2. CASE n \in Ids
      <3>1. b \in DOMAIN node_ptr /\ In(node_ptr[b], n)
        BY <1>1, <1>2, <2>2 DEF Inv, NodesInPlace, InPlace, In
      <3>2. b \in DOMAIN node_ptr' /\ In(node_ptr'[b], n)
        BY <1>1, <1>5, <1>6, <3>1 DEF chain
      <3> QED BY <3>2 DEF InPlace, In, Insert, Bucket
    <2> QED BY <1>3, <2>1, <2>2
  <1>11. OneNodePerKey'
    <2>1. ASSUME NEW n \in Ids, nodes[n].key = op.key, op.key \in Regular PROVE FALSE
      <3>1. NodeIn(chain, op.key) = n
        BY <1>1, <2>1, NotThere DEF Here, chain
      <3> QED BY <1>1, <3>1 DEF Insert, chain, Ids
    <2> QED BY <1>2, <1>3, <2>1 DEF Inv, OneNodePerKey
  <1>12. HashedKeys' /\ RoomForNode'
    <2>1. \A n \in Ids : ~InArrayPart(nodes'[n].key)
      BY <1>2 DEF Inv, HashedKeys
    <2>2. nodes'[node].key = op.key /\ ~InArrayPart(op.key)
      BY <1>1, <1>2 DEF Inv, HashedKeys, InSet
    <2>3. ~InArrayPart(nodes'[node].key)
      BY <2>2
    <2> QED BY <1>3, <2>1, <2>3 DEF HashedKeys, RoomForNode, InSet, Insert
  <1> QED BY <1>8, <1>9, <1>10, <1>11, <1>12 DEF Inv

LEMMA OutOfMemoryInv == ASSUME Inv, OutOfMemory PROVE Inv'
  <1>1. TypeOK'
    BY DEF Inv, TypeOK, OutOfMemory, Points, ChainsOf, Ids
  <1>2. NodesInPlace'
    BY DEF Inv, NodesInPlace, InPlace, OutOfMemory, Ids, Times, Bucket
  <1>3. OneNodePerKey' /\ LoadAtMostOne' /\ HashedKeys' /\ RoomForNode'
    BY DEF Inv, OneNodePerKey, LoadAtMostOne, HashedKeys, RoomForNode, InSet, OutOfMemory, Ids
  <1> QED BY <1>1, <1>2, <1>3 DEF Inv

(* A look-up finds a value, and under a regular key that of its node.      *)
LEMMA ValueFound ==
  ASSUME Inv, at = "idle", NEW key \in Keys, ~InArrayPart(key)
  PROVE  /\ ValueFor(key) \in Values
         /\ key \in Regular => ValueFor(key) = MapOf[key]
  <1> DEFINE b == Bucket(key, node_alloc)
             found == NodeIn(node_ptr[b], key)
  <1>1. CASE node_alloc = 0
    <2>1. Ids = {}
      BY <1>1 DEF Inv, TypeOK, LoadAtMostOne, Ids
    <2> QED BY <1>1, <2>1, TableAssumption DEF ValueFor, MapOf
  <1>2. CASE node_alloc # 0
    <2>1. node_alloc \in Nat /\ node_alloc >= 1
      BY <1>2 DEF Inv, TypeOK
    <2>2. node_ptr[b] \in Seq(Ids)
      BY <2>1, BucketExists, NodeFacts
    <2>3. \/ found = 0
          \/ found \in Ids /\ Same(nodes[found].key, key)
      <3> HIDE DEF b
      <3> QED BY <2>2, NodeInReturns
    <2>4. 0 \notin Ids
      BY NodeFacts DEF Ids
    <2>5. ValueFor(key) = IF found = 0 THEN NilValue ELSE nodes[found].value
      BY <1>2 DEF ValueFor
    <2> HIDE DEF b, found
    <2>6. ValueFor(key) \in Values
      BY <2>3, <2>4, <2>5, NodeFacts, TableAssumption
    <2>7. ASSUME key \in Regular PROVE ValueFor(key) = MapOf[key]
      <3>1. CASE \E n \in Ids : nodes[n].key = key
        <4> DEFINE n == CHOOSE node \in Ids : nodes[node].key = key
        <4>1. n \in Ids /\ nodes[n].key = key
          BY <3>1
        <4>2. MapOf[key] = nodes[n].value
          BY <2>7, <3>1 DEF MapOf
        <4> HIDE DEF n
        <4>3. found = n
          BY <2>7, <4>1, NotThere DEF found, b
        <4> QED BY <2>4, <2>5, <4>1, <4>2, <4>3
      <3>2. CASE ~\E n \in Ids : nodes[n].key = key
        <4>1. found = 0
          BY <2>3, <2>7, <3>2, SameRegular, NodeFacts
        <4> QED BY <2>5, <2>7, <3>2, <4>1 DEF MapOf
      <3> QED BY <3>1, <3>2
    <2> QED BY <2>6, <2>7
  <1> QED BY <1>1, <1>2

LEMMA GetInv == ASSUME Inv, NEW key \in Keys, Get(key) PROVE Inv'
  <1>1. got' \in [key : Keys, value : Values]
    BY ValueFound DEF Inv, TypeOK, Get
  <1>2. TypeOK'
    BY <1>1 DEF Inv, TypeOK, Get, Points, ChainsOf, Ids
  <1>3. NodesInPlace'
    BY DEF Inv, NodesInPlace, InPlace, Get, Ids, Times, Bucket
  <1>4. OneNodePerKey' /\ LoadAtMostOne' /\ HashedKeys' /\ RoomForNode'
    BY DEF Inv, OneNodePerKey, LoadAtMostOne, HashedKeys, RoomForNode, InSet, Get, Ids
  <1> QED BY <1>2, <1>3, <1>4 DEF Inv

LEMMA NextInv == ASSUME Inv, [Next]_tvars PROVE Inv'
  BY StutterInv, SetInv, GrowInv, MoveInv, NextBucketInv, InstallInv, FoundInv, InsertInv,
     OutOfMemoryInv, GetInv DEF Next, Step

(* Inv holds in every state of every table.                                *)
THEOREM Invariance == Spec => []Inv
  <1>1. Init => Inv
    BY InitInv
  <1>2. Inv /\ [Next]_tvars => Inv'
    BY NextInv
  <1> QED BY <1>1, <1>2, PTL DEF Spec

-----------------------------------------------------------------------------
(* The invariants of the runs. *)

(* What the table is made of has its type (table.cpp 36-83).               *)
THEOREM TypeCorrect == Spec => []TypeOK
  <1>1. Inv => TypeOK
    BY DEF Inv
  <1> QED BY <1>1, Invariance, PTL

(* No node is ever lost: before, during and after a rehash every node is   *)
(* where its hash says (table.cpp 50-60).                                  *)
THEOREM NothingLost == Spec => []NodesInPlace
  <1>1. Inv => NodesInPlace
    BY DEF Inv
  <1> QED BY <1>1, Invariance, PTL

(* No regular key ever has two nodes, although the table grows before it   *)
(* is known whether the key is there (table.cpp 46-82).                    *)
THEOREM KeysUnique == Spec => []OneNodePerKey
  <1>1. Inv => OneNodePerKey
    BY DEF Inv
  <1> QED BY <1>1, Invariance, PTL

(* Between operations there are at least as many buckets as nodes          *)
(* (table.cpp 46-47).                                                      *)
THEOREM BucketsSuffice == Spec => []LoadAtMostOne
  <1>1. Inv => LoadAtMostOne
    BY DEF Inv
  <1> QED BY <1>1, Invariance, PTL

-----------------------------------------------------------------------------
(* The next pointers: no node is in two chains, or twice in one.           *)

Once(ptr) ==
  \A b, c \in DOMAIN ptr :
    \A j \in 1..Len(ptr[b]), k \in 1..Len(ptr[c]) : ptr[b][j] = ptr[c][k] => b = c /\ j = k
Linked(ptr, node) == \E b \in DOMAIN ptr : \E j \in 1..Len(ptr[b]) : ptr[b][j] = node

LinkedOnce ==
  /\ Once(node_ptr)
  /\ at = "rehash" =>
       Once(new_ptr) /\ \A node \in Ids : Linked(node_ptr, node) => ~Linked(new_ptr, node)

(* A node that is in no chain can be put first in one. *)
LEMMA PushedOnce ==
  ASSUME NEW D, NEW S, NEW ptr \in [D -> Seq(S)], NEW b \in D, NEW m \in S,
         Once(ptr), ~Linked(ptr, m),
         NEW new, DOMAIN new = D, new[b] = <<m>> \o ptr[b],
         \A c \in D \ {b} : new[c] = ptr[c]
  PROVE  Once(new) /\ \A node : Linked(new, node) => node = m \/ Linked(ptr, node)
  <1> DEFINE longer == <<m>> \o ptr[b]
             Old(c, j) == IF c = b THEN j - 1 ELSE j
  <1>1. \A c \in D : ptr[c] \in Seq(S) /\ Len(ptr[c]) \in Nat
    OBVIOUS
  <1>2. /\ Len(longer) = Len(ptr[b]) + 1 /\ longer[1] = m
        /\ \A j \in 1..Len(ptr[b]) : longer[j + 1] = ptr[b][j]
    <2>1. ptr[b] \in Seq(S)
      BY <1>1
    <2> QED BY <2>1
  <1>3. DOMAIN new = D /\ DOMAIN ptr = D /\ new[b] = longer /\ \A c \in D : c # b => new[c] = ptr[c]
    OBVIOUS
  <1> HIDE DEF longer
  <1>4. ASSUME NEW c \in D, NEW j \in 1..Len(new[c])
        PROVE  \/ c = b /\ j = 1 /\ new[c][j] = m
               \/ Old(c, j) \in 1..Len(ptr[c]) /\ new[c][j] = ptr[c][Old(c, j)]
    <2>1. CASE c = b /\ j = 1
      BY <1>2, <1>3, <2>1
    <2>2. CASE c = b /\ j # 1
      <3>1. j - 1 \in 1..Len(ptr[b]) /\ (j - 1) + 1 = j
        BY <1>1, <1>2, <1>3, <2>2
      <3> QED BY <1>2, <1>3, <2>2, <3>1
    <2>3. CASE c # b
      BY <1>3, <2>3
    <2> QED BY <2>1, <2>2, <2>3
  <1>5. \A c, d \in D : \A j, k \in Int : c = d /\ Old(c, j) = Old(d, k) => j = k
    OBVIOUS
  <1> HIDE DEF Old
  <1>6. \A c \in D : \A j \in 1..Len(ptr[c]) : ptr[c][j] # m
    BY <1>3 DEF Linked
  <1>7. ASSUME NEW c \in D, NEW d \in D, NEW j \in 1..Len(new[c]), NEW k \in 1..Len(new[d]),
               new[c][j] = new[d][k]
        PROVE  c = d /\ j = k
    <2>1. CASE c = b /\ j = 1 /\ new[c][j] = m
      <3>1. new[d][k] = m
        BY <1>7, <2>1
      <3>2. ~(Old(d, k) \in 1..Len(ptr[d]) /\ new[d][k] = ptr[d][Old(d, k)])
        BY <1>6, <3>1
      <3>3. d = b /\ k = 1
        BY <1>4, <3>2
      <3> QED BY <2>1, <3>3
    <2>2. CASE Old(c, j) \in 1..Len(ptr[c]) /\ new[c][j] = ptr[c][Old(c, j)]
      <3>1. Old(d, k) \in 1..Len(ptr[d]) /\ new[d][k] = ptr[d][Old(d, k)]
        <4>1. new[c][j] # m
          BY <1>6, <2>2
        <4>2. ~(d = b /\ k = 1 /\ new[d][k] = m)
          BY <1>7, <4>1
        <4> QED BY <1>4, <4>2
      <3>2. c = d /\ Old(c, j) = Old(d, k)
        <4>1. PICK o, p : o = Old(c, j) /\ p = Old(d, k)
          OBVIOUS
        <4>2. /\ c \in DOMAIN ptr /\ d \in DOMAIN ptr
              /\ o \in 1..Len(ptr[c]) /\ p \in 1..Len(ptr[d]) /\ ptr[c][o] = ptr[d][p]
          BY <1>3, <1>7, <2>2, <3>1, <4>1
        <4>3. c = d /\ o = p
          BY <4>2 DEF Once
        <4> QED BY <4>1, <4>3
      <3>3. j \in Int /\ k \in Int
        OBVIOUS
      <3> QED BY <1>5, <3>2, <3>3
    <2> QED BY <1>4, <2>1, <2>2
  <1>8. Once(new)
    BY <1>3, <1>7 DEF Once
  <1>9. ASSUME NEW node, Linked(new, node)
        PROVE  node = m \/ Linked(ptr, node)
    <2>1. PICK c \in D : \E j \in 1..Len(new[c]) : new[c][j] = node
      BY <1>3, <1>9 DEF Linked
    <2>2. PICK j \in 1..Len(new[c]) : new[c][j] = node
      BY <2>1
    <2> QED BY <1>3, <1>4, <2>2 DEF Linked
  <1> QED BY <1>8, <1>9

(* The first node of a chain is in none once it is taken off. *)
LEMMA PoppedOnce ==
  ASSUME NEW D, NEW S, NEW ptr \in [D -> Seq(S)], NEW b \in D, ptr[b] # <<>>,
         Once(ptr), NEW new, DOMAIN new = D, new[b] = Tail(ptr[b]),
         \A c \in D \ {b} : new[c] = ptr[c]
  PROVE  /\ Once(new) /\ ~Linked(new, Head(ptr[b])) /\ Linked(ptr, Head(ptr[b]))
         /\ \A node : Linked(new, node) => Linked(ptr, node)
  <1> DEFINE rest == Tail(ptr[b])
             Old(c, j) == IF c = b THEN j + 1 ELSE j
  <1>1. \A c \in D : ptr[c] \in Seq(S) /\ Len(ptr[c]) \in Nat
    OBVIOUS
  <1>2. /\ Len(rest) = Len(ptr[b]) - 1 /\ Head(ptr[b]) = ptr[b][1] /\ 1 \in 1..Len(ptr[b])
        /\ \A j \in 1..Len(rest) : rest[j] = ptr[b][j + 1]
    <2>1. ptr[b] \in Seq(S)
      BY <1>1
    <2> QED BY <2>1
  <1>3. DOMAIN new = D /\ DOMAIN ptr = D /\ new[b] = rest /\ \A c \in D : c # b => new[c] = ptr[c]
    OBVIOUS
  <1> HIDE DEF rest
  <1>4. ASSUME NEW c \in D, NEW j \in 1..Len(new[c])
        PROVE  /\ Old(c, j) \in 1..Len(ptr[c]) /\ new[c][j] = ptr[c][Old(c, j)]
               /\ ~(c = b /\ Old(c, j) = 1)
    <2>1. CASE c = b
      <3>1. j + 1 \in 1..Len(ptr[b]) /\ j + 1 # 1
        BY <1>1, <1>2, <1>3, <2>1
      <3> QED BY <1>2, <1>3, <2>1, <3>1
    <2>2. CASE c # b
      BY <1>3, <2>2
    <2> QED BY <2>1, <2>2
  <1>5. \A c, d \in D : \A j, k \in Int : c = d /\ Old(c, j) = Old(d, k) => j = k
    OBVIOUS
  <1> HIDE DEF Old
  <1>6. ASSUME NEW c \in D, NEW d \in D, NEW j \in 1..Len(new[c]), NEW k \in 1..Len(new[d]),
               new[c][j] = new[d][k]
        PROVE  c = d /\ j = k
    <2>1. c = d /\ Old(c, j) = Old(d, k)
      <3>1. PICK o, p : o = Old(c, j) /\ p = Old(d, k)
        OBVIOUS
      <3>2. /\ c \in DOMAIN ptr /\ d \in DOMAIN ptr
            /\ o \in 1..Len(ptr[c]) /\ p \in 1..Len(ptr[d]) /\ ptr[c][o] = ptr[d][p]
        BY <1>3, <1>4, <1>6, <3>1
      <3>3. c = d /\ o = p
        BY <3>2 DEF Once
      <3> QED BY <3>1, <3>3
    <2>2. j \in Int /\ k \in Int
      OBVIOUS
    <2> QED BY <1>5, <2>1, <2>2
  <1>7. Once(new)
    BY <1>3, <1>6 DEF Once
  <1>8. ASSUME NEW node, Linked(new, node)
        PROVE  Linked(ptr, node) /\ node # Head(ptr[b])
    <2>1. PICK c \in D : \E j \in 1..Len(new[c]) : new[c][j] = node
      BY <1>3, <1>8 DEF Linked
    <2>2. PICK j \in 1..Len(new[c]) : new[c][j] = node
      BY <2>1
    <2>3. Linked(ptr, node)
      BY <1>3, <1>4, <2>2 DEF Linked
    <2>4. node # ptr[b][1]
      BY <1>2, <1>3, <1>4, <2>2 DEF Once
    <2> QED BY <1>2, <2>3, <2>4
  <1>9. Linked(ptr, Head(ptr[b]))
    BY <1>2, <1>3 DEF Linked
  <1> QED BY <1>7, <1>8, <1>9

(* A new node is in no chain; the rehash takes each off its chain before   *)
(* it puts it into another.                                                *)
LEMMA NextLinks ==
  ASSUME Inv, LinkedOnce, [Next]_tvars
  PROVE  LinkedOnce'
  <1>1. CASE UNCHANGED tvars
    BY <1>1 DEF tvars, LinkedOnce, Ids
  <1>2. ASSUME NEW key \in Keys, NEW value \in Values, Set(key, value)
        PROVE  LinkedOnce'
    BY <1>2 DEF Set, LinkedOnce
  <1>3. ASSUME NEW key \in Keys, Get(key)
        PROVE  LinkedOnce'
    BY <1>3 DEF Get, LinkedOnce
  <1>4. CASE Grow
    <2>1. \A b \in DOMAIN new_ptr' : 1..Len(new_ptr'[b]) = {}
      BY <1>4 DEF Grow, EmptyBuckets
    <2> QED BY <1>4, <2>1 DEF Grow, LinkedOnce, Once, Linked, Ids
  <1>5. CASE Move
    <2> DEFINE moved == Head(node_ptr[i])
               there == Bucket(nodes[moved].key, NewAlloc)
    <2>1. /\ NewAlloc \in Nat /\ NewAlloc >= 1
          /\ node_ptr \in [0..(node_alloc - 1) -> Seq(Ids)]
          /\ new_ptr \in [0..(NewAlloc - 1) -> Seq(Ids)]
          /\ i \in 0..(node_alloc - 1) /\ node_ptr[i] \in Seq(Ids) /\ node_ptr[i] # <<>>
          /\ at = "rehash" /\ at' = "rehash" /\ Ids' = Ids
      BY <1>5, NewAllocLarger DEF Inv, TypeOK, Move, NewAlloc, ChainsOf, Ids
    <2>2. moved \in Ids
      BY <2>1, RestIn
    <2>3. there \in 0..(NewAlloc - 1)
      BY <2>1, <2>2, BucketExists, NodeFacts DEF Inv, HashedKeys
    <2>4. /\ node_ptr' = [node_ptr EXCEPT ![i] = Tail(node_ptr[i])]
          /\ new_ptr' = [new_ptr EXCEPT ![there] = <<moved>> \o new_ptr[there]]
      BY <1>5, <2>1, <2>3 DEF Move, PutFirst, Rest
    <2>5. /\ Once(node_ptr) /\ Once(new_ptr)
          /\ \A node \in Ids : Linked(node_ptr, node) => ~Linked(new_ptr, node)
      BY <2>1 DEF LinkedOnce
    <2>6. /\ Once(node_ptr') /\ ~Linked(node_ptr', moved) /\ Linked(node_ptr, moved)
          /\ \A node : Linked(node_ptr', node) => Linked(node_ptr, node)
      <3>1. PICK D, new : D = 0..(node_alloc - 1) /\ new = [node_ptr EXCEPT ![i] = Tail(node_ptr[i])]
        OBVIOUS
      <3>2. /\ node_ptr \in [D -> Seq(Ids)] /\ i \in D
            /\ DOMAIN new = D /\ new[i] = Tail(node_ptr[i])
            /\ \A c \in D \ {i} : new[c] = node_ptr[c]
        BY <2>1, <3>1
      <3>3. /\ Once(new) /\ ~Linked(new, moved) /\ Linked(node_ptr, moved)
            /\ \A node : Linked(new, node) => Linked(node_ptr, node)
        BY <2>1, <2>5, <3>2, PoppedOnce DEF moved
      <3> QED BY <2>4, <3>1, <3>3
    <2>7. ~Linked(new_ptr, moved)
      BY <2>2, <2>5, <2>6
    <2> HIDE DEF moved, there
    <2>8. /\ Once(new_ptr')
          /\ \A node : Linked(new_ptr', node) => node = moved \/ Linked(new_ptr, node)
      <3>1. PICK D, new : /\ D = 0..(NewAlloc - 1)
                          /\ new = [new_ptr EXCEPT ![there] = <<moved>> \o new_ptr[there]]
        OBVIOUS
      <3>2. /\ new_ptr \in [D -> Seq(Ids)] /\ there \in D
            /\ DOMAIN new = D /\ new[there] = <<moved>> \o new_ptr[there]
            /\ \A c \in D \ {there} : new[c] = new_ptr[c]
        BY <2>1, <2>3, <3>1
      <3>3. /\ Once(new)
            /\ \A node : Linked(new, node) => node = moved \/ Linked(new_ptr, node)
        BY <2>2, <2>5, <2>7, <3>2, PushedOnce
      <3> QED BY <2>4, <3>1, <3>3
    <2> QED BY <2>1, <2>5, <2>6, <2>8 DEF LinkedOnce
  <1>6. CASE NextBucket
    BY <1>6 DEF NextBucket, LinkedOnce, Ids
  <1>7. CASE Install
    BY <1>7 DEF Install, LinkedOnce
  <1>8. CASE Found
    <2>1. node_ptr' = node_ptr /\ at' # "rehash"
      BY <1>8 DEF Found
    <2> QED BY <2>1 DEF LinkedOnce
  <1>9. CASE Insert
    <2> DEFINE node == Len(nodes) + 1
    <2>1. /\ Here \in 0..(node_alloc - 1) /\ Len(nodes) \in Nat
          /\ node_ptr \in [0..(node_alloc - 1) -> Seq(Ids)]
      BY <1>9, HereFacts, NodeFacts DEF Inv, TypeOK, Insert, ChainsOf
    <2>2. ~Linked(node_ptr, node)
      <3>1. \A b \in DOMAIN node_ptr : \A j \in 1..Len(node_ptr[b]) : node_ptr[b][j] \in Ids
        <4>1. \A b \in DOMAIN node_ptr : node_ptr[b] \in Seq(Ids)
          BY <2>1
        <4> QED BY <4>1
      <3>2. node \notin Ids
        BY <2>1 DEF Ids
      <3> QED BY <3>1, <3>2 DEF Linked
    <2>3. node_ptr' = [node_ptr EXCEPT ![Here] = <<node>> \o node_ptr[Here]] /\ at' # "rehash"
      BY <1>9, <2>1 DEF Insert
    <2>4. PICK D, S, new : /\ D = 0..(node_alloc - 1) /\ S = Ids \cup {node}
                           /\ new = [node_ptr EXCEPT ![Here] = <<node>> \o node_ptr[Here]]
      OBVIOUS
    <2> HIDE DEF node
    <2>5. /\ node_ptr \in [D -> Seq(S)] /\ Here \in D /\ node \in S
          /\ DOMAIN new = D /\ new[Here] = <<node>> \o node_ptr[Here]
          /\ \A c \in D \ {Here} : new[c] = node_ptr[c]
      <3>1. \A c \in Seq(Ids) : c \in Seq(S)
        BY <2>4
      <3> QED BY <2>1, <2>4, <3>1
    <2>6. Once(new)
      BY <2>2, <2>5, PushedOnce DEF LinkedOnce
    <2> QED BY <2>3, <2>4, <2>6 DEF LinkedOnce
  <1>10. CASE OutOfMemory
    BY <1>10 DEF OutOfMemory, LinkedOnce
  <1> QED BY <1>1, <1>2, <1>3, <1>4, <1>5, <1>6, <1>7, <1>8, <1>9, <1>10 DEF Next, Step

(* The chains never meet and never close into a circle, so that the loop   *)
(* over one of them ends and a node has one place (table.cpp 50-60): also  *)
(* while a node's next pointer is being changed from one chain to another. *)
THEOREM NodesOnce == Spec => []NoNodeTwice
  <1>1. Init => LinkedOnce
    BY DEF Init, LinkedOnce, Once
  <1>2. Inv /\ LinkedOnce /\ [Next]_tvars => LinkedOnce'
    BY NextLinks
  <1>3. ASSUME Inv, LinkedOnce PROVE NoNodeTwice
    <2> DEFINE old == {<<0, p>> : p \in Chained(node_ptr)}
               new == IF at = "rehash" THEN {<<1, p>> : p \in Chained(new_ptr)} ELSE {}
               NodeAt(q) == IF q[1] = 0 THEN node_ptr[q[2][1]][q[2][2]]
                            ELSE new_ptr[q[2][1]][q[2][2]]
    <2>1. ASSUME NEW p \in old
          PROVE  \E b \in DOMAIN node_ptr : \E j \in 1..Len(node_ptr[b]) :
                   p = <<0, <<b, j>>>> /\ NodeAt(p) = node_ptr[b][j]
      <3>1. PICK b \in DOMAIN node_ptr : \E j \in 1..Len(node_ptr[b]) : p = <<0, <<b, j>>>>
        BY <2>1 DEF Chained
      <3>2. PICK j \in 1..Len(node_ptr[b]) : p = <<0, <<b, j>>>>
        BY <3>1
      <3> QED BY <3>2
    <2>2. ASSUME NEW p \in new
          PROVE  /\ at = "rehash"
                 /\ \E b \in DOMAIN new_ptr : \E j \in 1..Len(new_ptr[b]) :
                      p = <<1, <<b, j>>>> /\ NodeAt(p) = new_ptr[b][j]
      <3>1. at = "rehash" /\ p \in {<<1, r>> : r \in Chained(new_ptr)}
        BY <2>2
      <3>2. PICK b \in DOMAIN new_ptr : \E j \in 1..Len(new_ptr[b]) : p = <<1, <<b, j>>>>
        BY <3>1 DEF Chained
      <3>3. PICK j \in 1..Len(new_ptr[b]) : p = <<1, <<b, j>>>>
        BY <3>2
      <3> QED BY <3>1, <3>3
    <2>3. ASSUME NEW p \in old \cup new, NEW q \in old \cup new, NodeAt(p) = NodeAt(q)
          PROVE  p = q
      <3> HIDE DEF old, new, NodeAt
      <3>1. CASE p \in old /\ q \in old
        BY <1>3, <2>1, <2>3, <3>1 DEF LinkedOnce, Once
      <3>2. CASE p \in new /\ q \in new
        BY <1>3, <2>2, <2>3, <3>2 DEF LinkedOnce, Once
      <3>3. ASSUME NEW r \in old, NEW s \in new PROVE NodeAt(r) # NodeAt(s)
        <4>1. at = "rehash" /\ Linked(node_ptr, NodeAt(r)) /\ Linked(new_ptr, NodeAt(s))
          BY <2>1, <2>2 DEF Linked
        <4>2. NodeAt(r) \in Ids
          <5>1. \A b \in DOMAIN node_ptr : node_ptr[b] \in Seq(Ids)
            BY <1>3 DEF Inv, TypeOK, ChainsOf
          <5>2. \A b \in DOMAIN node_ptr : \A j \in 1..Len(node_ptr[b]) : node_ptr[b][j] \in Ids
            BY <5>1
          <5> QED BY <2>1, <5>2
        <4> QED BY <1>3, <4>1, <4>2 DEF LinkedOnce
      <3> QED BY <2>3, <3>1, <3>2, <3>3
    <2> QED BY <2>3 DEF NoNodeTwice
  <1> QED BY <1>1, <1>2, <1>3, Invariance, PTL DEF Spec

-----------------------------------------------------------------------------
(* The refinement. *)

(* The map a table stands for changes only when a value is stored.         *)
LEMMA SameMap ==
  ASSUME UNCHANGED nodes PROVE MapOf' = MapOf
  BY DEF MapOf, Ids

LEMMA MapIsFunction ==
  /\ MapOf = [k \in Regular |-> MapOf[k]]
  /\ MapOf' = [k \in Regular |-> MapOf'[k]]
  BY DEF MapOf

(* Storing a value in the node of a regular key puts it into the map; in   *)
(* that of another key it changes nothing.                                 *)
LEMMA FoundMaps ==
  ASSUME Inv, Found
  PROVE  IF op.key \in Regular THEN Map!Put(op.key, op.value) ELSE UNCHANGED <<MapOf, got>>
  <1> DEFINE node == NodeIn(node_ptr[Here], op.key)
  <1>1. /\ node \in Ids /\ op.value \in Values /\ op.key \in Keys
        /\ Same(nodes[node].key, op.key)
        /\ nodes' = [nodes EXCEPT ![node].value = op.value]
    BY HereFacts DEF Found
  <1> HIDE DEF node
  <1>2. /\ Ids' = Ids
        /\ \A n \in Ids : /\ nodes'[n].key = nodes[n].key
                           /\ nodes'[n].value = IF n = node THEN op.value ELSE nodes[n].value
    <2>1. nodes \in Seq(Entries) /\ Len(nodes) \in Nat
      BY DEF Inv, TypeOK, Entries
    <2>2. Len(nodes') = Len(nodes)
      BY <1>1, <2>1
    <2> QED BY <1>1, <2>1, <2>2, NodeFacts DEF Ids, Entries
  <1>3. \A k \in Regular :
          MapOf'[k] = IF nodes[node].key = k THEN op.value ELSE MapOf[k]
    <2> SUFFICES ASSUME NEW k \in Regular
                 PROVE  MapOf'[k] = IF nodes[node].key = k THEN op.value ELSE MapOf[k]
      OBVIOUS
    <2>1. (CHOOSE n \in Ids : nodes'[n].key = k) = (CHOOSE n \in Ids : nodes[n].key = k)
      BY <1>2
    <2> DEFINE n == CHOOSE n \in Ids : nodes[n].key = k
    <2>2. CASE \E m \in Ids : nodes[m].key = k
      <3>1. n \in Ids /\ nodes[n].key = k
        BY <2>2
      <3>2. MapOf[k] = nodes[n].value /\ MapOf'[k] = nodes'[n].value
        BY <1>2, <2>1, <2>2 DEF MapOf
      <3> HIDE DEF n
      <3>3. n = node <=> nodes[node].key = k
        BY <1>1, <3>1 DEF Inv, OneNodePerKey
      <3> QED BY <1>2, <3>1, <3>2, <3>3
    <2>3. CASE ~\E m \in Ids : nodes[m].key = k
      BY <1>1, <1>2, <2>3 DEF MapOf
    <2> QED BY <2>2, <2>3
  <1>4. CASE op.key \in Regular
    <2>1. nodes[node].key = op.key
      BY <1>1, <1>4, SameRegular, NodeFacts
    <2>2. MapOf' = [MapOf EXCEPT ![op.key] = op.value]
      BY <1>3, <1>4, <2>1, MapIsFunction
    <2> QED BY <1>4, <2>2 DEF Map!Put, Found
  <1>5. CASE op.key \notin Regular
    <2>1. nodes[node].key \notin Regular
      BY <1>1, <1>5, SameRegular, NodeFacts
    <2>2. MapOf' = MapOf
      BY <1>3, <2>1, MapIsFunction
    <2> QED BY <1>5, <2>2 DEF Found
  <1> QED BY <1>4, <1>5

(* A new node of a regular key puts its value into the map; a new node of  *)
(* another key changes nothing.                                            *)
LEMMA InsertMaps ==
  ASSUME Inv, Insert
  PROVE  IF op.key \in Regular THEN Map!Put(op.key, op.value) ELSE UNCHANGED <<MapOf, got>>
  <1> DEFINE node == Len(nodes) + 1
  <1>1. /\ Ids' = Ids \cup {node} /\ node \notin Ids
        /\ \A n \in Ids : nodes'[n] = nodes[n]
        /\ nodes'[node].key = op.key /\ nodes'[node].value = op.value
    <2>1. nodes \in Seq(Entries) /\ [key |-> op.key, value |-> op.value] \in Entries
      BY DEF Inv, TypeOK, Entries
    <2> QED BY <2>1 DEF Insert, Ids
  <1> HIDE DEF node
  <1>2. ASSUME NEW n \in Ids, nodes[n].key = op.key, op.key \in Regular PROVE FALSE
    <2>1. NodeIn(node_ptr[Here], op.key) = n
      BY <1>2, NotThere DEF Here, Insert
    <2> QED BY <2>1, NodeFacts DEF Insert, Ids
  <1>3. \A k \in Regular : MapOf'[k] = IF op.key = k THEN op.value ELSE MapOf[k]
    <2> SUFFICES ASSUME NEW k \in Regular
                 PROVE  MapOf'[k] = IF op.key = k THEN op.value ELSE MapOf[k]
      OBVIOUS
    <2> DEFINE n == CHOOSE n \in Ids' : nodes'[n].key = k
    <2>1. CASE op.key = k
      <3>1. n = node
        BY <1>1, <1>2, <2>1
      <3> QED BY <1>1, <2>1, <3>1 DEF MapOf
    <2>2. CASE op.key # k
      <3>1. \A m : m \in Ids' /\ nodes'[m].key = k <=> m \in Ids /\ nodes[m].key = k
        BY <1>1, <2>2
      <3>2. n = CHOOSE m \in Ids : nodes[m].key = k
        BY <3>1
      <3>3. CASE \E m \in Ids : nodes[m].key = k
        <4>1. n \in Ids /\ MapOf'[k] = nodes'[n].value /\ MapOf[k] = nodes[n].value
          BY <3>1, <3>2, <3>3 DEF MapOf
        <4> QED BY <1>1, <2>2, <4>1
      <3>4. CASE ~\E m \in Ids : nodes[m].key = k
        BY <2>2, <3>1, <3>4 DEF MapOf
      <3> QED BY <3>3, <3>4
    <2> QED BY <2>1, <2>2
  <1>4. CASE op.key \in Regular
    <2>1. MapOf' = [MapOf EXCEPT ![op.key] = op.value]
      BY <1>3, <1>4, MapIsFunction
    <2> QED BY <1>4, <2>1 DEF Map!Put, Insert
  <1>5. CASE op.key \notin Regular
    <2>1. MapOf' = MapOf
      BY <1>3, <1>5, MapIsFunction
    <2> QED BY <1>5, <2>1 DEF Insert
  <1> QED BY <1>4, <1>5

(* A look-up of a regular key gets what the map has for it.                *)
LEMMA GetMaps ==
  ASSUME Inv, NEW key \in Keys, Get(key)
  PROVE  IF InArrayPart(key) THEN UNCHANGED <<MapOf, got>>
         ELSE IF key \in Regular THEN Map!Get(key) ELSE Map!GetIrregular(key)
  <1>1. MapOf' = MapOf
    BY SameMap DEF Get
  <1> QED BY <1>1, ValueFound DEF Get, Map!Get, Map!GetIrregular

(* Initially the map is empty, and every step of the table is one of the   *)
(* map or changes nothing in it.                                           *)
LEMMA InitMaps == Init => Map!Init
  <1> SUFFICES ASSUME Init PROVE Map!Init
    OBVIOUS
  <1>1. NoOp \in [key : Keys, value : Values]
    BY TableAssumption DEF NoOp
  <1>2. Ids = {}
    BY DEF Init, Ids
  <1> QED BY <1>1, <1>2 DEF Init, Map!Init, MapOf

LEMMA NextMaps == ASSUME Inv, [Next]_tvars PROVE [Map!Next]_(Map!mvars)
  <1>1. ASSUME NEW key \in Keys, NEW value \in Values, Set(key, value)
        PROVE  UNCHANGED Map!mvars
    BY <1>1, SameMap DEF Set, Map!mvars
  <1>2. ASSUME NEW key \in Keys, Get(key) PROVE [Map!Next]_(Map!mvars)
    BY <1>2, GetMaps DEF Map!Next, Map!mvars
  <1>3. CASE Grow \/ Move \/ NextBucket \/ Install \/ OutOfMemory \/ UNCHANGED tvars
    BY <1>3, SameMap DEF Grow, Move, NextBucket, Install, OutOfMemory, tvars, Map!mvars
  <1>4. CASE Found
    BY <1>4, FoundMaps DEF Inv, TypeOK, Map!Next, Map!mvars
  <1>5. CASE Insert
    BY <1>5, InsertMaps DEF Inv, TypeOK, Map!Next, Map!mvars
  <1> QED BY <1>1, <1>2, <1>3, <1>4, <1>5 DEF Next, Step

(* The buckets implement the map: whatever is stored in a table under      *)
(* whatever keys, and however it grows, a regular key has the value stored *)
(* under it last (table.cpp 27-171).                                       *)
THEOREM Refinement == Spec => ImplementsMap
  <1>1. Init => Map!Init
    BY InitMaps
  <1>2. Inv /\ [Next]_tvars => [Map!Next]_(Map!mvars)
    BY NextMaps
  <1> QED BY <1>1, <1>2, Invariance, PTL DEF Spec, ImplementsMap, Map!Spec
=============================================================================
