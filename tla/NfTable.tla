-------------------------------- MODULE NfTable --------------------------------
(***************************************************************************)
(* Tables (nf/src/table.cpp): nodes in buckets, chained in each bucket,    *)
(* and more buckets when there are more nodes than buckets.                *)
(*                                                                         *)
(* An operation of the interpreter or the host on a table is Table_set and *)
(* the assignment to the place it returns, or Table_get.  Table_set is     *)
(* followed step by step: at names the point it is at, and one step of the *)
(* rehash moves one node.  The chain a bucket's pointer begins, along the  *)
(* next pointers of nodes, is a sequence of nodes; nodes are numbered as   *)
(* they are allocated.                                                     *)
(***************************************************************************)
EXTENDS Integers, Sequences

CONSTANTS
  Keys,         \* keys: [type, v], v being the 64 bits of the union
  Values,       \* what is stored
  NilValue,     \* the value of type NIL
  NumEq(_, _),  \* whether the difference of two doubles is zero
  MaxNodes      \* bound: nodes of the table

(* next_power_of_2 (basic_types.h): all bits below the highest one are     *)
(* set, and one is added.                                                  *)
NextPowerOf2[s \in Nat] == IF s = 0 THEN 1 ELSE 2 * NextPowerOf2[s \div 2]

ASSUME TableAssumption ==
  /\ \A k \in Keys : k = [type |-> k.type, v |-> k.v] /\ k.v \in Int
  /\ \A k \in Keys : k.type # "Integer" => k.v >= 0
  /\ Keys # {} /\ NilValue \in Values
  /\ \A x, y \in {k.v : k \in Keys} : NumEq(x, y) \in BOOLEAN /\ NumEq(x, y) = NumEq(y, x)
  /\ MaxNodes \in Nat

VARIABLES
  nodes,      \* the nodes allocated: [key, value]
  node_ptr,   \* the buckets, numbered from 0: chains of nodes
  node_alloc, \* how many buckets there are
  node_count,
  new_ptr,    \* new_node_ptr, while the table grows
  i,          \* the bucket the rehash has come to
  op,         \* the arguments of the Table_set that is running
  got,        \* what the last Table_get found: [key, value]
  at          \* "idle", the point in Table_set, or how it ended

tvars == <<nodes, node_ptr, node_alloc, node_count, new_ptr, i, op, got, at>>

-----------------------------------------------------------------------------
(* hash_key: the bits of a number, or the address of an object.            *)
Hash(key) == IF key.type = "NIL" THEN 0 ELSE key.v

(* TValue_compare gives 0.  Doubles are subtracted: no NaN and no infinity *)
(* is equal to itself, and 0.0 is equal to -0.0.                           *)
Same(a, b) ==
  /\ a.type = b.type
  /\ CASE a.type = "NIL" -> TRUE
       [] a.type = "Number" -> NumEq(a.v, b.v)
       [] OTHER -> a.v = b.v

(* Keys that compare as they should. *)
Regular ==
  {k \in Keys : /\ \A j \in Keys : Same(j, k) <=> j = k
                /\ ~(k.type = "Integer" /\ k.v < 0)}

(* An Integer below array_alloc, which stays 0, is taken for an index of   *)
(* the array part, a null pointer.                                         *)
InArrayPart(key) == key.type = "Integer" /\ key.v < 0

Bucket(key, alloc) == Hash(key) % alloc
OneBucketMore(alloc) == [b \in 0..alloc |-> <<>>]
EmptyBuckets(alloc) == [b \in 0..(alloc - 1) |-> <<>>]

(* The node for key in a chain: the first whose key compares equal, or 0;  *)
(* or only if it is the first of all.                                      *)
HeadMatch(chain, key) ==
  IF chain # <<>> /\ Same(nodes[Head(chain)].key, key) THEN Head(chain) ELSE 0
Matches(chain, key) == {j \in 1..Len(chain) : Same(nodes[chain[j]].key, key)}
NodeIn(chain, key) ==
  IF Matches(chain, key) = {} THEN 0
  ELSE chain[CHOOSE j \in Matches(chain, key) : \A l \in Matches(chain, key) : j <= l]

-----------------------------------------------------------------------------
(* What op and got are when there has been no operation. *)
NoOp == [key |-> CHOOSE key \in Keys : TRUE, value |-> NilValue]

(* Table_set up to its look at the load of the table.  It grows when every *)
(* bucket could have a node, before it is known whether the key is there;  *)
(* or one node later.                                                      *)
MustGrowLate == node_alloc = 0 \/ node_count > node_alloc
MustGrow == node_alloc = 0 \/ node_count + 1 > node_alloc

Set(key, value) ==
  /\ at = "idle" /\ node_count < MaxNodes
  /\ at' = CASE InArrayPart(key) -> "undefined"
             [] ~InArrayPart(key) /\ MustGrow -> "grow"
             [] OTHER -> "find"
  /\ op' = [key |-> key, value |-> value]
  /\ UNCHANGED <<nodes, node_ptr, node_alloc, node_count, new_ptr, i, got>>

NewAlloc == NextPowerOf2[node_count + 1] - 1

Grow ==
  /\ at = "grow"
  /\ at' = "rehash"
  /\ new_ptr' = EmptyBuckets(NewAlloc)
  /\ i' = 0
  /\ UNCHANGED <<nodes, node_ptr, node_alloc, node_count, op, got>>

(* One round of the loop over a chain: its first node goes to the front of *)
(* a new bucket, the one its hash has now; or to the one it had.           *)
PutOld(ptr, node) ==
  [ptr EXCEPT ![Bucket(nodes[node].key, node_alloc)] = <<node>> \o @]
PutFirst(ptr, node) ==
  [ptr EXCEPT ![Bucket(nodes[node].key, NewAlloc)] = <<node>> \o @]

(* What is left of the old chain: node->next, read before it is changed;   *)
(* or all of it.                                                           *)
Unmoved(chain) == chain
Rest(chain) == Tail(chain)

Move ==
  /\ at = "rehash" /\ i < node_alloc /\ node_ptr[i] # <<>>
  /\ new_ptr' = PutFirst(new_ptr, Head(node_ptr[i]))
  /\ node_ptr' = [node_ptr EXCEPT ![i] = Rest(@)]
  /\ UNCHANGED <<nodes, node_alloc, node_count, i, op, got, at>>

(* The loop goes on when the chain has ended; or stays where it is. *)
SameI == i
NextI == i + 1

NextBucket ==
  /\ at = "rehash" /\ i < node_alloc /\ node_ptr[i] = <<>>
  /\ i' = NextI
  /\ UNCHANGED <<nodes, node_ptr, node_alloc, node_count, new_ptr, op, got, at>>

Install ==
  /\ at = "rehash" /\ i >= node_alloc
  /\ node_alloc' = NewAlloc
  /\ node_ptr' = new_ptr
  /\ new_ptr' = <<>> /\ i' = 0
  /\ at' = "find"
  /\ UNCHANGED <<nodes, node_count, op, got>>

(* The rest of Table_set: the node found, or a new one; and what callers   *)
(* do with it, *Table_set(...) = value.                                    *)
Here == Bucket(op.key, node_alloc)

Found ==
  LET node == NodeIn(node_ptr[Here], op.key) IN
  /\ at = "find" /\ node # 0
  /\ nodes' = [nodes EXCEPT ![node].value = op.value]
  /\ at' = "idle" /\ op' = NoOp
  /\ UNCHANGED <<node_ptr, node_alloc, node_count, new_ptr, i, got>>

Insert ==
  LET node == Len(nodes) + 1 IN
  /\ at = "find" /\ NodeIn(node_ptr[Here], op.key) = 0
  /\ nodes' = Append(nodes, [key |-> op.key, value |-> op.value])
  /\ node_ptr' = [node_ptr EXCEPT ![Here] = <<node>> \o @]
  /\ node_count' = node_count + 1
  /\ at' = "idle" /\ op' = NoOp
  /\ UNCHANGED <<node_alloc, new_ptr, i, got>>

(* The two allocations: of buckets, and of a node. *)
OutOfMemory ==
  /\ at = "grow" \/ (at = "find" /\ NodeIn(node_ptr[Here], op.key) = 0)
  /\ at' = "OUT_OF_MEMORY"
  /\ UNCHANGED <<nodes, node_ptr, node_alloc, node_count, new_ptr, i, op, got>>

(* Table_get, and nil where there is no node. *)
ValueFor(key) ==
  LET node == IF node_alloc = 0 THEN 0
              ELSE NodeIn(node_ptr[Bucket(key, node_alloc)], key)
  IN IF node = 0 THEN NilValue ELSE nodes[node].value

Get(key) ==
  /\ at = "idle"
  /\ IF InArrayPart(key)
       THEN at' = "undefined" /\ UNCHANGED got
       ELSE got' = [key |-> key, value |-> ValueFor(key)] /\ UNCHANGED at
  /\ UNCHANGED <<nodes, node_ptr, node_alloc, node_count, new_ptr, i, op>>

-----------------------------------------------------------------------------
(* Table_init. *)
Init ==
  /\ nodes = <<>>
  /\ node_ptr = <<>> /\ node_alloc = 0 /\ node_count = 0
  /\ new_ptr = <<>> /\ i = 0
  /\ op = NoOp /\ got = NoOp
  /\ at = "idle"

Step == Grow \/ Move \/ NextBucket \/ Install \/ Found \/ Insert

Next ==
  \/ \E key \in Keys, value \in Values : Set(key, value)
  \/ \E key \in Keys : Get(key)
  \/ Step
  \/ OutOfMemory

Spec == Init /\ [][Next]_tvars
(* Table_set runs on until it returns. *)
FairSpec == Spec /\ WF_tvars(Step)

-----------------------------------------------------------------------------
(* Properties. *)

Ids == 1..Len(nodes)
ChainsOf(alloc) == [0..(alloc - 1) -> Seq(Ids)]
Points == {"idle", "grow", "rehash", "find", "undefined", "OUT_OF_MEMORY"}

(* Every variable has its type. *)
TypeOK ==
  /\ nodes \in Seq([key : Keys, value : Values])
  /\ node_alloc \in Nat /\ node_count \in 0..MaxNodes
  /\ node_ptr \in ChainsOf(node_alloc)
  /\ at = "rehash" => new_ptr \in ChainsOf(NewAlloc)
  /\ i \in Nat
  /\ op \in [key : Keys, value : Values] /\ got \in [key : Keys, value : Values]
  /\ at \in Points

(* How often a node is in a chain. *)
Times(chain, node) == {j \in 1..Len(chain) : chain[j] = node}

(* Every node is in a bucket where it will be looked for, the one its hash *)
(* has; while the table grows, in one of those not yet emptied or in its   *)
(* new one.                                                                *)
InPlace(node) ==
  \/ \E b \in DOMAIN node_ptr :
       /\ b = Bucket(nodes[node].key, node_alloc)
       /\ Times(node_ptr[b], node) # {}
       /\ at = "rehash" => i <= b
  \/ /\ at = "rehash"
     /\ Times(new_ptr[Bucket(nodes[node].key, NewAlloc)], node) # {}
NodesInPlace == \A node \in Ids : InPlace(node)

(* No node is in two chains, or twice in one: the next pointers of a node  *)
(* that is moved do not tie two chains together, or one into a circle.     *)
Chained(ptr) == UNION {{<<b, j>> : j \in 1..Len(ptr[b])} : b \in DOMAIN ptr}
NoNodeTwice ==
  LET old == {<<0, p>> : p \in Chained(node_ptr)}
      new == IF at = "rehash" THEN {<<1, p>> : p \in Chained(new_ptr)} ELSE {}
      NodeAt(q) == IF q[1] = 0 THEN node_ptr[q[2][1]][q[2][2]] ELSE new_ptr[q[2][1]][q[2][2]]
  IN \A p, q \in old \cup new : NodeAt(p) = NodeAt(q) => p = q

(* One key, one node, for all keys that compare as they should.            *)
OneNodePerKey ==
  \A m, n \in Ids : nodes[m].key = nodes[n].key /\ nodes[m].key \in Regular => m = n

(* When an operation is done there are at least as many buckets as nodes,  *)
(* so that chains stay short; and node_count is right.                     *)
LoadAtMostOne == node_count = Len(nodes) /\ (at = "idle" => node_count <= node_alloc)

(* The table as a map: the value of the node that has the key. *)
MapOf ==
  [k \in Regular |->
     IF \E node \in Ids : nodes[node].key = k
       THEN nodes[CHOOSE node \in Ids : nodes[node].key = k].value
       ELSE NilValue]
Map == INSTANCE NfMap WITH map <- MapOf

(* The buckets implement the map NfMap: however the table grew, a regular  *)
(* key has the value stored last, whatever was stored under the others.    *)
ImplementsMap == Map!Spec

(* Table_set returns, or throws: the rehash comes to an end. *)
SetEnds == (at \in {"grow", "rehash", "find"}) ~> (at \in {"idle", "OUT_OF_MEMORY"})
=============================================================================
