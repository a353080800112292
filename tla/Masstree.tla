------------------------------ MODULE Masstree ------------------------------
(***************************************************************************)
(* The index of the database (src/server/enclave/masstree): a trie of B+   *)
(* trees, one tree for each 8-byte slice of a key. Writers lock nodes      *)
(* through a bit of the node's version word; readers take no locks and     *)
(* compare version words before and after they look at a node.             *)
(*                                                                         *)
(* heap[a] is the node at address a; nodes are never freed (the garbage    *)
(* collector only collects). th[t] is what thread t is doing: pc names the *)
(* step, the other fields are the local variables of the call. path holds  *)
(* the roots of the layers the call went through, so the key's cursor is   *)
(* Len(path) - 1 and RETRY_FROM_UPPER_LAYER drops the last of them.        *)
(*                                                                         *)
(* A step is one access to shared memory of a reader, or the accesses of a *)
(* lock holder between two points where another thread can tell the        *)
(* difference. Interior nodes are read without a look back at their        *)
(* version, so every store into one is a step: an operation leaves its     *)
(* stores in th[t].stores and goes on when Store has made them. A spinning *)
(* wait (stableVersion, lock) is a guard.                                  *)
(***************************************************************************)
EXTENDS Permutation, Sequences, FiniteSets

LOCAL INSTANCE SequencesExt

CONSTANTS
  Threads,
  Absent,        \* nullptr where a value is expected
  Workloads      \* what the threads ask for: see Offered

ASSUME WorkloadsAssumption ==
  \A w \in Workloads : w.first \in Threads /\ DOMAIN w.scripts = Threads

VARIABLES heap, root, th, garbage, failed,
          todo,          \* what is left of the workload
          map, seen      \* what the tree holds, and held during each call

vars == <<heap, root, th, garbage, failed, todo, map, seen>>

Null == 0
None == [slices |-> <<>>, last |-> 0]        \* no suffix
NullLV == <<"null", Absent>>                 \* neither link nor value

key_len_has_suffix == 9
key_len_unstable == 254
key_len_layer == 255

-----------------------------------------------------------------------------
(* class Key: a sequence of slices and the size of the last one            *)

hasNext(key, cursor) == Len(key.slices) # cursor + 1

slice(key, cursor) == key.slices[cursor + 1]

keyLen(key, cursor) ==
  IF hasNext(key, cursor) THEN key_len_has_suffix ELSE key.last

\* BigSuffix::from: the slices behind the cursor.
suffixOf(key, cursor) ==
  IF hasNext(key, cursor)
  THEN [slices |-> SubSeq(key.slices, cursor + 2, Len(key.slices)), last |-> key.last]
  ELSE None

\* operator<: the size of the last slice counts before the number of slices.
KeyLess(a, b) ==
  LET n    == IF Len(a.slices) < Len(b.slices) THEN Len(a.slices) ELSE Len(b.slices)
      diff == {i \in 1 .. n : a.slices[i] # b.slices[i]}
  IN  IF diff # {}
      THEN LET i == CHOOSE i \in diff : \A j \in diff : i <= j
           IN  a.slices[i] < b.slices[i]
      ELSE IF a.last # b.last THEN a.last < b.last
                              ELSE Len(a.slices) < Len(b.slices)

-----------------------------------------------------------------------------
(* struct Version and class Node                                           *)

Version ==
  [locked |-> FALSE, inserting |-> FALSE, splitting |-> FALSE, deleted |-> FALSE,
   is_root |-> FALSE, is_border |-> FALSE, v_insert |-> 0, v_split |-> 0]

\* operator^ compares the 32 bits of body; v_split lies behind them, because a
\* 16-bit field does not start in the middle of a 16-bit unit.
Changed(v, w) == [v EXCEPT !.v_split = 0] # [w EXCEPT !.v_split = 0]

Stable(v) == ~v.inserting /\ ~v.splitting

unlocked(v) ==
  [v EXCEPT !.locked = FALSE, !.inserting = FALSE, !.splitting = FALSE,
            !.v_insert = IF v.inserting THEN (@ + 1) % 65536 ELSE @,
            !.v_split = IF v.splitting /\ ~v.inserting THEN (@ + 1) % 256 ELSE @]

\* Nodes of both kinds in one record; an interior node leaves the fields from
\* key_len on unused, a border node those from n_keys to child.
InteriorNode ==
  [ver |-> Version, parent |-> Null, upper |-> Null,
   n_keys |-> 0, ikey |-> [i \in 0 .. ORDER - 2 |-> 0], child |-> [i \in 0 .. ORDER - 1 |-> Null],
   key_len |-> [i \in 0 .. ORDER - 2 |-> 0], key_slice |-> [i \in 0 .. ORDER - 2 |-> 0],
   lv |-> [i \in 0 .. ORDER - 2 |-> NullLV], suffix |-> [i \in 0 .. ORDER - 2 |-> None],
   perm |-> 0, next |-> Null, prev |-> Null]

BorderNode == [InteriorNode EXCEPT !.ver.is_border = TRUE, !.perm = sizeOne]

\* LinkOrValue.
Link(n) == <<"node", n>>
Val(v)  == <<"value", v>>

\* What somebody gets who takes lv for a value: from a link, no value of anybody.
asValue(lv) == IF lv[1] = "node" THEN [by |-> Null, key |-> Absent] ELSE lv[2]

lock(h, n) == [h EXCEPT ![n].ver.locked = TRUE]

unlock(h, ns) ==
  [n \in DOMAIN h |-> IF n \in ns THEN [h[n] EXCEPT !.ver = unlocked(@)] ELSE h[n]]

\* Marks nodes deleted before they are unlocked and given to the collector.
retire(h, ns) ==
  [n \in DOMAIN h |-> IF n \in ns THEN [h[n] EXCEPT !.ver.deleted = TRUE] ELSE h[n]]

\* Stores that are still to be made: of a field, or of an element of an array.
Put(n, f, v) == <<[node |-> n, field |-> f, index |-> -1, value |-> v]>>
PutAt(n, f, i, v) == <<[node |-> n, field |-> f, index |-> i, value |-> v]>>

setParent(n, p) == Put(n, "parent", p)

setKeyCount(n, k) == Put(n, "n_keys", k)
setKeySlice(n, i, s) == PutAt(n, "ikey", i, s)
setChild(n, i, c) == PutAt(n, "child", i, c)

\* F(from) \o ... \o F(to), and F(from) \o F(from - 1) \o ... \o F(to).
upTo(from, to, F(_)) == FlattenSeq([i \in 1 .. to - from + 1 |-> F(from + i - 1)])
downTo(from, to, F(_)) == FlattenSeq([i \in 1 .. from - to + 1 |-> F(from - i + 1)])

-----------------------------------------------------------------------------
(* class InteriorNode and class BorderNode                                 *)

\* Where findChild comes out when nobody changes the node.
findChild(nd, s) ==
  LET above == {i \in 0 .. nd.n_keys - 1 : s < nd.ikey[i]}
  IN  nd.child[IF above = {} THEN nd.n_keys
               ELSE CHOOSE i \in above : \A j \in above : i <= j]

ChildIndices(nd, n) == {i \in 0 .. nd.n_keys : nd.child[i] = n}


NextLayerIndices(nd, n) == {i \in 0 .. ORDER - 2 : nd.lv[i] = Link(n)}

\* What the slot i tells somebody who searches for key.
slotResult(nd, i, key, cursor) ==
  IF nd.key_slice[i] # slice(key, cursor) THEN "NOTFOUND"
  ELSE IF ~hasNext(key, cursor)
       THEN IF nd.key_len[i] = key.last THEN "VALUE" ELSE "NOTFOUND"
       ELSE CASE nd.key_len[i] = key_len_has_suffix
                   -> IF nd.suffix[i] = suffixOf(key, cursor) THEN "VALUE" ELSE "NOTFOUND"
              [] nd.key_len[i] = key_len_layer -> "LAYER"
              [] nd.key_len[i] = key_len_unstable -> "UNSTABLE"
              [] OTHER -> "NOTFOUND"

\* searchLinkOrValueWithIndex by a thread that holds the node's lock.
search(nd, key, cursor) ==
  LET hits == {j \in 0 .. getNumKeys(nd.perm) - 1 :
                 slotResult(nd, getKeyIndex(nd.perm, j), key, cursor) # "NOTFOUND"}
  IN  IF hits = {} THEN [result |-> "NOTFOUND", index |-> 0]
      ELSE LET i == getKeyIndex(nd.perm, CHOOSE j \in hits : \A k \in hits : j <= k)
           IN  [result |-> slotResult(nd, i, key, cursor), index |-> i]

isKeyRemoved(nd, i) == nd.key_len[i] \in 10 .. 18

\* insertPoint: the first slot never used or whose key was removed.
insertPoint(nd) ==
  LET free == {i \in 0 .. ORDER - 2 : nd.key_len[i] = 0 \/ isKeyRemoved(nd, i)}
  IN  CHOOSE i \in free : \A j \in free : i <= j

\* permutation(0) asserts that there is a key.
lowestKey(nd) == nd.key_slice[getKeyIndex(nd.perm, 0)]

\* check_break_invariant: the slots with the slice of key and something below.
Conflicts(nd, key, cursor) ==
  {i \in {getKeyIndex(nd.perm, j) : j \in 0 .. getNumKeys(nd.perm) - 1} :
     /\ hasNext(key, cursor)
     /\ nd.key_len[i] \in {key_len_has_suffix, key_len_layer}
     /\ nd.key_slice[i] = slice(key, cursor)}

\* Faulty form: new keys go to the end.
insertionIndex_Last(nd, s) == getNumKeys(nd.perm)

\* The node's place for a new slice: before the first slice not below it.
insertionIndex(nd, s) ==
  LET stop == {j \in 0 .. getNumKeys(nd.perm) - 1 :
                 nd.key_slice[getKeyIndex(nd.perm, j)] >= s}
  IN  IF stop = {} THEN getNumKeys(nd.perm)
                   ELSE CHOOSE j \in stop : \A k \in stop : j <= k

-----------------------------------------------------------------------------
(* Splitting (masstree_insert.cpp)                                         *)

MinOf(S) == CHOOSE i \in S : \A j \in S : i <= j

Entry(nd, i) == [len |-> nd.key_len[i], slice |-> nd.key_slice[i],
                 lv |-> nd.lv[i], suffix |-> nd.suffix[i]]

\* The entry split_keys_among makes for the new key. In the branch for a key
\* that goes on behind this slice the slice is set to the size, which is 8.
newEntry(key, cursor, v) ==
  [len |-> keyLen(key, cursor),
   slice |-> IF hasNext(key, cursor) THEN 8 ELSE slice(key, cursor),
   lv |-> Val(v), suffix |-> suffixOf(key, cursor)]

\* split_point: where to cut the sorted slices sl with the new one among them,
\* so that all keys with one slice stay in one node.
split_point(sl, s) ==
  LET first(P(_)) == MinOf({i \in DOMAIN sl : P(sl[i])})
      found == {sl[i] : i \in DOMAIN sl}
      Least == {x \in found : \A y \in found : x <= y}
      Most  == {x \in found : \A y \in found : x >= y}
  IN  CASE \A x \in found : s < x -> 1
        [] s \in Least -> first(LAMBDA x : x # sl[0]) + 1
        [] \A x \in found : s > x -> ORDER - 1
        [] s \in found \ Least -> first(LAMBDA x : x = s)
        [] OTHER -> first(LAMBDA x : x > s) + 1

\* A border node with the entries T[from], ..., T[to - 1].
filled(nd, T, from, to) ==
  LET at(i) == IF i < to - from THEN T[from + i]
               ELSE [len |-> 0, slice |-> 0, lv |-> NullLV, suffix |-> None]
  IN  [nd EXCEPT !.key_len = [i \in DOMAIN @ |-> at(i).len],
                 !.key_slice = [i \in DOMAIN @ |-> at(i).slice],
                 !.lv = [i \in DOMAIN @ |-> at(i).lv],
                 !.suffix = [i \in DOMAIN @ |-> at(i).suffix],
                 !.perm = fromSorted(to - from)]

\* split_keys_among for a border node: its keys in order and the new one ...
sorted(nd, key, cursor, v) ==
  LET ins    == insertionIndex(nd, slice(key, cursor))
      old(j) == Entry(nd, getKeyIndex(nd.perm, j))
  IN  [j \in 0 .. ORDER - 1 |->
         IF j < ins THEN old(j)
         ELSE IF j = ins THEN newEntry(key, cursor, v) ELSE old(j - 1)]

cutAt(nd, s) ==
  split_point([j \in 0 .. ORDER - 2 |-> nd.key_slice[getKeyIndex(nd.perm, j)]], s)

\* ... and all of them, T, cut and spread over n and the last node of the heap.
spread(h, n, T, at) ==
  LET n1    == Len(h)
      left  == [filled(h[n], T, 0, at) EXCEPT !.next = n1]
      right == [filled(h[n1], T, at, ORDER) EXCEPT !.next = h[n].next, !.prev = n]
      below(from, to) == {T[j].lv[2] : j \in {i \in from .. to - 1 : T[i].len = key_len_layer}}
      h1    == [h EXCEPT ![n] = left, ![n1] = right]
  IN  [a \in DOMAIN h1 |->
         [h1[a] EXCEPT !.prev = IF a = h[n].next THEN n1 ELSE @,
                       !.upper = IF a \in below(0, at) THEN n
                                 ELSE IF a \in below(at, ORDER) THEN n1 ELSE @]]

\* Faulty form: n1 becomes the left neighbour of the child.
insertChild_Left(p, nd, n1, s, idx) ==
  downTo(nd.n_keys, idx, LAMBDA i : setChild(p, i + 1, nd.child[i]) \o
                                    (IF i = idx THEN <<>> ELSE setKeySlice(p, i, nd.ikey[i - 1])))
  \o setChild(p, idx, n1) \o setKeySlice(p, idx, s) \o setKeyCount(p, nd.n_keys + 1)

\* insert_into_parent: n1 becomes the right neighbour of the child at idx.
insertChild(p, nd, n1, s, idx) ==
  downTo(nd.n_keys, idx + 1, LAMBDA i : setChild(p, i + 1, nd.child[i]) \o
                                        setKeySlice(p, i, nd.ikey[i - 1]))
  \o setChild(p, idx + 1, n1) \o setKeySlice(p, idx, s) \o setKeyCount(p, nd.n_keys + 1)

\* delete_borderNode_in_remove: the child at idx and one key go.
dropChild(p, nd, idx) ==
  upTo(IF idx = 0 THEN 0 ELSE idx - 1, ORDER - 3, LAMBDA i : setKeySlice(p, i, nd.ikey[i + 1]))
  \o upTo(idx, ORDER - 2, LAMBDA i : setChild(p, i, nd.child[i + 1]))
  \o setKeyCount(p, nd.n_keys - 1)

\* split_keys_among for a full interior node p: half of the children, the new
\* one included, move to p1, which others reach through them; k_prime goes up.
splitInterior(p, nd, p1, n1, s, idx) ==
  LET C    == [j \in 0 .. ORDER |-> IF j <= idx THEN nd.child[j]
                                    ELSE IF j = idx + 1 THEN n1 ELSE nd.child[j - 1]]
      K    == [j \in 0 .. ORDER - 1 |-> IF j < idx THEN nd.ikey[j]
                                        ELSE IF j = idx THEN s ELSE nd.ikey[j - 1]]
      half == (ORDER + 1) \div 2
      part(node, from, keys) ==
        upTo(0, keys - 1, LAMBDA i : setChild(node, i, C[from + i]) \o setParent(C[from + i], node)
                                     \o setKeySlice(node, i, K[from + i]) \o setKeyCount(node, i + 1))
        \o setChild(node, keys, C[from + keys]) \o setParent(C[from + keys], node)
  IN  [stores |-> setKeyCount(p, 0) \o upTo(0, ORDER - 2, LAMBDA i : setKeySlice(p, i, 0))
                  \o upTo(0, ORDER - 1, LAMBDA i : setChild(p, i, Null))
                  \o part(p, 0, half - 1) \o part(p1, half, ORDER - half),
       k_prime |-> K[half - 1]]

-----------------------------------------------------------------------------
(* What the map holds: the reference the properties use                    *)

\* The keys the calls name.
Keys ==
  UNION {{w.pre[i].key : i \in DOMAIN w.pre} \cup
         UNION {UNION {{c[i].key : i \in DOMAIN c} : c \in w.scripts[t]} : t \in Threads} :
           w \in Workloads}

\* The slots a search of border node n can take its answer from.
LiveSlots(n) ==
  {i \in {getKeyIndex(heap[n].perm, j) : j \in 0 .. getNumKeys(heap[n].perm) - 1} :
     ~isKeyRemoved(heap[n], i)}

\* The nodes of all layers: children, the chain of border nodes, the links to
\* layers below, and the parent of a node that has just stopped to be a root.
Reached ==
  LET near(n) == (IF heap[n].ver.is_root THEN {} ELSE {heap[n].parent}) \cup
                 (IF heap[n].ver.is_border
                  THEN {heap[n].next} \cup {heap[n].lv[i][2] : i \in
                          {j \in LiveSlots(n) : heap[n].lv[j][1] = "node"}}
                  ELSE {heap[n].child[i] : i \in 0 .. heap[n].n_keys})
      grow[S \in SUBSET DOMAIN heap] ==
        LET T == (S \cup UNION {near(n) : n \in S}) \ {Null}
        IN  IF T = S THEN S ELSE grow[T]
  IN  grow[{root} \ {Null}]

\* The values in the nodes and in the hands of a split; a value names the key
\* it was inserted for.
Values ==
  LET lvs == UNION {{heap[n].lv[i] : i \in LiveSlots(n)} :
                      n \in {m \in DOMAIN heap : heap[m].ver.is_border /\ ~heap[m].ver.deleted}}
             \cup UNION {{th[t].tmp[j].lv : j \in DOMAIN th[t].tmp} : t \in Threads}
  IN  {lv[2] : lv \in {l \in lvs : l[1] = "value"}}

Held ==
  LET vs == Values
  IN  [k \in Keys |-> IF \E v \in vs : v.key = k
                       THEN CHOOSE v \in vs : v.key = k ELSE Absent]

-----------------------------------------------------------------------------
(* Calls                                                                   *)

Nothing == [k \in Keys |-> {}]

Rest ==
  [pc |-> "idle", op |-> "none", key |-> Absent, rng |-> Absent, eff |-> FALSE,
   ret |-> Absent, path |-> <<>>, from |-> Null, node |-> Null, ver |-> Version,
   next |-> Null, nver |-> Version, num |-> 0, perm |-> 0, j |-> 0, res |-> "", lv |-> NullLV,
   cur |-> Absent, par |-> Null, pull |-> Null, top |-> Null, up |-> 0, out |-> <<>>,
   tmp |-> <<>>, stores |-> <<>>]

Init ==
  /\ heap = <<>>
  /\ root = Null
  /\ th = [t \in Threads |-> Rest]
  /\ garbage = {}
  /\ failed = ""
  /\ todo \in Workloads
  /\ map = [k \in Keys |-> Absent]
  /\ seen = [t \in Threads |-> Nothing]

\* Thread t at step p moves to step q with its locals changed as in r.
At(t, p) == th[t].pc = p /\ th[t].stores = <<>>
To(t, r) == th' = [th EXCEPT ![t] = r]
Goto(t, q) == To(t, [th[t] EXCEPT !.pc = q])
Return(t, r) == To(t, [Rest EXCEPT !.ret = r])

\* The next of the stores a lock holder has to make.
Store(t) ==
  LET s == Head(th[t].stores)
  IN  /\ th[t].stores # <<>>
      /\ heap' = IF s.index = -1 THEN [heap EXCEPT ![s.node][s.field] = s.value]
                                 ELSE [heap EXCEPT ![s.node][s.field][s.index] = s.value]
      /\ To(t, [th[t] EXCEPT !.stores = Tail(@)])
      /\ UNCHANGED <<root, garbage, failed, todo>>

Cursor(t) == Len(th[t].path) - 1
Nd(t) == heap[th[t].node]

\* An assertion of the code does not hold, or it follows a null pointer: the
\* enclave is built without NDEBUG and stops.
Fail(why) == failed' = why /\ UNCHANGED <<heap, root, th, garbage>>

\* The callers: first one thread makes the calls of pre; when it is done,
\* every thread makes those of one of its scripts.
Resting == \A t \in Threads : At(t, "idle")

Open ==
  /\ ~todo.open
  /\ todo.pre = <<>>
  /\ Resting
  /\ todo' = [todo EXCEPT !.open = TRUE]
  /\ UNCHANGED <<heap, root, th, garbage, failed, map, seen>>

Offered(t) ==
  IF todo.open THEN {Head(c) : c \in todo.scripts[t] \ {<<>>}}
  ELSE IF t = todo.first /\ todo.pre # <<>> THEN {Head(todo.pre)} ELSE {}

Call(t) ==
  /\ At(t, "idle")
  /\ \E c \in Offered(t) :
       /\ To(t, [Rest EXCEPT !.pc = "root", !.op = c.op, !.key = c.key, !.rng = c.rng])
       /\ todo' = IF todo.open
                  THEN [todo EXCEPT !.scripts[t] =
                          {Tail(d) : d \in {e \in @ \ {<<>>} : Head(e) = c}}]
                  ELSE [todo EXCEPT !.pre = Tail(@)]
  /\ UNCHANGED <<heap, root, garbage, failed>>

\* What scan hands over: its status and the list.
Listed(status, list) == [status |-> status, list |-> list]

\* The load of root with which each operation of class Masstree begins. A scan
\* of the empty tree is an error, to which its caller pays no attention.
LoadRoot(t) ==
  /\ At(t, "root")
  /\ IF root = Null
     THEN CASE th[t].op = "get" -> Return(t, Absent)
            [] th[t].op = "remove" -> Return(t, "WARN_NOT_FOUND")
            [] th[t].op = "scan" -> Return(t, Listed("ERROR_CONCURRENT_WRITE_OR_DELETE", <<>>))
            [] th[t].op = "insert" -> Goto(t, "new_tree")
     ELSE To(t, [th[t] EXCEPT !.pc = "find", !.path = <<root>>, !.from = root])
  /\ UNCHANGED <<heap, root, garbage, failed, todo>>

\* start_new_tree and the exchange that makes it the tree. A thread that loses
\* marks its node deleted without holding its lock, which setDeleted asserts.
NewTree(t) ==
  /\ At(t, "new_tree")
  /\ IF root = Null
     THEN /\ heap' = Append(heap,
               [BorderNode EXCEPT !.ver.is_root = TRUE,
                                  !.key_len[0] = keyLen(th[t].key, 0),
                                  !.key_slice[0] = slice(th[t].key, 0),
                                  !.lv[0] = Val([by |-> t, key |-> th[t].key]),
                                  !.suffix[0] = suffixOf(th[t].key, 0)])
          /\ root' = Len(heap) + 1
          /\ To(t, [th[t] EXCEPT !.pc = "done", !.eff = TRUE])
          /\ UNCHANGED <<garbage, failed>>
     ELSE Fail("setDeleted: not locked")
  /\ UNCHANGED todo

Done(t) ==
  /\ At(t, "done")
  /\ Return(t, "OK")
  /\ UNCHANGED <<heap, root, garbage, failed, todo>>

-----------------------------------------------------------------------------
(* findBorder (masstree_node.cpp)                                          *)

\* From what was the root of the layer to what is: the version and the parent
\* are two loads.
FindRoot(t) ==
  LET nd == heap[th[t].from]
  IN  /\ At(t, "find")
      /\ Stable(nd.ver)
      /\ To(t, IF nd.ver.is_root
               THEN [th[t] EXCEPT !.pc = "descend", !.node = th[t].from, !.ver = nd.ver]
               ELSE [th[t] EXCEPT !.pc = "parent"])
      /\ UNCHANGED <<heap, root, garbage, failed, todo>>

FindParent(t) ==
  LET p == heap[th[t].from].parent
  IN  /\ At(t, "parent")
      /\ IF p = Null
         THEN Fail("findBorder: no parent")
         ELSE /\ To(t, [th[t] EXCEPT !.pc = "find", !.from = p])
              /\ UNCHANGED <<heap, root, garbage, failed>>
      /\ UNCHANGED todo

\* findChild: the number of keys, each key and the child are loaded one after
\* another, and the version of the node is not looked at afterwards.
Descend(t) ==
  /\ At(t, "descend")
  /\ IF Nd(t).ver.is_border
     THEN Goto(t, CASE th[t].op = "get" -> "border"
                    [] th[t].op = "scan" -> "scan"
                    [] OTHER -> "lock")
     ELSE To(t, [th[t] EXCEPT !.pc = IF Nd(t).n_keys = 0 THEN "get_child" ELSE "key",
                              !.num = Nd(t).n_keys, !.j = 0])
  /\ UNCHANGED <<heap, root, garbage, failed, todo>>

\* The slice that leads down: scan passes the left key with its cursor at 0.
FindKey(t) ==
  LET j == th[t].j
  IN  /\ At(t, "key")
      /\ To(t, IF slice(th[t].key, Cursor(t)) < Nd(t).ikey[j]
               THEN [th[t] EXCEPT !.pc = "get_child"]
               ELSE [th[t] EXCEPT !.pc = IF j + 1 = th[t].num THEN "get_child" ELSE "key",
                                  !.j = j + 1])
      /\ UNCHANGED <<heap, root, garbage, failed, todo>>

\* The test for nullptr does not keep the next line from following it.
GetChild(t) ==
  LET c == Nd(t).child[th[t].j]
  IN  /\ At(t, "get_child")
      /\ IF c = Null
         THEN Fail("findBorder: no child")
         ELSE /\ To(t, [th[t] EXCEPT !.pc = "child", !.next = c, !.j = 0, !.num = 0])
              /\ UNCHANGED <<heap, root, garbage, failed>>
      /\ UNCHANGED todo

\* The child's version is read twice. Only if it changed in between is the
\* parent looked at again, and a split of the parent starts over.
ChildVersion(t) ==
  LET c == heap[th[t].next]
  IN  /\ At(t, "child")
      /\ Stable(c.ver)
      /\ To(t, [th[t] EXCEPT !.pc = "validate", !.nver = c.ver])
      /\ UNCHANGED <<heap, root, garbage, failed, todo>>

ChildValidate(t) ==
  /\ At(t, "validate")
  /\ \/ /\ ~Changed(heap[th[t].next].ver, th[t].nver)
        /\ To(t, [th[t] EXCEPT !.pc = "descend", !.node = th[t].next, !.ver = th[t].nver])
     \/ /\ Changed(heap[th[t].next].ver, th[t].nver)
        /\ Stable(Nd(t).ver)
        /\ IF Nd(t).ver.v_split # th[t].ver.v_split
           THEN Goto(t, "find")
           ELSE To(t, [th[t] EXCEPT !.pc = "descend", !.ver = Nd(t).ver])
  /\ UNCHANGED <<heap, root, garbage, failed, todo>>

-----------------------------------------------------------------------------
(* masstree_get and masstree_scan                                          *)

\* A deleted root means that the layer is gone; the search of any other
\* deleted node starts again at the root of the layer.
GetBorder(t) ==
  /\ At(t, "border")
  /\ IF th[t].ver.deleted
     THEN IF th[t].ver.is_root
          THEN Return(t, Absent)
          ELSE To(t, [th[t] EXCEPT !.pc = "find", !.from = th[t].path[Len(th[t].path)]])
     ELSE To(t, [th[t] EXCEPT !.pc = "slot", !.perm = Nd(t).perm, !.j = 0])
  /\ UNCHANGED <<heap, root, garbage, failed, todo>>

\* One slot of the permutation that was loaded; its link or value is read later.
GetSlot(t) ==
  LET i == getKeyIndex(th[t].perm, th[t].j)
      r == slotResult(Nd(t), i, th[t].key, Cursor(t))
  IN  /\ At(t, "slot")
      /\ IF th[t].j >= getNumKeys(th[t].perm)
         THEN To(t, [th[t] EXCEPT !.pc = "check", !.lv = NullLV, !.res = "NOTFOUND"])
         ELSE CASE r = "NOTFOUND" -> To(t, [th[t] EXCEPT !.j = @ + 1])
                [] r = "UNSTABLE" -> To(t, [th[t] EXCEPT !.pc = "check", !.res = r])
                [] OTHER -> To(t, [th[t] EXCEPT !.pc = "lv", !.res = r])
      /\ UNCHANGED <<heap, root, garbage, failed, todo>>

GetLV(t) ==
  /\ At(t, "lv")
  /\ To(t, [th[t] EXCEPT !.pc = "check",
                         !.lv = Nd(t).lv[getKeyIndex(th[t].perm, th[t].j)]])
  /\ UNCHANGED <<heap, root, garbage, failed, todo>>

\* The version decides whether what was read counts.
GetCheck(t) ==
  LET l == [th[t] EXCEPT !.perm = 0, !.j = 0, !.lv = NullLV, !.res = ""]
  IN  /\ At(t, "check")
      /\ \/ /\ Changed(Nd(t).ver, th[t].ver)
            /\ Stable(Nd(t).ver)
            /\ To(t, [l EXCEPT !.pc = "forward", !.ver = Nd(t).ver, !.next = Nd(t).next])
            /\ UNCHANGED failed
         \/ /\ ~Changed(Nd(t).ver, th[t].ver)
            /\ CASE th[t].res = "NOTFOUND" -> Return(t, Absent)
                 [] th[t].res = "VALUE" -> Return(t, asValue(th[t].lv))
                 [] th[t].res = "LAYER" ->
                      To(t, [l EXCEPT !.pc = "find", !.path = Append(@, th[t].lv[2]),
                                      !.from = th[t].lv[2]])
                 [] th[t].res = "UNSTABLE" -> To(t, [l EXCEPT !.pc = "border"])
            /\ failed' = IF th[t].res = "LAYER" /\ th[t].lv[1] # "node"
                         THEN "masstree_get: no node below" ELSE failed
      /\ UNCHANGED <<heap, root, garbage, todo>>

\* Follows the chain of border nodes to the one that may hold the slice.
GetForward(t) ==
  LET n == th[t].next
  IN  /\ At(t, "forward")
      /\ IF th[t].ver.deleted \/ n = Null
         THEN Goto(t, "border") /\ UNCHANGED <<heap, root, garbage, failed>>
         ELSE IF getNumKeys(heap[n].perm) = 0
         THEN Fail("getKeyIndex: no key")
         ELSE IF slice(th[t].key, Cursor(t)) < lowestKey(heap[n])
         THEN Goto(t, "border") /\ UNCHANGED <<heap, root, garbage, failed>>
         ELSE /\ Stable(heap[n].ver)
              /\ To(t, [th[t] EXCEPT !.node = n, !.ver = heap[n].ver, !.next = heap[n].next])
              /\ UNCHANGED <<heap, root, garbage, failed>>
      /\ UNCHANGED todo

ScanBorder(t) ==
  /\ At(t, "scan")
  /\ To(t, [th[t] EXCEPT !.pc = "scan_slot", !.perm = Nd(t).perm, !.j = 0])
  /\ UNCHANGED <<heap, root, garbage, failed, todo>>

\* The key of slot i of the first layer, as scan puts it together.
scanKey(nd, i) ==
  CASE nd.key_len[i] = key_len_has_suffix
         -> [slices |-> <<nd.key_slice[i]>> \o nd.suffix[i].slices, last |-> nd.suffix[i].last]
    [] nd.key_len[i] < key_len_has_suffix
         -> [slices |-> <<nd.key_slice[i]>>, last |-> nd.key_len[i]]
    [] OTHER -> [slices |-> <<nd.key_slice[i]>>, last |-> 8]

\* Taking the slices of a suffix pops all but the last of them off the suffix
\* that the node holds.
popped(nd, i) ==
  [nd EXCEPT !.suffix[i].slices =
     IF nd.key_len[i] = key_len_has_suffix THEN SubSeq(@, Len(@), Len(@)) ELSE @]

leftOf(k, c) == KeyLess(k, c.key) \/ (c.rng.l_exclusive /\ k = c.key)
rightOf(k, c) == KeyLess(c.rng.right, k) \/ (c.rng.r_exclusive /\ k = c.rng.right)

ScanSlot(t) ==
  LET i == getKeyIndex(th[t].perm, th[t].j)
      k == scanKey(Nd(t), i)
  IN  /\ At(t, "scan_slot")
      /\ IF th[t].j >= getNumKeys(th[t].perm)
         THEN /\ IF Nd(t).next = Null
                 THEN Return(t, Listed("OK", th[t].out))
                 ELSE To(t, [th[t] EXCEPT !.pc = "scan", !.node = Nd(t).next])
              /\ UNCHANGED heap
         ELSE IF isKeyRemoved(Nd(t), i)
         THEN To(t, [th[t] EXCEPT !.j = @ + 1]) /\ UNCHANGED heap
         ELSE /\ heap' = [heap EXCEPT ![th[t].node] = popped(@, i)]
              /\ CASE leftOf(k, th[t]) -> To(t, [th[t] EXCEPT !.j = @ + 1])
                   [] rightOf(k, th[t]) -> Return(t, Listed("OK", th[t].out))
                   [] OTHER -> To(t, [th[t] EXCEPT !.pc = "scan_lv", !.cur = k])
      /\ UNCHANGED <<root, garbage, failed, todo>>

\* Link and value share their memory: a link passes the test for a value.
ScanLV(t) ==
  LET lv == Nd(t).lv[getKeyIndex(th[t].perm, th[t].j)]
  IN  /\ At(t, "scan_lv")
      /\ To(t, [th[t] EXCEPT !.pc = "scan_slot", !.j = @ + 1, !.cur = Absent,
                  !.out = IF lv = NullLV THEN @
                          ELSE Append(@, [key |-> th[t].cur, value |-> asValue(lv)])])
      /\ UNCHANGED <<heap, root, garbage, failed, todo>>

-----------------------------------------------------------------------------
(* Locking the border node: masstree_insert and remove                     *)

Lock(t) ==
  /\ At(t, "lock")
  /\ ~Nd(t).ver.locked
  /\ heap' = lock(heap, th[t].node)
  /\ To(t, [th[t] EXCEPT !.pc = "locked", !.ver = [Nd(t).ver EXCEPT !.locked = TRUE]])
  /\ UNCHANGED <<root, garbage, failed, todo>>

\* The version is read under the lock, so splitHappened can only compare it
\* with itself: the branch that walks to the next node is never taken.
Found(t, o, result) ==
  /\ At(t, "locked")
  /\ th[t].op = o
  /\ ~th[t].ver.deleted
  /\ search(Nd(t), th[t].key, Cursor(t)).result = result

Index(t) == search(Nd(t), th[t].key, Cursor(t)).index

Again(t) == [th[t] EXCEPT !.pc = "find", !.from = th[t].path[Len(th[t].path)]]

\* Back to the root of the layer above, for which key.back() moves the cursor.
UpperLayer(t) ==
  LET p == SubSeq(th[t].path, 1, Cursor(t))
  IN  IF p = <<>> THEN [th[t] EXCEPT !.pc = "root", !.path = p]
                  ELSE [th[t] EXCEPT !.pc = "find", !.path = p, !.from = p[Len(p)]]

\* Faulty forms: the lock is kept; the search goes on at the deleted root.
FoundDeleted_KeepLock(t) ==
  /\ At(t, "locked")
  /\ th[t].ver.deleted
  /\ CASE ~th[t].ver.is_root -> To(t, Again(t))
       [] th[t].ver.is_root /\ th[t].op = "insert" -> To(t, UpperLayer(t))
       [] OTHER -> Return(t, "OK")
  /\ UNCHANGED <<heap, root, garbage, failed, todo>>


\* The node was deleted before the lock was taken. A remove that meets a
\* deleted root takes its work for done.
FoundDeleted(t) ==
  /\ At(t, "locked")
  /\ th[t].ver.deleted
  /\ heap' = unlock(heap, {th[t].node})
  /\ CASE ~th[t].ver.is_root -> To(t, Again(t))
       [] th[t].ver.is_root /\ th[t].op = "insert" -> To(t, UpperLayer(t))
       [] OTHER -> Return(t, "OK")
  /\ UNCHANGED <<root, garbage, failed, todo>>

NextLayer(t) ==
  /\ \E o \in {"insert", "remove"} : Found(t, o, "LAYER")
  /\ LET l == Nd(t).lv[Index(t)][2]
     IN  To(t, [th[t] EXCEPT !.pc = "find", !.path = Append(@, l), !.from = l])
  /\ heap' = unlock(heap, {th[t].node})
  /\ UNCHANGED <<root, garbage, failed, todo>>

-----------------------------------------------------------------------------
(* masstree_insert                                                         *)

\* What a layer below reports is dropped unless it is RETRY_FROM_UPPER_LAYER.
InsertExists(t) ==
  /\ Found(t, "insert", "VALUE")
  /\ heap' = unlock(heap, {th[t].node})
  /\ Return(t, IF Cursor(t) = 0 THEN "WARN_ALREADY_EXISTS" ELSE "OK")
  /\ UNCHANGED <<root, garbage, failed, todo>>

\* handle_break_invariant: a layer for the key that is there, which is marked
\* UNSTABLE while its value gives way to the link ...
BreakInvariant(t) ==
  LET i  == MinOf(Conflicts(Nd(t), th[t].key, Cursor(t)))
      sf == Nd(t).suffix[i]
      more == Len(sf.slices) > 1
      n1 == [BorderNode EXCEPT
               !.ver.is_root = TRUE, !.upper = th[t].node, !.lv[0] = Nd(t).lv[i],
               !.key_slice[0] = Head(sf.slices),
               !.key_len[0] = IF more THEN key_len_has_suffix ELSE sf.last,
               !.suffix[0] = IF more THEN [sf EXCEPT !.slices = Tail(@)] ELSE None]
  IN  /\ Found(t, "insert", "NOTFOUND")
      /\ Conflicts(Nd(t), th[t].key, Cursor(t)) # {}
      /\ heap' = Append([heap EXCEPT ![th[t].node].key_len[i] = key_len_unstable], n1)
      /\ To(t, [th[t] EXCEPT !.pc = "link", !.j = i, !.next = Len(heap) + 1])
      /\ UNCHANGED <<root, garbage, failed, todo>>

\* ... and the insertion goes on in the new layer.
LinkLayer(t) ==
  LET n == th[t].node
      i == th[t].j
      l == th[t].next
  IN  /\ At(t, "link")
      /\ heap' = unlock([heap EXCEPT ![n].lv[i] = Link(l), ![n].key_len[i] = key_len_layer,
                                     ![n].suffix[i] = None], {n})
      /\ To(t, [th[t] EXCEPT !.pc = "find", !.path = Append(@, l), !.from = l, !.j = 0])
      /\ UNCHANGED <<root, garbage, failed, todo>>


\* insert_to_border: a slot is chosen; to reuse the slot of a removed key the
\* node is marked inserting, which makes readers try again.
InsertReserve(t) ==
  LET i == insertPoint(Nd(t))
  IN  /\ Found(t, "insert", "NOTFOUND")
      /\ Conflicts(Nd(t), th[t].key, Cursor(t)) = {}
      /\ isNotFull(Nd(t).perm)
      /\ heap' = [heap EXCEPT ![th[t].node].ver.inserting = isKeyRemoved(Nd(t), i)]
      /\ To(t, [th[t] EXCEPT !.pc = "write", !.j = i])
      /\ UNCHANGED <<root, garbage, failed, todo>>

InsertWrite(t) ==
  LET n == th[t].node
      i == th[t].j
      c == Cursor(t)
  IN  /\ At(t, "write")
      /\ heap' = [heap EXCEPT ![n].key_len[i] = keyLen(th[t].key, c),
                              ![n].key_slice[i] = slice(th[t].key, c),
                              ![n].suffix[i] = suffixOf(th[t].key, c),
                              ![n].lv[i] = Val([by |-> t, key |-> th[t].key])]
      /\ Goto(t, "publish")
      /\ UNCHANGED <<root, garbage, failed, todo>>

InsertPublish(t) ==
  LET nd == Nd(t)
  IN  /\ At(t, "publish")
      /\ heap' = [heap EXCEPT ![th[t].node].perm =
                    insert(@, insertionIndex(nd, slice(th[t].key, Cursor(t))), th[t].j)]
      /\ To(t, [th[t] EXCEPT !.pc = "unlock", !.eff = TRUE])
      /\ UNCHANGED <<root, garbage, failed, todo>>

InsertUnlock(t) ==
  /\ At(t, "unlock")
  /\ heap' = unlock(heap, {th[t].node})
  /\ Return(t, "OK")
  /\ UNCHANGED <<root, garbage, failed, todo>>

\* split: the node is marked and its slots are emptied, though its permutation
\* still lists them ...
InsertSplit(t) ==
  LET n == th[t].node
      T == sorted(Nd(t), th[t].key, Cursor(t), [by |-> t, key |-> th[t].key])
      h == [heap EXCEPT ![n] = [filled(@, T, 0, 0) EXCEPT !.ver.splitting = TRUE,
                                                          !.perm = fromSorted(ORDER - 1)]]
  IN  /\ Found(t, "insert", "NOTFOUND")
      /\ Conflicts(Nd(t), th[t].key, Cursor(t)) = {}
      /\ ~isNotFull(Nd(t).perm)
      /\ heap' = Append(h, [BorderNode EXCEPT !.ver = h[n].ver])
      /\ To(t, [th[t] EXCEPT !.pc = "spread", !.next = Len(heap) + 1, !.eff = TRUE,
                             !.tmp = T, !.j = cutAt(Nd(t), slice(th[t].key, Cursor(t)))])
      /\ UNCHANGED <<root, garbage, failed, todo>>

\* ... then the keys are spread over it and a new node, which starts with a
\* copy of its version, lock and marks included.
SplitSpread(t) ==
  /\ At(t, "spread")
  /\ heap' = spread(heap, th[t].node, th[t].tmp, th[t].j)
  /\ To(t, [th[t] EXCEPT !.pc = "ascend", !.up = th[t].tmp[th[t].j].slice,
                         !.tmp = <<>>, !.j = 0])
  /\ UNCHANGED <<root, garbage, failed, todo>>

\* create_root_with_children, when the node has no parent. The link of the
\* layer above, under that node's lock, comes before the children.
CreateRoot(t) ==
  LET n  == th[t].node
      n1 == th[t].next
      r  == Len(heap) + 1
      u  == heap[n].upper
      x  == NextLayerIndices(heap[u], n)
      nr == [InteriorNode EXCEPT !.ver.is_root = TRUE, !.ver.locked = TRUE, !.upper = u]
  IN  /\ At(t, "ascend")
      /\ heap[n].parent = Null
      /\ u # Null => ~heap[u].ver.locked
      /\ IF ~heap[n].ver.is_root
         THEN Fail("create_root_with_children: not a root")
         ELSE IF u # Null /\ x = {}
         THEN Fail("findNextLayerIndex: no link")
         ELSE /\ heap' = Append(IF u = Null THEN heap ELSE lock(heap, u), nr)
              /\ To(t, [th[t] EXCEPT !.pc = "new_root", !.par = r, !.top = u, !.stores =
                          (IF u = Null THEN <<>> ELSE PutAt(u, "lv", MinOf(x), Link(r)))
                          \o setKeyCount(r, 1) \o setKeySlice(r, 0, th[t].up)
                          \o setChild(r, 0, n) \o setChild(r, 1, n1)
                          \o setParent(n, r) \o setParent(n1, r)])
              /\ UNCHANGED <<root, garbage, failed>>
      /\ UNCHANGED todo

NewRoot(t) ==
  LET n  == th[t].node
      n1 == th[t].next
      h1 == [heap EXCEPT ![n].upper = Null, ![n].ver.is_root = FALSE, ![n1].ver.is_root = FALSE]
  IN  /\ At(t, "new_root")
      /\ heap' = unlock(h1, {n, n1, th[t].par, th[t].top} \ {Null})
      /\ IF Cursor(t) = 0
         THEN To(t, [th[t] EXCEPT !.pc = "store_root", !.next = th[t].par, !.par = Null])
         ELSE Return(t, "OK")
      /\ UNCHANGED <<root, garbage, failed, todo>>

\* insert_value stores the new root without looking at the old one.
StoreRoot(t) ==
  /\ At(t, "store_root")
  /\ root' = th[t].next
  /\ Return(t, "OK")
  /\ UNCHANGED <<heap, garbage, failed, todo>>

InsertIntoParent(t) ==
  LET n  == th[t].node
      n1 == th[t].next
      p  == heap[n].parent
      nd == heap[p]
  IN  /\ At(t, "ascend")
      /\ p # Null
      /\ ~nd.ver.locked
      /\ nd.n_keys # ORDER - 1
      /\ heap' = [heap EXCEPT ![p].ver.locked = TRUE, ![p].ver.inserting = TRUE]
      /\ To(t, [th[t] EXCEPT !.pc = "inserted", !.par = p, !.stores =
                  insertChild(p, nd, n1, th[t].up, MinOf(ChildIndices(nd, n))) \o setParent(n1, p)])
      /\ UNCHANGED <<root, garbage, failed, todo>>

ParentInserted(t) ==
  /\ At(t, "inserted")
  /\ heap' = unlock(heap, {th[t].node, th[t].next, th[t].par})
  /\ Return(t, "OK")
  /\ UNCHANGED <<root, garbage, failed, todo>>

\* A full parent is split in turn; the node is unlocked before that.
SplitParent(t) ==
  LET n  == th[t].node
      p  == heap[n].parent
      nd == heap[p]
      p1 == Len(heap) + 1
      sp == splitInterior(p, nd, p1, th[t].next, th[t].up, MinOf(ChildIndices(nd, n)))
      h1 == [heap EXCEPT ![p].ver.locked = TRUE, ![p].ver.splitting = TRUE]
  IN  /\ At(t, "ascend")
      /\ p # Null
      /\ ~nd.ver.locked
      /\ nd.n_keys = ORDER - 1
      /\ heap' = Append(unlock(h1, {n}), [InteriorNode EXCEPT !.ver = h1[p].ver])
      /\ To(t, [th[t] EXCEPT !.pc = "parted", !.node = p, !.par = p1,
                             !.up = sp.k_prime, !.stores = sp.stores])
      /\ UNCHANGED <<root, garbage, failed, todo>>

ParentSplit(t) ==
  /\ At(t, "parted")
  /\ heap' = unlock(heap, {th[t].next})
  /\ To(t, [th[t] EXCEPT !.pc = "ascend", !.next = th[t].par, !.par = Null])
  /\ UNCHANGED <<root, garbage, failed, todo>>

-----------------------------------------------------------------------------
(* remove (masstree_remove.cpp)                                            *)

RemoveNotFound(t) ==
  /\ Found(t, "remove", "NOTFOUND")
  /\ heap' = unlock(heap, {th[t].node})
  /\ Return(t, IF Cursor(t) = 0 THEN "WARN_NOT_FOUND" ELSE "OK")
  /\ UNCHANGED <<root, garbage, failed, todo>>

\* The only key of a layer below the first goes up before it is removed.
LastOfLayer(t) ==
  Nd(t).ver.is_root /\ getNumKeys(Nd(t).perm) = 1 /\ Cursor(t) # 0

RemoveMark(t) ==
  LET i == Index(t)
  IN  /\ Found(t, "remove", "VALUE")
      /\ ~LastOfLayer(t)
      /\ heap' = [heap EXCEPT ![th[t].node].key_len[i] = @ + 9]
      /\ To(t, [th[t] EXCEPT !.pc = "unperm", !.j = i, !.eff = TRUE])
      /\ UNCHANGED <<root, garbage, failed, todo>>

RemovePerm(t) ==
  LET p  == removeIndex(Nd(t).perm, th[t].j)
      h1 == [heap EXCEPT ![th[t].node].perm = p]
  IN  /\ At(t, "unperm")
      /\ IF getNumKeys(p) = 0
         THEN heap' = h1 /\ Goto(t, "empty")
         ELSE heap' = unlock(h1, {th[t].node}) /\ Return(t, "OK")
      /\ UNCHANGED <<root, garbage, failed, todo>>

\* handle_delete_layer_in_remove: a suffix gets its slice back in place ...
DeleteLayer(t) ==
  LET i == getKeyIndex(Nd(t).perm, 0)
  IN  /\ Found(t, "remove", "VALUE")
      /\ LastOfLayer(t)
      /\ IF Nd(t).upper = Null
         THEN Fail("handle_delete_layer_in_remove: no upper layer")
         ELSE /\ heap' = [heap EXCEPT ![th[t].node].suffix[i].slices =
                            IF @ = <<>> THEN @ ELSE <<Nd(t).key_slice[i]>> \o @]
              /\ To(t, [th[t] EXCEPT !.pc = "collapse", !.j = i])
              /\ UNCHANGED <<root, garbage, failed>>
      /\ UNCHANGED todo

\* ... the slot above is locked and marked UNSTABLE ...
LockUpper(t) ==
  LET u == Nd(t).upper
      x == NextLayerIndices(heap[u], th[t].node)
  IN  /\ At(t, "collapse")
      /\ ~heap[u].ver.locked
      /\ IF x = {}
         THEN Fail("findNextLayerIndex: no link")
         ELSE /\ heap' = [heap EXCEPT ![u].ver.locked = TRUE,
                                      ![u].key_len[MinOf(x)] = key_len_unstable]
              /\ To(t, [th[t] EXCEPT !.pc = "moveup", !.top = u, !.up = MinOf(x)])
              /\ UNCHANGED <<root, garbage, failed>>
      /\ UNCHANGED todo

\* ... and gets the key and its value back. The removal starts over there.
MoveUp(t) ==
  LET n  == th[t].node
      u  == th[t].top
      i  == th[t].j
      nd == heap[n]
      sf == IF nd.key_len[i] = key_len_has_suffix THEN nd.suffix[i]
            ELSE [slices |-> <<nd.key_slice[i]>>, last |-> nd.key_len[i]]
      h1 == [heap EXCEPT ![u].suffix[th[t].up] = sf, ![u].lv[th[t].up] = nd.lv[i],
                         ![u].key_len[th[t].up] = key_len_has_suffix,
                         ![n].lv[i] = NullLV, ![n].suffix[i] = None]
  IN  /\ At(t, "moveup")
      /\ heap' = unlock(retire(h1, {n}), {n, u})
      /\ garbage' = garbage \cup {n}
      /\ To(t, [UpperLayer(t) EXCEPT !.j = 0, !.top = Null, !.up = 0])
      /\ UNCHANGED <<root, failed, todo>>

\* Faulty form: the collector is given the parent, which a root has not.
EmptyBorder_Parent(t) ==
  LET n == th[t].node
  IN  /\ At(t, "empty")
      /\ IF Nd(t).ver.is_root
         THEN /\ heap' = unlock(retire(heap, {n}), {n})
              /\ garbage' = garbage \cup {Nd(t).parent}
              /\ Goto(t, "cas_root")
         ELSE /\ To(t, [th[t] EXCEPT !.pc = "leave", !.par = Nd(t).parent])
              /\ UNCHANGED <<heap, garbage>>
      /\ UNCHANGED <<root, failed, todo>>

\* delete_borderNode_in_remove: an empty border node goes. The parent is read
\* here and locked in the next step, without a second look at it.
EmptyBorder(t) ==
  LET n == th[t].node
  IN  /\ At(t, "empty")
      /\ IF Nd(t).ver.is_root
         THEN /\ heap' = unlock(retire(heap, {n}), {n})
              /\ garbage' = garbage \cup {n}
              /\ Goto(t, "cas_root")
              /\ UNCHANGED <<root, failed>>
         ELSE IF Nd(t).parent = Null
         THEN Fail("delete_borderNode_in_remove: no parent")
         ELSE /\ To(t, [th[t] EXCEPT !.pc = "leave", !.par = Nd(t).parent])
              /\ UNCHANGED <<heap, root, garbage, failed>>
      /\ UNCHANGED todo

\* A parent of more than two children drops the child and one key.
LeaveParent(t) ==
  LET p == th[t].par
      x == ChildIndices(heap[p], th[t].node)
  IN  /\ At(t, "leave")
      /\ ~heap[p].ver.locked
      /\ x = {} \/ heap[p].n_keys >= 2
      /\ IF x = {}
         THEN Fail("findChildIndex: not a child")
         ELSE /\ heap' = [heap EXCEPT ![p].ver.locked = TRUE, ![p].ver.inserting = TRUE]
              /\ To(t, [th[t] EXCEPT !.pc = "connect", !.stores = dropChild(p, heap[p], MinOf(x))])
              /\ UNCHANGED <<root, garbage, failed>>
      /\ UNCHANGED todo

\* A parent of two children goes as well and the other child takes its place:
\* that of the root, for which the layer above is locked if there is one, ...
PullUp(t) ==
  LET n    == th[t].node
      p    == th[t].par
      x    == ChildIndices(heap[p], n)
      pull == heap[p].child[IF MinOf(x) = 1 THEN 0 ELSE 1]
  IN  /\ At(t, "leave")
      /\ ~heap[p].ver.locked
      /\ x # {}
      /\ heap[p].n_keys = 1
      /\ heap' = lock(heap, p)
      /\ To(t, IF heap[p].ver.is_root
               THEN [th[t] EXCEPT !.pc = "pull_root", !.pull = pull]
               ELSE [th[t] EXCEPT !.pc = "pull_child", !.pull = pull, !.top = heap[p].parent])
      /\ UNCHANGED <<root, garbage, failed, todo>>

\* The version of the node pulled up is changed by a load and a store without
\* its lock: what its holder does in between is lost.
PullRoot(t) ==
  LET u == heap[th[t].par].upper
  IN  /\ At(t, "pull_root")
      /\ u # Null => ~heap[u].ver.locked
      /\ heap' = IF u = Null THEN heap ELSE lock(heap, u)
      /\ To(t, [th[t] EXCEPT !.pc = "set_root", !.top = u, !.nver = heap[th[t].pull].ver])
      /\ UNCHANGED <<root, garbage, failed, todo>>

\* Below the first layer the new root is not told which node it hangs under.
SetRoot(t) ==
  LET u  == th[t].top
      x  == NextLayerIndices(heap[u], th[t].par)
      h1 == [heap EXCEPT ![th[t].pull].ver = [th[t].nver EXCEPT !.is_root = TRUE],
                         ![th[t].pull].parent = Null]
  IN  /\ At(t, "set_root")
      /\ IF u # Null /\ x = {}
         THEN Fail("findNextLayerIndex: no link")
         ELSE /\ heap' = IF u = Null THEN [h1 EXCEPT ![th[t].pull].upper = Null]
                         ELSE [h1 EXCEPT ![u].lv[MinOf(x)] = Link(th[t].pull)]
              /\ Goto(t, "connect")
              /\ UNCHANGED <<root, garbage, failed>>
      /\ UNCHANGED todo

\* ... or that of the child of its parent.
PullChild(t) ==
  LET g == th[t].top
      x == ChildIndices(heap[g], th[t].par)
  IN  /\ At(t, "pull_child")
      /\ ~heap[g].ver.locked
      /\ IF x = {}
         THEN Fail("findChildIndex: not a child")
         ELSE /\ heap' = lock(heap, g)
              /\ To(t, [th[t] EXCEPT !.pc = "connect", !.stores =
                          setChild(g, MinOf(x), th[t].pull) \o setParent(th[t].pull, g)])
              /\ UNCHANGED <<root, garbage, failed>>
      /\ UNCHANGED todo

\* connectPrevAndNext waits for the previous node; then the nodes that go are
\* retired and all locks are released.
Connect(t) ==
  LET n    == th[t].node
      prv  == Nd(t).prev
      nxt  == Nd(t).next
      gone == {n} \cup (IF th[t].pull = Null THEN {} ELSE {th[t].par})
      h1   == [a \in DOMAIN heap |->
                 [heap[a] EXCEPT !.next = IF a = prv THEN nxt ELSE @,
                                 !.prev = IF a = nxt THEN prv ELSE @]]
  IN  /\ At(t, "connect")
      /\ prv # Null => ~heap[prv].ver.locked /\ ~heap[prv].ver.deleted
      /\ IF prv # Null /\ nxt # Null /\ heap[nxt].ver.deleted
         THEN Fail("connectPrevAndNext: next is deleted")
         ELSE IF gone \cap garbage # {}
         THEN Fail("GarbageCollector::add: twice")
         ELSE /\ heap' = unlock(retire(h1, gone), {n, th[t].par, th[t].top} \ {Null})
              /\ garbage' = garbage \cup gone
              /\ IF th[t].pull # Null /\ heap[th[t].par].ver.is_root /\ Cursor(t) = 0
                 THEN Goto(t, "cas_root")
                 ELSE Return(t, "OK")
              /\ UNCHANGED <<root, failed>>
      /\ UNCHANGED todo

\* remove_value: the root that was loaded gives way to the new one, which is
\* null when the tree became empty; if it is not the root any more, RETRY.
CasRoot(t) ==
  /\ At(t, "cas_root")
  /\ IF root = th[t].path[1]
     THEN root' = th[t].pull /\ Return(t, "OK")
     ELSE /\ To(t, [Rest EXCEPT !.pc = "root", !.op = "remove", !.key = th[t].key, !.eff = th[t].eff])
          /\ UNCHANGED root
  /\ UNCHANGED <<heap, garbage, failed, todo>>

-----------------------------------------------------------------------------
(* The specification                                                       *)

Reader(t) ==
  \/ FindRoot(t) \/ FindParent(t) \/ Descend(t) \/ FindKey(t) \/ GetChild(t) \/ ChildVersion(t) \/ ChildValidate(t)
  \/ GetBorder(t) \/ GetSlot(t) \/ GetLV(t) \/ GetCheck(t) \/ GetForward(t)
  \/ ScanBorder(t) \/ ScanSlot(t) \/ ScanLV(t)

Inserter(t) ==
  \/ NewTree(t) \/ Done(t) \/ InsertExists(t) \/ BreakInvariant(t) \/ LinkLayer(t)
  \/ InsertReserve(t) \/ InsertWrite(t) \/ InsertPublish(t) \/ InsertUnlock(t)
  \/ InsertSplit(t) \/ SplitSpread(t) \/ CreateRoot(t) \/ NewRoot(t) \/ StoreRoot(t)
  \/ InsertIntoParent(t) \/ ParentInserted(t) \/ SplitParent(t) \/ ParentSplit(t)

Remover(t) ==
  \/ RemoveNotFound(t) \/ RemoveMark(t) \/ RemovePerm(t)
  \/ DeleteLayer(t) \/ LockUpper(t) \/ MoveUp(t)
  \/ EmptyBorder(t) \/ LeaveParent(t) \/ PullUp(t) \/ PullRoot(t)
  \/ SetRoot(t) \/ PullChild(t) \/ Connect(t) \/ CasRoot(t)

\* Each call keeps what the map held for each key since it was made.
Watch ==
  /\ map' = IF heap' = heap THEN map ELSE Held'
  /\ seen' = [t \in Threads |->
                CASE th'[t].op = "none" -> Nothing
                  [] th'[t].op # "none" /\ th[t].op = "none" -> [k \in Keys |-> {map'[k]}]
                  [] OTHER -> [k \in Keys |-> seen[t][k] \cup {map'[k]}]]

Move(t) ==
  /\ failed = ""
  /\ \/ Store(t) \/ Call(t) \/ LoadRoot(t) \/ Lock(t) \/ FoundDeleted(t) \/ NextLayer(t)
     \/ Reader(t) \/ Inserter(t) \/ Remover(t)

Step(t) == Move(t) /\ Watch

\* Nothing is left to call.
Finished ==
  /\ Resting
  /\ todo.open
  /\ \A t \in Threads : Offered(t) = {}
  /\ UNCHANGED vars

Next == (\E t \in Threads : Step(t)) \/ Open \/ Finished

\* Every thread goes on: a spinning wait ends when what it waits for happens.
Spec == Init /\ [][Next]_vars /\ \A t \in Threads : WF_th(Move(t))

-----------------------------------------------------------------------------
(* Properties                                                              *)

\* The shape of the state.
TypeOK ==
  /\ root \in 0 .. Len(heap)
  /\ garbage \subseteq DOMAIN heap
  /\ \A n \in DOMAIN heap :
       /\ DOMAIN heap[n] = DOMAIN BorderNode
       /\ DOMAIN heap[n].ver = DOMAIN Version
       /\ heap[n].n_keys \in 0 .. ORDER - 1
       /\ {heap[n].parent, heap[n].upper, heap[n].next, heap[n].prev} \subseteq 0 .. Len(heap)
  /\ \A t \in Threads :
       /\ DOMAIN th[t] = DOMAIN Rest
       /\ {th[t].node, th[t].from, th[t].next, th[t].par} \subseteq 0 .. Len(heap)

\* The refinement mapping to AtomicMap: what a caller of the tree sees.
InRange(c, k) == ~leftOf(k, c) /\ ~rightOf(k, c)

Calls ==
  [t \in Threads |-> [op |-> th[t].op, key |-> th[t].key, rng |-> th[t].rng,
                      eff |-> th[t].eff, ret |-> th[t].ret]]

Map == INSTANCE AtomicMap WITH call <- Calls, Before <- KeyLess



\* Where findBorder comes out for slice s, below node r.
Route(r, s) ==
  LET at[i \in 0 .. Len(heap)] ==
        IF i = 0 THEN r
        ELSE LET n == at[i - 1]
             IN  IF heap[n].ver.is_border THEN n ELSE findChild(heap[n], s)
  IN  at[Len(heap)]

LayerRoot(n) ==
  LET up[i \in 0 .. Len(heap)] ==
        IF i = 0 THEN n
        ELSE LET m == up[i - 1]
             IN  IF heap[m].ver.is_root THEN m ELSE heap[m].parent
  IN  up[Len(heap)]

Borders == {n \in Reached : heap[n].ver.is_border}

\* When no call is open, the interior nodes of a layer lead every slice to the
\* border node that holds it, after any splits and deletions of nodes.
RoutedRight ==
  Resting => \A n \in Borders : \A i \in LiveSlots(n) :
               Route(LayerRoot(n), heap[n].key_slice[i]) = n

\* When no call is open, the permutation lists a node's keys in the order of
\* their slices, each slot once, and the border nodes of a layer form a doubly
\* linked chain in that order: what scan walks along.
ChainInOrder ==
  Resting => \A n \in Borders :
    LET o == Order(heap[n].perm)
        m == heap[n].next
    IN  /\ \A i, j \in DOMAIN o : i < j =>
             o[i] # o[j] /\ heap[n].key_slice[o[i]] <= heap[n].key_slice[o[j]]
        /\ m # Null =>
             /\ heap[m].prev = n
             /\ \A i \in LiveSlots(n), j \in LiveSlots(m) :
                  heap[n].key_slice[i] < heap[m].key_slice[j]

\* When no call is open no node is locked or marked, the nodes of the tree are
\* not deleted, and the collector holds exactly the deleted nodes, which
\* nothing in the tree leads to.
NothingLeftBehind ==
  Resting =>
    /\ \A n \in DOMAIN heap : ~heap[n].ver.locked /\ Stable(heap[n].ver)
    /\ garbage = {n \in DOMAIN heap : heap[n].ver.deleted}
    /\ garbage \cap Reached = {}

=============================================================================
