------------------------------ MODULE SkipList ------------------------------
(***************************************************************************)
(* ConcurrentSkipList of src/shuaikv/lsm/skiplist.hpp, the memtable's      *)
(* store.  Every operation runs under the test-and-set spin lock lock_, so *)
(* each is one atomic step here.                                           *)
(*                                                                         *)
(* Nodes are numbered: 0 is head_, 1..MaxNodes the nodes Put allocates, in *)
(* allocation order.  A node's nexts vector is its size sz[i] and the      *)
(* memory nx[i] of MaxLevel pointer slots behind it: a slot at or beyond   *)
(* the size is outside the vector.  Reading or writing such a slot is      *)
(* undefined behaviour; of its outcomes the model takes the one a heap     *)
(* allocator with slack after small blocks produces (the slot is plain     *)
(* memory, initially null, that keeps what was written to it), and         *)
(* records the access in ub.  A deleted node's memory is kept as it was,   *)
(* and reading it is recorded too.                                         *)
(***************************************************************************)
EXTENDS Naturals, Sequences, FiniteSets

CONSTANTS
    Key,        \* keys, naturals > 0 in std::string order
    Val,        \* values
    MaxLevel,   \* bound on RandLevel() (geometric, unbounded in the code)
    MaxNodes,   \* bound on the nodes Put allocates
    Nil,        \* nullptr
    NotFound    \* Get returned false

Ids == 0..MaxNodes
Slots == 0..MaxLevel - 1

VARIABLES
    nx,         \* node -> slot -> node or Nil: the memory of each nexts vector
    sz,         \* node -> nexts.size()
    key,        \* node -> its key (0 for head_ and unallocated nodes)
    val,        \* node -> its value
    alloc,      \* nodes allocated so far
    freed,      \* nodes deleted
    cnt,        \* size_
    ub,         \* the kinds of undefined access made so far: "oob", "uaf"
    lastGet     \* the last Get: its key and what it returned

vars == <<nx, sz, key, val, alloc, freed, cnt, ub, lastGet>>

\* Reading p->nexts[l]: out of range when l >= size, after free when p is
\* deleted; reading the key of the node it points to, after free when that
\* node is deleted.
ReadUB(sizes, p, l, q) ==
    (IF l >= sizes[p] THEN {"oob"} ELSE {})
    \cup (IF p \in freed \/ (q # Nil /\ q \in freed) THEN {"uaf"} ELSE {})

\* while (p->nexts[level] && p->nexts[level]->key < key) p = p->nexts[level];
RECURSIVE Walk(_, _, _, _, _, _, _)
Walk(mem, sizes, keys, p, l, k, u) ==
    LET q == mem[p][l]
        u1 == u \cup ReadUB(sizes, p, l, q)
    IN IF q # Nil /\ keys[q] < k THEN Walk(mem, sizes, keys, q, l, k, u1)
       ELSE [p |-> p, ub |-> u1]

\* The search loop from the top level of head_ down to level 0; path holds
\* the nodes where it left the levels above 0.
RECURSIVE Descend(_, _, _, _, _, _, _, _)
Descend(mem, sizes, keys, p, l, k, u, path) ==
    IF l < 0 THEN [p |-> p, ub |-> u, path |-> path]
    ELSE LET w == Walk(mem, sizes, keys, p, l, k, u)
         IN Descend(mem, sizes, keys, w.p, l - 1, k, w.ub,
                    IF l > 0 THEN path \cup {w.p} ELSE path)

Search(mem, sizes, keys, k, u) == Descend(mem, sizes, keys, 0, sizes[0] - 1, k, u, {})

\* nexts.resize(s, nullptr) on every node of G: the new slots are set to
\* null, a shrink leaves the memory as it was.
Resize(mem, sizes, G, s) ==
    [i \in Ids |-> IF i \in G
                   THEN [l \in Slots |-> IF sizes[i] <= l /\ l < s THEN Nil ELSE mem[i][l]]
                   ELSE mem[i]]
Resized(sizes, G, s) == [i \in Ids |-> IF i \in G THEN s ELSE sizes[i]]

\* The insertion loop of Put, from level l down: walk from p, and below
\* new_level link node after p (p->nexts[level] = node, out of range when
\* level >= p's size).
RECURSIVE Link(_, _, _, _, _, _, _, _, _)
Link(mem, sizes, keys, p, l, k, node, lvl, u) ==
    IF l < 0 THEN [mem |-> mem, ub |-> u]
    ELSE LET w == Walk(mem, sizes, keys, p, l, k, u)
             q == w.p
         IN IF l < lvl
            THEN Link([mem EXCEPT ![node][l] = mem[q][l], ![q][l] = node],
                      sizes, keys, q, l - 1, k, node, lvl,
                      w.ub \cup (IF l >= sizes[q] THEN {"oob"} ELSE {}))
            ELSE Link(mem, sizes, keys, q, l - 1, k, node, lvl, w.ub)

\* The scan of Delete: per level, the predecessor prev_nodes[level] and the
\* node with the key, targets[level], if prev->nexts[level] holds it.
RECURSIVE DelScan(_, _, _, _, _, _)
DelScan(p, l, k, u, prevs, targets) ==
    IF l < 0 THEN [prevs |-> prevs, targets |-> targets, ub |-> u]
    ELSE LET w == Walk(nx, sz, key, p, l, k, u)
             q == nx[w.p][l]
         IN DelScan(w.p, l - 1, k, w.ub, [prevs EXCEPT ![l] = w.p],
                    IF q # Nil /\ key[q] = k THEN [targets EXCEPT ![l] = q] ELSE targets)

\* The unlink loop of Delete, from level l down:
\* prev_nodes[level]->nexts[level] = targets[level]->nexts[level].
RECURSIVE Unlink(_, _, _, _, _)
Unlink(mem, l, prevs, targets, u) ==
    IF l < 0 THEN [mem |-> mem, ub |-> u]
    ELSE IF targets[l] = Nil THEN Unlink(mem, l - 1, prevs, targets, u)
    ELSE Unlink([mem EXCEPT ![prevs[l]][l] = mem[targets[l]][l]], l - 1, prevs, targets,
                u \cup ReadUB(sz, targets[l], l, Nil))

\* The end of Delete: drop the empty top levels of head_, keeping one.
RECURSIVE HeadSize(_, _)
HeadSize(mem, s) == IF s > 1 /\ mem[0][s - 1] = Nil THEN HeadSize(mem, s - 1) ELSE s

\* Get: search, then compare p->nexts[0]->key with key.
GetResult(k) ==
    LET d == Search(nx, sz, key, k, {})
        q == nx[d.p][0]
    IN [ret |-> IF q # Nil /\ key[q] = k THEN val[q] ELSE NotFound,
        ub |-> d.ub \cup ReadUB(sz, d.p, 0, q)]

TypeOK ==
    /\ nx \in [Ids -> [Slots -> Ids \cup {Nil}]]
    /\ sz \in [Ids -> 0..MaxLevel]
    /\ alloc \in 0..MaxNodes /\ freed \subseteq 1..alloc
    /\ cnt \in 0..MaxNodes
    /\ ub \subseteq {"oob", "uaf"}

\* ConcurrentSkipList(): head_ with one null pointer.
Init ==
    /\ nx = [i \in Ids |-> [l \in Slots |-> Nil]]
    /\ sz = [i \in Ids |-> IF i = 0 THEN 1 ELSE 0]
    /\ key = [i \in Ids |-> 0]
    /\ val = [i \in Ids |-> NotFound]
    /\ alloc = 0 /\ freed = {} /\ cnt = 0 /\ ub = {}
    /\ lastGet = [key |-> CHOOSE k \in Key : TRUE, ret |-> NotFound]

\* ConcurrentSkipList::Get.
Get(k) ==
    LET g == GetResult(k)
    IN /\ lastGet' = [key |-> k, ret |-> g.ret]
       /\ ub' = ub \cup g.ub
       /\ UNCHANGED <<nx, sz, key, val, alloc, freed, cnt>>

\* ConcurrentSkipList::Put when the key is present: overwrite the value.
PutUpdate(k, v) ==
    LET d == Search(nx, sz, key, k, ub)
        q == nx[d.p][0]
    IN /\ q # Nil /\ key[q] = k
       /\ val' = [val EXCEPT ![q] = v]
       /\ ub' = d.ub \cup ReadUB(sz, d.p, 0, q)
       /\ UNCHANGED <<nx, sz, key, alloc, freed, cnt, lastGet>>

\* ConcurrentSkipList::Put of a new key with RandLevel() = lvl.  If lvl is
\* above head_'s height, head_ and the search path grow to lvl and the
\* position is searched again from head_; otherwise the insertion loop
\* starts from the level-0 predecessor p the first search ended at.  The
\* new node's nexts grows to head_'s height.
PutInsert(k, v, lvl) ==
    LET d == Search(nx, sz, key, k, ub)
        q == nx[d.p][0]
        node == alloc + 1
        grow == lvl > sz[0]
        mem1 == IF grow THEN Resize(nx, sz, {0} \cup d.path, lvl) ELSE nx
        sz1 == IF grow THEN Resized(sz, {0} \cup d.path, lvl) ELSE sz
        keys == [key EXCEPT ![node] = k]
        d1 == IF grow THEN Search(mem1, sz1, keys, k, d.ub) ELSE d
        sz2 == Resized(sz1, {node}, IF sz1[0] > lvl THEN sz1[0] ELSE lvl)
        ln == Link(Resize(mem1, Resized(sz1, {node}, lvl), {node}, sz2[node]),
                   sz2, keys, d1.p, sz2[0] - 1, k, node, lvl,
                   d1.ub \cup ReadUB(sz, d.p, 0, q))
    IN /\ ~(q # Nil /\ key[q] = k)
       /\ alloc < MaxNodes
       /\ nx' = ln.mem
       /\ sz' = sz2
       /\ key' = keys
       /\ val' = [val EXCEPT ![node] = v]
       /\ alloc' = node
       /\ cnt' = cnt + 1
       /\ ub' = ln.ub
       /\ UNCHANGED <<freed, lastGet>>

\* ConcurrentSkipList::Delete: unlink the key's node on every level where
\* the scan found it; if level 0 held it, free it and shrink head_.
Delete(k) ==
    LET s == DelScan(0, sz[0] - 1, k, ub, [l \in Slots |-> Nil], [l \in Slots |-> Nil])
        un == Unlink(nx, sz[0] - 1, s.prevs, s.targets, s.ub)
        t == s.targets[0]
    IN /\ nx' = un.mem
       /\ ub' = un.ub
       /\ IF t = Nil
          THEN UNCHANGED <<sz, freed, cnt>>
          ELSE /\ sz' = [sz EXCEPT ![0] = HeadSize(un.mem, sz[0])]
               /\ freed' = freed \cup {t}
               /\ cnt' = cnt - 1
       /\ UNCHANGED <<key, val, alloc, lastGet>>

\* RandLevel(): 1, plus one for every GlobalRand() & 3 = 0 in a row, a
\* geometric draw that is cut at MaxLevel.
RandLevel == 1..MaxLevel

Next ==
    \/ \E k \in Key : Get(k) \/ Delete(k)
    \/ \E k \in Key, v \in Val : PutUpdate(k, v) \/ \E lvl \in RandLevel : PutInsert(k, v, lvl)

Spec == Init /\ [][Next]_vars

-----------------------------------------------------------------------------
\* Every index of a nexts vector that the operations use is below its
\* size (std::vector::operator[] requires it).
NoOutOfRangeAccess == "oob" \notin ub

=============================================================================
