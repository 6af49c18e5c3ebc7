---------------------------- MODULE ConcurrentLRU ----------------------------
(***************************************************************************)
(* cpputil::cache::ConcurrentLRUCache and Concurrent2LRUCache              *)
(* (src/shuaikv/cache/concurrent_cache.hpp) over cpputil::list::List       *)
(* (list.hpp) and CMSketch4Bits (cm_sketch.hpp).                           *)
(*                                                                         *)
(* A ConcurrentLRUCache is map_ (a boost::concurrent_flat_map from key to  *)
(* list node) and list_ (a doubly linked list, most recently used first),  *)
(* guarded by list_mutex_.  Every Put first visits map_ under the mutex,   *)
(* releases it, and takes it again to insert: each locked section is one   *)
(* step here, and the rvalue Put's map_.emplace, made after the second     *)
(* unlock, is a step of its own.  A value converts to its own key.         *)
(*                                                                         *)
(* The model holds one ConcurrentLRUCache, LRU, called directly, the     *)
(* shards of a ConcurrentBucketLRUCache, and the two segments of one       *)
(* Concurrent2LRUCache, Window and Main, with its count-min sketch and     *)
(* refresh thread; that cache may stand alone or be the shard of a         *)
(* ConcurrentBucket2LRUCache the keys fall in.                             *)
(*                                                                         *)
(* Nodes are allocated by new and freed when the unique_ptr PopBack        *)
(* returns goes out of scope; heap holds the live ones.  Dereferencing a   *)
(* freed node is undefined behaviour: the model sets ub and stops there.   *)
(***************************************************************************)
EXTENDS Naturals, Sequences, SequencesExt, FiniteSets, Functions, Bitwise

CONSTANTS
    LRUCapacity,  \* capacity_ of the ConcurrentLRUCache
    LRUPromote,   \* its should_promote_num_
    TwoCapacity,  \* the capacity Concurrent2LRUCache is constructed with
    WindowRatio,  \* its ratio (window_ratio_, 1..100)
    Keys,         \* the int values (and keys) the caches are called with
    Threads,      \* the threads calling the caches
    BucketCapacity, \* the capacity ConcurrentBucketLRUCache is constructed with
    MaxNodes      \* bound on the nodes the model allocates

ASSUME /\ LRUCapacity \in Nat \ {0} /\ LRUPromote \in Nat
       /\ TwoCapacity \in Nat \ {0} /\ WindowRatio \in 1..100
       /\ Keys \subseteq Nat /\ MaxNodes \in Nat /\ BucketCapacity \in Nat
       /\ \A k, j \in Keys : k & 63 = j & 63  \* one shard of the 2LRU bucket cache

\* A cache is named by its class and shard: the ConcurrentLRUCache called
\* directly, the two segments of the Concurrent2LRUCache, and the shards
\* of a ConcurrentBucketLRUCache (ShardBits 6) the keys fall in.
LRU == <<"lru", 0>>
Window == <<"window", 0>>
Main == <<"main", 0>>
Bucket(s) == <<"bucket", s>>

\* GetShard: std::hash<int> is the identity, masked by shard_mask_ = 63.
ShardOf(k) == Bucket(k & 63)

Caches == {LRU, Window, Main} \cup {ShardOf(k) : k \in Keys}

\* Concurrent2LRUCache(capacity, ratio): the window gets ratio percent
\* (at least 1), the main segment the rest (at least 1); both are
\* ConcurrentLRUCache(capacity) with the default should_promote_num 8.
WindowShare == (TwoCapacity * WindowRatio) \div 100
WindowCapacity == IF WindowShare = 0 THEN 1 ELSE WindowShare
MainCapacity == IF TwoCapacity - WindowCapacity = 0 THEN 1
                ELSE TwoCapacity - WindowCapacity

\* ConcurrentBucketLRUCache(name, capacity): every shard is a default
\* ConcurrentLRUCache (should_promote_num 8) given Reserve((capacity >> 6) + 1).
ShardCapacity == (BucketCapacity \div 64) + 1

Capacity == [c \in Caches |-> CASE c = LRU -> LRUCapacity
                                [] c = Window -> WindowCapacity
                                [] c = Main -> MainCapacity
                                [] OTHER -> ShardCapacity]
PromoteNum == [c \in Caches |-> IF c = LRU THEN LRUPromote ELSE 8]

\* The sketch: CMSketch4Bits(bits_num) with bits_num the bit length of the
\* capacity: Shard = 2 rows of capacity_ = 2^bits_num 4-bit counters, two
\* to a byte (the low nibble for an even index).
RECURSIVE BitLength(_)
BitLength(n) == IF n = 0 THEN 0 ELSE 1 + BitLength(n \div 2)

SketchSize == 2 ^ BitLength(TwoCapacity)
Rows == 0..1
SketchBytes == 0..(SketchSize \div 2 - 1)

Nodes == 1..MaxNodes

VARIABLES
    list,      \* [Caches -> Seq(Nodes)]: list_, dummy_->nxt first
    map,       \* [Caches -> partial function from Keys to Nodes]: map_
    heap,      \* partial function from the live Nodes to [key, promotions]
    allocated, \* the number of nodes new has returned
    sketch,    \* [Rows -> [SketchBytes -> 0..255]]: data_
    seed,      \* [Rows -> 0..SketchSize - 1]: seed_, as far as the index uses it
    pc,        \* [Threads -> {"idle", "visit", "insert", "emplace", "get"}]
    op,        \* [Threads -> the call in progress]
    ub,        \* a thread dereferenced a freed node
    stop,      \* the Concurrent2LRUCache's stop_
    refresher  \* its refresh_thread_: "waiting" in refresh_loop or "exited"

\* The state of the Concurrent2LRUCache itself: its cm_sketch_ (data_ and
\* seed_), stop_ and refresh_thread_.
twoVars == <<sketch, seed, stop, refresher>>

vars == <<list, map, heap, allocated, pc, op, ub, twoVars>>

NoOp == [kind |-> "none", cache |-> LRU, key |-> CHOOSE k \in Keys : TRUE, node |-> 0]

TypeOK ==
    /\ list \in [Caches -> Seq(Nodes)]
    /\ \A c \in Caches : DOMAIN map[c] \subseteq Keys /\ Range(map[c]) \subseteq Nodes
    /\ DOMAIN heap \subseteq Nodes
    /\ allocated \in 0..MaxNodes
    /\ sketch \in [Rows -> [SketchBytes -> 0..255]]
    /\ pc \in [Threads -> {"idle", "visit", "insert", "emplace", "get"}]
    /\ ub \in BOOLEAN
    /\ stop \in BOOLEAN
    /\ refresher \in {"waiting", "exited"}

\* How the Concurrent2LRUCache came to be: its constructor, or the
\* constructor of a ConcurrentBucket2LRUCache, which assigns every shard
\* shard_[i] = TShard((capacity >> 6) + 1).
Built == {"Concurrent2LRUCache", "ConcurrentBucket2LRUCache"}

\* stop_ once it is built: the constructor's start() leaves it false;
\* operator=(Concurrent2LRUCache&&) calls stop() (stop_ = true, join), takes
\* rhs's window_lru_, main_lru_ and cm_sketch_, calls rhs.stop() and
\* start(), and nothing clears stop_ in between.
StopOnceBuilt(b) == b = "ConcurrentBucket2LRUCache"

\* The caches start empty (List() links dummy_ to itself); the sketch's
\* bytes are zeroed and its seeds are two consecutive GlobalRand() values,
\* a shared counter standing anywhere.  The Concurrent2LRUCache is built
\* by its constructor or is a shard of a ConcurrentBucket2LRUCache.
Init ==
    /\ list = [c \in Caches |-> <<>>]
    /\ map = [c \in Caches |-> <<>>]
    /\ heap = <<>>
    /\ allocated = 0
    /\ sketch = [i \in Rows |-> [j \in SketchBytes |-> 0]]
    /\ \E s \in 0..(SketchSize - 1) : seed = [i \in Rows |-> (s + i) % SketchSize]
    /\ pc = [t \in Threads |-> "idle"]
    /\ op = [t \in Threads |-> NoOp]
    /\ ub = FALSE
    /\ refresher = "waiting"
    /\ \E b \in Built : stop = StopOnceBuilt(b)

\* CMSketch4Bits: row i counts item at (item ^ seed_[i]) & capacity_mask_.
SlotOf(i, k) == (k ^^ seed[i]) % SketchSize

\* Increment: each row's counter grows unless it is already 15.
Increment(sk, k) ==
    [i \in Rows |->
        LET x == SlotOf(i, k)
            off == 2 ^ ((x % 2) * 4)
        IN IF (sk[i][x \div 2] \div off) % 16 < 15
           THEN [sk[i] EXCEPT ![x \div 2] = @ + off] ELSE sk[i]]

\* Estimate: the least of 15 and each row's byte shifted by the offset,
\* with no 0x0f mask: for an even slot the odd slot's count is read too.
Estimate(k) ==
    LET row(i) == sketch[i][SlotOf(i, k) \div 2] \div 2 ^ ((SlotOf(i, k) % 2) * 4)
        lo == IF row(0) < row(1) THEN row(0) ELSE row(1)
    IN IF lo < 15 THEN lo ELSE 15

\* Reset: every byte becomes (byte >> 1) & 0x77, halving both counters.
Halve(sk) == [i \in Rows |-> [j \in SketchBytes |-> (sk[i][j] \div 2) & 119]]

\* boost::concurrent_flat_map::erase and emplace (which keeps an existing
\* entry).
MapErase(m, k) == Restrict(m, DOMAIN m \ {k})
MapEmplace(m, k, n) == IF k \in DOMAIN m THEN m ELSE m @@ (k :> n)

\* cpputil::list::List, front (dummy_->nxt) first: PushFront links a new
\* node at the front; PopBack unlinks the back one; Extract then
\* InsertFront moves a node to the front (size_ unchanged).
PushFront(l, n) == <<n>> \o l
PopBack(l) == Front(l)
ExtractInsertFront(l, n) == <<n>> \o Remove(l, n)

\* Promote(node): ShouldPromote's fetch_add returns the old count; from
\* should_promote_num_ on, PromoteNoLock moves the node to the front
\* (Extract, InsertFront; size_ unchanged) and ResetPromote stores 0.
Promote(c, l, h, n) ==
    IF h[n].promotions >= PromoteNum[c]
    THEN [list |-> ExtractInsertFront(l, n), heap |-> [h EXCEPT ![n].promotions = 0]]
    ELSE [list |-> l, heap |-> [h EXCEPT ![n].promotions = @ + 1]]

\* A map_.visit that finds the key and promotes its node.
VisitPromote(c, n) ==
    LET p == Promote(c, list[c], heap, n)
    IN /\ list' = [list EXCEPT ![c] = p.list]
       /\ heap' = p.heap

\* The first locked section of every Put: map_.visit under list_mutex_.
\* A hit promotes the node and returns; a miss goes on to insert.
Visit(t, o) ==
    LET c == o.cache
    IN \/ /\ o.key \in DOMAIN map[c]
          /\ map[c][o.key] \in DOMAIN heap
          /\ VisitPromote(c, map[c][o.key])
          /\ pc' = [pc EXCEPT ![t] = "idle"]
          /\ op' = [op EXCEPT ![t] = NoOp]
          /\ UNCHANGED <<map, allocated, ub>>
       \/ /\ o.key \in DOMAIN map[c]
          /\ map[c][o.key] \notin DOMAIN heap
          /\ ub' = TRUE
          /\ UNCHANGED <<list, map, heap, allocated, pc, op>>
       \/ /\ o.key \notin DOMAIN map[c]
          /\ pc' = [pc EXCEPT ![t] = "insert"]
          /\ op' = [op EXCEPT ![t] = o]
          /\ UNCHANGED <<list, map, heap, allocated, ub>>

\* A caller's Put(const T&) or Put(T&&) on cache c: the ConcurrentLRUCache,
\* or, through ConcurrentBucketLRUCache::Put, the shard GetShard(TKey(value))
\* picks.  Put(T&&) exists only when PassBy<TValue> passes by reference:
\* LRU stands for ConcurrentLRUCache<std::string_view, std::string> of
\* cache_test, the bucket cache for ConcurrentBucketLRUCache<int>, which
\* has Put(const T&) alone.
LRUPut(t, c, kind, k) ==
    /\ ~ub
    /\ pc[t] = "idle"
    /\ Visit(t, [kind |-> kind, cache |-> c, key |-> k, node |-> 0])
    /\ UNCHANGED twoVars

\* Concurrent2LRUCache::Put: Increment under cm_sketch_mutex_, then
\* window_lru_->PutWithDisuse.
TwoPut(t, k) ==
    /\ ~ub
    /\ pc[t] = "idle"
    /\ sketch' = Increment(sketch, k)
    /\ pc' = [pc EXCEPT ![t] = "visit"]
    /\ op' = [op EXCEPT ![t] = [kind |-> "PutWithDisuse", cache |-> Window, key |-> k, node |-> 0]]
    /\ UNCHANGED <<list, map, heap, allocated, seed, ub, stop, refresher>>

\* The visit of PutWithDisuse or PutWithCompair called by TwoPut.
PutVisit(t) ==
    /\ ~ub
    /\ pc[t] = "visit"
    /\ Visit(t, op[t])
    /\ UNCHANGED twoVars

\* The compair lambda of Concurrent2LRUCache::Put: the back of main_lru_
\* is replaced when its estimate is below the new value's.
Compair(old, new) == Estimate(old) < Estimate(new)

\* The second locked section.  A full list (size() == capacity_) pops its
\* back node, erases that node's key from map_ and frees it; PutWithCompair
\* does so only when Compair(back, value) holds and otherwise returns
\* without inserting.  PushFront links a new node; Put(const T&),
\* PutWithDisuse and PutWithCompair emplace it under the lock, Put(T&&)
\* after the unlock.  The value PutWithDisuse evicts goes on to
\* main_lru_->PutWithCompair.
PutInsert(t) ==
    LET o == op[t]
        c == o.cache
        full == Len(list[c]) = Capacity[c]
        back == Last(list[c])
        n == allocated + 1
    IN /\ ~ub
       /\ pc[t] = "insert"
       /\ \/ /\ o.kind = "PutWithCompair"
             /\ full
             /\ ~Compair(heap[back].key, o.key)
             /\ pc' = [pc EXCEPT ![t] = "idle"]
             /\ op' = [op EXCEPT ![t] = NoOp]
             /\ UNCHANGED <<list, map, heap, allocated, ub>>
          \/ /\ allocated < MaxNodes
             /\ o.kind = "PutWithCompair" /\ full => Compair(heap[back].key, o.key)
             /\ LET l0 == IF full THEN PopBack(list[c]) ELSE list[c]
                    m0 == IF full THEN MapErase(map[c], heap[back].key) ELSE map[c]
                    h0 == IF full THEN Restrict(heap, DOMAIN heap \ {back}) ELSE heap
                IN /\ list' = [list EXCEPT ![c] = PushFront(l0, n)]
                   /\ heap' = h0 @@ (n :> [key |-> o.key, promotions |-> 0])
                   /\ map' = [map EXCEPT ![c] = IF o.kind = "PutMove" THEN m0
                                                ELSE MapEmplace(m0, o.key, n)]
             /\ allocated' = n
             /\ pc' = [pc EXCEPT ![t] = CASE o.kind = "PutMove" -> "emplace"
                                          [] o.kind = "PutWithDisuse" /\ full -> "visit"
                                          [] OTHER -> "idle"]
             /\ op' = [op EXCEPT ![t] =
                          CASE o.kind = "PutMove" -> [o EXCEPT !.node = n]
                            [] o.kind = "PutWithDisuse" /\ full ->
                                 [kind |-> "PutWithCompair", cache |-> Main,
                                  key |-> heap[back].key, node |-> 0]
                            [] OTHER -> NoOp]
             /\ UNCHANGED ub
       /\ UNCHANGED twoVars

\* Put(T&&) after the unlock: map_.emplace(*(node_ptr->value), node_ptr),
\* reading a node another thread's Put may have evicted and freed.
PutEmplace(t) ==
    LET o == op[t]
    IN /\ ~ub
       /\ pc[t] = "emplace"
       /\ \/ /\ o.node \in DOMAIN heap
             /\ map' = [map EXCEPT ![o.cache] = MapEmplace(@, heap[o.node].key, o.node)]
             /\ UNCHANGED ub
          \/ /\ o.node \notin DOMAIN heap
             /\ ub' = TRUE
             /\ UNCHANGED map
       /\ pc' = [pc EXCEPT ![t] = "idle"]
       /\ op' = [op EXCEPT ![t] = NoOp]
       /\ UNCHANGED <<list, heap, allocated, twoVars>>

\* ConcurrentLRUCache::Get(key): map_.visit under list_mutex_ reads the
\* node's value and promotes it.
GetVisit(c, k) ==
    \/ /\ map[c][k] \in DOMAIN heap
       /\ VisitPromote(c, map[c][k])
       /\ UNCHANGED ub
    \/ /\ map[c][k] \notin DOMAIN heap
       /\ ub' = TRUE
       /\ UNCHANGED <<list, heap>>

\* ConcurrentLRUCache::Peek(key): map_.visit copies the node's value,
\* without list_mutex_ and without promoting it.
PeekVisit(c, k) ==
    /\ ub' = (map[c][k] \notin DOMAIN heap)
    /\ UNCHANGED <<list, heap>>

\* A caller's Get or Peek on cache c (directly, or through the bucket
\* cache's GetShard(key)); a miss changes nothing.
LRUGet(t, c, kind, k) ==
    /\ ~ub
    /\ pc[t] = "idle"
    /\ k \in DOMAIN map[c]
    /\ IF kind = "Get" THEN GetVisit(c, k) ELSE PeekVisit(c, k)
    /\ UNCHANGED <<map, allocated, sketch, seed, pc, op, stop, refresher>>

\* Concurrent2LRUCache::Get: Increment under cm_sketch_mutex_, then
\* window_lru_->Get and, on a miss, main_lru_->Get.
TwoGet(t, k) ==
    /\ ~ub
    /\ pc[t] = "idle"
    /\ sketch' = Increment(sketch, k)
    /\ pc' = [pc EXCEPT ![t] = "get"]
    /\ op' = [op EXCEPT ![t] = [kind |-> "Get", cache |-> Window, key |-> k, node |-> 0]]
    /\ UNCHANGED <<list, map, heap, allocated, seed, ub, stop, refresher>>

\* Concurrent2LRUCache::Peek: window_lru_->Peek and, on a miss,
\* main_lru_->Peek; the sketch is not touched.
TwoPeek(t, k) ==
    /\ ~ub
    /\ pc[t] = "idle"
    /\ pc' = [pc EXCEPT ![t] = "get"]
    /\ op' = [op EXCEPT ![t] = [kind |-> "Peek", cache |-> Window, key |-> k, node |-> 0]]
    /\ UNCHANGED <<list, map, heap, allocated, sketch, seed, ub, stop, refresher>>

GetStep(t) ==
    LET o == op[t]
    IN /\ ~ub
       /\ pc[t] = "get"
       /\ \/ /\ o.key \in DOMAIN map[o.cache]
             /\ IF o.kind = "Get" THEN GetVisit(o.cache, o.key) ELSE PeekVisit(o.cache, o.key)
             /\ pc' = [pc EXCEPT ![t] = "idle"]
             /\ op' = [op EXCEPT ![t] = NoOp]
          \/ /\ o.key \notin DOMAIN map[o.cache]
             /\ o.cache = Window
             /\ op' = [op EXCEPT ![t].cache = Main]
             /\ UNCHANGED <<list, heap, pc, ub>>
          \/ /\ o.key \notin DOMAIN map[o.cache]
             /\ o.cache = Main
             /\ pc' = [pc EXCEPT ![t] = "idle"]
             /\ op' = [op EXCEPT ![t] = NoOp]
             /\ UNCHANGED <<list, heap, ub>>
       /\ UNCHANGED <<map, allocated, twoVars>>

\* refresh_loop: wait_until returns when stop_ holds or the
\* refresh_thread_sleep_ms_ deadline passes; with stop_ the thread returns,
\* otherwise it calls Reset under cm_sketch_mutex_ and waits again.
Refresh ==
    /\ ~ub
    /\ refresher = "waiting"
    /\ ~stop
    /\ sketch' = Halve(sketch)
    /\ UNCHANGED <<list, map, heap, allocated, seed, pc, op, ub, stop, refresher>>

RefreshExit ==
    /\ refresher = "waiting"
    /\ stop
    /\ refresher' = "exited"
    /\ UNCHANGED <<list, map, heap, allocated, sketch, seed, pc, op, ub, stop>>

Next ==
    \/ \E t \in Threads :
       \/ \E k \in Keys :
          \/ \E kind \in {"Put", "PutMove"} : LRUPut(t, LRU, kind, k)
          \/ LRUPut(t, ShardOf(k), "Put", k)
          \/ \E c \in {LRU, ShardOf(k)}, kind \in {"Get", "Peek"} : LRUGet(t, c, kind, k)
          \/ TwoPut(t, k) \/ TwoGet(t, k) \/ TwoPeek(t, k)
       \/ PutVisit(t) \/ PutInsert(t) \/ PutEmplace(t) \/ GetStep(t)
    \/ Refresh \/ RefreshExit

Spec == Init /\ [][Next]_vars

-----------------------------------------------------------------------------
\* No thread dereferences a list node after the unique_ptr of a PopBack
\* freed it: every node map_ hands to a visit, and every node a Put(T&&)
\* emplaces after its unlock, is still allocated.
NoUseAfterFree == ~ub
=============================================================================
