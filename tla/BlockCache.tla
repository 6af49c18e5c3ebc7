------------------------------ MODULE BlockCache -----------------------------
(***************************************************************************)
(* The LRU cache of SST data blocks, BlockCache of                         *)
(* src/shuaikv/lsm/block_cache.hpp, and its one caller in the SST,         *)
(* SST::PrefetchDataBlock (src/shuaikv/lsm/sst.hpp).  Every public method  *)
(* takes mutex_ for its whole body, so each is one step.                   *)
(*                                                                         *)
(* A block is told apart by its key <<sst_id, block_offset>> (MakeKey);    *)
(* cache_map_ holds at most one block per key, so the block is the key,    *)
(* and its data is abstracted to its size in bytes.  The stats counters    *)
(* that only count (hits, misses, rejections) are left out;                *)
(* current_size and current_count are kept, because eviction reads them.   *)
(* current_size is a size_t: a value below 0 here stands for that value    *)
(* plus 2^64.                                                              *)
(***************************************************************************)
EXTENDS Integers, Sequences, SequencesExt, Functions

CONSTANTS
    Keys,           \* the <<sst_id, block_offset>> pairs used
    Sizes,          \* the sizes of the data vectors handed to Put
    MaxCapacity,    \* Config::max_capacity, in bytes
    MinBlockSize,   \* Config::min_block_size
    MaxBlockSize,   \* Config::max_block_size
    MaxBlockCount,  \* Config::max_block_count (0: no limit)
    MinUtilPct,     \* Config::min_utilization, in percent
    SSTBlock        \* SSTBlock[s]: [off, size] of SST s's data block 0

ASSUME MaxBlockSize <= MaxCapacity

VARIABLES
    cache,      \* cache_map_: key -> the size of its block's data_
    lru,        \* lru_list_, most recently used first
    curSize,    \* stats_.current_size
    curCount    \* stats_.current_count

vars == <<cache, lru, curSize, curCount>>

\* BlockCache(config): empty.
Init ==
    /\ cache = <<>>
    /\ lru = <<>>
    /\ curSize = 0
    /\ curCount = 0

\* a + b > c on size_t operands, where a may stand for a wrapped value.
SizeTGreater(a, b, c) == a + b < 0 \/ a + b > c

\* MoveToFront: list::remove of the block, then push_front.
MoveToFront(l, k) == <<k>> \o Remove(l, k)

\* RemoveBlock: list::remove of the block, then current_size loses the
\* size of the block's data now and current_count one; cache_map_ is left
\* to the caller.
RemoveBlock(st, b) ==
    [st EXCEPT !.lru = Remove(@, b), !.size = @ - st.cache[b], !.count = @ - 1]

\* cache_map_.erase of key b.
Erase(c, b) == [k \in DOMAIN c \ {b} |-> c[k]]

\* EvictIfNeeded's loop: while the new block does not fit, or the count is
\* at its limit, RemoveBlock the back of the list and erase its key from
\* cache_map_; stop when the list is empty.
RECURSIVE EvictIfNeeded(_, _)
EvictIfNeeded(st, n) ==
    IF /\ SizeTGreater(st.size, n, MaxCapacity) \/ (MaxBlockCount > 0 /\ st.count >= MaxBlockCount)
       /\ st.lru # <<>>
    THEN LET b == st.lru[Len(st.lru)]
             r == RemoveBlock(st, b)
         IN EvictIfNeeded([r EXCEPT !.cache = Erase(@, b)], n)
    ELSE st

\* The checks Put makes before it takes the lock: data not empty, not
\* above max_block_size, and size / min_block_size not below
\* min_utilization.
Admitted(n) ==
    /\ n > 0
    /\ n <= MaxBlockSize
    /\ 100 * n >= MinUtilPct * MinBlockSize

\* Put on a key already cached: the block's data is replaced and moved to
\* the front; current_size is left as it was.  On a new key:
\* EvictIfNeeded, then the block goes to cache_map_ and to the front of
\* the list, and the counters grow.
PutLocked(k, n) ==
    IF k \in DOMAIN cache
    THEN /\ cache' = [cache EXCEPT ![k] = n]
         /\ lru' = MoveToFront(lru, k)
         /\ UNCHANGED <<curSize, curCount>>
    ELSE \E st \in {EvictIfNeeded([cache |-> cache, lru |-> lru,
                                   size |-> curSize, count |-> curCount], n)} :
            /\ cache' = (k :> n) @@ st.cache
            /\ lru' = <<k>> \o st.lru
            /\ curSize' = st.size + n
            /\ curCount' = st.count + 1

\* BlockCache::Put(sst_id, block_offset, data) of a block that passes the
\* checks (a rejected one changes only the rejection counter).
Put(k, n) ==
    /\ Admitted(n)
    /\ PutLocked(k, n)

\* BlockCache::Get: a hit moves the block to the front of the list; a miss
\* changes only the counters.
Get(k) ==
    /\ k \in DOMAIN cache
    /\ lru' = MoveToFront(lru, k)
    /\ UNCHANGED <<cache, curSize, curCount>>

\* BlockCache::Remove (named so as not to clash with SequencesExt's
\* Remove, which is list::remove): RemoveBlock, then erase the key.
CacheRemove(k) ==
    /\ k \in DOMAIN cache
    /\ LET r == RemoveBlock([cache |-> cache, lru |-> lru, size |-> curSize,
                              count |-> curCount], k)
       IN /\ cache' = Erase(cache, k)
          /\ lru' = r.lru
          /\ curSize' = r.size
          /\ curCount' = r.count

\* BlockCache::Clear.
Clear ==
    /\ cache' = <<>>
    /\ lru' = <<>>
    /\ curSize' = 0
    /\ curCount' = 0

\* SST::PrefetchDataBlock(0) on SST s: the "already cached" test asks Get
\* for the key <<id_, block_index>>, but the block is Put under
\* <<id_, block_offset>>.  The block's size field and data are read from
\* the mapping and Put (under a second lock of mutex_; nothing between the
\* two sections is read by this model).
Prefetch(s) ==
    LET blk == SSTBlock[s]
    IN \/ /\ <<s, 0>> \in DOMAIN cache
          /\ Get(<<s, 0>>)
       \/ /\ <<s, 0>> \notin DOMAIN cache
          /\ Admitted(blk.size)
          /\ PutLocked(<<s, blk.off>>, blk.size)

Next ==
    \/ \E k \in Keys, n \in Sizes : Put(k, n)
    \/ \E k \in Keys : Get(k) \/ CacheRemove(k)
    \/ Clear
    \/ \E s \in DOMAIN SSTBlock : Prefetch(s)

Spec == Init /\ [][Next]_vars

-----------------------------------------------------------------------------
\* The blocks cache_map_ holds never take more than max_capacity bytes:
\* spec 4.2 says Put evicts LRU entries until current + bytes.len() <=
\* max_capacity.  BlockCache::Put replacing the data of a cached key and
\* Remove subtracting the replaced size are what this is about.
WithinCapacity == FoldFunction(+, 0, cache) <= MaxCapacity

=============================================================================
