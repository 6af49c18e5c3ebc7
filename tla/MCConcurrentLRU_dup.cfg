\* A ConcurrentLRUCache of capacity 2 that promotes on the second hit, as
\* cache_test uses it from several threads, beside a Concurrent2LRUCache(2, 50)
\* (a window and a main segment of one entry each, a sketch of 4 counters),
\* and a ConcurrentBucketLRUCache(64) whose shards hold two entries; the two
\* keys fall in one shard.
CONSTANTS
    LRUCapacity = 2
    LRUPromote = 1
    TwoCapacity = 2
    WindowRatio = 50
    BucketCapacity = 64
    Keys = {1, 65}
    Threads = {t1, t2}
    MaxNodes = 4
SPECIFICATION Spec
INVARIANT NoUseAfterFree
