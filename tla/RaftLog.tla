------------------------------ MODULE RaftLog ------------------------------
(***************************************************************************)
(* The per-node Raft log of src/shuaikv/raft/raft_log.hpp together with   *)
(* the RingBufferQueue of src/shuaikv/utils/ring_buffer_queue.hpp that     *)
(* stores its entries.                                                     *)
(*                                                                         *)
(* A log is a record                                                       *)
(*   ring      data_ of the ring buffer, positions 0..RingSize-1           *)
(*   index     index_        (last appended log index)                     *)
(*   start     start_index_  (base index after a restart)                  *)
(*   commited  commited_                                                   *)
(*   applied   last_append_  (last index handed to the DB by the applier)  *)
(* The ring's head_ is always index - start and its tail_ stays 0 (the     *)
(* log never calls PopFront), so neither is stored.  Every operation of    *)
(* the class is an operator from logs to logs; the Pod module composes     *)
(* them inside its handlers.                                               *)
(***************************************************************************)
EXTENDS Integers, FiniteSetsExt

CONSTANTS
    RingSize,   \* ring_buffer_size_ (a power of two; the code uses 2^18)
    NoValue,    \* key/value of a default-constructed Entry
    Garbage     \* what a read outside data_ returns (undefined behaviour)

ASSUME RingSize \in {2, 4, 8, 16}

\* A default-constructed protobuf Entry: term 0, empty key and value.
EmptyEntry == [term |-> 0, val |-> NoValue]

\* RaftLog(db) when no raft_log_meta file exists.
InitLog == [ring     |-> [s \in 0..RingSize - 1 |-> EmptyEntry],
            index    |-> 0,
            start    |-> 0,
            commited |-> 0,
            applied  |-> 0]

\* Position in data_ of log index i: At(i) is RAt(index_ - i), i.e.
\* data_[head_ - (index_ - i)], and the applier's queue_.At(i - start - 1)
\* is data_[i - start]; both equal i - start since head_ = index_ - start_.
Slot(l, i) == i - l.start

\* The entry a reader finds at log index i; outside data_ it is garbage.
At(l, i) == IF Slot(l, i) \in 0..RingSize - 1
            THEN l.ring[Slot(l, i)]
            ELSE [term |-> 0, val |-> Garbage]

\* RingBufferQueue::PushBack refuses when (head_ + 1) & mask = tail_ = 0.
Full(l) == (l.index - l.start + 1) % RingSize = 0

\* RaftLog::Put (both overloads): push the entry; on success advance
\* index_ and raise commited_ to the commit index the entry carries
\* (0 for an entry built by the leader itself).  A full ring leaves
\* the log unchanged.
Put(l, e, entryCommited) ==
    IF Full(l) THEN l
    ELSE [l EXCEPT !.ring[l.index - l.start + 1] = e,
                   !.index = @ + 1,
                   !.commited = Max({@, entryCommited})]

\* RingBufferQueue::Truncate(count): move head_ back by count, but never
\* past tail_ (at most head_ - tail_ entries); an empty ring removes none.
\* The number removed is what RaftLog subtracts from index_.
Truncate(l, count) == Min({count, l.index - l.start})

\* RaftLog::Reset: drop the suffix above expect_index by Truncate.
Reset(l, expectIndex) ==
    IF l.index > expectIndex
    THEN [l EXCEPT !.index = @ - Truncate(l, l.index - expectIndex)]
    ELSE l

\* RaftLog::UpdateCommit: commited_ = max(commited_, min(index_, c)).
UpdateCommit(l, c) == [l EXCEPT !.commited = Max({@, Min({l.index, c})})]

\* One round of the applier thread: if last_append_ < commited_, advance
\* it and read the entry there (RaftLog constructor, sync_thread).
CanApply(l) == l.applied < l.commited
ApplyNext(l) == [l EXCEPT !.applied = @ + 1]
AppliedEntry(l) == At(l, l.applied + 1)

=============================================================================
