------------------------------- MODULE Engine -------------------------------
(***************************************************************************)
(* The storage engine DB of src/shuaikv/db.hpp: the active memtable, the  *)
(* queue of full memtables (inmemtables_), the flush thread ToSSTLoop and  *)
(* the versioned manifest, with the applier thread calling Put and reader  *)
(* threads calling Get.                                                    *)
(*                                                                         *)
(* A memtable is a function from the keys it holds to their values (the   *)
(* skip list of memtable.hpp); its binary_size() is counted in entries.    *)
(* The n-th Put writes value n, so every write is told apart.  The SSTs    *)
(* are those of module Manifest: ToSST writes them in a layout that their  *)
(* loader misreads, so what a read of them returns is unknown.  Only the  *)
(* newest manifest version matters to Get and ToSST, so manifest_queue_    *)
(* is represented by its back().  ~DB and a later DB() in the same         *)
(* directory close and reopen the store: the manifest file and the SST     *)
(* files are the state that survives, and the state that survives a      *)
(* crash of the process too (nothing deletes a file).  An SST file is     *)
(* recorded with the value of puts when it was written, which tells apart *)
(* two writes of the same <id>.sst.                                       *)
(***************************************************************************)
EXTENDS Manifest, FiniteSets, TLC

CONSTANTS
    Key,        \* keys written and read (naturals > 0)
    Reader,     \* threads calling DB::Get
    MemMax,     \* memtable_max_size, in entries
    MaxPuts     \* bound on the number of DB::Put calls

VARIABLES
    mem,        \* memtable_
    inmem,      \* inmemtables_, oldest first
    wst,        \* where ToSSTLoop is: "idle" (about to test its predicate
                \* under to_sst_mutex_), "checked" (found nothing, about to
                \* block), "sleep" (blocked in wait), "flush" (in ToSST),
                \* "exited" (left the loop on the stop flag)
    stop,       \* to_sst_stop_flag_
    flushing,   \* the memtable ToSSTLoop erased from inmemtables_ and is flushing
    manifest,   \* manifest_queue_.back()
    sstId,      \* sst_id_
    puts,       \* number of DB::Put calls so far
    rd,         \* per reader: the phase of Get ("idle", "mem", "disk"),
                \* its key and the value the last Get returned
    life,       \* the DB object: "open", "closing" (in ~DB, before the
                \* manifest is saved) or "closed" (destroyed)
    saved,      \* the words of the "manifest" file, <<>> while there is none
    files       \* the SST files on disk: id -> the SST last written to <id>.sst

vars == <<mem, inmem, wst, stop, flushing, manifest, sstId, puts, rd, life, saved, files>>

EmptyTable == <<>>

\* MemTable::Get, ConcurrentSkipList::Get.
MemGet(t, k) == IF k \in DOMAIN t THEN t[k] ELSE NotFound

\* MemTable::Put, ConcurrentSkipList::Put: insert, or overwrite in place.
MemPut(t, k, v) == (k :> v) @@ t

\* MemTable::binary_size: the skip list's running size, which an overwrite
\* adjusts by the difference of the values (the same size here).
MemSize(t) == Cardinality(DOMAIN t)

\* MemTable::size: the skip list's number of entries.
MemCount(t) == Cardinality(DOMAIN t)

\* The first table of a newest-first sequence of memtables holding k.
RECURSIVE TablesGet(_, _)
TablesGet(ts, k) ==
    IF ts = <<>> THEN NotFound
    ELSE IF MemGet(Head(ts), k) # NotFound THEN MemGet(Head(ts), k) ELSE TablesGet(Tail(ts), k)

\* The memtables a Get searches under memtable_lock_: memtable_, then
\* inmemtables_ from rbegin().
MemTables == <<mem>> \o Reverse(inmem)

\* The type of every variable.  No run checks it: the cascade stops below
\* MaxLevelSize by the shape of Cascade, so it could catch no fault.
TypeOK ==
    /\ DOMAIN mem \subseteq Key
    /\ \A i \in 1..Len(inmem) : DOMAIN inmem[i] \subseteq Key
    /\ wst \in {"idle", "checked", "sleep", "flush", "exited"}
    /\ stop \in BOOLEAN
    /\ life \in {"open", "closing", "closed"}
    /\ DOMAIN flushing \subseteq Key
    /\ sstId \in Nat
    /\ Len(manifest) \in 1..MaxLevelSize + 1
    /\ puts \in 0..MaxPuts
    /\ \A r \in Reader : rd[r].st \in {"idle", "mem", "disk"} /\ rd[r].key \in Key

\* DB() with no manifest file: an empty memtable, one empty manifest
\* version, sst_id_ = 0, and the flush thread just started.
Init ==
    /\ mem = EmptyTable
    /\ inmem = <<>>
    /\ wst = "idle"
    /\ stop = FALSE
    /\ flushing = EmptyTable
    /\ manifest = EmptyManifest
    /\ sstId = 0
    /\ puts = 0
    /\ rd = [r \in Reader |-> [st |-> "idle", key |-> CHOOSE k \in Key : TRUE, ret |-> NotFound]]
    /\ life = "open"
    /\ saved = <<>>
    /\ files = <<>>

\* DB::Put: insert into memtable_; when it outgrows memtable_max_size, move
\* it to inmemtables_ under the write lock, start a new one and notify the
\* flush thread (without holding to_sst_mutex_).
Put(k) ==
    LET v == puts + 1
        m1 == MemPut(mem, k, v)
    IN /\ life = "open"
       /\ puts < MaxPuts
       /\ puts' = v
       /\ IF MemSize(m1) > MemMax
          THEN /\ inmem' = Append(inmem, m1)
               /\ mem' = EmptyTable
               /\ wst' = IF wst = "sleep" THEN "idle" ELSE wst
          ELSE /\ mem' = m1
               /\ UNCHANGED <<inmem, wst>>
       /\ UNCHANGED <<stop, flushing, manifest, sstId, rd, life, saved, files>>

\* ToSSTLoop with to_sst_mutex_ held: the wait predicate.  If inmemtables_
\* is not empty, take its front and erase it, then unlock for ToSST; if
\* it is empty and the stop flag is set, leave the loop.
WorkerCheck ==
    /\ wst = "idle"
    /\ CASE inmem # <<>> -> /\ flushing' = Head(inmem)
                            /\ inmem' = Tail(inmem)
                            /\ wst' = "flush"
         [] stop -> /\ wst' = "exited"
                    /\ UNCHANGED <<flushing, inmem>>
         [] OTHER -> /\ wst' = "checked"
                     /\ UNCHANGED <<flushing, inmem>>
    /\ UNCHANGED <<mem, stop, manifest, sstId, puts, rd, life, saved, files>>

\* ToSSTLoop: the predicate was false, so wait blocks and releases the mutex.
WorkerBlock ==
    /\ wst = "checked"
    /\ wst' = "sleep"
    /\ UNCHANGED <<mem, inmem, stop, flushing, manifest, sstId, puts, rd, life, saved, files>>

\* The process is gone: the memtables, the flush thread, the readers and
\* the in-memory manifest.  The "manifest" file stays as it is; the caller
\* says what becomes of the SST files.
ProcessDies ==
    /\ life' = "closed"
    /\ mem' = EmptyTable
    /\ inmem' = <<>>
    /\ flushing' = EmptyTable
    /\ wst' = "exited"
    /\ manifest' = EmptyManifest
    /\ sstId' = 0
    /\ rd' = [r \in Reader |-> [rd[r] EXCEPT !.st = "idle"]]
    /\ UNCHANGED <<stop, puts, saved>>

\* The SST ToSST builds with ++sst_id_: full when Put rotated its memtable.
NewSST == FlushedSST(sstId + 1, puts, MemSize(flushing) > MemMax)

\* ToSST: build the SST with ++sst_id_ (written to its file), and under
\* manifest_lock_ publish a new manifest version with the SST in level 0,
\* compacted with ++sst_id_ when level 0 is over its threshold (every
\* level of the cascade writes <id>.sst); then lock and loop.
WorkerFlush ==
    LET m1 == InsertAndUpdate(manifest, NewSST)
        files1 == (NewSST.id :> NewSST) @@ files
    IN /\ wst = "flush"
       /\ \/ /\ FALSE \in CanDoCompaction(m1)
             /\ manifest' = m1
             /\ sstId' = sstId + 1
             /\ files' = files1
          \/ /\ TRUE \in CanDoCompaction(m1)
             /\ manifest' \in SizeTieredCompaction(m1, sstId + 2, puts)
             /\ sstId' = sstId + 2
             /\ files' = (sstId + 2 :> CompactedSST(sstId + 2, puts)) @@ files1
       /\ flushing' = EmptyTable
       /\ wst' = "idle"
       /\ UNCHANGED <<mem, inmem, stop, puts, rd, life, saved>>

\* ToSST kills the process: Build's write past its vector aborts it before
\* the file is opened, the constructor's load of the block reads past the
\* mapping after writing it, or a compaction faults on the garbage it
\* reads, before or after writing its SST.
WorkerFlushDies ==
    /\ wst = "flush"
    /\ \E fs \in {files, (NewSST.id :> NewSST) @@ files,
                  (sstId + 2 :> CompactedSST(sstId + 2, puts)) @@ (NewSST.id :> NewSST) @@ files} :
          files' = fs
    /\ ProcessDies

\* DB::Get is called.
GetBegin(r, k) ==
    /\ life = "open"
    /\ rd[r].st = "idle"
    /\ rd' = [rd EXCEPT ![r] = [@ EXCEPT !.st = "mem", !.key = k]]
    /\ UNCHANGED <<mem, inmem, wst, stop, flushing, manifest, sstId, puts, life, saved, files>>

\* DB::Get under memtable_lock_: memtable_, then inmemtables_ newest first.
GetMem(r) ==
    LET v == TablesGet(MemTables, rd[r].key)
    IN /\ rd[r].st = "mem"
       /\ rd' = [rd EXCEPT ![r] = IF v # NotFound THEN [@ EXCEPT !.st = "idle", !.ret = v]
                                                  ELSE [@ EXCEPT !.st = "disk"]]
       /\ UNCHANGED <<mem, inmem, wst, stop, flushing, manifest, sstId, puts, life, saved, files>>

\* DB::Get under manifest_lock_: Manifest::Get on manifest_queue_.back(),
\* which returns what the SST it reaches gives, or kills the process.
GetDisk(r) ==
    /\ rd[r].st = "disk"
    /\ \/ \E a \in ManifestGet(manifest) \ {Dies} :
             /\ rd' = [rd EXCEPT ![r] = [@ EXCEPT !.st = "idle", !.ret = a]]
             /\ UNCHANGED <<mem, inmem, wst, stop, flushing, manifest, sstId, puts, life, saved, files>>
       \/ /\ Dies \in ManifestGet(manifest)
          /\ ProcessDies
          /\ UNCHANGED files

\* ~DB, called by the client when no Get is running: under memtable_lock_
\* a non-empty memtable_ joins inmemtables_; under to_sst_mutex_ (so not
\* between the flush thread's predicate test and its wait) the stop flag
\* is set and notify_all wakes the thread.
Close ==
    /\ life = "open"
    /\ wst # "checked"
    /\ \A r \in Reader : rd[r].st = "idle"
    /\ inmem' = IF MemCount(mem) > 0 THEN Append(inmem, mem) ELSE inmem
    /\ stop' = TRUE
    /\ wst' = IF wst = "sleep" THEN "idle" ELSE wst
    /\ life' = "closing"
    /\ UNCHANGED <<mem, flushing, manifest, sstId, puts, rd, saved, files>>

\* ~DB: the flush thread has been joined; under manifest_lock_ the newest
\* manifest is saved to the "manifest" file.
Save ==
    /\ life = "closing"
    /\ wst = "exited"
    /\ saved' = ManifestSave(manifest)
    /\ life' = "closed"
    /\ UNCHANGED <<mem, inmem, wst, stop, flushing, manifest, sstId, puts, rd, files>>

\* Mutant of Reopen: DB() leaves sst_id_ at 0 instead of max_sst_id().
ReopenNoMaxId ==
    /\ life = "closed"
    /\ mem' = EmptyTable
    /\ inmem' = <<>>
    /\ wst' = "idle"
    /\ stop' = FALSE
    /\ flushing' = EmptyTable
    /\ manifest' = ManifestLoad(saved, files)
    /\ sstId' = 0
    /\ life' = "open"
    /\ UNCHANGED <<puts, rd, saved, files>>

\* DB() in the same directory, after ~DB in the same process or in a new
\* process after a crash: a new memtable and flush thread, the manifest
\* loaded from the file with every SST loaded from its own file, and
\* sst_id_ = max_sst_id().
Reopen ==
    /\ life = "closed"
    /\ mem' = EmptyTable
    /\ inmem' = <<>>
    /\ wst' = "idle"
    /\ stop' = FALSE
    /\ flushing' = EmptyTable
    /\ manifest' = ManifestLoad(saved, files)
    /\ sstId' = MaxSSTId(saved)
    /\ life' = "open"
    /\ UNCHANGED <<puts, rd, saved, files>>

\* The process dies at any point before ~DB has saved the manifest; the
\* SST files stay as they are.
Crash ==
    /\ life \in {"open", "closing"}
    /\ ProcessDies
    /\ UNCHANGED files

Next ==
    \/ \E k \in Key : Put(k)
    \/ WorkerCheck
    \/ WorkerBlock
    \/ WorkerFlush
    \/ WorkerFlushDies
    \/ \E r \in Reader, k \in Key : GetBegin(r, k)
    \/ \E r \in Reader : GetMem(r) \/ GetDisk(r)
    \/ Close
    \/ Save
    \/ Reopen
    \/ Crash

Spec == Init /\ [][Next]_vars

\* The flush thread and the reader threads keep running; the client calling
\* Put is not obliged to.  A thread blocked in wait has no step to take.
\* WorkerFlush is enabled exactly when wst = "flush", so its weak fairness
\* is written with that predicate in place of ENABLED WorkerFlush (which
\* TLC would evaluate by building the compacted manifest).
FlushFair == <>[](wst = "flush") => []<><<WorkerFlush \/ WorkerFlushDies>>_vars

Fairness ==
    /\ WF_vars(WorkerCheck) /\ WF_vars(WorkerBlock) /\ FlushFair
    /\ \A r \in Reader : WF_vars(GetMem(r)) /\ WF_vars(GetDisk(r))

FairSpec == Spec /\ Fairness

-----------------------------------------------------------------------------
\* The SST files the "manifest" file lists are not rewritten while the file
\* stays as it is: DB() sets sst_id_ to the largest id the file lists, so
\* the <id>.sst that ToSST and the compaction cascade write after a clean
\* restart, or after a crash, lie past them, and the next DB() loads the
\* SSTs that were saved.
SavedFilesIntact ==
    [][saved' = saved =>
         \A w \in 2..Len(saved) :
             saved[w] # -1 => files'[saved[w]] = files[saved[w]]]_vars

\* A memtable that DB::Put moved to inmemtables_ is eventually taken by
\* ToSSTLoop: the notify_one in Put reaches the flush thread.
FullMemtableFlushed == inmem # <<>> ~> inmem = <<>>

=============================================================================
