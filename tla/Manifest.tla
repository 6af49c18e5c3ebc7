------------------------------ MODULE Manifest ------------------------------
(***************************************************************************)
(* The LSM-tree manifest of src/shuaikv/lsm/manifest.hpp and what it      *)
(* relies on from src/shuaikv/lsm/sst.hpp, as pure operators, for the SSTs *)
(* this store holds.  DB::ToSST builds every SST with SST(MemeTable&, id,  *)
(* config), whose CompressedBlockBuilder layout the constructor loads back *)
(* with the plain reader DataBlockIndex::Load (module SSTFormat computes   *)
(* the bytes): the filter reads original_size as its seed count and       *)
(* length_ 0, and the entries are parsed from the wrong offsets.  Only the *)
(* index block's first key and the file size are right.  Every SST a      *)
(* compaction writes merges entries read from such blocks.  So an SST is *)
(* a record [id, gen, full]: the file <id>.sst, the write gen that made    *)
(* it, and whether its binary_size() is known to be over level 0's 1 KB;  *)
(* what comparisons of its keys and sums of its sizes give is a            *)
(* nondeterministic choice.  A level is a sequence of SSTs in the order   *)
(* of Level::ssts_, and a manifest the sequence of its levels (level i at *)
(* position i + 1).                                                        *)
(***************************************************************************)
EXTENDS Integers, Sequences, SequencesExt

CONSTANTS
    NotFound,   \* Get returned false
    Garbage,    \* a value read from bytes that were never written as one
    Dies        \* the process died reading an SST (SIGFPE, SIGSEGV)

\* max_level_size(): SizeTieredCompaction looks at levels 0..4 only.
MaxLevelSize == 5

\* SST(MemeTable&, id, config) of the memtable ToSST flushes.  binary_size()
\* is file_size_: an index block of 16 bytes per entry plus the compressed
\* block.  A memtable that Put rotated is over memtable_max_size (3 MB), so
\* its SST is over level 0's 1 KB (full); one that ~DB pushed may be small.
FlushedSST(id, gen, full) == [id |-> id, gen |-> gen, full |-> full]

\* SST(entries, id) of a compaction, from entries read from garbage: its
\* keys and its file_size_ are unknown.
CompactedSST(id, gen) == [id |-> id, gen |-> gen, full |-> FALSE]

\* SST::Get: a key below the index block's first key is not found; any
\* other reaches the data block, whose filter divides by length_ 0 or
\* reads seeds past the mapping, and whose entries are garbage.
SSTGetAnswers == {NotFound, Garbage, Dies}

\* Level::Get: level 0 asks its SSTs from rbegin() until one finds the key,
\* a higher level the SST its binary search over the first keys picks.
LevelGet(ssts) == IF ssts = <<>> THEN {NotFound} ELSE SSTGetAnswers

\* Manifest::Get: the levels from 0 up until one finds the key.
ManifestGet(m) == UNION {LevelGet(m[i]) : i \in 1..Len(m)}

\* Manifest(): a manifest with one empty level 0.
EmptyManifest == <<<<>>>>

\* Level::Insert: the SST goes to the end of the level's list.
LevelInsert(ssts, sst) == Append(ssts, sst)

\* Manifest::Insert: Level::Insert on level 0.
ManifestInsert(m, sst) == [m EXCEPT ![1] = LevelInsert(@, sst)]

\* Manifest(const Manifest&): the same levels (version_ is left out).
CopyManifest(m) == m

\* InsertAndUpdate: Manifest::Insert on a copy of the manifest.
InsertAndUpdate(m, sst) == ManifestInsert(CopyManifest(m), sst)

\* DBConfig::memtable_max_size, in KB like the thresholds below (10 GB is
\* beyond TLC's integers; every size here is a multiple of 1 KB).
MemtableMaxSize == (4096 * 1024 - 1024 * 1024) \div 1024

\* level_max_binary_size(level), in KB: 1 KB, 10 MB, 100 MB, 1 GB, 10 GB.
LevelMaxBinarySize(level) ==
    <<1, 10 * 1024, 100 * 1024, 1000 * 1024, 10000 * 1024>>[level + 1]

\* The values of Level::binary_size() > max, the sum of its SSTs'
\* file_size_: FALSE for an empty level, TRUE when a full SST alone is
\* over max, and otherwise either (the sizes of SSTs that are not full are
\* small or read from garbage).
LevelOver(ssts, max) ==
    CASE ssts = <<>> -> {FALSE}
      [] \E j \in 1..Len(ssts) : ssts[j].full /\ MemtableMaxSize >= max -> {TRUE}
      [] OTHER -> BOOLEAN

\* The test levels_[i].binary_size() > level_max_binary_size(i).
OverThreshold(m, i) == LevelOver(m[i + 1], LevelMaxBinarySize(i))

\* CanDoCompaction: level 0 is over its threshold.
CanDoCompaction(m) == OverThreshold(m, 0)

\* A new Level(level + 1) is appended when level is the last one.
NextLevel(m, level) == IF level + 1 = Len(m) THEN Append(m, <<>>) ELSE m

\* Manifest::SizeTieredCompaction(level, id): min_key, max_key and the
\* scan of level + 1 compare garbage keys, so the scan may end with any
\* -1 <= insert_l < insert_r <= size(); the SSTs up to insert_l and from
\* insert_r on stay around the merged SST(entries, id), and the level is
\* cleared.  The set of possible manifests.
CompactLevel(m, level, id, gen) ==
    LET m1 == NextLevel(m, level)
        next == m1[level + 2]
        cuts == {p \in (-1..Len(next)) \X (0..Len(next)) : p[1] < p[2]}
    IN {[m1 EXCEPT ![level + 1] = <<>>,
                   ![level + 2] = SubSeq(next, 1, p[1] + 1) \o <<CompactedSST(id, gen)>>
                                    \o SubSeq(next, p[2] + 1, Len(next))] : p \in cuts}

\* Manifest::SizeTieredCompaction(id): from level 0 up, compact each level
\* that is over its threshold, every one with the same id, and stop at the
\* first that is not.
RECURSIVE Cascade(_, _, _, _)
Cascade(m, i, id, gen) ==
    IF i < Len(m) /\ i < MaxLevelSize
    THEN (IF FALSE \in OverThreshold(m, i) THEN {m} ELSE {})
         \cup (IF TRUE \in OverThreshold(m, i)
               THEN UNION {Cascade(c, i + 1, id, gen) : c \in CompactLevel(m, i, id, gen)}
               ELSE {})
    ELSE {m}

SizeTieredCompaction(m, id, gen) == Cascade(m, 0, id, gen)

-----------------------------------------------------------------------------
(* The "manifest" file and the SST files, across a restart.  The file is  *)
(* a sequence of size_t words; size_t(-1) is written as -1.  The version_ *)
(* word, which nothing reads back but Load, is left out.  An SST file is  *)
(* represented by the SST record that wrote it, keyed by its id.          *)

\* Level::Save: the ids of its SSTs, then the end marker size_t(-1).
LevelSave(ssts) == [j \in 1..Len(ssts) |-> ssts[j].id] \o <<-1>>

\* Manifest::Save: the level count, then every level's Level::Save.
ManifestSave(m) ==
    <<Len(m)>> \o FlattenSeq([i \in 1..Len(m) |-> LevelSave(m[i])])

\* SST::SetId(id) then SST::Load(): open and mmap <id>.sst and parse its
\* index block; Level::Load ignores a failed Load.  Every id a saved
\* manifest lists was written by a flush or a compaction and no file is
\* ever removed, so the open succeeds and the SST is what wrote the file.
SSTLoad(files, id) == files[id]

\* Level::Load from word w of the file: the ids up to the end marker; each
\* SST is SetId and Load()ed from its file.  The result is the level and
\* the word after the marker.
RECURSIVE LevelLoad(_, _, _, _)
LevelLoad(words, w, files, ssts) ==
    IF words[w] = -1 THEN [ssts |-> ssts, next |-> w + 1]
    ELSE LevelLoad(words, w + 1, files, Append(ssts, SSTLoad(files, words[w])))

RECURSIVE LevelsLoad(_, _, _, _)
LevelsLoad(words, w, files, n) ==
    IF n = 0 THEN <<>>
    ELSE LET l == LevelLoad(words, w, files, <<>>)
         IN <<l.ssts>> \o LevelsLoad(words, l.next, files, n - 1)

\* Manifest(): with a manifest file, level_count levels loaded in order;
\* without one, EmptyManifest.
ManifestLoad(words, files) ==
    IF words = <<>> THEN EmptyManifest ELSE LevelsLoad(words, 2, files, words[1])

\* max_sst_id_ after Manifest(): the largest id Level::Load met, else 0.
MaxSSTId(words) ==
    LET ids == {words[w] : w \in 2..Len(words)} \ {-1}
    IN IF ids = {} THEN 0 ELSE Max(ids)

=============================================================================
