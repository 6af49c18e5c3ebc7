------------------------------ MODULE SSTFormat ------------------------------
(***************************************************************************)
(* The bytes of an SST that DB::ToSST writes (src/shuaikv/db.hpp) and the  *)
(* way SST::Get reads them back (src/shuaikv/lsm/sst.hpp), for one         *)
(* memtable.  ToSST builds the SST with the constructor that takes        *)
(* DBConfig's CompressionConfig (default: enabled, LZ4, 64 bytes; the      *)
(* codec may be kLZ4, kSnappy or kNone), whose data block comes from       *)
(* CompressedBlockBuilder; the constructor then                            *)
(* loads the file with IndexBlockIndex::Load, the reader of the plain      *)
(* data block layout.                                                      *)
(*                                                                         *)
(* A file is a sequence of byte values; file[o + 1] is the byte at offset  *)
(* o.  A size_t is stored little-endian; all sizes here are below 2^32.    *)
(* The codecs' output is computed.  Garbage is a byte the model does not  *)
(* know (one read past the end of a heap block), and a field read from    *)
(* such a byte is Garbage.  Bytes past the end of what was written to    *)
(* the file read as 0 (the rest of the mmap'd page).                       *)
(***************************************************************************)
EXTENDS Integers, Sequences, FiniteSets, SequencesExt, Functions, Bloom

CONSTANTS
    MemTables,  \* the memtables ToSST may be handed: sequences of
                \* <<key bytes, value bytes>> in key order, never empty
    Probes,     \* the keys (byte sequences) Get is called with
    Configs,    \* the DBConfig::compression values: [type, enable, minSize]
    RandCounters, \* values GlobalRand's counter may have when a filter is Init
    NotFound,   \* Get returned false
    Garbage,    \* a byte, or a field, the model does not compute
    SIGFPE      \* the process died of an integer division by zero

VARIABLES
    mem,        \* the memtable being flushed
    phase,      \* "mem" (before ToSST), "sst" (the SST is loaded), "crashed"
    file,       \* the bytes of the SST's mapping
    index,      \* index_block: what IndexBlockIndex::Load parsed from file
    got         \* the <<key, answer>> of every SST::Get so far

vars == <<mem, phase, file, index, got>>

LE(n, w) == [i \in 1..w |-> IF i <= 4 THEN (n \div 256^(i - 1)) % 256 ELSE 0]
U64(n) == LE(n, 8)
Zeros(w) == [i \in 1..w |-> 0]
GarbageBytes(w) == [i \in 1..w |-> Garbage]

Byte(f, o) == IF o + 1 \in 1..Len(f) THEN f[o + 1] ELSE 0
Bytes(f, o, w) == [i \in 1..w |-> Byte(f, o + i - 1)]

\* *reinterpret_cast<size_t*>(s + o)
ReadU64(f, o) ==
    LET b == Bytes(f, o, 8)
    IN IF \E i \in 1..8 : b[i] = Garbage \/ (i > 4 /\ b[i] # 0) THEN Garbage
       ELSE SumFunction([i \in 1..4 |-> b[i] * 256^(i - 1)])

\* std::string_view comparison: bytes as unsigned char, a prefix first.
RECURSIVE BytesLess(_, _)
BytesLess(a, b) ==
    IF b = <<>> THEN FALSE
    ELSE IF a = <<>> THEN TRUE
    ELSE IF Head(a) # Head(b) THEN Head(a) < Head(b)
    ELSE BytesLess(Tail(a), Tail(b))

-----------------------------------------------------------------------------
(* Writers *)

\* BloomFilter::Save: hash_num_, length_, the seeds, padding up to the next
\* multiple of 8 (always 8 bytes, left as they were), then size_ words of
\* data_; bit key lives in byte key / 8 at bit key % 8.  The builder's
\* filter never went through Init: no seed, length_ 0, size_ 0.
BloomSave(bf) ==
    LET hdr == U64(Len(bf.seeds)) \o U64(bf.len) \o FlattenSeq([i \in DOMAIN bf.seeds |-> U64(bf.seeds[i])])
    IN hdr \o Zeros(8) \o [j \in 1..8 * bf.size |->
              SumFunction([t \in 0..7 |-> IF 8 * (j - 1) + t \in bf.bits THEN 2^t ELSE 0])]

UnInitBloom == [len |-> 0, seeds |-> <<>>, size |-> 0, bits |-> {}]

\* CompressedBlockBuilder::Add: key_size, value_size, key, value appended
\* to raw_data_ (bloom_filter_.Insert has no seed to hash with).
RawData(ents) == FlattenSeq([i \in DOMAIN ents |->
                    U64(Len(ents[i][1])) \o U64(Len(ents[i][2])) \o ents[i][1] \o ents[i][2]])

\* lz4_compress's match search at position i (0-based) compares the input
\* from candidate s with the input from i: m stops at the end of the input,
\* at the first differing byte, and at 255.
RECURSIVE Lz4MatchLen(_, _, _, _)
Lz4MatchLen(src, s, i, m) ==
    IF /\ s + m < Len(src) /\ i + m < Len(src) /\ m < 255
       /\ src[s + m + 1] = src[i + m + 1]
    THEN Lz4MatchLen(src, s, i, m + 1)
    ELSE m

\* The candidates run from i - 4, raised to anchor, up to i - 1; for i < 4
\* the size_t i - 4 wraps and there is none.  The longest match wins, the
\* first candidate on a tie (m > best_match).
Lz4Best(src, i, anchor) ==
    LET cands == IF i < 4 THEN {} ELSE (IF i - 4 < anchor THEN anchor ELSE i - 4)..(i - 1)
        len(s) == Lz4MatchLen(src, s, i, 0)
    IN IF cands = {} THEN [len |-> 0, off |-> 0]
       ELSE LET b == CHOOSE s \in cands :
                       \A t \in cands : len(t) < len(s) \/ (len(t) = len(s) /\ s <= t)
            IN [len |-> len(b), off |-> i - b]

\* A pending literal run of ll bytes: while ll >= 15 the byte 0xFF and 15
\* bytes copied from anchor (which does not move), then ll and ll bytes
\* from anchor.
RECURSIVE Lz4Literals(_, _, _)
Lz4Literals(src, anchor, ll) ==
    IF ll >= 15
    THEN <<255>> \o SubSeq(src, anchor + 1, anchor + 15) \o Lz4Literals(src, anchor, ll - 15)
    ELSE <<ll>> \o SubSeq(src, anchor + 1, anchor + ll)

Lz4Finish(src, anchor, ll, out) ==
    IF ll > 0 THEN out \o Lz4Literals(src, anchor, ll) ELSE out

\* lz4_compress's loop at position i.  A match of at least 4 bytes flushes
\* the pending literals and emits the token (match - 4) << 4 and the 16-bit
\* offset, then moves i (and anchor) on by match - 4; otherwise i and the
\* literal count grow, and a count of 4095 emits FF FF 00 00 and restarts
\* at 0.  The loop leaves early once the output is past dst_cap - 18 (a
\* size_t: for dst_cap < 18 the test never holds); the pending literals
\* follow.
RECURSIVE Lz4Loop(_, _, _, _, _, _)
Lz4Loop(src, cap, i, anchor, ll, out) ==
    IF i >= Len(src) THEN Lz4Finish(src, anchor, ll, out)
    ELSE LET b == Lz4Best(src, i, anchor)
             adv == b.len - 4
             st == CASE b.len >= 4 ->
                          [i |-> i + adv, anchor |-> i + adv, ll |-> 0,
                           out |-> Lz4Finish(src, anchor, ll, out)
                                   \o <<(adv * 16) % 256, b.off % 256, (b.off \div 256) % 256>>]
                     [] ll + 1 = 4095 ->
                          [i |-> i + 1, anchor |-> anchor, ll |-> 0, out |-> out \o <<255, 255, 0, 0>>]
                     [] OTHER ->
                          [i |-> i + 1, anchor |-> anchor, ll |-> ll + 1, out |-> out]
         IN IF cap >= 18 /\ Len(st.out) > cap - 18
            THEN Lz4Finish(src, st.anchor, st.ll, st.out)
            ELSE Lz4Loop(src, cap, st.i, st.anchor, st.ll, st.out)

\* lz4_compress_bound: the bytes Compress allocates for lz4_compress.
Lz4Bound(n) == n + n \div 255 + 16

\* LZ4Compressor::Compress, the compressor CompressionFactory::Create
\* returns for kLZ4: nothing for empty input, else the size as a uint32
\* and lz4_compress's output with dst_cap = lz4_compress_bound(size).
Lz4Compress(data) ==
    IF data = <<>> THEN <<>>
    ELSE LE(Len(data), 4) \o Lz4Loop(data, Lz4Bound(Len(data)), 0, 0, 0, <<>>)

\* lz4_compress writes past the dst_cap bytes Compress allocated: the break
\* at dst_cap - 18 is tested only after a step, and the literals flushed
\* after the loop (one byte per 15) are not bounded at all.
Lz4Overflows(data) == Len(Lz4Compress(data)) - 4 > Lz4Bound(Len(data))

\* SnappyCompressor's snappy_compress from input position i.  Four equal
\* bytes start a run, extended while the byte repeats: a run shorter than
\* 12 is the tag length - 4 and the run's bytes; a longer one is 0xFC and
\* one 3-byte copy per 64 bytes (tag copylen - 4, then i - 4 as 16 bits,
\* both as size_t truncated to char).  Otherwise a literal of up to 60
\* bytes, cut before three equal bytes, is its length and its bytes.
\* The code's i < input_length - 3 is written i + 3 < n: the two agree for
\* n >= 3, and Build only compresses blocks of at least minSize bytes.
RECURSIVE SnappyLoop(_, _, _)
SnappyLoop(src, i, out) ==
    LET n == Len(src)
        at(j) == src[j + 1]
        RECURSIVE RunEnd(_)
        RunEnd(j) == IF j < n /\ at(j) = at(i) THEN RunEnd(j + 1) ELSE j
        RECURSIVE Copies(_)
        Copies(emit) ==
            IF emit = 0 THEN <<>>
            ELSE LET c == IF emit > 64 THEN 64 ELSE emit
                 IN <<(c - 4) % 256, (i - 4) % 256, ((i - 4) \div 256) % 256>> \o Copies(emit - c)
        RECURSIVE LitLen(_)
        LitLen(l) ==
            IF i + l < n /\ l < 60
               /\ ~(i + l + 3 < n /\ at(i + l) = at(i + l + 1) /\ at(i + l) = at(i + l + 2))
            THEN LitLen(l + 1) ELSE l
    IN IF i >= n THEN out
       ELSE IF i + 3 < n /\ at(i) = at(i + 1) /\ at(i) = at(i + 2) /\ at(i) = at(i + 3)
       THEN LET len == RunEnd(i + 4) - i
            IN SnappyLoop(src, i + len,
                          IF len < 12 THEN out \o <<len - 4>> \o SubSeq(src, i + 1, i + len)
                          ELSE out \o <<252>> \o Copies(len))
       ELSE LET lit == LitLen(1)
            IN SnappyLoop(src, i + lit, out \o <<lit>> \o SubSeq(src, i + 1, i + lit))

\* SnappyCompressor::Compress: nothing for empty input, else the output of
\* snappy_compress (no length prefix).
SnappyCompress(data) == IF data = <<>> THEN <<>> ELSE SnappyLoop(data, 0, <<>>)

\* The buffer Compress allocates: snappy_max_compressed_length.
SnappyMaxLen(n) == 32 + n + n \div 6
SnappyOverflows(data) == Len(SnappyCompress(data)) > SnappyMaxLen(Len(data))

\* CompressionFactory::Create(type)->Compress(data); kNone has no
\* compressor.
CodecCompress(type, data) ==
    CASE type = "kLZ4" -> Lz4Compress(data)
      [] type = "kSnappy" -> SnappyCompress(data)
      [] OTHER -> <<>>

CodecOverflows(type, data) ==
    \/ type = "kLZ4" /\ Lz4Overflows(data)
    \/ type = "kSnappy" /\ SnappyOverflows(data)

\* CompressionConfig::ShouldCompress.
ShouldCompress(cfg, originalSize) == cfg.enable /\ originalSize >= cfg.minSize

\* CompressedBlockBuilder::Build.  written is what the code stores from
\* result.data(): original_size, flags, the filter, count_, raw_data_.
\* result was resized to 9 + header_size bytes only, so the memcpy of
\* raw_data_ runs past it (overflow).  With compression and a compressor
\* whose output is not empty the result is [compressed size][0x01][output];
\* without a compressor (kNone) it stays as built, flags 0x01 included.  The compressor's input
\* starts at result.data() + 9 and is header_size + raw size bytes long:
\* the filter, count_ and raw_data_ as the overflow left them, then the 9
\* bytes after them, tail, which nothing wrote.
Build(cfg, ents, tail) ==
    LET bloom == BloomSave(UnInitBloom)
        headerSize == 8 + 1 + Len(bloom) + 8
        originalSize == headerSize + Len(RawData(ents))
        compress == ShouldCompress(cfg, originalSize)
        written == U64(originalSize) \o <<IF compress THEN 1 ELSE 0>> \o bloom
                   \o U64(Len(ents)) \o RawData(ents)
        input == SubSeq(written, 10, Len(written)) \o tail
        out == CodecCompress(cfg.type, input)
    IN [overflow |-> Len(written) > 9 + headerSize \/ (compress /\ CodecOverflows(cfg.type, input)),
        data |-> IF compress /\ out # <<>>
                 THEN U64(Len(out)) \o <<1>> \o out
                 ELSE SubSeq(written, 1, 9 + headerSize)]

\* SST(MemeTable&, id, config): an index block of index_block_size bytes
\* [size][count 1][offset][key size][first key], then the data block
\* [compressed_data.size()][compressed_data] at offset index_block_size.
ConfigSSTFile(ents, data) ==
    LET ibs == 16 * (Len(ents) + 1) + Len(ents[1][1])
        indexBytes == U64(ibs) \o U64(1) \o U64(ibs) \o U64(Len(ents[1][1])) \o ents[1][1]
    IN indexBytes \o Zeros(ibs - Len(indexBytes)) \o U64(Len(data)) \o data

\* BloomFilter::Init(n, 0.01): length_ = CalcLength(n), hash_num_ =
\* max(1, int(0.69 * length_ / n)), the seeds the next hash_num_
\* GlobalRand() values from counter r, size_ = length_ / 64 + 1 words
\* zeroed.
BloomInit(n, r) ==
    LET len == CalcLength(n)
        hn == (69 * len) \div (100 * n)
    IN [len |-> len, seeds |-> [i \in 1..(IF hn < 1 THEN 1 ELSE hn) |-> r + i - 1],
        size |-> len \div 64 + 1, bits |-> {}]

\* BloomFilter::Insert: bit CalcHash(key, seed) % length_ for every seed.
BloomInsert(bf, key) ==
    [bf EXCEPT !.bits = @ \cup {CalcHash(key, bf.seeds[i], 0) % bf.len : i \in DOMAIN bf.seeds}]

\* The filter SST(MemeTable&, id) builds: Init(memtable.size(), 0.01), then
\* Insert of every key in the memtable's order.
PlainBloom(ents, r) ==
    FoldLeft(LAMBDA bf, e : BloomInsert(bf, e[1]), BloomInit(Len(ents), r), ents)

\* BloomFilter::binary_size: the seeds and the two counts, the padding to
\* the next multiple of 8 (a whole word when already aligned), the bits.
BloomBinarySize(bf) ==
    LET hdr == 8 * Len(bf.seeds) + 16
    IN hdr + 8 * bf.size + (8 - (hdr % 8))

\* SST(MemeTable&, id), the constructor without compression: the same
\* index block, then the data block [data_block_size][bloom filter]
\* [count][entries], data_block_size counting its own 8 bytes, the
\* entries' sizes and bytes, the filter and the count.  The bytes between
\* the index record and the data block are never written.
PlainSSTFile(ents, bf) ==
    LET ibs == 16 * (Len(ents) + 1) + Len(ents[1][1])
        indexBytes == U64(ibs) \o U64(1) \o U64(ibs) \o U64(Len(ents[1][1])) \o ents[1][1]
        dbs == 8 + Len(RawData(ents)) + BloomBinarySize(bf) + 8
    IN indexBytes \o Zeros(ibs - Len(indexBytes))
         \o U64(dbs) \o BloomSave(bf) \o U64(Len(ents)) \o RawData(ents)

-----------------------------------------------------------------------------
(* Reader *)

\* A length field that reaches past the one mapped page is not followed.
PageSize == 4096

\* BloomFilter::Load at offset o: hash_num_, length_, hash_num_ seeds, the
\* padding, then data_ points at size_ = length_ / 64 + 1 words in place.
BloomLoad(f, o) ==
    LET hn == ReadU64(f, o)
        len == ReadU64(f, o + 8)
    IN IF hn = Garbage \/ len = Garbage \/ o + 24 + 8 * hn > PageSize THEN Garbage
       ELSE [seeds |-> [i \in 1..hn |-> ReadU64(f, o + 16 + 8 * (i - 1))],
             len |-> len, at |-> o + 24 + 8 * hn, size |-> len \div 64 + 1]

\* BloomFilter::Check: for each seed, bit CalcHash % length_ of data_; the
\* first seed already divides by length_.
BloomCheckAt(f, bf, k) ==
    CASE bf.seeds = <<>> -> TRUE
      [] bf.len = 0 -> SIGFPE
      [] \E i \in DOMAIN bf.seeds : bf.seeds[i] = Garbage -> Garbage
      [] \E j \in 0..8 * bf.size - 1 : Byte(f, bf.at + j) = Garbage -> Garbage
      [] OTHER -> \A i \in DOMAIN bf.seeds :
                    LET h == CalcHash(k, bf.seeds[i], 0) % bf.len
                    IN (Byte(f, bf.at + h \div 8) \div 2^(h % 8)) % 2 = 1

\* n records of [key size][value size][key][value] from offset o
\* (EntryIndex::Load), as <<key, value>> pairs.
RECURSIVE ParseEntries(_, _, _)
ParseEntries(f, o, n) ==
    IF n = 0 THEN <<>>
    ELSE LET kl == ReadU64(f, o)
             vl == ReadU64(f, o + 8)
         IN IF kl = Garbage \/ vl = Garbage \/ o + 16 + kl + vl > PageSize THEN Garbage
            ELSE LET rest == ParseEntries(f, o + 16 + kl + vl, n - 1)
                 IN IF rest = Garbage THEN Garbage
                    ELSE <<<<Bytes(f, o + 16, kl), Bytes(f, o + 16 + kl, vl)>>>> \o rest

\* DataBlockIndex::Load at offset o: [size][bloom filter][count][entries].
DataBlockLoad(f, o) ==
    LET bf == BloomLoad(f, o + 8)
        cnt == IF bf = Garbage THEN Garbage ELSE ReadU64(f, bf.at + 8 * bf.size)
        ents == IF cnt = Garbage THEN Garbage ELSE ParseEntries(f, bf.at + 8 * bf.size + 8, cnt)
    IN IF ents = Garbage THEN Garbage ELSE [bf |-> bf, ents |-> ents]

\* n records of [offset][key size][key] from offset o, each loading the
\* data block at its offset (DataBlockIndexIndex::Load).
RECURSIVE ParseIndex(_, _, _)
ParseIndex(f, o, n) ==
    IF n = 0 THEN <<>>
    ELSE LET off == ReadU64(f, o)
             kl == ReadU64(f, o + 8)
         IN IF off = Garbage \/ kl = Garbage \/ o + 16 + kl > PageSize THEN Garbage
            ELSE LET rest == ParseIndex(f, o + 16 + kl, n - 1)
                 IN IF rest = Garbage THEN Garbage
                    ELSE <<[key |-> Bytes(f, o + 16, kl), block |-> DataBlockLoad(f, off)]>> \o rest

\* IndexBlockIndex::Load: [size][count][index records].
IndexLoad(f) ==
    LET cnt == ReadU64(f, 8)
    IN IF cnt = Garbage THEN Garbage ELSE ParseIndex(f, 16, cnt)

\* DataBlockIndex::Get: the filter, then the lower bound of k.
BlockGet(f, b, k) ==
    LET chk == BloomCheckAt(f, b.bf, k)
        r == Cardinality({i \in DOMAIN b.ents : BytesLess(b.ents[i][1], k)})
    IN CASE chk \in {SIGFPE, Garbage} -> chk
         [] chk = FALSE -> NotFound
         [] r = Len(b.ents) \/ b.ents[r + 1][1] # k -> NotFound
         [] OTHER -> b.ents[r + 1][2]

\* SST::Get, IndexBlockIndex::Get on the loaded index idx: the last index
\* record whose key is not above k names the block to search.
SSTGet(f, idx, k) ==
    LET r == IF idx = Garbage THEN 0 ELSE Cardinality({i \in DOMAIN idx : ~BytesLess(k, idx[i].key)})
    IN CASE idx = Garbage -> Garbage
         [] r = 0 -> NotFound
         [] idx[r].block = Garbage -> Garbage
         [] OTHER -> BlockGet(f, idx[r].block, k)

-----------------------------------------------------------------------------

Init ==
    /\ mem \in MemTables
    /\ phase = "mem"
    /\ file = <<>>
    /\ index = <<>>
    /\ got = {}

\* DB::ToSST: the SST constructor builds the data block, writes the file
\* and loads its index block.  Build's overflow is undefined behaviour; the heap
\* corruption it leaves may abort the process (glibc's malloc checks).
\* The 9 bytes read past raw_data_ are those of the heap: zeros, or bytes
\* the model does not know.
TailBytes == {Zeros(9), GarbageBytes(9)}

Flush ==
    \E cfg \in Configs, tail \in TailBytes :
    LET b == Build(cfg, mem, tail)
    IN /\ phase = "mem"
       /\ \/ /\ b.overflow
             /\ phase' = "crashed"
             /\ UNCHANGED <<file, index>>
          \/ /\ file' = ConfigSSTFile(mem, b.data)
             /\ index' = IndexLoad(file')
             /\ phase' = "sst"
       /\ UNCHANGED <<mem, got>>

\* AsyncSSTWriter::WriteSync with enable_compression false: the SST is
\* built by SST(MemeTable&, id), whose filter takes its seeds from
\* GlobalRand; with enable_compression true it is Flush's constructor.
WriteSync ==
    /\ phase = "mem"
    /\ \E r \in RandCounters :
          /\ file' = PlainSSTFile(mem, PlainBloom(mem, r))
          /\ index' = IndexLoad(file')
          /\ phase' = "sst"
    /\ UNCHANGED <<mem, got>>

\* SST::Get(k) on the flushed SST; a division by zero kills the process.
Get(k) ==
    /\ phase = "sst"
    /\ \E a \in {SSTGet(file, index, k)} :
          /\ got' = got \cup {<<k, a>>}
          /\ phase' = IF a = SIGFPE THEN "crashed" ELSE phase
    /\ UNCHANGED <<mem, file, index>>

Next == Flush \/ WriteSync \/ \E k \in Probes : Get(k)

Spec == Init /\ [][Next]_vars

\* The value the memtable holds for k (MemTable::Get).
MemValue(k) ==
    IF \E i \in DOMAIN mem : mem[i][1] = k
    THEN mem[CHOOSE i \in DOMAIN mem : mem[i][1] = k][2] ELSE NotFound

-----------------------------------------------------------------------------
\* A key DB::Put stored, once its memtable is flushed by ToSST, is read
\* back by SST::Get with the value it had (db_test writes keys and reads
\* every one back), and a key not stored is not found.
ReadBack == \A g \in got : g[2] = MemValue(g[1])

=============================================================================
