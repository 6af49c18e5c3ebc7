----------------------------- MODULE MCSSTFormat -----------------------------
EXTENDS SSTFormat

\* Keys "k0", "k1", "k2" and the value "v", as byte values.
MCK0 == <<107, 48>>
MCK1 == <<107, 49>>
MCK2 == <<107, 50>>
MCV == <<118>>

\* A memtable of one entry, whose block (original_size 60) is below
\* min_size_for_compression and is stored as built, and one of two
\* entries, whose block (79 bytes) goes through LZ4.
MCMemTables == {<<<<MCK1, MCV>>>>, <<<<MCK1, MCV>>, <<MCK2, MCV>>>>}

\* DBConfig's default compression, the same with Snappy, with no codec,
\* and disabled.
MCConfigs == {[type |-> t, enable |-> TRUE, minSize |-> 64] : t \in {"kLZ4", "kSnappy", "kNone"}}
             \cup {[type |-> "kLZ4", enable |-> FALSE, minSize |-> 64]}

\* GlobalRand's counter at the start, and after a few filters.
MCRandCounters == {0, 30}

\* A key below the first one, the first key, and the second.
MCProbes == {MCK0, MCK1, MCK2}
=============================================================================
