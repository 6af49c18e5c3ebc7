-------------------------------- MODULE Bloom --------------------------------
(***************************************************************************)
(* The arithmetic of BloomFilter (src/shuaikv/utils/bloom_filter.hpp)      *)
(* that its writers and its readers share.                                 *)
(***************************************************************************)
EXTENDS Integers, Sequences

\* CalcHash: res = res * seed + s[i] over the characters, from the first.
RECURSIVE CalcHash(_, _, _)
CalcHash(str, seed, res) ==
    IF str = <<>> THEN res ELSE CalcHash(Tail(str), seed, res * seed + Head(str))

\* CalcLength(n, 0.01): (size_t)(-ln 0.01 * n / ln 2 / ln 2 * 2.35) + 1,
\* with the factor 22.52488717... written as a ratio of integers.
CalcLength(n) == (n * 22524887) \div 1000000 + 1

=============================================================================
