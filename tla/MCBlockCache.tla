---------------------------- MODULE MCBlockCache ----------------------------
(***************************************************************************)
(* BlockCache with a configuration scaled down from DBConfig's default    *)
(* (256 MiB capacity, 64 KiB largest block, 4 KiB blocks, utilization     *)
(* 0.5, no count limit): a capacity of two largest blocks and a count     *)
(* limit of three, so that both eviction conditions are met.  Two SSTs    *)
(* each have a data block of 2 KiB at offset 48.                          *)
(***************************************************************************)
EXTENDS BlockCache

MCKeys == {<<1, 0>>, <<1, 48>>, <<2, 48>>}

\* 1 KiB is rejected for its utilization; the others are admitted.
MCSizes == {1024, 2048, 4096, 8192}

MCSSTBlock == [s \in {1, 2} |-> [off |-> 48, size |-> 2048]]

=============================================================================
