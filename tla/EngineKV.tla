------------------------------ MODULE EngineKV ------------------------------
(***************************************************************************)
(* Engine against KVSpec.  The abstract map is what a Get that searched    *)
(* everything at once would find: memtable_, inmemtables_ newest first,    *)
(* the memtable the flush thread holds, then what ToSST was handed to     *)
(* write to SSTs.  The history variable flushedH is that last map: the    *)
(* memtables ToSST flushed, newest over older, since the store was opened *)
(* (the map the SSTs are meant to hold; module Manifest says what reading *)
(* them gives).  durableH is that map at the last clean close, which the  *)
(* store holds while closed and reopens with.  The history variable seen   *)
(* records, for each Get in progress, the values its key has held since    *)
(* the Get was called.                                                     *)
(***************************************************************************)
EXTENDS Engine

VARIABLES
    seen,       \* per reader: the values its key held during the current Get
    absDict,    \* AbsDict, kept as a variable so the refinement checks read it once
    flushedH,   \* key -> newest value ToSST was handed since the last DB()
    durableH    \* flushedH at the last Save

varsH == <<vars, seen, absDict, flushedH, durableH>>

\* The newest value of k in the memtables, else in what was flushed, in
\* this state and the next.
Newest(k) ==
    LET t == TablesGet(MemTables \o <<flushing>>, k)
    IN IF t # NotFound THEN t ELSE flushedH[k]
NewestNext(k) ==
    LET t == TablesGet(<<mem'>> \o Reverse(inmem') \o <<flushing'>>, k)
    IN IF t # NotFound THEN t ELSE flushedH'[k]

AbsRd == [r \in Reader |->
            [st |-> IF rd[r].st = "idle" THEN "idle" ELSE "busy",
             key |-> rd[r].key, seen |-> seen[r], ret |-> rd[r].ret]]

NoneWritten == [k \in Key |-> NotFound]

InitH ==
    /\ Init
    /\ seen = [r \in Reader |-> {}]
    /\ flushedH = NoneWritten
    /\ durableH = NoneWritten
    /\ absDict = NoneWritten

\* Save makes what was flushed durable; a published flush adds its memtable
\* over what was flushed; DB() starts again from the durable map.  GetBegin
\* changes rd only, so the key's value when the Get is called is the value
\* before the step; on later steps the Get may see the new value.
NextH ==
    /\ \/ /\ Save
          /\ durableH' = flushedH
          /\ UNCHANGED flushedH
       \/ /\ Next
          /\ ~Save
          /\ UNCHANGED durableH
          /\ flushedH' = CASE wst = "flush" /\ wst' = "idle" -> flushing @@ flushedH
                           [] life = "closed" /\ life' = "open" -> durableH
                           [] OTHER -> flushedH
    /\ absDict' = IF life' = "closed" THEN durableH' ELSE [k \in Key |-> NewestNext(k)]
    /\ seen' = [r \in Reader |->
                  IF rd'[r].st = "idle" THEN {}
                  ELSE IF rd[r].st = "idle" THEN {absDict[rd'[r].key]}
                  ELSE seen[r] \cup {absDict'[rd[r].key]}]

SpecH == InitH /\ [][NextH]_varsH

FairSpecH == SpecH /\ Fairness

KVLin == INSTANCE KVSpec WITH dict <- absDict, rd <- AbsRd, writes <- puts, durable <- durableH

\* DB::Get is linearizable: it returns a value its key held at some instant
\* between the call and the return.
GetLinearizable == KVLin!Spec

=============================================================================
