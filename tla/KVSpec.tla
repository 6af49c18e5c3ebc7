------------------------------- MODULE KVSpec -------------------------------
(***************************************************************************)
(* What DB of src/shuaikv/db.hpp promises its callers: a map from keys to  *)
(* the value last written, and reads that are linearizable.  A Get is an   *)
(* interval from its call to its return; it may return any value the key   *)
(* held at some instant of that interval, which is the value it held when  *)
(* the Get was called or one written while the Get was in progress.        *)
(* Writes are told apart by their number: the n-th write stores value n.  *)
(* Only a clean close makes the map durable: a crash of the process       *)
(* brings back the map as it was at the last clean close.                 *)
(***************************************************************************)
EXTENDS Naturals

CONSTANTS Key, Reader, NotFound

VARIABLES
    dict,   \* key -> value last written, NotFound if never written
    writes, \* number of writes so far
    durable,\* the map as of the last clean close
    rd      \* per reader: st ("idle" | "busy"), key, the values the key
            \* held during the current Get (seen), the last value returned

Init ==
    /\ dict = [k \in Key |-> NotFound]
    /\ writes = 0
    /\ durable = dict
    /\ rd \in [Reader -> [st : {"idle"}, key : Key, seen : {{}}, ret : {NotFound}]]

\* The next write, of k; every Get of k in progress may now return it.
Put(k) ==
    LET v == writes + 1
    IN /\ writes' = v
       /\ dict' = [dict EXCEPT ![k] = v]
       /\ UNCHANGED durable
       /\ rd' = [r \in Reader |-> IF rd[r].st = "busy" /\ rd[r].key = k
                                  THEN [rd[r] EXCEPT !.seen = @ \cup {v}]
                                  ELSE rd[r]]

\* A Get of k is called.
GetCall(r, k) ==
    /\ rd[r].st = "idle"
    /\ rd' = [rd EXCEPT ![r] = [st |-> "busy", key |-> k, seen |-> {dict[k]}, ret |-> @.ret]]
    /\ UNCHANGED <<dict, writes, durable>>

\* The Get returns a value the key held while it was in progress.
GetReturn(r) ==
    /\ rd[r].st = "busy"
    /\ \E v \in rd[r].seen :
          rd' = [rd EXCEPT ![r] = [st |-> "idle", key |-> @.key, seen |-> {}, ret |-> v]]
    /\ UNCHANGED <<dict, writes, durable>>

\* The store is closed cleanly: the map it holds is now durable.
Close ==
    /\ durable' = dict
    /\ UNCHANGED <<dict, writes, rd>>

\* The process crashes: the map goes back to the durable one, and every Get
\* in progress ends without returning.
Crash ==
    /\ dict' = durable
    /\ rd' = [r \in Reader |-> [rd[r] EXCEPT !.st = "idle", !.seen = {}]]
    /\ UNCHANGED <<writes, durable>>

Next ==
    \/ \E k \in Key : Put(k)
    \/ \E r \in Reader, k \in Key : GetCall(r, k)
    \/ \E r \in Reader : GetReturn(r)
    \/ Close
    \/ Crash

Spec == Init /\ [][Next]_<<dict, writes, durable, rd>>

=============================================================================
