-------------------------------- MODULE Pod --------------------------------
(***************************************************************************)
(* The Raft node of src/shuaikv/raft/pod.hpp: a cluster of Pods, each with *)
(* its RaftLog (module RaftLog), its election thread, its heartbeat loop,  *)
(* one replicator thread per peer (class Follower) and its applier.        *)
(*                                                                         *)
(* RPCs are synchronous gRPC calls with a 2 s deadline.  A vote RPC runs   *)
(* while the candidate holds election_mutex_, so it is one step; an        *)
(* Append sent by a replicator is three steps (send, handled by the peer,  *)
(* reply) so that the peer's state can change while the request is in      *)
(* flight.  Any RPC may fail: the request or the answer is lost, or the    *)
(* callee is blocked until the deadline.                                   *)
(*                                                                         *)
(* A Pod may also be shut down (SIGTERM): its gRPC server stops taking     *)
(* calls, then ~Pod and ~RaftLog stop its threads.  It is not restarted.   *)
(***************************************************************************)
EXTENDS Integers, Sequences, FiniteSets, RaftLog

CONSTANTS
    Server,     \* the Pods of raft.cfg
    Value,      \* client Put payloads (each put at most once)
    MaxTerm,    \* bound on elections: no Pod starts an election past it
    MaxShutdown,\* bound on the Pods that receive the shutdown signal
    Nil

Follower == "Follower"
Candidate == "Candidate"
Leader == "Leader"

\* A negative int64 nextindex_ passed to UpdateCommit(size_t) becomes a
\* number above every log index; SizeTWrap stands for 2^64.
SizeTWrap == 2^20
ToSizeT(x) == IF x < 0 THEN SizeTWrap + x ELSE x

VARIABLES
    term,       \* term_
    status,     \* status_
    voted,      \* voted_
    leaderId,   \* leader_id_
    rlog,       \* raft_log_ (a RaftLog record)
    db,         \* values the applier handed to DB::Put, in order
    election,   \* RequestVote in progress: [pending, tickets] or Nil
    hb,         \* peers still to receive the current SendHeartBeat round
    nextIndex,  \* nextIndex[n][p]: Follower::nextindex_ of n's replicator for p
    rep,        \* replicator thread: "off", "outer" loop or "inner" loop
    stopping,   \* Follower::Stop() called and the thread not yet joined
    rpc,        \* the replicator's Append in flight: Nil or [req, st, code]
    put,        \* client Put of each value: [st, node, idx]
    life        \* server shutdown and ~Pod: "serving", "draining", "closed",
                \* "stopping" or "down"

vars == <<term, status, voted, leaderId, rlog, db, election, hb,
          nextIndex, rep, stopping, rpc, put, life>>
repVars == <<nextIndex, rep, stopping, rpc>>

Peers(n) == Server \ {n}
NumFollowers == Cardinality(Server) - 1

\* While a Pod joins its stopping replicators it holds election_mutex_
\* (and solve_append_lock_): its handlers and its election thread wait.
Busy(n) == \E p \in Peers(n) : stopping[n][p]

\* The gRPC server of p accepts calls until grpc::Server::Shutdown.
Serving(p) == life[p] = "serving"

\* The election thread runs until ~Pod has set its stop flag and joined it.
ElectionThreadRuns(n) == life[n] \notin {"stopping", "down"}

-----------------------------------------------------------------------------
(* Handlers *)

\* Pod::Vote.
VoteGranted(p, req) ==
    /\ req.term >= term[p]
    /\ ~(req.term = term[p] /\ req.index < rlog[p].index)
    /\ ~(req.term = term[p] /\ voted[p])

\* Follower::Stop() on every replicator of a Leader that steps down.
StopReplicators(p) ==
    IF status[p] = Leader
    THEN stopping' = [stopping EXCEPT ![p] = [q \in Peers(p) |-> rep[p][q] # "off"]]
    ELSE UNCHANGED stopping

\* RaftServiceImpl::RequestVote: the answer code is 0 when Vote granted
\* the vote and -1 otherwise; RequestVote counts a ticket only for code 0.
VoteRspCode(p, req) == IF VoteGranted(p, req) THEN 0 ELSE -1

Vote(p, req) ==
    IF ~VoteGranted(p, req)
    THEN UNCHANGED <<term, status, voted, stopping>>
    ELSE /\ voted' = [voted EXCEPT ![p] = TRUE]
         /\ IF req.term > term[p]
            THEN /\ term' = [term EXCEPT ![p] = req.term]
                 /\ status' = [status EXCEPT ![p] = Follower]
                 /\ StopReplicators(p)
            ELSE UNCHANGED <<term, status, stopping>>

\* Pod::SolveAppend, first block: a newer term, or an entry beyond the
\* local log at the same term, makes the Pod a Follower of req.id.
StepsDown(p, req) ==
    \/ req.term > term[p]
    \/ /\ req.term = term[p]
       /\ req.entries # <<>>
       /\ req.entries[1].index > rlog[p].index

\* Pod::UpdateRaftLog on the log l (one entry; the leader never sends more).
\* The result of RaftLog::Put is ignored: a full ring still answers 0.
UpdateRaftLog(l, e, leaderCommit) ==
    LET entry == [term |-> e.term, val |-> e.val]
        l2 == IF leaderCommit < l.index /\ leaderCommit > l.commited
              THEN Reset(l, l.commited) ELSE l
    IN IF e.index = l.index + 1 THEN <<Put(l, entry, e.commited), 0>>
       ELSE IF e.index # l2.index + 1 THEN <<l2, -2>>
       ELSE <<Put(l2, entry, e.commited), 0>>

\* The log and the answer code after SolveAppend.
AppendResult(p, req) ==
    LET l1 == UpdateCommit(rlog[p], req.ci)
    IN IF req.entries = <<>> THEN <<l1, 0>>
       ELSE UpdateRaftLog(l1, req.entries[1], req.ci)

SolveAppend(p, req) ==
    /\ IF StepsDown(p, req)
       THEN /\ term' = [term EXCEPT ![p] = req.term]
            /\ voted' = [voted EXCEPT ![p] = FALSE]
            /\ StopReplicators(p)
            /\ status' = [status EXCEPT ![p] = Follower]
            /\ leaderId' = [leaderId EXCEPT ![p] = req.id]
       ELSE UNCHANGED <<term, voted, stopping, status, leaderId>>
    /\ rlog' = [rlog EXCEPT ![p] = AppendResult(p, req)[1]]

-----------------------------------------------------------------------------
(* Election thread: StartHeartBeatAndTimeOutRout and RequestVote *)

\* GetPodStatusWithLock(): status_, read under election_mutex_.
GetPodStatusWithLock(n) == status[n]

\* SendHeartBeat(): Follower::SendHeartBeat(term_) on every Follower.
SendHeartBeat(n) == Peers(n)

\* No heartbeat or vote request for timeout_time_ms: become Candidate and
\* start RequestVote with ++term_ and one ticket for itself.
Timeout(n) ==
    /\ GetPodStatusWithLock(n) # Leader
    /\ election[n] = Nil
    /\ ElectionThreadRuns(n)
    /\ ~Busy(n)
    /\ term[n] < MaxTerm
    /\ status' = [status EXCEPT ![n] = Candidate]
    /\ term' = [term EXCEPT ![n] = @ + 1]
    /\ election' = [election EXCEPT ![n] = [pending |-> Peers(n), tickets |-> 1]]
    /\ UNCHANGED <<life, voted, leaderId, rlog, db, hb, repVars, put>>

\* One iteration of the RequestVote loop: still Candidate, ask peer p.
\* The call either reaches p's Vote handler or fails (lost, or p blocked).
RequestVoteRpc(n, p) ==
    /\ election[n] # Nil
    /\ p \in election[n].pending
    /\ status[n] = Candidate
    /\ LET req == [term |-> term[n], index |-> rlog[n].index] IN
       \/ /\ Serving(p)
          /\ ~Busy(p)
          /\ Vote(p, req)
          /\ election' = [election EXCEPT ![n] =
                            [pending |-> @.pending \ {p},
                             tickets |-> @.tickets + (IF VoteRspCode(p, req) = 0 THEN 1 ELSE 0)]]
       \/ /\ election' = [election EXCEPT ![n].pending = @ \ {p}]
          /\ UNCHANGED <<term, status, voted, stopping>>
    /\ UNCHANGED <<life, leaderId, rlog, db, hb, nextIndex, rep, rpc, put>>

\* RequestVote returns false: the Pod is no longer a Candidate.
ElectionAbort(n) ==
    /\ election[n] # Nil
    /\ status[n] # Candidate
    /\ ~Busy(n)
    /\ election' = [election EXCEPT ![n] = Nil]
    /\ UNCHANGED <<life, term, status, voted, leaderId, rlog, db, hb, repVars, put>>

\* Mutant of ElectionWon: half of the Pods suffice.
ElectionWonHalf(tickets) == tickets >= (1 + NumFollowers) \div 2

\* RequestVote's test ticket_num > (1 + followers_.size()) / 2.
ElectionWon(tickets) == tickets > (1 + NumFollowers) \div 2

\* All peers asked: ticket_num > (1 + followers_.size()) / 2 makes a Leader,
\* which sets every nextindex_ to its commit index and runs the replicators.
ElectionEnd(n) ==
    /\ election[n] # Nil
    /\ election[n].pending = {}
    /\ status[n] = Candidate
    /\ ~Busy(n)
    /\ election' = [election EXCEPT ![n] = Nil]
    /\ IF ElectionWon(election[n].tickets)
       THEN /\ status' = [status EXCEPT ![n] = Leader]
            /\ nextIndex' = [nextIndex EXCEPT ![n] = [p \in Peers(n) |-> rlog[n].commited]]
            /\ rep' = [rep EXCEPT ![n] = [p \in Peers(n) |-> "outer"]]
       ELSE UNCHANGED <<status, nextIndex, rep>>
    /\ UNCHANGED <<life, term, voted, leaderId, rlog, db, hb, stopping, rpc, put>>

\* The election thread of a Leader wakes every heart_beat_time_ms.
StartHeartBeat(n) ==
    /\ GetPodStatusWithLock(n) = Leader
    /\ hb[n] = {}
    /\ ElectionThreadRuns(n)
    /\ ~Busy(n)
    /\ hb' = [hb EXCEPT ![n] = SendHeartBeat(n)]
    /\ UNCHANGED <<life, term, status, voted, leaderId, rlog, db, election, repVars, put>>

\* Follower::SendHeartBeat(term_) for peer p: the term and commit index are
\* read when the call is made, whatever the Pod's status is by then.
HeartBeat(n, p) ==
    /\ p \in hb[n]
    /\ hb' = [hb EXCEPT ![n] = @ \ {p}]
    /\ LET req == [term |-> term[n], id |-> n, ci |-> rlog[n].commited,
                   entries |-> <<>>] IN
       \/ /\ Serving(p)
          /\ ~Busy(p)
          /\ SolveAppend(p, req)
       \/ UNCHANGED <<term, voted, stopping, status, leaderId, rlog>>
    /\ UNCHANGED <<life, db, election, nextIndex, rep, rpc, put>>

-----------------------------------------------------------------------------
(* Replicator thread of n for peer p: Follower::Run *)

\* Follower::SetOtherFollower: the replicator of n for p keeps the
\* Followers of every other peer (followers_ holds one per peer).
OtherFollowers(n, p) == Peers(n) \ {p}

\* The quorum test after the inner loop: sum counts the leader, this peer
\* and every other peer whose nextindex_ is at least this one's.
ReplicatorCommit(n, p, ni) ==
    LET others == OtherFollowers(n, p)
        sum == 2 + Cardinality({q \in others : nextIndex[n][q] >= ni})
    IN IF sum >= (sum + Cardinality(others) + 1) \div 2
       THEN UpdateCommit(rlog[n], ToSizeT(ni))
       ELSE rlog[n]

\* Inner loop body: ship the entry at nextindex_ + 1.  The request's term
\* and commited_index are never set (0); the entry carries the commit.
RepSend(n, p) ==
    /\ rep[n][p] \in {"outer", "inner"}
    /\ ~stopping[n][p]
    /\ rpc[n][p] = Nil
    /\ rep[n][p] = "inner" \/ ToSizeT(nextIndex[n][p]) < rlog[n].index
    /\ LET i == nextIndex[n][p] + 1
           e == At(rlog[n], i)
           req == [term |-> 0, id |-> n, ci |-> 0,
                   entries |-> <<[index |-> i, term |-> e.term, val |-> e.val,
                                  commited |-> rlog[n].commited]>>]
       IN rpc' = [rpc EXCEPT ![n][p] = [req |-> req, st |-> "pending", code |-> 0]]
    /\ rep' = [rep EXCEPT ![n][p] = "inner"]
    /\ UNCHANGED <<life, term, status, voted, leaderId, rlog, db, election, hb,
                   nextIndex, stopping, put>>

\* The Append reaches p's SolveAppend.
RepDeliver(n, p) ==
    /\ rpc[n][p] # Nil
    /\ rpc[n][p].st = "pending"
    /\ Serving(p)
    /\ ~Busy(p)
    /\ SolveAppend(p, rpc[n][p].req)
    /\ rpc' = [rpc EXCEPT ![n][p].st = "answered",
                           ![n][p].code = AppendResult(p, rpc[n][p].req)[2]]
    /\ UNCHANGED <<life, db, election, hb, nextIndex, rep, put>>

\* The call fails: the request or the answer is lost, or the deadline passes.
RpcFail(n, p) ==
    /\ rpc[n][p] # Nil
    /\ rpc[n][p].st # "lost"
    /\ rpc' = [rpc EXCEPT ![n][p].st = "lost"]
    /\ UNCHANGED <<life, term, status, voted, leaderId, rlog, db, election, hb,
                   nextIndex, rep, stopping, put>>

\* The answer: code 0 advances nextindex_ and leaves the inner loop for the
\* quorum test; any other code moves nextindex_ back and retries; a failed
\* call retries.  A stopping thread leaves both loops after the quorum test.
RepReply(n, p) ==
    /\ rpc[n][p] # Nil
    /\ rpc[n][p].st # "pending"
    /\ LET ok == rpc[n][p].st = "answered" /\ rpc[n][p].code = 0
           ni == CASE ok                       -> nextIndex[n][p] + 1
                   [] rpc[n][p].st = "lost"    -> nextIndex[n][p]
                   [] OTHER                    -> nextIndex[n][p] - 1
       IN /\ nextIndex' = [nextIndex EXCEPT ![n][p] = ni]
          /\ rlog' = [rlog EXCEPT ![n] =
                        IF ok \/ stopping[n][p]
                        THEN ReplicatorCommit(n, p, ni) ELSE @]
          /\ rep' = [rep EXCEPT ![n][p] =
                        IF stopping[n][p] THEN "off"
                        ELSE IF ok THEN "outer" ELSE "inner"]
    /\ stopping' = [stopping EXCEPT ![n][p] = FALSE]
    /\ rpc' = [rpc EXCEPT ![n][p] = Nil]
    /\ UNCHANGED <<life, term, status, voted, leaderId, db, election, hb, put>>

\* A stopping thread with no call in flight sees stop_: from the inner loop
\* it still runs the quorum test, from the outer loop it just exits.
RepStop(n, p) ==
    /\ stopping[n][p]
    /\ rpc[n][p] = Nil
    /\ rlog' = [rlog EXCEPT ![n] =
                  IF rep[n][p] = "inner"
                  THEN ReplicatorCommit(n, p, nextIndex[n][p]) ELSE @]
    /\ rep' = [rep EXCEPT ![n][p] = "off"]
    /\ stopping' = [stopping EXCEPT ![n][p] = FALSE]
    /\ UNCHANGED <<life, term, status, voted, leaderId, db, election, hb,
                   nextIndex, rpc, put>>

-----------------------------------------------------------------------------
(* Client Put (Pod::Put, Pod::InnerPut) and the applier *)

\* GetPodStatusWithLock() = Leader; the lock is released before the append.
PutCheck(n, v) ==
    /\ put[v].st = "idle"
    /\ Serving(n)
    /\ GetPodStatusWithLock(n) = Leader
    /\ ~Busy(n)
    /\ put' = [put EXCEPT ![v] = [st |-> "checked", node |-> n, idx |-> 0]]
    /\ UNCHANGED <<life, term, status, voted, leaderId, rlog, db, election, hb, repVars>>

\* raft_log_.Put(key, value, term_, now_idx) with the term read now; a full
\* ring answers code -1.
PutAppend(v) ==
    /\ put[v].st = "checked"
    /\ LET n == put[v].node
           l == rlog[n]
       IN IF Full(l)
          THEN /\ put' = [put EXCEPT ![v].st = "failed"]
               /\ UNCHANGED rlog
          ELSE /\ rlog' = [rlog EXCEPT ![n] =
                             Put(l, [term |-> term[n], val |-> v], 0)]
               /\ put' = [put EXCEPT ![v].st = "waiting", ![v].idx = l.index + 1]
    /\ UNCHANGED <<life, term, status, voted, leaderId, db, election, hb, repVars>>

\* The test of InnerPut's polling loop: 1 + #{followers with
\* size_t(nextindex_) > now_idx} > (1 + followers_.size() + 1) / 2.  A
\* negative nextindex_ converts to a number above every index.
PutQuorum(n, idx) ==
    1 + Cardinality({p \in Peers(n) : ToSizeT(nextIndex[n][p]) > idx})
      > (1 + NumFollowers + 1) \div 2

\* The polling loop of InnerPut returns once PutQuorum holds.
PutAck(v) ==
    /\ put[v].st = "waiting"
    /\ PutQuorum(put[v].node, put[v].idx)
    /\ put' = [put EXCEPT ![v].st = "acked"]
    /\ UNCHANGED <<life, term, status, voted, leaderId, rlog, db, election, hb, repVars>>

\* The applier thread of RaftLog: DB::Put of the next committed entry.
Apply(n) ==
    /\ CanApply(rlog[n])
    /\ db' = [db EXCEPT ![n] = Append(@, AppliedEntry(rlog[n]).val)]
    /\ rlog' = [rlog EXCEPT ![n] = ApplyNext(@)]
    /\ UNCHANGED <<life, term, status, voted, leaderId, election, hb, repVars, put>>

-----------------------------------------------------------------------------
(* Shutdown: SIGTERM, RunServer, main and ResourceManager::Close *)

\* A Put handler of n is still running (InnerPut polls for its quorum).
PutInFlight(n) == \E v \in Value : put[v].node = n /\ put[v].st \in {"checked", "waiting"}

\* The signal ends RunServer's wait loop, which calls g_server->Shutdown():
\* from now on calls to n fail, while the running handlers go on.
ServerShutdown(n) ==
    /\ life[n] = "serving"
    /\ Cardinality({m \in Server : life[m] # "serving"}) < MaxShutdown
    /\ life' = [life EXCEPT ![n] = "draining"]
    /\ UNCHANGED <<term, status, voted, leaderId, rlog, db, election, hb,
                   repVars, put>>

\* Shutdown() returns once no handler is running; main then calls
\* ResourceManager::Close.
ServerShutdownDone(n) ==
    /\ life[n] = "draining"
    /\ ~PutInFlight(n)
    /\ life' = [life EXCEPT ![n] = "closed"]
    /\ UNCHANGED <<term, status, voted, leaderId, rlog, db, election, hb,
                   repVars, put>>

\* pod_ = nullptr runs ~Pod: the election thread sees its stop flag only
\* at its timed wait, so a RequestVote or heartbeat round in progress
\* ends first; then Follower::Stop() on every follower (a Leader's running
\* replicators finish their call and exit).
PodStop(n) ==
    /\ life[n] = "closed"
    /\ election[n] = Nil
    /\ hb[n] = {}
    /\ ~Busy(n)
    /\ life' = [life EXCEPT ![n] = "stopping"]
    /\ stopping' = [stopping EXCEPT ![n] = [p \in Peers(n) |-> rep[n][p] # "off"]]
    /\ UNCHANGED <<term, status, voted, leaderId, rlog, db, election, hb,
                   nextIndex, rep, rpc, put>>

\* Mutant of RaftLogStop: the log is closed without waiting for the
\* replicators to be joined.
RaftLogStopNoJoin(n) ==
    /\ life[n] = "stopping"
    /\ ~CanApply(rlog[n])
    /\ life' = [life EXCEPT ![n] = "down"]
    /\ UNCHANGED <<term, status, voted, leaderId, rlog, db, election, hb,
                   repVars, put>>

\* ~Pod has joined every replicator; the member ~RaftLog sets stop_ and
\* joins the applier, which leaves its loop only when last_append_ has
\* reached commited_; commited_ goes to raft_log_meta and CloseDb closes
\* the DB.
RaftLogStop(n) ==
    /\ life[n] = "stopping"
    /\ ~Busy(n)
    /\ ~CanApply(rlog[n])
    /\ life' = [life EXCEPT ![n] = "down"]
    /\ UNCHANGED <<term, status, voted, leaderId, rlog, db, election, hb,
                   repVars, put>>

-----------------------------------------------------------------------------

\* The Follower of each peer, as the Pod constructor builds it: stop_ is
\* false, the replicator thread is not started and no call is in flight.
\* nextindex_ is left uninitialized, but only ElectionEnd's SetNextindex
\* comes before any read of it, so its initial value here is immaterial.
InitFollowers ==
    /\ nextIndex = [n \in Server |-> [p \in Peers(n) |-> 0]]
    /\ rep = [n \in Server |-> [p \in Peers(n) |-> "off"]]
    /\ stopping = [n \in Server |-> [p \in Peers(n) |-> FALSE]]
    /\ rpc = [n \in Server |-> [p \in Peers(n) |-> Nil]]

Init ==
    /\ term = [n \in Server |-> 0]
    /\ status = [n \in Server |-> Follower]
    /\ voted = [n \in Server |-> FALSE]
    /\ leaderId = [n \in Server |-> Nil]
    /\ rlog = [n \in Server |-> InitLog]
    /\ db = [n \in Server |-> <<>>]
    /\ election = [n \in Server |-> Nil]
    /\ hb = [n \in Server |-> {}]
    /\ InitFollowers
    /\ put = [v \in Value |-> [st |-> "idle", node |-> Nil, idx |-> 0]]
    /\ life = [n \in Server |-> "serving"]

Next ==
    \/ \E n \in Server :
        \/ Timeout(n)
        \/ ElectionAbort(n)
        \/ ElectionEnd(n)
        \/ StartHeartBeat(n)
        \/ Apply(n)
        \/ ServerShutdown(n)
        \/ ServerShutdownDone(n)
        \/ PodStop(n)
        \/ RaftLogStop(n)
        \/ \E p \in Peers(n) :
            \/ RequestVoteRpc(n, p)
            \/ HeartBeat(n, p)
            \/ RepSend(n, p)
            \/ RepDeliver(n, p)
            \/ RpcFail(n, p)
            \/ RepReply(n, p)
            \/ RepStop(n, p)
        \/ \E v \in Value : PutCheck(n, v)
    \/ \E v \in Value : PutAppend(v) \/ PutAck(v)

Spec == Init /\ [][Next]_vars

\* The election, replicator, client and applier threads loop without
\* blocking on each other, so each of their steps is weakly fair.  A call
\* that keeps failing is allowed, but not forever: delivery is strongly
\* fair (the network of raft.cfg eventually answers).  Timeouts and
\* failures themselves are never forced.
Fairness ==
    /\ \A n \in Server :
        /\ WF_vars(ElectionAbort(n)) /\ WF_vars(ElectionEnd(n))
        /\ WF_vars(StartHeartBeat(n)) /\ WF_vars(Apply(n))
        /\ \A p \in Peers(n) :
            /\ WF_vars(RequestVoteRpc(n, p)) /\ WF_vars(HeartBeat(n, p))
            /\ WF_vars(RepSend(n, p)) /\ SF_vars(RepDeliver(n, p))
            /\ WF_vars(RepReply(n, p)) /\ WF_vars(RepStop(n, p))
    /\ \A v \in Value : WF_vars(PutAppend(v)) /\ WF_vars(PutAck(v))

FairSpec == Spec /\ Fairness

-----------------------------------------------------------------------------
(* Properties *)

\* The types of the variables.  No run checks it: the one conjunct the
\* code could break, head_ staying inside data_, needs a ring that fills,
\* which RingSize 4 with two client values never does.
TypeOK ==
    /\ term \in [Server -> 0..MaxTerm]
    /\ status \in [Server -> {Follower, Candidate, Leader}]
    /\ voted \in [Server -> BOOLEAN]
    /\ leaderId \in [Server -> Server \cup {Nil}]
    /\ \A n \in Server : rlog[n].commited \in Nat
    \* head_ = index_ - start_ stays a position of data_
    /\ \A n \in Server : rlog[n].index - rlog[n].start \in 0..RingSize - 1
    /\ \A n \in Server : rep[n] \in [Peers(n) -> {"off", "outer", "inner"}]
    /\ \A n \in Server : stopping[n] \in [Peers(n) -> BOOLEAN]
    /\ \A v \in Value : put[v].st \in {"idle", "checked", "waiting", "acked", "failed"}
    /\ life \in [Server -> {"serving", "draining", "closed", "stopping", "down"}]

\* State machine safety: the DBs of any two Pods received the same values
\* in the same order, up to the shorter of the two.
StateMachineSafety ==
    \A n, m \in Server :
        \A i \in 1..Min({Len(db[n]), Len(db[m])}) : db[n][i] = db[m][i]

LeaderHasQuorumTerm ==
    \A n \in Server :
        status[n] = Leader =>
            2 * Cardinality({m \in Server : term[m] >= term[n]}) > Cardinality(Server)

ReplicatorReadsLog ==
    \A n \in Server : \A p \in Peers(n) :
        rep[n][p] # "off" => nextIndex[n][p] + 1 >= rlog[n].start

\* ~RaftLog saves commited_ to raft_log_meta as the Pod's final state: once
\* a Pod is down its log (commit index, applied index, entries) never
\* changes again, and every committed entry reached the DB.  This needs
\* the gRPC server to be shut down before ~Pod, ~Pod to join every
\* replicator (whose quorum test can still raise commited_) before the
\* member ~RaftLog runs, and the applier to drain before it exits.
SavedCommitFinal ==
    [][\A n \in Server :
         life[n] = "down" => /\ rlog'[n] = rlog[n]
                             /\ rlog[n].applied = rlog[n].commited]_vars

\* Every Put that reached the log eventually returns to the client.
\* InnerPut polls until more than half of the Pods have nextindex_ above
\* now_idx, the index of the new entry itself.
PutEventuallyReturns ==
    \A v \in Value : put[v].st = "waiting" ~> put[v].st = "acked"

=============================================================================
