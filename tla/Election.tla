------------------------------ MODULE Election ------------------------------
(***************************************************************************)
(* Leader election in a Paxos group: the state machine of spx_core with    *)
(* its four roles, the leader lease that gates elections, the count-down   *)
(* clocks that drive them, and the gRPC calls between members.             *)
(*                                                                         *)
(* A member is a pair of values, as in the code: state[n], its PaxosState  *)
(* (the role and what the role object owns, dropped with it), and ctx[n],  *)
(* its PaxosSharedContext.  One action is one turn of the select loop: it  *)
(* handles one event to the end.                                           *)
(*                                                                         *)
(* Time is abstract.  A lease is "running", "lapsed" (TrueTime is past its *)
(* expiry and the lease watcher has not run yet) or "none" (the watcher    *)
(* has taken it).  A clock is "idle" or "running".                         *)
(***************************************************************************)
EXTENDS Naturals, Sequences, FiniteSets

CONSTANTS Node,       \* the members that run this code
          Outside,    \* members known only through the wire protocol
          NoMember,   \* Option::<Uuid>::None
          Hints,      \* the leaders an outside member may report
          MaxTerm,    \* bound: no term grows beyond it
          MaxSlot,    \* bound: no log grows beyond it
          MaxFaults   \* bound: broken connections and process restarts

Members == Node \union Outside
Peers(n) == Members \ {n}

ASSUME MembersAssumption == /\ IsFiniteSet(Members)
                            /\ Node \intersect Outside = {}
                            /\ NoMember \notin Members
                            /\ Hints \subseteq Members \union {NoMember}
ASSUME BoundsAssumption == MaxTerm \in Nat /\ MaxSlot \in Nat /\ MaxFaults \in Nat

VARIABLES state,    \* state[n]: role, known leader, vote record, board, clock
          ctx,      \* ctx[n]: term, lease, last log position
          timers,   \* timers[n]: clock events queued in the event channel
          calls,    \* requests sent and not yet handled
          replies,  \* responses of Nodes sent and not yet handled
          faults,   \* number of faults so far
          tries,    \* history: pre-vote campaigns of this incarnation of n
          opened    \* history: every term opened, and by whose pre-votes

vars == <<state, ctx, timers, calls, replies, faults, tries, opened>>

Roles == {"Follower", "PreCandidate", "Candidate", "Leader", "Crashed"}
Timers == {"ElectionCountdownExpired", "PreVoteCampaignExpired", "VoteCampaignExpired"}
Terms == 0..MaxTerm
AskedTerms == 0..(MaxTerm + 1)
Positions == [term : Terms, slot : 0..MaxSlot]
NoVote == [term |-> 0, candidate |-> NoMember]
Votes == [term : Terms, candidate : Members \union {NoMember}]
Ballots == [from : Members, granted : BOOLEAN, asked : AskedTerms]

States == {s \in [role : Roles, leader : Members \union {NoMember}, vote : Votes,
                   board : SUBSET Ballots, clock : {"idle", "running"}] :
             s.clock = "running" => s.role \in {"Follower", "PreCandidate", "Candidate"}}
Contexts == [term : Terms, lease : {"none", "running", "lapsed"}, log : Positions]
Kinds == {"prevote", "vote", "accept"}
CallsOf(kinds, terms) == [kind : kinds, from : Members, to : Members, term : terms,
                          log : Positions, live : BOOLEAN]
Calls == CallsOf({"prevote"}, AskedTerms) \union CallsOf({"vote", "accept"}, Terms)
Replies == [kind : Kinds, from : Members, to : Members, term : Terms,
            granted : BOOLEAN, leader : Members \union {NoMember}, asked : AskedTerms]

-----------------------------------------------------------------------------
\* Constructors of the role objects and of the context.

\* Mutant: the role object is dropped without cancelling its clock.
RoleClockLeft(r, leader) == [role |-> r, leader |-> leader, vote |-> NoVote,
                             board |-> {}, clock |-> "running"]

Role(r, leader) == [role |-> r, leader |-> leader, vote |-> NoVote,
                    board |-> {}, clock |-> "idle"]
Follower(leader) == Role("Follower", leader)
Crashed == Role("Crashed", NoMember)
\* Mutant: a campaign starts without its deadline.
CampaignUntimed(r) == Role(r, NoMember)

Campaign(r) == [Role(r, NoMember) EXCEPT !.clock = "running"]

NewContext == [term |-> 0, lease |-> "lapsed", log |-> [term |-> 0, slot |-> 0]]

Init == /\ state = [n \in Node |-> Follower(NoMember)]
        /\ ctx = [n \in Node |-> NewContext]
        /\ timers = [n \in Node |-> <<>>]
        /\ calls = {}
        /\ replies = {}
        /\ faults = 0
        /\ tries = [n \in Node |-> 0]
        /\ opened = {}

-----------------------------------------------------------------------------
\* What the handlers are made of.

Expired(c) == c.lease # "running"

\* The context as a handler may find it: the lease can lapse on the way.
Readings(n) == {[ctx[n] EXCEPT !.lease = l] :
                  l \in IF Expired(ctx[n]) THEN {ctx[n].lease} ELSE {"running", "lapsed"}}

\* The select loop is biased: a lapsed lease is served before the channel.
Listening(n) == state[n].role # "Crashed" /\ ctx[n].lease # "lapsed"

\* Mutant: a higher term makes the role step down, and is left to the handler.
AdoptTermLater(s, c, t) ==
  [state |-> IF t > c.term THEN Follower(NoMember) ELSE s, ctx |-> c]

\* process_event: a higher term is adopted before the handler sees the event.
AdoptTerm(s, c, t) ==
  IF t > c.term
  THEN [state |-> Follower(IF s.role = "Follower" THEN s.leader ELSE NoMember),
        ctx |-> [c EXCEPT !.term = t]]
  ELSE [state |-> s, ctx |-> c]

Become(n, s, c) == /\ state' = [state EXCEPT ![n] = s]
                   /\ ctx' = [ctx EXCEPT ![n] = c]

\* A handler that returns Err panics the loop; the context goes with it.
Panic(n) == Become(n, Crashed, NewContext)

Broadcast(n, kind, term, log) ==
  {[kind |-> kind, from |-> n, to |-> p, term |-> term, log |-> log, live |-> TRUE] :
     p \in Peers(n)}

\* command.send(response)?: fails, and with it the loop, if the caller is gone.
Answer(n, req, s, c, granted, leader) ==
  /\ calls' = calls \ {req}
  /\ IF req.live
     THEN /\ Become(n, s, c)
          /\ replies' = replies \union
               IF req.from \in Node
               THEN {[kind |-> req.kind, from |-> n, to |-> req.from, term |-> c.term,
                      granted |-> granted, leader |-> leader, asked |-> req.term]}
               ELSE {}
     ELSE Panic(n) /\ UNCHANGED replies
  /\ UNCHANGED <<timers, faults, tries, opened>>

Recorded(board, r) == {b \in board : b.from # r.from}
                        \union {[from |-> r.from, granted |-> r.granted, asked |-> r.asked]}
\* Mutant: every ballot counts as a grant.
EveryBallot(board) == {b.from : b \in board}

Granters(board) == {b.from : b \in {x \in board : x.granted}}
IsQuorum(n, granters) ==
  Cardinality(granters) + 1 >= (Cardinality(Peers(n)) + 1) \div 2 + 1
AllReplied(n, board) == {b.from : b \in board} = Peers(n)

UpToDate(req, last) == req.log.term >= last.term /\ req.log.slot >= last.slot

-----------------------------------------------------------------------------
\* Lease, clocks and the events they post.

LeaseLapses(n) ==
  /\ state[n].role # "Crashed"
  /\ ctx[n].lease = "running"
  /\ ctx' = [ctx EXCEPT ![n].lease = "lapsed"]
  /\ UNCHANGED <<state, timers, calls, replies, faults, tries, opened>>

\* Mutant: a Leader ignores the event.
LeaderLeaseExpiredIgnored(n) ==
  /\ state[n].role # "Crashed"
  /\ ctx[n].lease = "lapsed"
  /\ Become(n, IF state[n].role = "Follower" THEN [state[n] EXCEPT !.clock = "running"]
               ELSE state[n],
            [ctx[n] EXCEPT !.lease = "none"])
  /\ UNCHANGED <<timers, calls, replies, faults, tries, opened>>

\* The watcher takes the expiry and the role handles LeaderLeaseExpired: a
\* Follower starts its election clock (no-op while it runs), a Leader steps down.
LeaderLeaseExpired(n) ==
  /\ state[n].role # "Crashed"
  /\ ctx[n].lease = "lapsed"
  /\ Become(n, CASE state[n].role = "Follower" -> [state[n] EXCEPT !.clock = "running"]
                 [] state[n].role = "Leader" -> Follower(NoMember)
                 [] OTHER -> state[n],
            [ctx[n] EXCEPT !.lease = "none"])
  /\ UNCHANGED <<timers, calls, replies, faults, tries, opened>>

TimerOf == [Follower |-> "ElectionCountdownExpired",
            PreCandidate |-> "PreVoteCampaignExpired",
            Candidate |-> "VoteCampaignExpired"]

\* Mutant: the clock fires again and again.
ClockFiresRepeatedly(n) ==
  /\ state[n].clock = "running"
  /\ timers' = [timers EXCEPT ![n] = Append(@, TimerOf[state[n].role])]
  /\ UNCHANGED <<state, ctx, calls, replies, faults, tries, opened>>

\* Mutant: the event may not fit in the channel, and is then dropped.
ClockEventDropped(n) ==
  /\ state[n].clock = "running"
  /\ state' = [state EXCEPT ![n].clock = "idle"]
  /\ timers' \in {timers, [timers EXCEPT ![n] = Append(@, TimerOf[state[n].role])]}
  /\ UNCHANGED <<ctx, calls, replies, faults, tries, opened>>

ClockFires(n) ==
  /\ state[n].clock = "running"
  /\ state' = [state EXCEPT ![n].clock = "idle"]
  /\ timers' = [timers EXCEPT ![n] = Append(@, TimerOf[state[n].role])]
  /\ UNCHANGED <<ctx, calls, replies, faults, tries, opened>>

TakeTimer(n, event) == /\ Listening(n)
                       /\ timers[n] # <<>>
                       /\ Head(timers[n]) = event
                       /\ timers' = [timers EXCEPT ![n] = Tail(@)]

\* dispatch_prevote_request stops at the first peer that cannot be dialled; the
\* connections are made once, so only the first campaign can meet one.
DialFails(n, c) ==
  /\ tries[n] = 0 /\ faults < MaxFaults
  /\ \E sent \in SUBSET Broadcast(n, "prevote", c.term + 1, c.log) :
       sent # Broadcast(n, "prevote", c.term + 1, c.log) /\ calls' = calls \union sent
  /\ faults' = faults + 1
  /\ Panic(n)
  /\ UNCHANGED tries

\* Mutant: the Follower it becomes starts its election clock.
StepDownRearmed(n, role) ==
  /\ \E c \in Readings(n) :
       Become(n, IF state[n].role = role THEN Campaign("Follower") ELSE state[n], c)
  /\ UNCHANGED <<calls, replies, faults, tries, opened>>

\* Mutant: the deadline changes nothing.
StepDownForgotten(n, role) ==
  /\ \E c \in Readings(n) : Become(n, state[n], c)
  /\ UNCHANGED <<calls, replies, faults, tries, opened>>

StepDownFrom(n, role) ==
  /\ \E c \in Readings(n) :
       Become(n, IF state[n].role = role THEN Follower(NoMember) ELSE state[n], c)
  /\ UNCHANGED <<calls, replies, faults, tries, opened>>

\* A Follower whose lease is over becomes a PreCandidate and dials its peers.
ElectionCountdownExpired(n) ==
  /\ TakeTimer(n, "ElectionCountdownExpired")
  /\ \E c \in Readings(n) :
       \/ /\ state[n].role # "Follower" \/ ~Expired(c)
          /\ Become(n, state[n], c)
          /\ UNCHANGED <<calls, faults, tries>>
       \/ /\ state[n].role = "Follower" /\ Expired(c)
          /\ Become(n, Campaign("PreCandidate"), c)
          /\ calls' = calls \union Broadcast(n, "prevote", c.term + 1, c.log)
          /\ tries' = [tries EXCEPT ![n] = @ + 1]
          /\ UNCHANGED faults
       \/ /\ state[n].role = "Follower" /\ Expired(c)
          /\ DialFails(n, c)
  /\ UNCHANGED <<replies, opened>>

\* The campaign's deadline sends the campaigner back to Follower.
PreVoteCampaignExpired(n) ==
  /\ TakeTimer(n, "PreVoteCampaignExpired")
  /\ StepDownFrom(n, "PreCandidate")

VoteCampaignExpired(n) ==
  /\ TakeTimer(n, "VoteCampaignExpired")
  /\ StepDownFrom(n, "Candidate")

-----------------------------------------------------------------------------
\* Requests.

PreVoteGranted(s, c, req) ==
  /\ s.role # "Leader"
  /\ s.role = "Follower" => Expired(c)
  /\ req.term > c.term
  /\ req.log.term >= c.term
  /\ req.log.slot >= c.log.slot

\* A Leader steps down on the request when its lease is NOT expired.
PreVoteResponder(s, c) ==
  IF s.role = "Leader" /\ ~Expired(c) THEN Follower(NoMember) ELSE s

\* The Follower it becomes reads the lease again, and may find it lapsed by now.
HandlePreVoteRequest(n, req) ==
  \E before, c \in Readings(n) :
    LET s == PreVoteResponder(state[n], before)
        granted == PreVoteGranted(s, c, req)
    IN  /\ Expired(before) => c = before
        /\ Answer(n, req, s, c, granted,
                  CASE granted -> NoMember
                    [] s.role = "Leader" -> n
                    [] OTHER -> s.leader)

\* A Leader whose lease is over handles the request as a new Follower.
Voter(s, c) == IF s.role = "Leader" /\ Expired(c) THEN Follower(NoMember) ELSE s

\* Mutant: a request of the voter's own term is not too old.
VoteGrantedSameTerm(s, c, req) ==
  /\ s.role \in {"Follower", "PreCandidate"}
  /\ s.vote = NoVote \/ s.vote.term < req.term
  /\ s.role = "Follower" => Expired(c)
  /\ req.term >= c.term
  /\ UpToDate(req, c.log)

VoteGranted(s, c, req) ==
  /\ s.role \in {"Follower", "PreCandidate"}
  /\ s.vote = NoVote \/ s.vote.term < req.term
  /\ s.role = "Follower" => Expired(c)
  /\ req.term > c.term
  /\ UpToDate(req, c.log)

HandleVoteRequest(n, req) ==
  \E reading \in Readings(n) :
    LET now == AdoptTerm(state[n], reading, req.term)
        s == Voter(now.state, now.ctx)
        c == now.ctx
    IN  IF VoteGranted(s, c, req)
        THEN Answer(n, req,
                    [s EXCEPT !.vote = [term |-> req.term, candidate |-> req.from]],
                    [c EXCEPT !.lease = IF s.role = "Follower" THEN "running" ELSE @],
                    TRUE, NoMember)
        ELSE Answer(n, req, s, c, FALSE, IF s.role = "Leader" THEN n ELSE s.leader)

\* Mutant: the lease is not looked at.
AcceptWithoutLease(s, c, req) == req.term >= c.term /\ s.leader = req.from

\* The gate of replication: a live lease, granted to the very sender.
AcceptAdmitted(s, c, req) ==
  req.term >= c.term /\ ~Expired(c) /\ s.leader = req.from

\* Every role but a Leader with a live lease handles it as a Follower of the
\* sender; a stale term leaves the role alone.
Acceptor(s, c, req) ==
  IF \/ s.role = "Leader" /\ Expired(c)
     \/ s.role \in {"PreCandidate", "Candidate"} /\ req.term >= c.term
  THEN Follower(req.from) ELSE s

\* What the admitted request may leave as last log position.
Written(c, req) == {c.log, req.log}

HandleAcceptRequest(n, req) ==
  \E reading \in Readings(n) :
    LET now == AdoptTerm(state[n], reading, req.term)
        s == Acceptor(now.state, now.ctx, req)
        c == now.ctx
    IN  \/ /\ s.role # "Leader"
           /\ IF AcceptAdmitted(s, c, req)
              THEN \E log \in Written(c, req) :
                     Answer(n, req, s, [c EXCEPT !.lease = "running", !.log = log],
                            TRUE, NoMember)
              ELSE Answer(n, req, s, c, FALSE, NoMember)
        \/ \* the command is dropped, and the caller gets an error
           /\ s.role = "Leader"
           /\ Become(n, s, c)
           /\ calls' = calls \ {req}
           /\ UNCHANGED <<timers, replies, faults, tries, opened>>

\* An outside member may send any request a Node could: a log is empty or ends
\* with an entry of a Leader's term.
OutsideCalls(n) == {[kind |-> k, from |-> o, to |-> n, term |-> t, log |-> l, live |-> TRUE] :
                      k \in Kinds, o \in Outside, t \in Terms,
                      l \in {p \in Positions : p.slot = 0 <=> p.term = 0}}

ReceiveRequest(n) ==
  /\ Listening(n)
  /\ \E req \in {c \in calls : c.to = n} \union OutsideCalls(n) :
       \/ req.kind = "prevote" /\ HandlePreVoteRequest(n, req)
       \/ req.kind = "vote" /\ HandleVoteRequest(n, req)
       \/ req.kind = "accept" /\ HandleAcceptRequest(n, req)

-----------------------------------------------------------------------------
\* Responses.  `rest' is what remains of calls once the response is taken.

\* Mutant: a leader is learnt whatever the lease.
LearnLeaderAlways(s, c, r) ==
  IF s.role = "Follower" /\ r.leader # NoMember THEN [s EXCEPT !.leader = r.leader] ELSE s

\* A Follower adopts a reported leader, a Leader steps down, each only when its
\* lease is over and the response is not of an older term.
LearnLeader(s, c, r) ==
  IF r.term < c.term \/ ~Expired(c)
  THEN s
  ELSE CASE s.role = "Leader" -> Follower(r.leader)
         [] s.role = "Follower" /\ r.leader # NoMember -> [s EXCEPT !.leader = r.leader]
         [] OTHER -> s

CountPreVote(n, s, c, r, rest) ==
  LET board == Recorded(s.board, r) IN
  \/ /\ IsQuorum(n, Granters(board))
     /\ c.term < MaxTerm
     /\ Become(n, Campaign("Candidate"), [c EXCEPT !.term = @ + 1])
     /\ calls' = rest \union Broadcast(n, "vote", c.term + 1, c.log)
     /\ opened' = opened \union {[term |-> c.term + 1, by |-> n,
                                 backers |-> {b.from : b \in {x \in board :
                                                x.granted /\ x.asked = c.term + 1}}]}
  \/ /\ ~IsQuorum(n, Granters(board))
     /\ Become(n, IF AllReplied(n, board) THEN Follower(NoMember)
                  ELSE [s EXCEPT !.board = board], c)
     /\ calls' = rest
     /\ UNCHANGED opened

HandlePreVoteResponse(n, r, rest) ==
  \E reading \in Readings(n) :
    LET now == AdoptTerm(state[n], reading, r.term)
        s == now.state
        c == now.ctx
    IN  \/ /\ s.role = "PreCandidate"
           /\ CountPreVote(n, s, c, r, rest)
        \/ /\ s.role # "PreCandidate"
           /\ Become(n, LearnLeader(s, c, r), c)
           /\ calls' = rest
           /\ UNCHANGED opened

\* What the new Leader's log ends with: its own end, or an uncommitted entry
\* (its own or promised) rewritten in its term.
Recovered(c) == {c.log} \union
  {[term |-> c.term, slot |-> k] : k \in {x \in 1..MaxSlot : x >= c.log.slot}}

\* A Candidate that reaches its quorum too late for the lease steps down.  A
\* Leader keeps the board it won with (history only).
CountVote(n, s, c, r, rest) ==
  LET board == Recorded(s.board, r) IN
  \/ /\ IsQuorum(n, Granters(board))
     /\ \E log \in Recovered(c) :
          /\ Become(n, [Role("Leader", NoMember) EXCEPT !.board = board],
                    [c EXCEPT !.lease = "running", !.log = log])
          /\ calls' = rest \union Broadcast(n, "accept", c.term, log)
  \/ /\ IsQuorum(n, Granters(board))
     /\ Become(n, Follower(NoMember), [c EXCEPT !.lease = "running"])
     /\ calls' = rest
  \/ /\ ~IsQuorum(n, Granters(board))
     /\ Become(n, IF AllReplied(n, board) THEN Follower(NoMember)
                  ELSE [s EXCEPT !.board = board], c)
     /\ calls' = rest

HandleVoteResponse(n, r, rest) ==
  \E reading \in Readings(n) :
    LET now == AdoptTerm(state[n], reading, r.term)
        s == now.state
        c == now.ctx
    IN  \/ /\ s.role = "Candidate"
           /\ CountVote(n, s, c, r, rest)
           /\ UNCHANGED opened
        \/ /\ s.role # "Candidate"
           /\ Become(n, LearnLeader(s, c, r), c)
           /\ calls' = rest
           /\ UNCHANGED opened

\* A Leader may renew its lease on any response that is not a plain refusal, and
\* probes again a follower that reports a conflict.
HandleAcceptResponse(n, r, rest) ==
  \E reading \in Readings(n) :
    LET now == AdoptTerm(state[n], reading, r.term)
        s == now.state
        c == now.ctx
        counts == s.role = "Leader" /\ r.term >= c.term /\ r.granted
        probe == [kind |-> "accept", from |-> n, to |-> r.from, term |-> c.term,
                  log |-> c.log, live |-> TRUE]
    IN  /\ \E l \in {c.lease} \union (IF counts THEN {"running"} ELSE {}) :
             Become(n, s, [c EXCEPT !.lease = l])
        /\ \E again \in SUBSET (IF counts THEN {probe} ELSE {}) : calls' = rest \union again
        /\ UNCHANGED opened

HandleResponse(n, r, rest) ==
  /\ Listening(n)
  /\ \/ r.kind = "prevote" /\ HandlePreVoteResponse(n, r, rest)
     \/ r.kind = "vote" /\ HandleVoteResponse(n, r, rest)
     \/ r.kind = "accept" /\ HandleAcceptResponse(n, r, rest)
  /\ UNCHANGED <<timers, faults, tries>>

ReceiveResponse(n) ==
  \E r \in replies : /\ r.to = n
                     /\ HandleResponse(n, r, calls)
                     /\ replies' = replies \ {r}

\* An outside member answers a call as it likes, within the response's format.
OutsideReplies(c) ==
  {[kind |-> c.kind, from |-> c.to, to |-> c.from, term |-> t, granted |-> g,
    leader |-> l, asked |-> c.term] :
      t \in Terms, g \in BOOLEAN, l \in Hints}

OutsideAnswers(n) ==
  \E c \in calls : /\ c.from = n /\ c.to \in Outside /\ c.live
                   /\ \E r \in OutsideReplies(c) :
                        /\ r.granted => r.leader = NoMember
                        /\ HandleResponse(n, r, calls \ {c})
                   /\ UNCHANGED replies

-----------------------------------------------------------------------------
\* The Leader's own work, as far as elections see it.

\* A flush of buffered writes, or a heartbeat.
DispatchAccept(n) ==
  /\ Listening(n)
  /\ state[n].role = "Leader"
  /\ calls' = calls \union Broadcast(n, "accept", ctx[n].term, ctx[n].log)
  /\ UNCHANGED <<state, ctx, timers, replies, faults, tries, opened>>

\* Mutant: a Follower that knows no leader takes that for a bug.
ClientWriteUnchecked(n) ==
  /\ Listening(n)
  /\ state[n].role = "Follower" /\ state[n].leader \notin Peers(n)
  /\ Panic(n)
  /\ UNCHANGED <<timers, calls, replies, faults, tries, opened>>

\* A Leader logs the write.  A Follower forwards it, and panics when the leader
\* it knows is not among its peers; one it knows has been dialled for a campaign.
ClientWrite(n) ==
  /\ Listening(n)
  /\ \/ /\ state[n].role = "Leader"
        /\ ctx[n].log.slot < MaxSlot
        /\ ctx' = [ctx EXCEPT ![n].log = [term |-> ctx[n].term, slot |-> @.slot + 1]]
        /\ UNCHANGED state
     \/ /\ state[n].role = "Follower"
        /\ state[n].leader \notin Peers(n) \union {NoMember}
        /\ Panic(n)
  /\ UNCHANGED <<timers, calls, replies, faults, tries, opened>>

-----------------------------------------------------------------------------
\* Faults.

Abandoned(S) == {[c EXCEPT !.live = FALSE] : c \in S}

\* A call fails on the network: its caller gets an error and posts no event.
Lost ==
  /\ \/ \E c \in calls : calls' = calls \ {c} /\ UNCHANGED replies
     \/ \E r \in replies : replies' = replies \ {r} /\ UNCHANGED calls
  /\ UNCHANGED <<state, ctx, timers, faults, tries, opened>>

\* A caller's connection breaks: no response can be sent to it.
CallerGone ==
  /\ faults < MaxFaults
  /\ \E c \in calls : /\ c.live
                      /\ calls' = (calls \ {c}) \union Abandoned({c})
  /\ faults' = faults + 1
  /\ UNCHANGED <<state, ctx, timers, replies, tries, opened>>

\* The process of n ends and starts again: nothing is persisted.
Restart(n) ==
  /\ faults < MaxFaults
  /\ faults' = faults + 1
  /\ Become(n, Follower(NoMember), NewContext)
  /\ timers' = [timers EXCEPT ![n] = <<>>]
  /\ tries' = [tries EXCEPT ![n] = 0]
  /\ LET own == {c \in calls : c.from = n}
     IN  calls' = {c \in (calls \ own) \union Abandoned(own) : c.to # n}
  /\ replies' = {r \in replies : r.to # n}
  /\ UNCHANGED opened

-----------------------------------------------------------------------------
Next == \/ \E n \in Node : \/ LeaseLapses(n)
                          \/ LeaderLeaseExpired(n)
                          \/ ClockFires(n)
                          \/ ElectionCountdownExpired(n)
                          \/ PreVoteCampaignExpired(n)
                          \/ VoteCampaignExpired(n)
                          \/ ReceiveRequest(n)
                          \/ ReceiveResponse(n)
                          \/ OutsideAnswers(n)
                          \/ DispatchAccept(n)
                          \/ ClientWrite(n)
                          \/ Restart(n)
        \/ Lost
        \/ CallerGone

Spec == Init /\ [][Next]_vars

\* Time passes, clocks and watchers run, and queued clock events are served.
\* Nothing is assumed of messages: any of them may be lost.
Fairness == \A n \in Node : /\ WF_vars(LeaseLapses(n))
                            /\ WF_vars(LeaderLeaseExpired(n))
                            /\ WF_vars(ClockFires(n))
                            /\ WF_vars(ElectionCountdownExpired(n))
                            /\ WF_vars(PreVoteCampaignExpired(n))
                            /\ WF_vars(VoteCampaignExpired(n))

FairSpec == Spec /\ Fairness

-----------------------------------------------------------------------------
TypeOK == /\ state \in [Node -> States]
          /\ ctx \in [Node -> Contexts]
          /\ timers \in [Node -> Seq(Timers)]
          /\ calls \subseteq Calls
          /\ replies \subseteq Replies
          /\ faults \in 0..MaxFaults
          /\ tries \in [Node -> Nat]
          /\ opened \subseteq [term : Terms, by : Node, backers : SUBSET Members]

-----------------------------------------------------------------------------
(* What holds. *)

\* No member ever grants a vote: a request of a higher term has raised the
\* voter's own term by the time handle_vote_request compares the two.
NoVoteGranted == /\ \A n \in Node : state[n].vote = NoVote
                 /\ \A r \in replies : r.kind = "vote" => ~r.granted

\* The accept path is shut: a member that knows a leader has no live lease, and
\* one that campaigns has none either, so handle_accept_request always refuses.
ReplicationGateClosed ==
  \A n \in Node : \/ state[n].role = "Follower" /\ state[n].leader # NoMember
                  \/ state[n].role \in {"PreCandidate", "Candidate"}
                  => Expired(ctx[n])

\* Only a Leader writes to its log; nothing is ever replicated to a member that
\* is, or becomes, anything else.
OnlyLeadersWrite ==
  [][\A n \in Node : ctx'[n].log \in {ctx[n].log, NewContext.log}
                     \/ state'[n].role = "Leader"]_vars

\* A group in which every member runs this code never elects a Leader.
NoLeaderElected == Outside = {} => \A n \in Node : state[n].role # "Leader"

\* In such a group a term is opened only by a quorum: every term a member holds
\* was opened by a PreCandidate that a quorum let run for that very term.
TermsOpenedByQuorum ==
  Outside = {} =>
    /\ \A e \in opened : IsQuorum(e.by, e.backers)
    /\ \A n \in Node : ctx[n].term # 0 => \E e \in opened : e.term = ctx[n].term

\* In such a group a member runs at most one campaign after each start.
OneCampaignPerStart == Outside = {} => \A n \in Node : tries[n] <= 1

\* In such a group no state machine panics unless a connection failed or a
\* process was restarted.
PanicNeedsFault ==
  Outside = {} /\ faults = 0 => \A n \in Node : state[n].role # "Crashed"

\* A campaign always has a deadline to come and only one: its clock runs or its
\* expiry is queued, and no expiry of an earlier campaign can cut it short.
OneDeadlinePerCampaign ==
  \A n \in Node : state[n].role \in {"PreCandidate", "Candidate"} =>
    LET due == {i \in DOMAIN timers[n] : timers[n][i] = TimerOf[state[n].role]}
    IN  Cardinality(due) + (IF state[n].clock = "running" THEN 1 ELSE 0) = 1

\* A Leader's lease always has an expiry for the watcher to wait on, so it cannot
\* lead on with nothing that would make it step down.
LeaderIsWatched == \A n \in Node : state[n].role = "Leader" => ctx[n].lease # "none"

\* Every campaign ends, whatever becomes of its messages.
CampaignsEnd ==
  \A n \in Node : (state[n].role \in {"PreCandidate", "Candidate"})
                    ~> (state[n].role \in {"Follower", "Leader", "Crashed"})

\* A group in which every member runs this code falls silent for good: no role but
\* Follower, no clock running, no clock event left.
FallsSilent ==
  Outside = {} => <>[](\A n \in Node : /\ state[n].role \in {"Follower", "Crashed"}
                                       /\ state[n].clock = "idle"
                                       /\ ctx[n].lease = "none" \/ state[n].role = "Crashed")

=============================================================================
