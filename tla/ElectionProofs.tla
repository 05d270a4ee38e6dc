--------------------------- MODULE ElectionProofs ---------------------------
(***************************************************************************)
(* What Election promises for every group, every set of outside members    *)
(* and every value of the bounds.                                          *)
(***************************************************************************)
EXTENDS ElectionTypes

-----------------------------------------------------------------------------
(* No vote is granted and the replication gate stays closed: the two hold of *)
(* each member's pair of role object and context.                            *)

Shut(s, c) ==
  /\ s.vote = NoVote
  /\ \/ s.role = "Follower" /\ s.leader # NoMember
     \/ s.role \in {"PreCandidate", "Candidate"}
     => Expired(c)

GateInv == NoVoteGranted /\ ReplicationGateClosed

LEMMA GateIsShut == GateInv <=> /\ \A n \in Node : Shut(state[n], ctx[n])
                                /\ \A r \in replies : r.kind = "vote" => ~r.granted
BY DEF GateInv, NoVoteGranted, ReplicationGateClosed, Shut

LEMMA RolesShut ==
  ASSUME NEW c
  PROVE  /\ Shut(Follower(NoMember), c)
         /\ Shut(Crashed, c)
         /\ Expired(c) => \A l : Shut(Follower(l), c)
         /\ Expired(c) => Shut(Campaign("PreCandidate"), c) /\ Shut(Campaign("Candidate"), c)
         /\ \A b : Shut([Role("Leader", NoMember) EXCEPT !.board = b], c)
BY DEF Shut, Follower, Crashed, Campaign, Role

LEMMA AdoptTermShut ==
  ASSUME TypeOK, GateInv, NEW n \in Node, NEW r \in Readings(n), NEW t \in Terms
  PROVE  /\ Shut(AdoptTerm(state[n], r, t).state, AdoptTerm(state[n], r, t).ctx)
         /\ Shut(state[n], r)
         /\ Expired(AdoptTerm(state[n], r, t).ctx) <=> Expired(r)
<1>1. Shut(state[n], r)
  BY ReadingType, GateIsShut DEF Shut
<1>2. state[n] \in States /\ r \in Contexts
  BY ReadingType DEF TypeOK
<1>3. AdoptTerm(state[n], r, t).ctx.lease = r.lease
  BY <1>2, AdoptTermType
<1>4. Expired(AdoptTerm(state[n], r, t).ctx) <=> Expired(r)
  BY <1>3 DEF Expired
<1>5. CASE t > r.term
  <2>1. AdoptTerm(state[n], r, t).state =
          Follower(IF state[n].role = "Follower" THEN state[n].leader ELSE NoMember)
    BY <1>5 DEF AdoptTerm
  <2>2. CASE state[n].role = "Follower" /\ state[n].leader # NoMember
    <3>1. Expired(AdoptTerm(state[n], r, t).ctx)
      BY <1>1, <1>4, <2>2 DEF Shut
    <3> QED
      BY <1>1, <1>4, <2>1, <3>1, RolesShut
  <2>3. CASE ~(state[n].role = "Follower" /\ state[n].leader # NoMember)
    BY <1>1, <1>4, <2>1, <2>3, RolesShut
  <2> QED
    BY <2>2, <2>3
<1>6. CASE ~(t > r.term)
  BY <1>1, <1>6 DEF AdoptTerm
<1> QED
  BY <1>1, <1>4, <1>5, <1>6

LEMMA BecomeShut ==
  ASSUME TypeOK, GateInv, NEW n \in Node, NEW s, NEW c, Shut(s, c), Become(n, s, c)
  PROVE  \A m \in Node : Shut(state'[m], ctx'[m])
BY GateIsShut DEF Become, TypeOK

LEMMA AnswerShut ==
  ASSUME TypeOK, GateInv, NEW n \in Node, NEW req \in Calls, NEW s, NEW c, NEW g, NEW l,
         Shut(s, c), req.kind = "vote" => ~g, Answer(n, req, s, c, g, l)
  PROVE  GateInv'
<1>1. \A m \in Node : Shut(state'[m], ctx'[m])
  BY BecomeShut, RolesShut DEF Answer, Panic
<1>2. \A r \in replies' : r.kind = "vote" => ~r.granted
  <2>1. \A r \in replies : r.kind = "vote" => ~r.granted
    BY GateIsShut
  <2> DEFINE reply == [kind |-> req.kind, from |-> n, to |-> req.from, term |-> c.term,
                       granted |-> g, leader |-> l, asked |-> req.term]
  <2>2. reply.kind = "vote" => ~reply.granted
    OBVIOUS
  <2>3. replies' \subseteq replies \union {reply}
    BY DEF Answer
  <2> HIDE DEF reply
  <2> QED
    BY <2>1, <2>2, <2>3
<1> QED
  BY <1>1, <1>2 DEF GateInv, NoVoteGranted, ReplicationGateClosed, Shut

\* With the gate shut an accept request is refused by everyone but a Leader.
LEMMA AcceptRefused ==
  ASSUME TypeOK, GateInv, NEW n \in Node, Listening(n), NEW r \in Readings(n),
         NEW req \in Calls, req.term \in Terms
  PROVE  LET now == AdoptTerm(state[n], r, req.term)
             s == Acceptor(now.state, now.ctx, req)
         IN  /\ Shut(s, now.ctx)
             /\ s.role # "Leader" => ~AcceptAdmitted(s, now.ctx, req)
<1> DEFINE now == AdoptTerm(state[n], r, req.term)
           s == Acceptor(now.state, now.ctx, req)
           c == now.ctx
<1>1. state[n] \in States /\ state[n].role # "Crashed" /\ r \in Contexts
  BY ReadingType DEF TypeOK, Listening
<1>2. Shut(now.state, c) /\ now.state \in States
  BY <1>1, AdoptTermShut, AdoptTermType
<1>3. now.state.role # "Crashed"
  BY <1>1 DEF AdoptTerm, Follower, Role
<1>4. Shut(s, c)
  BY <1>2, <1>3, RolesShut DEF Acceptor, Shut
<1>5. req.from # NoMember
  BY CallType, MembersAssumption
<1>6. s.role \in {"Follower", "PreCandidate", "Candidate", "Leader"}
  BY <1>2, <1>3 DEF Acceptor, Follower, Role, States, Roles
<1> HIDE DEF now, s, c
<1>7. s.role # "Leader" => ~AcceptAdmitted(s, c, req)
  BY <1>4, <1>5, <1>6 DEF Shut, AcceptAdmitted
<1> QED
  BY <1>4, <1>7 DEF now, s, c

\* A vote request finds the voter's term no lower than its own.
LEMMA VoteRefused ==
  ASSUME TypeOK, NEW n \in Node, NEW r \in Readings(n), NEW req \in Calls,
         req.kind = "vote"
  PROVE  LET now == AdoptTerm(state[n], r, req.term)
         IN  ~VoteGranted(Voter(now.state, now.ctx), now.ctx, req)
<1> DEFINE now == AdoptTerm(state[n], r, req.term)
           c == now.ctx
<1>1. state[n] \in States /\ req.term \in Terms /\ r \in Contexts
  BY CallType, ReadingType DEF TypeOK
<1>2. c \in Contexts /\ c.term >= req.term
  BY <1>1, AdoptTermType
<1>3. ~(req.term > c.term)
  BY <1>1, <1>2, BoundsAssumption DEF Contexts, Terms
<1> QED
  BY <1>3 DEF VoteGranted

\* Both kinds of request are refused: an accept request finds no live lease.
LEMMA RequestShut ==
  ASSUME TypeOK, GateInv, NEW n \in Node, ReceiveRequest(n)
  PROVE  GateInv'
<1>1. PICK req \in Calls :
        \/ req.kind = "prevote" /\ HandlePreVoteRequest(n, req)
        \/ req.kind = "vote" /\ HandleVoteRequest(n, req)
        \/ req.kind = "accept" /\ HandleAcceptRequest(n, req)
  BY OutsideCallsType DEF ReceiveRequest, TypeOK
<1>2. state[n] \in States /\ state[n].role # "Crashed"
  BY DEF TypeOK, ReceiveRequest, Listening
<1>3. CASE req.kind = "prevote" /\ HandlePreVoteRequest(n, req)
  <2>1. PICK before, c \in Readings(n) :
          \E g, l : Answer(n, req, PreVoteResponder(state[n], before), c, g, l)
    BY <1>3 DEF HandlePreVoteRequest
  <2>2. Shut(state[n], c)
    BY AdoptTermShut, BoundsAssumption DEF Terms
  <2>3. Shut(PreVoteResponder(state[n], before), c)
    BY <2>2, RolesShut DEF PreVoteResponder
  <2> QED
    BY <1>3, <2>1, <2>3, AnswerShut
<1>4. CASE req.kind = "vote" /\ HandleVoteRequest(n, req)
  <2>1. PICK r \in Readings(n) :
          LET now == AdoptTerm(state[n], r, req.term)
              s == Voter(now.state, now.ctx)
              c == now.ctx
          IN  \/ VoteGranted(s, c, req)
              \/ \E l : Answer(n, req, s, c, FALSE, l)
    BY <1>4 DEF HandleVoteRequest
  <2> DEFINE now == AdoptTerm(state[n], r, req.term)
             s == Voter(now.state, now.ctx)
             c == now.ctx
  <2>2. req.term \in Terms
    BY <1>4, CallType
  <2>4. ~VoteGranted(s, c, req)
    BY <1>4, VoteRefused
  <2>5. Shut(s, c)
    BY <2>2, AdoptTermShut, RolesShut DEF Voter
  <2>6. PICK l : Answer(n, req, s, c, FALSE, l)
    BY <2>1, <2>4
  <2> HIDE DEF now, s, c
  <2> QED
    BY <2>5, <2>6, AnswerShut
<1>5. CASE req.kind = "accept" /\ HandleAcceptRequest(n, req)
  <2>1. PICK r \in Readings(n) :
          LET now == AdoptTerm(state[n], r, req.term)
              s == Acceptor(now.state, now.ctx, req)
              c == now.ctx
          IN  \/ s.role # "Leader" /\ AcceptAdmitted(s, c, req)
              \/ Answer(n, req, s, c, FALSE, NoMember)
              \/ Become(n, s, c) /\ replies' = replies
    BY <1>5 DEF HandleAcceptRequest
  <2> DEFINE now == AdoptTerm(state[n], r, req.term)
             s == Acceptor(now.state, now.ctx, req)
             c == now.ctx
  <2>4. Shut(s, c)
    BY <1>5, CallType, AcceptRefused DEF ReceiveRequest
  <2>5. s.role # "Leader" => ~AcceptAdmitted(s, c, req)
    BY <1>5, CallType, AcceptRefused DEF ReceiveRequest
  <2> HIDE DEF now, s, c
  <2>6. CASE Answer(n, req, s, c, FALSE, NoMember)
    BY <2>4, <2>6, AnswerShut
  <2>7. CASE Become(n, s, c) /\ replies' = replies
    <3>1. \A m \in Node : Shut(state'[m], ctx'[m])
      BY <2>4, <2>7, BecomeShut
    <3> QED
      BY <2>7, <3>1 DEF GateInv, NoVoteGranted, ReplicationGateClosed, Shut
  <2>8. \/ s.role # "Leader" /\ AcceptAdmitted(s, c, req)
        \/ Answer(n, req, s, c, FALSE, NoMember)
        \/ Become(n, s, c) /\ replies' = replies
    BY <2>1 DEF now, s, c
  <2> QED
    BY <2>5, <2>6, <2>7, <2>8
<1> QED
  BY <1>1, <1>3, <1>4, <1>5

\* A response leaves the member shut: a leader is learnt, and a lease received by
\* winning, only where the two do not meet.
LEMMA ResponseShut ==
  ASSUME TypeOK, GateInv, NEW n \in Node, NEW r \in Replies, NEW rest,
         HandleResponse(n, r, rest)
  PROVE  \A m \in Node : Shut(state'[m], ctx'[m])
<1>1. r.term \in Terms
  BY DEF Replies
<1>2. PICK reading \in Readings(n) :
        LET s == AdoptTerm(state[n], reading, r.term).state
            c == AdoptTerm(state[n], reading, r.term).ctx
        IN  \/ s.role = "PreCandidate" /\ CountPreVote(n, s, c, r, rest)
            \/ s.role = "Candidate" /\ CountVote(n, s, c, r, rest)
            \/ Become(n, LearnLeader(s, c, r), c)
            \/ \E l \in {c.lease} \union (IF s.role = "Leader" THEN {"running"} ELSE {}) :
                 Become(n, s, [c EXCEPT !.lease = l])
  <2>1. CASE HandlePreVoteResponse(n, r, rest)
    BY <2>1 DEF HandlePreVoteResponse
  <2>2. CASE HandleVoteResponse(n, r, rest)
    BY <2>2 DEF HandleVoteResponse
  <2>3. CASE HandleAcceptResponse(n, r, rest)
    <3>1. PICK x \in Readings(n) :
            LET s == AdoptTerm(state[n], x, r.term).state
                c == AdoptTerm(state[n], x, r.term).ctx
                counts == s.role = "Leader" /\ r.term >= c.term /\ r.granted
            IN  \E l \in {c.lease} \union (IF counts THEN {"running"} ELSE {}) :
                  Become(n, s, [c EXCEPT !.lease = l])
      BY <2>3 DEF HandleAcceptResponse
    <3> QED
      BY <3>1
  <2> QED
    BY <2>1, <2>2, <2>3 DEF HandleResponse
<1> DEFINE s == AdoptTerm(state[n], reading, r.term).state
           c == AdoptTerm(state[n], reading, r.term).ctx
<1>3. Shut(s, c)
  BY <1>1, AdoptTermShut
<1>4. c \in Contexts
  BY <1>1, ReadingType, AdoptTermType DEF TypeOK
<1>5. \/ s.role = "PreCandidate" /\ CountPreVote(n, s, c, r, rest)
      \/ s.role = "Candidate" /\ CountVote(n, s, c, r, rest)
      \/ Become(n, LearnLeader(s, c, r), c)
      \/ \E l \in {c.lease} \union (IF s.role = "Leader" THEN {"running"} ELSE {}) :
           Become(n, s, [c EXCEPT !.lease = l])
  BY <1>2
<1> HIDE DEF s, c
<1>6. ASSUME NEW b
      PROVE  Shut(s, c) => Shut([s EXCEPT !.board = b], c)
  BY DEF Shut
<1>7. CASE s.role = "PreCandidate" /\ CountPreVote(n, s, c, r, rest)
  <2>1. Expired(c) /\ Expired([c EXCEPT !.term = @ + 1])
    BY <1>3, <1>4, <1>7 DEF Shut, Expired, Contexts
  <2>2. \/ Become(n, Campaign("Candidate"), [c EXCEPT !.term = @ + 1])
        \/ Become(n, Follower(NoMember), c)
        \/ Become(n, [s EXCEPT !.board = Recorded(s.board, r)], c)
    BY <1>7 DEF CountPreVote
  <2> QED
    BY <1>3, <1>6, <2>1, <2>2, RolesShut, BecomeShut
<1>8. CASE s.role = "Candidate" /\ CountVote(n, s, c, r, rest)
  <2>1. \/ \E d, b : Become(n, [Role("Leader", NoMember) EXCEPT !.board = b], d)
        \/ \E d : Become(n, Follower(NoMember), d)
        \/ Become(n, [s EXCEPT !.board = Recorded(s.board, r)], c)
    BY <1>8 DEF CountVote
  <2> QED
    BY <1>3, <1>6, <2>1, RolesShut, BecomeShut
<1>9. CASE Become(n, LearnLeader(s, c, r), c)
  <2>1. Shut(LearnLeader(s, c, r), c)
    <3>1. ASSUME Expired(c), s.role = "Follower"
          PROVE  Shut([s EXCEPT !.leader = r.leader], c)
      BY <1>3, <3>1 DEF Shut
    <3>2. CASE r.term < c.term \/ ~Expired(c)
      BY <1>3, <3>2 DEF LearnLeader
    <3>3. CASE ~(r.term < c.term \/ ~Expired(c))
      BY <1>3, <3>1, <3>3, RolesShut DEF LearnLeader
    <3> QED
      BY <3>2, <3>3
  <2> QED
    BY <1>9, <2>1, BecomeShut
<1>10. CASE \E l \in {c.lease} \union (IF s.role = "Leader" THEN {"running"} ELSE {}) :
              Become(n, s, [c EXCEPT !.lease = l])
  <2>1. PICK l \in {c.lease} \union (IF s.role = "Leader" THEN {"running"} ELSE {}) :
          Become(n, s, [c EXCEPT !.lease = l])
    BY <1>10
  <2>2. Shut(s, [c EXCEPT !.lease = l])
    BY <1>3, <1>4, <2>1 DEF Shut, Expired, Contexts
  <2> QED
    BY <2>1, <2>2, BecomeShut
<1> QED
  BY <1>5, <1>7, <1>8, <1>9, <1>10

\* Both sources of responses hand a well-typed one to the same handler.
LEMMA ResponseHandled ==
  ASSUME TypeOK, NEW n \in Node, ReceiveResponse(n) \/ OutsideAnswers(n)
  PROVE  /\ \E r \in Replies, rest \in SUBSET Calls : HandleResponse(n, r, rest)
         /\ replies' \subseteq replies
<1>1. CASE ReceiveResponse(n)
  BY <1>1 DEF ReceiveResponse, TypeOK
<1>2. CASE OutsideAnswers(n)
  <2>1. PICK c \in Calls :
          /\ c.to \in Outside
          /\ \E r \in OutsideReplies(c) : HandleResponse(n, r, calls \ {c})
          /\ UNCHANGED replies
    BY <1>2 DEF OutsideAnswers, TypeOK
  <2>2. calls \ {c} \in SUBSET Calls
    BY DEF TypeOK
  <2> QED
    BY <2>1, <2>2, OutsideRepliesType
<1> QED
  BY <1>1, <1>2

LEMMA ClockShut ==
  ASSUME TypeOK, GateInv, NEW n \in Node,
         \/ LeaseLapses(n) \/ LeaderLeaseExpired(n) \/ ClockFires(n)
         \/ ElectionCountdownExpired(n)
         \/ PreVoteCampaignExpired(n) \/ VoteCampaignExpired(n)
  PROVE  /\ \A m \in Node : Shut(state'[m], ctx'[m])
         /\ UNCHANGED replies
<1>1. \A m \in Node : Shut(state[m], ctx[m])
  BY GateIsShut
<1>2. CASE LeaseLapses(n)
  BY <1>1, <1>2 DEF LeaseLapses, TypeOK, Contexts, Shut, Expired
<1>3. CASE LeaderLeaseExpired(n)
  <2> DEFINE c == [ctx[n] EXCEPT !.lease = "none"]
  <2>1. Expired(c)
    BY DEF Expired, TypeOK, Contexts
  <2> HIDE DEF c
  <2>2. Shut(state[n], c) /\ Shut([state[n] EXCEPT !.clock = "running"], c)
    BY <1>1, <2>1 DEF Shut, TypeOK, States
  <2>3. \/ Become(n, [state[n] EXCEPT !.clock = "running"], c)
        \/ Become(n, Follower(NoMember), c)
        \/ Become(n, state[n], c)
    BY <1>3 DEF LeaderLeaseExpired, c
  <2> QED
    BY <1>3, <2>2, <2>3, RolesShut, BecomeShut DEF LeaderLeaseExpired
<1>4. CASE ClockFires(n)
  BY <1>1, <1>4 DEF ClockFires, TypeOK, States, Shut
<1>5. CASE ElectionCountdownExpired(n)
  <2>1. PICK c \in Readings(n) :
          \/ Become(n, state[n], c)
          \/ Expired(c) /\ Become(n, Campaign("PreCandidate"), c)
          \/ Panic(n)
    BY <1>5 DEF ElectionCountdownExpired, DialFails
  <2>2. Shut(state[n], c)
    BY AdoptTermShut, BoundsAssumption DEF Terms
  <2> QED
    BY <1>5, <2>1, <2>2, RolesShut, BecomeShut DEF ElectionCountdownExpired, Panic
<1>6. CASE PreVoteCampaignExpired(n) \/ VoteCampaignExpired(n)
  <2>1. PICK c \in Readings(n) :
          \/ Become(n, state[n], c)
          \/ Become(n, Follower(NoMember), c)
    BY <1>6 DEF PreVoteCampaignExpired, VoteCampaignExpired, StepDownFrom
  <2>2. Shut(state[n], c)
    BY AdoptTermShut, BoundsAssumption DEF Terms
  <2> QED
    BY <1>6, <2>1, <2>2, RolesShut, BecomeShut
       DEF PreVoteCampaignExpired, VoteCampaignExpired, StepDownFrom
<1> QED
  BY <1>2, <1>3, <1>4, <1>5, <1>6

LEMMA OtherShut ==
  ASSUME TypeOK, GateInv,
         \/ \E n \in Node : DispatchAccept(n) \/ ClientWrite(n) \/ Restart(n)
         \/ Lost \/ CallerGone
  PROVE  /\ \A m \in Node : Shut(state'[m], ctx'[m])
         /\ replies' \subseteq replies
<1>1. \A m \in Node : Shut(state[m], ctx[m])
  BY GateIsShut
<1>2. CASE Lost \/ CallerGone \/ \E n \in Node : DispatchAccept(n)
  BY <1>1, <1>2 DEF Lost, CallerGone, DispatchAccept
<1>3. ASSUME NEW n \in Node, Restart(n)
      PROVE  (\A m \in Node : Shut(state'[m], ctx'[m])) /\ replies' \subseteq replies
  BY <1>3, RolesShut, BecomeShut DEF Restart
<1>4. ASSUME NEW n \in Node, ClientWrite(n)
      PROVE  (\A m \in Node : Shut(state'[m], ctx'[m])) /\ replies' \subseteq replies
  <2>1. CASE Panic(n)
    BY <1>4, <2>1, RolesShut, BecomeShut DEF Panic, ClientWrite
  <2>2. CASE /\ state[n].role = "Leader"
             /\ ctx' = [ctx EXCEPT ![n].log = [term |-> ctx[n].term, slot |-> @.slot + 1]]
             /\ UNCHANGED state
    BY <1>1, <1>4, <2>2 DEF ClientWrite, Shut, Expired, TypeOK, Contexts
  <2> QED
    BY <1>4, <2>1, <2>2 DEF ClientWrite
<1> QED
  BY <1>2, <1>3, <1>4

\* No member grants a vote and no member's accept path is ever open, whatever the
\* outside members send.
THEOREM RefusesVotesAndAccepts == Spec => [](NoVoteGranted /\ ReplicationGateClosed)
<1>1. Init => GateInv
  BY DEF Init, GateInv, NoVoteGranted, ReplicationGateClosed, Follower, Role
<1>2. TypeOK /\ GateInv /\ [Next]_vars => GateInv'
  <2> SUFFICES ASSUME TypeOK, GateInv, [Next]_vars PROVE GateInv'
    OBVIOUS
  <2>1. CASE UNCHANGED vars
    BY <2>1 DEF vars, GateInv, NoVoteGranted, ReplicationGateClosed, Expired
  <2>2. ASSUME \A m \in Node : Shut(state'[m], ctx'[m]), replies' \subseteq replies
        PROVE  GateInv'
    BY <2>2 DEF GateInv, NoVoteGranted, ReplicationGateClosed, Shut
  <2>3. ASSUME NEW n \in Node, ReceiveRequest(n)
        PROVE  GateInv'
    BY <2>3, RequestShut
  <2>4. ASSUME NEW n \in Node, ReceiveResponse(n) \/ OutsideAnswers(n)
        PROVE  GateInv'
    BY <2>2, <2>4, ResponseHandled, ResponseShut
  <2>5. ASSUME NEW n \in Node,
               \/ LeaseLapses(n) \/ LeaderLeaseExpired(n) \/ ClockFires(n)
               \/ ElectionCountdownExpired(n)
               \/ PreVoteCampaignExpired(n) \/ VoteCampaignExpired(n)
        PROVE  GateInv'
    BY <2>2, <2>5, ClockShut
  <2>6. CASE \/ \E n \in Node : DispatchAccept(n) \/ ClientWrite(n) \/ Restart(n)
             \/ Lost \/ CallerGone
    BY <2>2, <2>6, OtherShut
  <2> QED
    BY <2>1, <2>3, <2>4, <2>5, <2>6 DEF Next
<1> QED
  BY <1>1, <1>2, TypeCorrect, PTL DEF Spec, GateInv

-----------------------------------------------------------------------------
(* Who writes to a log, and what watches a Leader: one turn leaves a member  *)
(* with a pair that is Kept.                                                 *)

Kept(n, s, c) ==
  /\ c.log \in {ctx[n].log, NewContext.log} \/ s.role = "Leader"
  /\ s.role = "Leader" => c.lease # "none"

WriteStep ==
  \A n \in Node : ctx'[n].log \in {ctx[n].log, NewContext.log} \/ state'[n].role = "Leader"

KeptStep == WriteStep /\ LeaderIsWatched'

LEMMA BecomeKept ==
  ASSUME TypeOK, LeaderIsWatched, NEW n \in Node, NEW s, NEW c, Become(n, s, c), Kept(n, s, c)
  PROVE  KeptStep
BY DEF Become, Kept, KeptStep, WriteStep, LeaderIsWatched, TypeOK

LEMMA RolesKept ==
  ASSUME NEW n \in Node
  PROVE  /\ Kept(n, Crashed, NewContext)
         /\ Kept(n, Follower(NoMember), NewContext)
         /\ \A c : c.log = ctx[n].log =>
              /\ \A l : Kept(n, Follower(l), c)
              /\ Kept(n, Campaign("PreCandidate"), c)
              /\ Kept(n, Campaign("Candidate"), c)
BY DEF Kept, Crashed, Follower, Campaign, Role

LEMMA ReadingKept ==
  ASSUME TypeOK, LeaderIsWatched, NEW n \in Node, NEW r \in Readings(n), NEW t \in Terms
  PROVE  /\ Kept(n, state[n], r)
         /\ Kept(n, AdoptTerm(state[n], r, t).state, AdoptTerm(state[n], r, t).ctx)
         /\ AdoptTerm(state[n], r, t).ctx.log = ctx[n].log
<1>1. /\ r \in Contexts /\ r.log = ctx[n].log
      /\ ctx[n].lease = "none" <=> r.lease = "none"
  BY ReadingType
<1>2. Kept(n, state[n], r)
  BY <1>1 DEF Kept, LeaderIsWatched
<1>3. AdoptTerm(state[n], r, t).ctx.log = ctx[n].log
  BY <1>1, AdoptTermType DEF TypeOK
<1>4. CASE t > r.term
  BY <1>2, <1>3, <1>4, RolesKept DEF AdoptTerm
<1>5. CASE ~(t > r.term)
  BY <1>2, <1>3, <1>5 DEF AdoptTerm
<1> QED
  BY <1>2, <1>3, <1>4, <1>5

LEMMA AnswerKept ==
  ASSUME TypeOK, LeaderIsWatched, NEW n \in Node, NEW req, NEW s, NEW c, NEW g, NEW l,
         Kept(n, s, c), Answer(n, req, s, c, g, l)
  PROVE  KeptStep
BY BecomeKept, RolesKept DEF Answer, Panic

LEMMA RequestKept ==
  ASSUME TypeOK, GateInv, LeaderIsWatched, NEW n \in Node, ReceiveRequest(n)
  PROVE  KeptStep
<1>1. PICK req \in Calls :
        \/ req.kind = "prevote" /\ HandlePreVoteRequest(n, req)
        \/ req.kind = "vote" /\ HandleVoteRequest(n, req)
        \/ req.kind = "accept" /\ HandleAcceptRequest(n, req)
  BY OutsideCallsType DEF ReceiveRequest, TypeOK
<1>2. CASE req.kind = "prevote" /\ HandlePreVoteRequest(n, req)
  <2>1. PICK before, c \in Readings(n) :
          \E g, l : Answer(n, req, PreVoteResponder(state[n], before), c, g, l)
    BY <1>2 DEF HandlePreVoteRequest
  <2>2. Kept(n, PreVoteResponder(state[n], before), c)
    BY ReadingKept, ReadingType, RolesKept, BoundsAssumption DEF PreVoteResponder, Terms
  <2> QED
    BY <2>1, <2>2, AnswerKept
<1>3. CASE req.kind = "vote" /\ HandleVoteRequest(n, req)
  <2>1. PICK r \in Readings(n) :
          LET now == AdoptTerm(state[n], r, req.term)
              s == Voter(now.state, now.ctx)
              c == now.ctx
          IN  \E x, d, g, l :
                /\ Answer(n, req, x, d, g, l)
                /\ \/ x = s /\ d = c
                   \/ /\ s.role # "Leader"
                      /\ x = [s EXCEPT !.vote = [term |-> req.term, candidate |-> req.from]]
                      /\ \E e : d = [c EXCEPT !.lease = e]
    BY <1>3 DEF HandleVoteRequest, VoteGranted
  <2> DEFINE now == AdoptTerm(state[n], r, req.term)
             s == Voter(now.state, now.ctx)
             c == now.ctx
  <2>2. req.term \in Terms
    BY <1>3, CallType
  <2>3. c.log = ctx[n].log /\ c \in Contexts /\ Kept(n, now.state, c)
    BY <2>2, ReadingKept, ReadingType, AdoptTermType DEF TypeOK
  <2>4. Kept(n, s, c)
    BY <2>3, RolesKept DEF Voter
  <2>5. s \in States
    BY <2>2, ReadingType, AdoptTermType, FollowerType DEF Voter, TypeOK
  <2>6. PICK x, d, g, l :
          /\ Answer(n, req, x, d, g, l)
          /\ \/ x = s /\ d = c
             \/ /\ s.role # "Leader"
                /\ x = [s EXCEPT !.vote = [term |-> req.term, candidate |-> req.from]]
                /\ \E e : d = [c EXCEPT !.lease = e]
    BY <2>1
  <2> HIDE DEF now, s, c
  <2>7. Kept(n, x, d)
    <3>1. CASE x = s /\ d = c
      BY <2>4, <3>1
    <3>2. CASE ~(x = s /\ d = c)
      BY <2>3, <2>5, <2>6, <3>2 DEF Kept, Contexts, States
    <3> QED
      BY <3>1, <3>2
  <2> QED
    BY <2>6, <2>7, AnswerKept
<1>4. CASE req.kind = "accept" /\ HandleAcceptRequest(n, req)
  <2>1. PICK r \in Readings(n) :
          LET now == AdoptTerm(state[n], r, req.term)
              s == Acceptor(now.state, now.ctx, req)
              c == now.ctx
          IN  \/ s.role # "Leader" /\ AcceptAdmitted(s, c, req)
              \/ Answer(n, req, s, c, FALSE, NoMember)
              \/ Become(n, s, c)
    BY <1>4 DEF HandleAcceptRequest
  <2> DEFINE now == AdoptTerm(state[n], r, req.term)
             s == Acceptor(now.state, now.ctx, req)
             c == now.ctx
  <2>2. req.term \in Terms
    BY <1>4, CallType
  <2>3. c.log = ctx[n].log /\ Kept(n, now.state, c)
    BY <2>2, ReadingKept
  <2>4. Kept(n, s, c)
    BY <2>3, RolesKept DEF Acceptor
  <2>5. s.role # "Leader" => ~AcceptAdmitted(s, c, req)
    BY <1>4, <2>2, AcceptRefused DEF ReceiveRequest
  <2> HIDE DEF now, s, c
  <2>6. CASE Answer(n, req, s, c, FALSE, NoMember)
    BY <2>4, <2>6, AnswerKept
  <2>7. CASE Become(n, s, c)
    BY <2>4, <2>7, BecomeKept
  <2>8. \/ s.role # "Leader" /\ AcceptAdmitted(s, c, req)
        \/ Answer(n, req, s, c, FALSE, NoMember)
        \/ Become(n, s, c)
    BY <2>1 DEF now, s, c
  <2> QED
    BY <2>5, <2>6, <2>7, <2>8
<1> QED
  BY <1>1, <1>2, <1>3, <1>4

LEMMA ResponseKept ==
  ASSUME TypeOK, LeaderIsWatched, NEW n \in Node, NEW r \in Replies, NEW rest,
         HandleResponse(n, r, rest)
  PROVE  KeptStep
<1>1. r.term \in Terms
  BY DEF Replies
<1>2. PICK reading \in Readings(n) :
        LET s == AdoptTerm(state[n], reading, r.term).state
            c == AdoptTerm(state[n], reading, r.term).ctx
        IN  \/ CountPreVote(n, s, c, r, rest) /\ s.role = "PreCandidate"
            \/ CountVote(n, s, c, r, rest) /\ s.role = "Candidate"
            \/ Become(n, LearnLeader(s, c, r), c)
            \/ \E l \in {c.lease, "running"} : Become(n, s, [c EXCEPT !.lease = l])
  <2>1. CASE HandlePreVoteResponse(n, r, rest)
    BY <2>1 DEF HandlePreVoteResponse
  <2>2. CASE HandleVoteResponse(n, r, rest)
    BY <2>2 DEF HandleVoteResponse
  <2>3. CASE HandleAcceptResponse(n, r, rest)
    BY <2>3 DEF HandleAcceptResponse
  <2> QED
    BY <2>1, <2>2, <2>3 DEF HandleResponse
<1> DEFINE s == AdoptTerm(state[n], reading, r.term).state
           c == AdoptTerm(state[n], reading, r.term).ctx
<1>3. /\ c.log = ctx[n].log /\ c \in Contexts /\ s \in States /\ Kept(n, s, c)
  BY <1>1, ReadingType, AdoptTermType, ReadingKept DEF TypeOK
<1>4. \/ CountPreVote(n, s, c, r, rest) /\ s.role = "PreCandidate"
      \/ CountVote(n, s, c, r, rest) /\ s.role = "Candidate"
      \/ Become(n, LearnLeader(s, c, r), c)
      \/ \E l \in {c.lease, "running"} : Become(n, s, [c EXCEPT !.lease = l])
  BY <1>2
<1> HIDE DEF s, c
<1>5. ASSUME NEW b, s.role # "Leader"
      PROVE  Kept(n, [s EXCEPT !.board = b], c)
  BY <1>3, <1>5 DEF Kept, States
<1>6. CASE CountPreVote(n, s, c, r, rest) /\ s.role = "PreCandidate"
  <2>1. [c EXCEPT !.term = @ + 1].log = ctx[n].log
    BY <1>3 DEF Contexts
  <2>2. \/ Become(n, Campaign("Candidate"), [c EXCEPT !.term = @ + 1])
        \/ Become(n, Follower(NoMember), c)
        \/ Become(n, [s EXCEPT !.board = Recorded(s.board, r)], c)
    BY <1>6 DEF CountPreVote
  <2>3. /\ Kept(n, Campaign("Candidate"), [c EXCEPT !.term = @ + 1])
        /\ Kept(n, Follower(NoMember), c)
    BY <1>3, <2>1, RolesKept
  <2>4. Kept(n, [s EXCEPT !.board = Recorded(s.board, r)], c)
    BY <1>5, <1>6
  <2> QED
    BY <2>2, <2>3, <2>4, BecomeKept
<1>7. CASE CountVote(n, s, c, r, rest) /\ s.role = "Candidate"
  <2>1. ASSUME NEW b, NEW l
        PROVE  Kept(n, [Role("Leader", NoMember) EXCEPT !.board = b],
                    [c EXCEPT !.lease = "running", !.log = l])
    BY <1>3 DEF Kept, Role, Contexts
  <2>2. [c EXCEPT !.lease = "running"].log = ctx[n].log
    BY <1>3 DEF Contexts
  <2>3. \/ \E b, l : Become(n, [Role("Leader", NoMember) EXCEPT !.board = b],
                            [c EXCEPT !.lease = "running", !.log = l])
        \/ Become(n, Follower(NoMember), [c EXCEPT !.lease = "running"])
        \/ Become(n, Follower(NoMember), c)
        \/ Become(n, [s EXCEPT !.board = Recorded(s.board, r)], c)
    BY <1>7 DEF CountVote
  <2>4. /\ Kept(n, Follower(NoMember), [c EXCEPT !.lease = "running"])
        /\ Kept(n, Follower(NoMember), c)
    BY <1>3, <2>2, RolesKept
  <2>5. Kept(n, [s EXCEPT !.board = Recorded(s.board, r)], c)
    BY <1>5, <1>7
  <2> QED
    BY <2>1, <2>3, <2>4, <2>5, BecomeKept
<1>8. CASE Become(n, LearnLeader(s, c, r), c)
  <2>1. Kept(n, [s EXCEPT !.leader = r.leader], c)
    BY <1>3 DEF Kept, States
  <2>2. Kept(n, LearnLeader(s, c, r), c)
    BY <1>3, <2>1, RolesKept DEF LearnLeader
  <2> QED
    BY <1>8, <2>2, BecomeKept
<1>9. CASE \E l \in {c.lease, "running"} : Become(n, s, [c EXCEPT !.lease = l])
  <2>1. PICK l \in {c.lease, "running"} : Become(n, s, [c EXCEPT !.lease = l])
    BY <1>9
  <2>2. Kept(n, s, [c EXCEPT !.lease = l])
    BY <1>3, <2>1 DEF Kept, Contexts
  <2> QED
    BY <2>1, <2>2, BecomeKept
<1> QED
  BY <1>4, <1>6, <1>7, <1>8, <1>9

LEMMA ClockKept ==
  ASSUME TypeOK, LeaderIsWatched, NEW n \in Node,
         \/ LeaseLapses(n) \/ LeaderLeaseExpired(n) \/ ClockFires(n)
         \/ ElectionCountdownExpired(n)
         \/ PreVoteCampaignExpired(n) \/ VoteCampaignExpired(n)
  PROVE  KeptStep
<1>1. 0 \in Terms
  BY BoundsAssumption DEF Terms
<1>2. CASE LeaseLapses(n)
  BY <1>2 DEF LeaseLapses, TypeOK, Contexts, KeptStep, WriteStep, LeaderIsWatched
<1>3. CASE LeaderLeaseExpired(n)
  <2> DEFINE c == [ctx[n] EXCEPT !.lease = "none"]
  <2>1. c.log = ctx[n].log
    BY DEF TypeOK, Contexts
  <2> HIDE DEF c
  <2>2. /\ Kept(n, Follower(NoMember), c)
        /\ state[n].role # "Leader" => /\ Kept(n, state[n], c)
                                       /\ Kept(n, [state[n] EXCEPT !.clock = "running"], c)
    BY <2>1, RolesKept DEF Kept, TypeOK, States
  <2>3. \/ state[n].role = "Follower" /\ Become(n, [state[n] EXCEPT !.clock = "running"], c)
        \/ Become(n, Follower(NoMember), c)
        \/ state[n].role # "Leader" /\ Become(n, state[n], c)
    BY <1>3 DEF LeaderLeaseExpired, c
  <2> QED
    BY <2>2, <2>3, BecomeKept
<1>4. CASE ClockFires(n)
  BY <1>4 DEF ClockFires, TypeOK, States, KeptStep, WriteStep, LeaderIsWatched
<1>5. CASE ElectionCountdownExpired(n)
  <2>1. PICK c \in Readings(n) :
          \/ Become(n, state[n], c)
          \/ Become(n, Campaign("PreCandidate"), c)
          \/ Become(n, Crashed, NewContext)
    BY <1>5 DEF ElectionCountdownExpired, DialFails, Panic
  <2> QED
    BY <1>1, <2>1, ReadingKept, ReadingType, RolesKept, BecomeKept
<1>6. CASE PreVoteCampaignExpired(n) \/ VoteCampaignExpired(n)
  <2>1. PICK c \in Readings(n) :
          \/ Become(n, state[n], c)
          \/ Become(n, Follower(NoMember), c)
    BY <1>6 DEF PreVoteCampaignExpired, VoteCampaignExpired, StepDownFrom
  <2> QED
    BY <1>1, <2>1, ReadingKept, ReadingType, RolesKept, BecomeKept
<1> QED
  BY <1>2, <1>3, <1>4, <1>5, <1>6

LEMMA OtherKept ==
  ASSUME TypeOK, LeaderIsWatched,
         \/ \E n \in Node : DispatchAccept(n) \/ ClientWrite(n) \/ Restart(n)
         \/ Lost \/ CallerGone
  PROVE  KeptStep
<1>1. CASE UNCHANGED <<state, ctx>>
  BY <1>1 DEF KeptStep, WriteStep, LeaderIsWatched
<1>2. CASE Lost \/ CallerGone \/ \E n \in Node : DispatchAccept(n)
  BY <1>1, <1>2 DEF Lost, CallerGone, DispatchAccept
<1>3. ASSUME NEW n \in Node, Restart(n)
      PROVE  KeptStep
  BY <1>3, RolesKept, BecomeKept DEF Restart
<1>4. ASSUME NEW n \in Node, ClientWrite(n)
      PROVE  KeptStep
  <2>1. CASE Panic(n)
    BY <2>1, RolesKept, BecomeKept DEF Panic
  <2>2. CASE /\ state[n].role = "Leader"
             /\ ctx' = [ctx EXCEPT ![n].log = [term |-> ctx[n].term, slot |-> @.slot + 1]]
             /\ UNCHANGED state
    BY <2>2 DEF TypeOK, Contexts, KeptStep, WriteStep, LeaderIsWatched
  <2> QED
    BY <1>4, <2>1, <2>2 DEF ClientWrite
<1> QED
  BY <1>2, <1>3, <1>4

\* Nothing is ever replicated: a log changes only in the hands of a Leader, and
\* that Leader has a lease whose expiry is watched.
THEOREM LogsBelongToLeaders == Spec => OnlyLeadersWrite /\ []LeaderIsWatched
<1>1. Init => LeaderIsWatched
  BY DEF Init, LeaderIsWatched, Follower, Role
<1>2. TypeOK /\ GateInv /\ LeaderIsWatched /\ [Next]_vars
        => LeaderIsWatched' /\ [WriteStep]_vars
  <2> SUFFICES ASSUME TypeOK, GateInv, LeaderIsWatched, [Next]_vars
               PROVE  LeaderIsWatched' /\ [WriteStep]_vars
    OBVIOUS
  <2>1. CASE UNCHANGED vars
    BY <2>1 DEF vars, LeaderIsWatched
  <2>2. ASSUME NEW n \in Node,
               \/ LeaseLapses(n) \/ LeaderLeaseExpired(n) \/ ClockFires(n)
               \/ ElectionCountdownExpired(n)
               \/ PreVoteCampaignExpired(n) \/ VoteCampaignExpired(n)
        PROVE  KeptStep
    BY <2>2, ClockKept
  <2>3. ASSUME NEW n \in Node, ReceiveRequest(n)
        PROVE  KeptStep
    BY <2>3, RequestKept
  <2>4. ASSUME NEW n \in Node, ReceiveResponse(n) \/ OutsideAnswers(n)
        PROVE  KeptStep
    <3>1. PICK r \in Replies, rest \in SUBSET Calls : HandleResponse(n, r, rest)
      BY <2>4, ResponseHandled
    <3> QED
      BY <3>1, ResponseKept
  <2>5. CASE \/ \E n \in Node : DispatchAccept(n) \/ ClientWrite(n) \/ Restart(n)
             \/ Lost \/ CallerGone
    BY <2>5, OtherKept DEF KeptStep
  <2> QED
    BY <2>1, <2>2, <2>3, <2>4, <2>5 DEF Next, KeptStep
<1> QED
  BY <1>1, <1>2, TypeCorrect, RefusesVotesAndAccepts, PTL
     DEF Spec, GateInv, OnlyLeadersWrite, WriteStep

-----------------------------------------------------------------------------
(* A campaign has one deadline: clock events wait in the order of the roles    *)
(* they time, and a member that arms a clock has none of that rank, or of a    *)
(* higher one, in its queue.                                                   *)

Rank(e) == IF e = "PreVoteCampaignExpired" THEN 1
           ELSE IF e = "VoteCampaignExpired" THEN 2 ELSE 3

Ordered(q) == \A i, j \in 1..Len(q) : i < j => Rank(q[i]) < Rank(q[j])
Below(q, k) == \A i \in 1..Len(q) : Rank(q[i]) < k
EndsWith(q, e) == q # <<>> /\ q[Len(q)] = e

Campaigning(s) == s.role \in {"PreCandidate", "Candidate"}

\* What waits for a member with role object s, context c and queue q.
Timed(s, c, q) ==
  s.role # "Crashed" =>
    /\ Ordered(q)
    /\ Campaigning(s) => IF s.clock = "running" THEN Below(q, Rank(TimerOf[s.role]))
                         ELSE EndsWith(q, TimerOf[s.role])
    /\ ~Campaigning(s) => \/ Below(q, 3) /\ s.clock = "idle"
                          \/ Below(q, 3) /\ c.lease = "none"
                          \/ s.role = "Follower" /\ s.clock = "idle" /\ c.lease = "none"

TimedInv == \A n \in Node : Timed(state[n], ctx[n], timers[n])

LEMMA EmptyQueue ==
  /\ Ordered(<<>>)
  /\ \A k : Below(<<>>, k)
BY DEF Ordered, Below

LEMMA AppendInOrder ==
  ASSUME NEW q \in Seq(Timers), NEW e \in Timers, Ordered(q), Below(q, Rank(e))
  PROVE  Ordered(Append(q, e)) /\ EndsWith(Append(q, e), e)
<1> DEFINE p == Append(q, e)
<1>1. Len(p) = Len(q) + 1 /\ Len(q) \in Nat
  OBVIOUS
<1>2. \A i \in 1..Len(p) : p[i] = IF i = Len(q) + 1 THEN e ELSE q[i]
  OBVIOUS
<1>3. p # <<>> /\ p[Len(p)] = e
  BY <1>1, <1>2
<1> HIDE DEF p
<1>4. ASSUME NEW i \in 1..Len(p), NEW j \in 1..Len(p), i < j
      PROVE  Rank(p[i]) < Rank(p[j])
  <2>1. i \in 1..Len(q) /\ p[i] = q[i]
    BY <1>1, <1>2, <1>4
  <2>2. CASE j = Len(q) + 1
    BY <1>2, <2>1, <2>2 DEF Below
  <2>3. CASE j # Len(q) + 1
    <3>1. j \in 1..Len(q) /\ p[j] = q[j]
      BY <1>1, <1>2, <2>3
    <3> QED
      BY <1>4, <2>1, <3>1 DEF Ordered
  <2> QED
    BY <2>2, <2>3
<1> QED
  BY <1>3, <1>4 DEF Ordered, EndsWith, p

LEMMA TailInOrder ==
  ASSUME NEW q \in Seq(Timers), q # <<>>, Ordered(q)
  PROVE  /\ Ordered(Tail(q))
         /\ \A k : Below(q, k) => Below(Tail(q), k)
         /\ \A e : EndsWith(q, e) /\ Head(q) # e => EndsWith(Tail(q), e)
         /\ Rank(Head(q)) = 3 => Tail(q) = <<>>
<1> DEFINE p == Tail(q)
<1>1. Len(q) \in Nat /\ Len(q) # 0 /\ Len(p) = Len(q) - 1 /\ Head(q) = q[1]
  OBVIOUS
<1>2. \A i \in 1..Len(p) : p[i] = q[i + 1]
  OBVIOUS
<1>3. p \in Seq(Timers)
  OBVIOUS
<1> HIDE DEF p
<1>4. \A i \in 1..Len(p) : i + 1 \in 1..Len(q)
  BY <1>1
<1>5. Ordered(p)
  <2> SUFFICES ASSUME NEW i \in 1..Len(p), NEW j \in 1..Len(p), i < j
               PROVE  Rank(p[i]) < Rank(p[j])
    BY DEF Ordered
  <2>1. i + 1 \in 1..Len(q) /\ j + 1 \in 1..Len(q) /\ i + 1 < j + 1
    BY <1>4
  <2> QED
    BY <1>2, <2>1 DEF Ordered
<1>6. \A k : Below(q, k) => Below(p, k)
  BY <1>2, <1>4 DEF Below
<1>7. ASSUME NEW e, EndsWith(q, e), Head(q) # e
      PROVE  EndsWith(p, e)
  <2>1. Len(q) > 1
    BY <1>1, <1>7 DEF EndsWith
  <2>2. Len(p) \in 1..Len(p) /\ Len(p) + 1 = Len(q)
    BY <1>1, <2>1
  <2>3. p # <<>>
    BY <1>1, <1>3, <2>1
  <2> QED
    BY <1>2, <1>7, <2>2, <2>3 DEF EndsWith
<1>8. ASSUME Rank(Head(q)) = 3
      PROVE  p = <<>>
  <2>1. ASSUME Len(q) > 1
        PROVE  FALSE
    <3>1. Rank(q[1]) < Rank(q[2])
      BY <1>1, <2>1 DEF Ordered
    <3> QED
      BY <1>1, <1>8, <3>1 DEF Rank
  <2>2. Len(p) = 0
    BY <1>1, <2>1
  <2> QED
    BY <1>3, <2>2
<1> QED
  BY <1>5, <1>6, <1>7, <1>8 DEF p

\* A campaigner's queue holds nothing but its own and earlier deadlines.
LEMMA CampaignerQueue ==
  ASSUME NEW s, NEW c, NEW q \in Seq(Timers), Timed(s, c, q), Campaigning(s)
  PROVE  /\ Ordered(q) /\ Below(q, 3)
         /\ s.role = "PreCandidate" => Below(q, 2)
<1> DEFINE k == Rank(TimerOf[s.role])
<1>1. /\ s.role = "PreCandidate" => k = 1
      /\ s.role = "Candidate" => k = 2
  BY DEF Campaigning, TimerOf, Rank
<1>2. s.role \in {"PreCandidate", "Candidate"} /\ s.role # "Crashed"
  BY DEF Campaigning
<1>3. Ordered(q) /\ IF s.clock = "running" THEN Below(q, k) ELSE EndsWith(q, TimerOf[s.role])
  BY <1>2 DEF Timed
<1> HIDE DEF k
<1>4. Below(q, k + 1)
  <2>1. CASE Below(q, k)
    BY <1>1, <1>2, <2>1 DEF Below, Rank
  <2>2. CASE EndsWith(q, TimerOf[s.role])
    <3> SUFFICES ASSUME NEW i \in 1..Len(q)
                 PROVE  Rank(q[i]) < k + 1
      BY DEF Below
    <3>1. Len(q) \in 1..Len(q) /\ Rank(q[Len(q)]) = k
      BY <2>2 DEF EndsWith, k
    <3>2. CASE i = Len(q)
      BY <1>1, <1>2, <3>1, <3>2
    <3>3. CASE i # Len(q)
      <4>1. Rank(q[i]) < k
        BY <1>3, <3>1, <3>3 DEF Ordered
      <4> QED
        BY <1>1, <1>2, <4>1 DEF Rank
    <3> QED
      BY <3>2, <3>3
  <2> QED
    BY <1>3, <2>1, <2>2
<1>5. k = 1 \/ k = 2
  BY <1>1, <1>2
<1>6. Below(q, 3)
  BY <1>4, <1>5 DEF Below, Rank
<1> QED
  BY <1>1, <1>3, <1>4, <1>6

\* What becomes of the member's role object leaves its queue in order.
LEMMA RolesTimed ==
  ASSUME NEW s \in States, NEW c, NEW q \in Seq(Timers), Timed(s, c, q),
         s.role # "Crashed"
  PROVE  /\ \A l : Timed(Follower(l), c, q)
         /\ s.role # "Follower" => \A l, d : Timed(Follower(l), d, q)
         /\ s.role # "Follower" => \A d : Timed(s, d, q)
         /\ s.role = "PreCandidate" => \A d : Timed(Campaign("Candidate"), d, q)
         /\ s.role = "Candidate" =>
              \A d, b : Timed([Role("Leader", NoMember) EXCEPT !.board = b], d, q)
         /\ \A b : Timed([s EXCEPT !.board = b], c, q)
         /\ \A l : Timed([s EXCEPT !.leader = l], c, q)
         /\ \A d : (c.lease = "none" => d.lease = "none") => Timed(s, d, q)
<1>1. /\ s.role \in {"Follower", "PreCandidate", "Candidate", "Leader"}
      /\ s.role = "Leader" => s.clock = "idle"
      /\ s.clock \in {"idle", "running"}
  BY DEF States, Roles
<1>2. Ordered(q)
  BY DEF Timed
<1>3. Campaigning(s) => Below(q, 3) /\ (s.role = "PreCandidate" => Below(q, 2))
  BY CampaignerQueue
<1>4. s.role = "Leader" => Below(q, 3)
  BY DEF Timed, Campaigning
<1>5. s.role # "Follower" => Below(q, 3)
  BY <1>1, <1>3, <1>4 DEF Campaigning
<1>6. \A l, d : Below(q, 3) => Timed(Follower(l), d, q)
  BY <1>2 DEF Timed, Campaigning, Follower, Role
<1>7. \A l : Timed(Follower(l), c, q)
  <2>1. CASE s.role = "Follower"
    BY <1>2, <2>1 DEF Timed, Campaigning, Follower, Role
  <2> QED
    BY <1>5, <1>6, <2>1
<1>8. s.role = "PreCandidate" => \A d : Timed(Campaign("Candidate"), d, q)
  BY <1>2, <1>3 DEF Timed, Campaigning, Campaign, Role, TimerOf, Rank
<1>9. s.role = "Candidate" =>
        \A d, b : Timed([Role("Leader", NoMember) EXCEPT !.board = b], d, q)
  BY <1>2, <1>5 DEF Timed, Campaigning, Role
<1>10. s.role # "Follower" => \A d : Timed(s, d, q)
  BY <1>1 DEF Timed, Campaigning
<1>11. \A b : Timed([s EXCEPT !.board = b], c, q)
  BY DEF Timed, Campaigning, States
<1>12. \A l : Timed([s EXCEPT !.leader = l], c, q)
  BY DEF Timed, Campaigning, States
<1>13. \A d : (c.lease = "none" => d.lease = "none") => Timed(s, d, q)
  BY DEF Timed
<1> QED
  BY <1>5, <1>6, <1>7, <1>8, <1>9, <1>10, <1>11, <1>12, <1>13

LEMMA CrashedTimed ==
  ASSUME NEW c, NEW q
  PROVE  Timed(Crashed, c, q)
BY DEF Timed, Crashed, Role

LEMMA BecomeTimed ==
  ASSUME TypeOK, TimedInv, NEW n \in Node, NEW s, NEW c, Become(n, s, c),
         Timed(s, c, timers'[n]), \A m \in Node \ {n} : timers'[m] = timers[m]
  PROVE  TimedInv'
BY DEF TimedInv, Become, TypeOK

\* A member's pair as its handlers find it, before and after a term is adopted.
LEMMA ReadingTimed ==
  ASSUME TypeOK, TimedInv, NEW n \in Node, Listening(n), NEW r \in Readings(n),
         NEW t \in Terms
  PROVE  LET now == AdoptTerm(state[n], r, t)
         IN  /\ state[n] \in States /\ state[n].role # "Crashed"
             /\ Timed(state[n], r, timers[n])
             /\ now.state \in States /\ now.state.role # "Crashed"
             /\ now.ctx \in Contexts
             /\ Timed(now.state, now.ctx, timers[n])
<1> DEFINE now == AdoptTerm(state[n], r, t)
<1>1. /\ state[n] \in States /\ state[n].role # "Crashed"
      /\ timers[n] \in Seq(Timers)
      /\ Timed(state[n], ctx[n], timers[n])
  BY DEF TypeOK, Listening, TimedInv
<1>2. r \in Contexts /\ (ctx[n].lease = "none" => r.lease = "none")
  BY ReadingType
<1>3. Timed(state[n], r, timers[n])
  BY <1>1, <1>2, RolesTimed
<1>4. now.state \in States /\ now.ctx \in Contexts /\ now.ctx.lease = r.lease
  BY <1>1, <1>2, AdoptTermType
<1>5. CASE t > r.term
  <2>1. now.state = Follower(IF state[n].role = "Follower" THEN state[n].leader ELSE NoMember)
    BY <1>5 DEF AdoptTerm
  <2>2. \A l : Timed(Follower(l), r, timers[n])
    BY <1>1, <1>3, RolesTimed
  <2>3. Timed(now.state, r, timers[n]) /\ now.state.role = "Follower"
    BY <2>1, <2>2 DEF Follower, Role
  <2> HIDE DEF now
  <2>4. Timed(now.state, now.ctx, timers[n])
    BY <1>1, <1>4, <2>3, RolesTimed
  <2> QED
    BY <1>1, <1>3, <1>4, <2>3, <2>4 DEF now
<1>6. CASE ~(t > r.term)
  BY <1>1, <1>3, <1>4, <1>6 DEF AdoptTerm
<1> QED
  BY <1>5, <1>6

LEMMA AnswerTimed ==
  ASSUME TypeOK, TimedInv, NEW n \in Node, NEW req, NEW s, NEW c, NEW g, NEW l,
         Timed(s, c, timers[n]), Answer(n, req, s, c, g, l)
  PROVE  TimedInv'
BY BecomeTimed, CrashedTimed DEF Answer, Panic

LEMMA RequestTimed ==
  ASSUME TypeOK, GateInv, TimedInv, NEW n \in Node, ReceiveRequest(n)
  PROVE  TimedInv'
<1>1. PICK req \in Calls :
        \/ req.kind = "prevote" /\ HandlePreVoteRequest(n, req)
        \/ req.kind = "vote" /\ HandleVoteRequest(n, req)
        \/ req.kind = "accept" /\ HandleAcceptRequest(n, req)
  BY OutsideCallsType DEF ReceiveRequest, TypeOK
<1>2. /\ Listening(n) /\ timers[n] \in Seq(Timers) /\ 0 \in Terms
  BY BoundsAssumption DEF ReceiveRequest, TypeOK, Terms
<1>3. CASE req.kind = "prevote" /\ HandlePreVoteRequest(n, req)
  <2>1. PICK before, c \in Readings(n) :
          \E g, l : Answer(n, req, PreVoteResponder(state[n], before), c, g, l)
    BY <1>3 DEF HandlePreVoteRequest
  <2>2. /\ state[n] \in States /\ state[n].role # "Crashed"
        /\ Timed(state[n], c, timers[n])
    BY <1>2, ReadingTimed
  <2>3. \A l : Timed(Follower(l), c, timers[n])
    BY <1>2, <2>2, RolesTimed
  <2>4. Timed(PreVoteResponder(state[n], before), c, timers[n])
    BY <2>2, <2>3 DEF PreVoteResponder
  <2> QED
    BY <2>1, <2>4, AnswerTimed
<1>4. CASE req.kind = "vote" /\ HandleVoteRequest(n, req)
  <2>1. PICK r \in Readings(n) :
          LET now == AdoptTerm(state[n], r, req.term)
              s == Voter(now.state, now.ctx)
              c == now.ctx
          IN  \/ VoteGranted(s, c, req)
              \/ \E l : Answer(n, req, s, c, FALSE, l)
    BY <1>4 DEF HandleVoteRequest
  <2> DEFINE now == AdoptTerm(state[n], r, req.term)
             s == Voter(now.state, now.ctx)
             c == now.ctx
  <2>2. ~VoteGranted(s, c, req)
    BY <1>4, VoteRefused
  <2>3. /\ now.state \in States /\ now.state.role # "Crashed"
        /\ Timed(now.state, c, timers[n])
    BY <1>2, <1>4, CallType, ReadingTimed
  <2>4. \A l : Timed(Follower(l), c, timers[n])
    BY <1>2, <2>3, RolesTimed
  <2>5. Timed(s, c, timers[n])
    BY <2>3, <2>4 DEF Voter
  <2>6. PICK l : Answer(n, req, s, c, FALSE, l)
    BY <2>1, <2>2
  <2> HIDE DEF now, s, c
  <2> QED
    BY <2>5, <2>6, AnswerTimed
<1>5. CASE req.kind = "accept" /\ HandleAcceptRequest(n, req)
  <2>1. PICK r \in Readings(n) :
          LET now == AdoptTerm(state[n], r, req.term)
              s == Acceptor(now.state, now.ctx, req)
              c == now.ctx
          IN  \/ s.role # "Leader" /\ AcceptAdmitted(s, c, req)
              \/ Answer(n, req, s, c, FALSE, NoMember)
              \/ /\ Become(n, s, c)
                 /\ UNCHANGED <<timers, replies, faults, tries, opened>>
    BY <1>5 DEF HandleAcceptRequest
  <2> DEFINE now == AdoptTerm(state[n], r, req.term)
             s == Acceptor(now.state, now.ctx, req)
             c == now.ctx
  <2>2. /\ now.state \in States /\ now.state.role # "Crashed"
        /\ Timed(now.state, c, timers[n])
    BY <1>2, <1>5, CallType, ReadingTimed
  <2>3. \A l : Timed(Follower(l), c, timers[n])
    BY <1>2, <2>2, RolesTimed
  <2>4. Timed(s, c, timers[n])
    BY <2>2, <2>3 DEF Acceptor
  <2>5. s.role # "Leader" => ~AcceptAdmitted(s, c, req)
    BY <1>2, <1>5, CallType, AcceptRefused
  <2>6. Answer(n, req, s, c, FALSE, NoMember) \/ (Become(n, s, c) /\ timers' = timers)
    BY <2>1, <2>5
  <2> HIDE DEF now, s, c
  <2>7. CASE Answer(n, req, s, c, FALSE, NoMember)
    BY <2>4, <2>7, AnswerTimed
  <2>8. CASE Become(n, s, c) /\ timers' = timers
    <3>1. Timed(s, c, timers'[n]) /\ \A m \in Node \ {n} : timers'[m] = timers[m]
      BY <2>4, <2>8
    <3> QED
      BY <2>8, <3>1, BecomeTimed
  <2> QED
    BY <2>6, <2>7, <2>8
<1> QED
  BY <1>1, <1>3, <1>4, <1>5

LEMMA ResponseTimed ==
  ASSUME TypeOK, TimedInv, NEW n \in Node, NEW r \in Replies, NEW rest,
         HandleResponse(n, r, rest)
  PROVE  TimedInv'
<1>1. r.term \in Terms /\ Listening(n) /\ timers[n] \in Seq(Timers) /\ timers' = timers
  BY DEF Replies, HandleResponse, TypeOK
<1>2. PICK reading \in Readings(n) :
        LET s == AdoptTerm(state[n], reading, r.term).state
            c == AdoptTerm(state[n], reading, r.term).ctx
        IN  \/ s.role = "PreCandidate" /\ CountPreVote(n, s, c, r, rest)
            \/ s.role = "Candidate" /\ CountVote(n, s, c, r, rest)
            \/ Become(n, LearnLeader(s, c, r), c)
            \/ \E l \in {c.lease} \union (IF s.role = "Leader" THEN {"running"} ELSE {}) :
                 Become(n, s, [c EXCEPT !.lease = l])
  <2>1. CASE HandlePreVoteResponse(n, r, rest)
    BY <2>1 DEF HandlePreVoteResponse
  <2>2. CASE HandleVoteResponse(n, r, rest)
    BY <2>2 DEF HandleVoteResponse
  <2>3. CASE HandleAcceptResponse(n, r, rest)
    <3>1. PICK x \in Readings(n) :
            LET s == AdoptTerm(state[n], x, r.term).state
                c == AdoptTerm(state[n], x, r.term).ctx
                counts == s.role = "Leader" /\ r.term >= c.term /\ r.granted
            IN  \E l \in {c.lease} \union (IF counts THEN {"running"} ELSE {}) :
                  Become(n, s, [c EXCEPT !.lease = l])
      BY <2>3 DEF HandleAcceptResponse
    <3> QED
      BY <3>1
  <2> QED
    BY <2>1, <2>2, <2>3 DEF HandleResponse
<1> DEFINE s == AdoptTerm(state[n], reading, r.term).state
           c == AdoptTerm(state[n], reading, r.term).ctx
           q == timers[n]
<1>3. /\ s \in States /\ s.role # "Crashed" /\ c \in Contexts
      /\ Timed(s, c, q)
  BY <1>1, ReadingTimed
<1>4. \/ s.role = "PreCandidate" /\ CountPreVote(n, s, c, r, rest)
      \/ s.role = "Candidate" /\ CountVote(n, s, c, r, rest)
      \/ Become(n, LearnLeader(s, c, r), c)
      \/ \E l \in {c.lease} \union (IF s.role = "Leader" THEN {"running"} ELSE {}) :
           Become(n, s, [c EXCEPT !.lease = l])
  BY <1>2
<1> HIDE DEF s, c
<1>5. /\ \A l : Timed(Follower(l), c, q)
      /\ s.role # "Follower" => \A l, d : Timed(Follower(l), d, q)
      /\ s.role # "Follower" => \A d : Timed(s, d, q)
      /\ s.role = "PreCandidate" => \A d : Timed(Campaign("Candidate"), d, q)
      /\ s.role = "Candidate" =>
           \A d, b : Timed([Role("Leader", NoMember) EXCEPT !.board = b], d, q)
      /\ \A b : Timed([s EXCEPT !.board = b], c, q)
      /\ \A l : Timed([s EXCEPT !.leader = l], c, q)
      /\ \A d : (c.lease = "none" => d.lease = "none") => Timed(s, d, q)
  BY <1>1, <1>3, RolesTimed
<1>6. ASSUME NEW x, NEW d, Become(n, x, d), Timed(x, d, q)
      PROVE  TimedInv'
  BY <1>1, <1>6, BecomeTimed
<1>7. CASE s.role = "PreCandidate" /\ CountPreVote(n, s, c, r, rest)
  <2>1. \/ Become(n, Campaign("Candidate"), [c EXCEPT !.term = @ + 1])
        \/ Become(n, Follower(NoMember), c)
        \/ Become(n, [s EXCEPT !.board = Recorded(s.board, r)], c)
    BY <1>7 DEF CountPreVote
  <2> QED
    BY <1>5, <1>6, <1>7, <2>1
<1>8. CASE s.role = "Candidate" /\ CountVote(n, s, c, r, rest)
  <2>1. \/ \E b, l : Become(n, [Role("Leader", NoMember) EXCEPT !.board = b],
                            [c EXCEPT !.lease = "running", !.log = l])
        \/ Become(n, Follower(NoMember), [c EXCEPT !.lease = "running"])
        \/ Become(n, Follower(NoMember), c)
        \/ Become(n, [s EXCEPT !.board = Recorded(s.board, r)], c)
    BY <1>8 DEF CountVote
  <2> QED
    BY <1>5, <1>6, <1>8, <2>1
<1>9. CASE Become(n, LearnLeader(s, c, r), c)
  <2>1. Timed(LearnLeader(s, c, r), c, q)
    BY <1>3, <1>5 DEF LearnLeader
  <2> QED
    BY <1>6, <1>9, <2>1
<1>10. CASE \E l \in {c.lease} \union (IF s.role = "Leader" THEN {"running"} ELSE {}) :
              Become(n, s, [c EXCEPT !.lease = l])
  <2>1. PICK l \in {c.lease} \union (IF s.role = "Leader" THEN {"running"} ELSE {}) :
          Become(n, s, [c EXCEPT !.lease = l])
    BY <1>10
  <2> DEFINE d == [c EXCEPT !.lease = l]
  <2>2. s.role # "Leader" => d.lease = c.lease
    BY <1>3, <2>1 DEF Contexts
  <2> HIDE DEF d
  <2>3. Timed(s, d, q)
    BY <1>5, <2>2
  <2> QED
    BY <1>6, <2>1, <2>3 DEF d
<1> QED
  BY <1>4, <1>7, <1>8, <1>9, <1>10

LEMMA ClockTimed ==
  ASSUME TypeOK, TimedInv, NEW n \in Node,
         \/ LeaseLapses(n) \/ LeaderLeaseExpired(n) \/ ClockFires(n)
         \/ ElectionCountdownExpired(n)
         \/ PreVoteCampaignExpired(n) \/ VoteCampaignExpired(n)
  PROVE  TimedInv'
<1>1. /\ state[n] \in States /\ ctx[n] \in Contexts /\ timers[n] \in Seq(Timers)
      /\ Timed(state[n], ctx[n], timers[n]) /\ 0 \in Terms
  BY BoundsAssumption DEF TypeOK, TimedInv, Terms
<1>2. CASE LeaseLapses(n)
  <2>1. Timed(state[n], [ctx[n] EXCEPT !.lease = "lapsed"], timers[n])
    BY <1>1, <1>2, RolesTimed DEF LeaseLapses
  <2>2. Become(n, state[n], [ctx[n] EXCEPT !.lease = "lapsed"]) /\ timers' = timers
    BY <1>2 DEF LeaseLapses, Become, TypeOK
  <2> QED
    BY <2>1, <2>2, BecomeTimed
<1>3. CASE LeaderLeaseExpired(n)
  <2> DEFINE d == [ctx[n] EXCEPT !.lease = "none"]
  <2>1. d.lease = "none" /\ ctx[n].lease # "none" /\ state[n].role # "Crashed"
    BY <1>1, <1>3 DEF LeaderLeaseExpired, Contexts
  <2>2. \/ /\ state[n].role = "Follower"
           /\ Become(n, [state[n] EXCEPT !.clock = "running"], d)
        \/ state[n].role # "Follower" /\ Become(n, Follower(NoMember), d)
        \/ Become(n, state[n], d)
    BY <1>3 DEF LeaderLeaseExpired
  <2>3. timers' = timers
    BY <1>3 DEF LeaderLeaseExpired
  <2> HIDE DEF d
  <2>4. Timed(state[n], d, timers[n])
    BY <1>1, <2>1, RolesTimed
  <2>5. state[n].role # "Follower" => Timed(Follower(NoMember), d, timers[n])
    BY <1>1, <2>1, RolesTimed
  <2>6. state[n].role = "Follower" =>
          Timed([state[n] EXCEPT !.clock = "running"], d, timers[n])
    BY <1>1, <2>1 DEF Timed, Campaigning, States
  <2> QED
    BY <2>2, <2>3, <2>4, <2>5, <2>6, BecomeTimed
<1>4. CASE ClockFires(n)
  <2> DEFINE e == TimerOf[state[n].role]
             x == [state[n] EXCEPT !.clock = "idle"]
  <2>1. /\ state[n].role \in {"Follower", "PreCandidate", "Candidate"}
        /\ state[n].clock = "running" /\ x.role = state[n].role /\ x.clock = "idle"
    BY <1>1, <1>4 DEF ClockFires, States
  <2>2. e \in Timers /\ (state[n].role = "Follower" => Rank(e) = 3)
    BY <2>1 DEF Timers, TimerOf, Rank
  <2>3. Ordered(timers[n]) /\ Below(timers[n], Rank(e))
    BY <1>1, <2>1, <2>2 DEF Timed, Campaigning
  <2>4. timers' = [timers EXCEPT ![n] = Append(@, e)] /\ Become(n, x, ctx[n])
    BY <1>4 DEF ClockFires, Become, TypeOK
  <2>5. timers'[n] = Append(timers[n], e) /\ \A m \in Node \ {n} : timers'[m] = timers[m]
    BY <2>4 DEF TypeOK
  <2>6. Ordered(Append(timers[n], e)) /\ EndsWith(Append(timers[n], e), e)
    BY <1>1, <2>2, <2>3, AppendInOrder
  <2>7. state[n].role = "Follower" => ctx[n].lease = "none"
    BY <1>1, <2>1 DEF Timed, Campaigning
  <2>8. Timed(x, ctx[n], timers'[n])
    BY <2>1, <2>5, <2>6, <2>7 DEF Timed, Campaigning
  <2> HIDE DEF e, x
  <2> QED
    BY <2>4, <2>5, <2>8, BecomeTimed
<1>5. ASSUME NEW e, TakeTimer(n, e)
      PROVE  /\ Listening(n) /\ Head(timers[n]) = e /\ timers[n] # <<>>
             /\ timers'[n] = Tail(timers[n])
             /\ \A m \in Node \ {n} : timers'[m] = timers[m]
  BY <1>5 DEF TakeTimer, TypeOK
<1>6. CASE ElectionCountdownExpired(n)
  <2>1. PICK c \in Readings(n) :
          \/ Become(n, state[n], c)
          \/ Become(n, Campaign("PreCandidate"), c)
          \/ Become(n, Crashed, NewContext)
    BY <1>6 DEF ElectionCountdownExpired, DialFails, Panic
  <2>2. TakeTimer(n, "ElectionCountdownExpired")
    BY <1>6 DEF ElectionCountdownExpired
  <2>3. state[n].role # "Crashed" /\ Rank(Head(timers[n])) = 3 /\ timers[n] # <<>>
    BY <1>5, <2>2 DEF Listening, Rank
  <2>4. timers'[n] = <<>> /\ \A m \in Node \ {n} : timers'[m] = timers[m]
    BY <1>1, <1>5, <2>2, <2>3, TailInOrder DEF Timed
  <2>5. ~Below(timers[n], 3)
    BY <1>1, <2>3 DEF Below
  <2>6. state[n].role = "Follower" /\ state[n].clock = "idle"
    BY <1>1, <2>3, <2>5, CampaignerQueue DEF Timed
  <2>7. /\ Timed(state[n], c, <<>>)
        /\ Timed(Campaign("PreCandidate"), c, <<>>)
    BY <2>6, EmptyQueue DEF Timed, Campaigning, Campaign, Role
  <2> QED
    BY <2>1, <2>4, <2>7, BecomeTimed, CrashedTimed
<1>7. ASSUME NEW e, NEW role \in {"PreCandidate", "Candidate"}, e = TimerOf[role],
             TakeTimer(n, e), StepDownFrom(n, role)
      PROVE  TimedInv'
  <2>1. PICK c \in Readings(n) :
          Become(n, IF state[n].role = role THEN Follower(NoMember) ELSE state[n], c)
    BY <1>7 DEF StepDownFrom
  <2>2. /\ Listening(n) /\ Head(timers[n]) = e /\ timers[n] # <<>>
        /\ timers'[n] = Tail(timers[n])
        /\ \A m \in Node \ {n} : timers'[m] = timers[m]
    BY <1>5, <1>7
  <2>3. /\ state[n].role # "Crashed"
        /\ Timed(state[n], c, timers[n])
    BY <1>1, <2>2, ReadingTimed
  <2> DEFINE p == Tail(timers[n])
  <2>4. /\ Ordered(p)
        /\ \A k : Below(timers[n], k) => Below(p, k)
        /\ \A x : EndsWith(timers[n], x) /\ e # x => EndsWith(p, x)
    BY <1>1, <2>2, <2>3, TailInOrder DEF Timed
  <2> HIDE DEF p
  <2>5. CASE state[n].role = role
    <3>1. Below(timers[n], 3)
      BY <1>1, <2>3, <2>5, CampaignerQueue DEF Campaigning
    <3>2. Timed(Follower(NoMember), c, p)
      BY <2>4, <3>1 DEF Timed, Campaigning, Follower, Role
    <3> QED
      BY <2>1, <2>2, <2>5, <3>2, BecomeTimed DEF p
  <2>6. CASE state[n].role # role
    <3>1. Campaigning(state[n]) => e # TimerOf[state[n].role]
      BY <1>7, <2>6 DEF Campaigning, TimerOf
    <3>2. Timed(state[n], c, p)
      BY <2>3, <2>4, <3>1 DEF Timed
    <3> QED
      BY <2>1, <2>2, <2>6, <3>2, BecomeTimed DEF p
  <2> QED
    BY <2>5, <2>6
<1>8. CASE PreVoteCampaignExpired(n)
  BY <1>7, <1>8 DEF PreVoteCampaignExpired, TimerOf
<1>9. CASE VoteCampaignExpired(n)
  BY <1>7, <1>9 DEF VoteCampaignExpired, TimerOf
<1> QED
  BY <1>2, <1>3, <1>4, <1>6, <1>8, <1>9

LEMMA OtherTimed ==
  ASSUME TypeOK, TimedInv,
         \/ \E n \in Node : DispatchAccept(n) \/ ClientWrite(n) \/ Restart(n)
         \/ Lost \/ CallerGone
  PROVE  TimedInv'
<1>1. CASE UNCHANGED <<state, ctx, timers>>
  BY <1>1 DEF TimedInv
<1>2. CASE Lost \/ CallerGone \/ \E n \in Node : DispatchAccept(n)
  BY <1>1, <1>2 DEF Lost, CallerGone, DispatchAccept
<1>3. ASSUME NEW n \in Node, Restart(n)
      PROVE  TimedInv'
  <2>1. Timed(Follower(NoMember), NewContext, <<>>)
    BY EmptyQueue DEF Timed, Campaigning, Follower, Role
  <2>2. timers'[n] = <<>> /\ \A m \in Node \ {n} : timers'[m] = timers[m]
    BY <1>3 DEF Restart, TypeOK
  <2> QED
    BY <1>3, <2>1, <2>2, BecomeTimed DEF Restart
<1>4. ASSUME NEW n \in Node, ClientWrite(n)
      PROVE  TimedInv'
  <2>1. timers' = timers
    BY <1>4 DEF ClientWrite
  <2>2. CASE Panic(n)
    BY <2>1, <2>2, CrashedTimed, BecomeTimed DEF Panic
  <2>3. CASE /\ ctx' = [ctx EXCEPT ![n].log = [term |-> ctx[n].term, slot |-> @.slot + 1]]
             /\ UNCHANGED state
    <3>1. \A m \in Node : ctx'[m].lease = ctx[m].lease
      BY <2>3 DEF TypeOK, Contexts
    <3>2. \A m \in Node : Timed(state[m], ctx[m], timers[m])
      BY DEF TimedInv
    <3>3. \A m \in Node : Timed(state[m], ctx'[m], timers[m])
      BY <3>1, <3>2 DEF Timed
    <3> QED
      BY <2>1, <2>3, <3>3 DEF TimedInv
  <2> QED
    BY <1>4, <2>2, <2>3 DEF ClientWrite
<1> QED
  BY <1>2, <1>3, <1>4

\* Every member stays in time, whatever the rest of the group does.
LEMMA AlwaysTimed == Spec => []TimedInv
<1>1. Init => TimedInv
  BY EmptyQueue DEF Init, TimedInv, Timed, Campaigning, Follower, Role
<1>2. TypeOK /\ GateInv /\ TimedInv /\ [Next]_vars => TimedInv'
  <2> SUFFICES ASSUME TypeOK, GateInv, TimedInv, [Next]_vars PROVE TimedInv'
    OBVIOUS
  <2>1. CASE UNCHANGED vars
    BY <2>1 DEF vars, TimedInv
  <2>2. ASSUME NEW n \in Node,
               \/ LeaseLapses(n) \/ LeaderLeaseExpired(n) \/ ClockFires(n)
               \/ ElectionCountdownExpired(n)
               \/ PreVoteCampaignExpired(n) \/ VoteCampaignExpired(n)
        PROVE  TimedInv'
    BY <2>2, ClockTimed
  <2>3. ASSUME NEW n \in Node, ReceiveRequest(n)
        PROVE  TimedInv'
    BY <2>3, RequestTimed
  <2>4. ASSUME NEW n \in Node, ReceiveResponse(n) \/ OutsideAnswers(n)
        PROVE  TimedInv'
    BY <2>4, ResponseHandled, ResponseTimed
  <2>5. CASE \/ \E n \in Node : DispatchAccept(n) \/ ClientWrite(n) \/ Restart(n)
             \/ Lost \/ CallerGone
    BY <2>5, OtherTimed
  <2> QED
    BY <2>1, <2>2, <2>3, <2>4, <2>5 DEF Next
<1> QED
  BY <1>1, <1>2, TypeCorrect, RefusesVotesAndAccepts, PTL DEF Spec, GateInv

\* A campaign's deadline is due once: by the clock while it runs, by the last
\* event of the queue once it has fired.
LEMMA DeadlineIsOne ==
  ASSUME TypeOK, TimedInv
  PROVE  OneDeadlinePerCampaign
<1> SUFFICES ASSUME NEW n \in Node, state[n].role \in {"PreCandidate", "Candidate"}
             PROVE  LET due == {i \in DOMAIN timers[n] : timers[n][i] = TimerOf[state[n].role]}
                    IN  Cardinality(due) + (IF state[n].clock = "running" THEN 1 ELSE 0) = 1
  BY DEF OneDeadlinePerCampaign
<1> DEFINE q == timers[n]
           e == TimerOf[state[n].role]
           due == {i \in DOMAIN q : q[i] = e}
<1>1. q \in Seq(Timers) /\ DOMAIN q = 1..Len(q) /\ Len(q) \in Nat
  BY DEF TypeOK
<1>2. /\ Ordered(q)
      /\ IF state[n].clock = "running" THEN Below(q, Rank(e)) ELSE EndsWith(q, e)
  BY DEF TimedInv, Timed, Campaigning
<1>3. Rank(e) \in Nat
  BY DEF Rank
<1> HIDE DEF q, e
<1>4. CASE state[n].clock = "running"
  <2>1. due = {}
    BY <1>1, <1>2, <1>3, <1>4 DEF Below
  <2>2. Cardinality(due) = 0
    BY <2>1, FS_EmptySet
  <2> QED
    BY <1>4, <2>2 DEF q, e
<1>5. CASE state[n].clock # "running"
  <2>1. Len(q) \in 1..Len(q) /\ q[Len(q)] = e
    BY <1>1, <1>2, <1>5 DEF EndsWith
  <2>2. ASSUME NEW i \in 1..Len(q), i # Len(q)
        PROVE  q[i] # e
    <3>1. Rank(q[i]) < Rank(e)
      BY <1>1, <1>2, <2>1, <2>2 DEF Ordered
    <3> QED
      BY <1>3, <3>1
  <2>3. due = {Len(q)}
    <3>1. \A i \in DOMAIN q : q[i] = e <=> i = Len(q)
      BY <1>1, <2>1, <2>2
    <3>2. Len(q) \in DOMAIN q
      BY <1>1, <2>1
    <3>3. \A i \in due : i = Len(q)
      BY <3>1
    <3>4. Len(q) \in due
      BY <3>1, <3>2
    <3> QED
      BY <3>3, <3>4
  <2>4. Cardinality(due) = 1
    BY <2>3, FS_Singleton
  <2> QED
    BY <1>5, <2>4 DEF q, e
<1> QED
  BY <1>4, <1>5

\* A campaign always has one deadline to come, whatever the rest of the group does.
THEOREM CampaignsHaveOneDeadline == Spec => []OneDeadlinePerCampaign
BY TypeCorrect, AlwaysTimed, DeadlineIsOne, PTL
=============================================================================
