--------------------------- MODULE ElectionClosed ---------------------------
(***************************************************************************)
(* What becomes of a group in which every member runs this code, however   *)
(* many members it has and whatever fails.                                 *)
(*                                                                         *)
(* No vote is ever granted (ElectionProofs), so every ballot on a          *)
(* Candidate's board is a refusal.  A Candidate counts its ballots when a  *)
(* response reaches it; that response came from another member, so the     *)
(* group has two members or more and the Candidate's own vote is no quorum.*)
(* Nobody ever leads, so nobody has a lease after the first one lapses,    *)
(* nobody campaigns a second time, and nobody hears of a leader.           *)
(***************************************************************************)
EXTENDS ElectionProofs

-----------------------------------------------------------------------------
(* No member calls or answers itself. *)

NoSelfCalls == \A m \in calls \union replies : m.from # m.to

LEMMA AnswerNoSelf ==
  ASSUME NoSelfCalls, NEW n \in Node, NEW req, NEW s, NEW c, NEW g, NEW l,
         req.from \in Node => req.from # n, Answer(n, req, s, c, g, l)
  PROVE  NoSelfCalls'
<1>1. calls' \subseteq calls
  BY DEF Answer
<1>2. CASE req.live /\ req.from \in Node
  <2>1. replies' = replies \union
          {[kind |-> req.kind, from |-> n, to |-> req.from, term |-> c.term,
            granted |-> g, leader |-> l, asked |-> req.term]}
    BY <1>2 DEF Answer
  <2> QED
    BY <1>1, <1>2, <2>1 DEF NoSelfCalls
<1>3. CASE ~(req.live /\ req.from \in Node)
  <2>1. replies' = replies
    BY <1>3 DEF Answer
  <2> QED
    BY <1>1, <2>1 DEF NoSelfCalls
<1> QED
  BY <1>2, <1>3

LEMMA RequestNoSelf ==
  ASSUME TypeOK, NoSelfCalls, NEW n \in Node, ReceiveRequest(n)
  PROVE  NoSelfCalls'
<1>1. PICK req \in {c \in calls : c.to = n} \union OutsideCalls(n) :
        \/ HandlePreVoteRequest(n, req)
        \/ HandleVoteRequest(n, req)
        \/ HandleAcceptRequest(n, req)
  BY DEF ReceiveRequest
<1>2. req.from \in Node => req.from # n
  <2>1. CASE req \in OutsideCalls(n)
    BY <2>1, MembersAssumption DEF OutsideCalls
  <2> QED
    BY <1>1, <2>1 DEF NoSelfCalls
<1>3. ASSUME NEW s, NEW c, NEW g, NEW l, Answer(n, req, s, c, g, l)
      PROVE  NoSelfCalls'
  BY <1>2, <1>3, AnswerNoSelf
<1>4. CASE HandlePreVoteRequest(n, req)
  BY <1>3, <1>4 DEF HandlePreVoteRequest
<1>5. CASE HandleVoteRequest(n, req)
  BY <1>3, <1>5 DEF HandleVoteRequest
<1>6. CASE HandleAcceptRequest(n, req)
  <2>1. CASE calls' = calls \ {req} /\ replies' = replies
    BY <2>1 DEF NoSelfCalls
  <2> QED
    BY <1>3, <1>6, <2>1 DEF HandleAcceptRequest
<1> QED
  BY <1>1, <1>4, <1>5, <1>6

LEMMA BroadcastNoSelf ==
  ASSUME NEW n, NEW k, NEW t, NEW l, NEW m \in Broadcast(n, k, t, l)
  PROVE  m.from # m.to
BY DEF Broadcast, Peers

LEMMA ResponseNoSelf ==
  ASSUME NoSelfCalls, NEW n \in Node, NEW r, r.from # n, NEW rest \in SUBSET calls,
         HandleResponse(n, r, rest)
  PROVE  \A m \in calls' : m.from # m.to
<1>1. \A m \in rest : m.from # m.to
  BY DEF NoSelfCalls
<1>2. \/ calls' = rest
      \/ \E k, t, l : calls' = rest \union Broadcast(n, k, t, l)
      \/ \E m : m.from = n /\ m.to = r.from /\ calls' \subseteq rest \union {m}
  <2>1. CASE HandlePreVoteResponse(n, r, rest)
    BY <2>1 DEF HandlePreVoteResponse, CountPreVote
  <2>2. CASE HandleVoteResponse(n, r, rest)
    BY <2>2 DEF HandleVoteResponse, CountVote
  <2>3. CASE HandleAcceptResponse(n, r, rest)
    <3>1. PICK x \in Readings(n) :
            LET c == AdoptTerm(state[n], x, r.term).ctx
                probe == [kind |-> "accept", from |-> n, to |-> r.from, term |-> c.term,
                          log |-> c.log, live |-> TRUE]
            IN  \E again \in SUBSET {probe} : calls' = rest \union again
      BY <2>3 DEF HandleAcceptResponse
    <3> DEFINE c == AdoptTerm(state[n], x, r.term).ctx
               probe == [kind |-> "accept", from |-> n, to |-> r.from, term |-> c.term,
                         log |-> c.log, live |-> TRUE]
    <3>2. probe.from = n /\ probe.to = r.from
      OBVIOUS
    <3>3. calls' \subseteq rest \union {probe}
      BY <3>1
    <3> HIDE DEF probe
    <3> QED
      BY <3>2, <3>3
  <2> QED
    BY <2>1, <2>2, <2>3 DEF HandleResponse
<1> QED
  BY <1>1, <1>2, BroadcastNoSelf

LEMMA OwnWorkNoSelf ==
  ASSUME NoSelfCalls, NEW n \in Node,
         \/ LeaseLapses(n) \/ LeaderLeaseExpired(n) \/ ClockFires(n)
         \/ ElectionCountdownExpired(n)
         \/ PreVoteCampaignExpired(n) \/ VoteCampaignExpired(n)
         \/ DispatchAccept(n) \/ ClientWrite(n)
  PROVE  NoSelfCalls'
<1>1. CASE ElectionCountdownExpired(n)
  <2>1. replies' = replies
    BY <1>1 DEF ElectionCountdownExpired
  <2>2. \/ calls' = calls
        \/ \E k, t, l : calls' \subseteq calls \union Broadcast(n, k, t, l)
    BY <1>1 DEF ElectionCountdownExpired, DialFails
  <2> QED
    BY <2>1, <2>2, BroadcastNoSelf DEF NoSelfCalls
<1>2. CASE DispatchAccept(n)
  BY <1>2, BroadcastNoSelf DEF DispatchAccept, NoSelfCalls
<1>3. CASE UNCHANGED <<calls, replies>>
  BY <1>3 DEF NoSelfCalls
<1> QED
  BY <1>1, <1>2, <1>3 DEF LeaseLapses, LeaderLeaseExpired, ClockFires,
     PreVoteCampaignExpired, VoteCampaignExpired, StepDownFrom, ClientWrite

LEMMA FaultNoSelf ==
  ASSUME TypeOK, NoSelfCalls, Lost \/ CallerGone \/ \E n \in Node : Restart(n)
  PROVE  NoSelfCalls'
<1>1. ASSUME NEW S \in SUBSET calls, NEW m \in Abandoned(S)
      PROVE  m.from # m.to
  <2>1. PICK c \in calls : m = [c EXCEPT !.live = FALSE]
    BY <1>1 DEF Abandoned
  <2>2. c \in Calls
    BY DEF TypeOK
  <2>3. m.from = c.from /\ m.to = c.to
    BY <2>1, <2>2 DEF Calls, CallsOf
  <2> QED
    BY <2>1, <2>3 DEF NoSelfCalls
<1>2. CASE Lost
  BY <1>2 DEF Lost, NoSelfCalls
<1>3. CASE CallerGone
  <2>1. PICK c \in calls : calls' = (calls \ {c}) \union Abandoned({c})
    BY <1>3 DEF CallerGone
  <2>2. replies' = replies
    BY <1>3 DEF CallerGone
  <2>3. \A m \in Abandoned({c}) : m.from # m.to
    BY <1>1
  <2> QED
    BY <2>1, <2>2, <2>3 DEF NoSelfCalls
<1>4. ASSUME NEW n \in Node, Restart(n)
      PROVE  NoSelfCalls'
  <2> DEFINE own == {c \in calls : c.from = n}
  <2>1. \A m \in Abandoned(own) : m.from # m.to
    BY <1>1
  <2>2. /\ calls' \subseteq calls \union Abandoned(own)
        /\ replies' \subseteq replies
    BY <1>4 DEF Restart
  <2> HIDE DEF own
  <2> QED
    BY <2>1, <2>2 DEF NoSelfCalls
<1> QED
  BY <1>2, <1>3, <1>4

-----------------------------------------------------------------------------
(* Every ballot a Candidate holds is a refusal. *)

Hopeless(s) == /\ s.role # "Leader"
               /\ s.role = "Candidate" => \A b \in s.board : ~b.granted

Closed == Outside = {} => \A n \in Node : Hopeless(state[n])

LEMMA RolesHopeless ==
  /\ \A l : Hopeless(Follower(l))
  /\ Hopeless(Crashed)
  /\ Hopeless(Campaign("PreCandidate")) /\ Hopeless(Campaign("Candidate"))
BY DEF Hopeless, Follower, Crashed, Campaign, Role

LEMMA BecomeHopeless ==
  ASSUME TypeOK, \A m \in Node : Hopeless(state[m]), NEW n \in Node, NEW s, NEW c,
         Become(n, s, c), Hopeless(s)
  PROVE  \A m \in Node : Hopeless(state'[m])
BY DEF Become, TypeOK

LEMMA AdoptTermHopeless ==
  ASSUME NEW s, NEW c, NEW t, Hopeless(s)
  PROVE  Hopeless(AdoptTerm(s, c, t).state)
BY RolesHopeless DEF AdoptTerm

\* One member's refusals are not a quorum in a group of two or more.
LEMMA OwnVoteIsNoQuorum ==
  ASSUME NEW n \in Members, NEW p \in Members, p # n
  PROVE  ~IsQuorum(n, {})
<1>1. p \in Peers(n) /\ IsFiniteSet(Peers(n))
  BY MembersAssumption, FS_RemoveElement DEF Peers
<1>2. Cardinality(Peers(n)) \in Nat /\ Cardinality(Peers(n)) # 0
  BY <1>1, FS_EmptySet, FS_CardinalityType
<1> DEFINE k == Cardinality(Peers(n))
<1>3. Cardinality({}) = 0
  BY FS_EmptySet
<1>4. k \in Nat /\ k # 0
  BY <1>2
<1> HIDE DEF k
<1>5. ~(0 + 1 >= (k + 1) \div 2 + 1)
  BY <1>4
<1> QED
  BY <1>3, <1>5 DEF IsQuorum, k

LEMMA CountHopeless ==
  ASSUME NEW n \in Node, NEW s, NEW c, NEW r \in Replies, NEW rest, Hopeless(s),
         s.role = "Candidate", ~r.granted, r.from # n, CountVote(n, s, c, r, rest)
  PROVE  \E x, d : Become(n, x, d) /\ Hopeless(x)
<1> DEFINE board == Recorded(s.board, r)
<1>1. \A b \in board : ~b.granted
  BY DEF Recorded, Hopeless
<1>2. Granters(board) = {}
  BY <1>1 DEF Granters
<1>3. r.from \in Members /\ n \in Members
  BY DEF Replies, Members
<1>4. ~IsQuorum(n, Granters(board))
  BY <1>2, <1>3, OwnVoteIsNoQuorum
<1>5. \/ Become(n, Follower(NoMember), c)
      \/ Become(n, [s EXCEPT !.board = board], c)
  BY <1>4 DEF CountVote
<1>6. Hopeless([s EXCEPT !.board = board])
  BY <1>1 DEF Hopeless
<1> QED
  BY <1>5, <1>6, RolesHopeless

LEMMA ResponseHopeless ==
  ASSUME TypeOK, GateInv, NoSelfCalls, \A m \in Node : Hopeless(state[m]),
         NEW n \in Node, ReceiveResponse(n)
  PROVE  \A m \in Node : Hopeless(state'[m])
<1>1. PICK r \in replies : r.to = n /\ HandleResponse(n, r, calls)
  BY DEF ReceiveResponse
<1>2. r \in Replies /\ r.from # n /\ (r.kind = "vote" => ~r.granted)
  BY <1>1, GateIsShut DEF TypeOK, NoSelfCalls
<1>3. PICK x \in Readings(n) :
        LET s == AdoptTerm(state[n], x, r.term).state
            c == AdoptTerm(state[n], x, r.term).ctx
        IN  \/ s.role = "PreCandidate" /\ CountPreVote(n, s, c, r, calls)
            \/ s.role = "Candidate" /\ r.kind = "vote" /\ CountVote(n, s, c, r, calls)
            \/ Become(n, LearnLeader(s, c, r), c)
            \/ \E d : Become(n, s, d)
  <2>1. CASE r.kind = "prevote" /\ HandlePreVoteResponse(n, r, calls)
    BY <2>1 DEF HandlePreVoteResponse
  <2>2. CASE r.kind = "vote" /\ HandleVoteResponse(n, r, calls)
    BY <2>2 DEF HandleVoteResponse
  <2>3. CASE r.kind = "accept" /\ HandleAcceptResponse(n, r, calls)
    BY <2>3 DEF HandleAcceptResponse
  <2> QED
    BY <1>1, <2>1, <2>2, <2>3 DEF HandleResponse
<1> DEFINE s == AdoptTerm(state[n], x, r.term).state
           c == AdoptTerm(state[n], x, r.term).ctx
<1>4. Hopeless(s)
  BY AdoptTermHopeless
<1>5. s \in States
  BY <1>2, ReadingType, AdoptTermType DEF TypeOK, Replies
<1>6. \/ s.role = "PreCandidate" /\ CountPreVote(n, s, c, r, calls)
      \/ s.role = "Candidate" /\ r.kind = "vote" /\ CountVote(n, s, c, r, calls)
      \/ Become(n, LearnLeader(s, c, r), c)
      \/ \E d : Become(n, s, d)
  BY <1>3
<1> HIDE DEF s, c
<1>7. CASE s.role = "PreCandidate" /\ CountPreVote(n, s, c, r, calls)
  <2>1. Hopeless([s EXCEPT !.board = Recorded(s.board, r)])
    BY <1>5, <1>7 DEF Hopeless, States
  <2>2. \E y, d : Become(n, y, d) /\ Hopeless(y)
    BY <1>7, <2>1, RolesHopeless DEF CountPreVote
  <2> QED
    BY <2>2, BecomeHopeless
<1>8. CASE s.role = "Candidate" /\ r.kind = "vote" /\ CountVote(n, s, c, r, calls)
  <2>1. \E y, d : Become(n, y, d) /\ Hopeless(y)
    BY <1>2, <1>4, <1>8, CountHopeless
  <2> QED
    BY <2>1, BecomeHopeless
<1>9. CASE Become(n, LearnLeader(s, c, r), c)
  <2>1. Hopeless(LearnLeader(s, c, r))
    BY <1>4, <1>5, RolesHopeless DEF LearnLeader, Hopeless, States
  <2> QED
    BY <1>9, <2>1, BecomeHopeless
<1>10. CASE \E d : Become(n, s, d)
  BY <1>4, <1>10, BecomeHopeless
<1> QED
  BY <1>6, <1>7, <1>8, <1>9, <1>10

LEMMA RequestHopeless ==
  ASSUME TypeOK, \A m \in Node : Hopeless(state[m]), NEW n \in Node, ReceiveRequest(n)
  PROVE  \A m \in Node : Hopeless(state'[m])
<1>1. PICK req : \/ HandlePreVoteRequest(n, req)
                 \/ HandleVoteRequest(n, req)
                 \/ HandleAcceptRequest(n, req)
  BY DEF ReceiveRequest
<1>2. ASSUME NEW s, NEW c, NEW g, NEW l, Hopeless(s), Answer(n, req, s, c, g, l)
      PROVE  \A m \in Node : Hopeless(state'[m])
  BY <1>2, BecomeHopeless, RolesHopeless DEF Answer, Panic
<1>3. CASE HandlePreVoteRequest(n, req)
  <2>1. PICK before, c, g, l : Answer(n, req, PreVoteResponder(state[n], before), c, g, l)
    BY <1>3 DEF HandlePreVoteRequest
  <2>2. Hopeless(PreVoteResponder(state[n], before))
    BY RolesHopeless DEF PreVoteResponder
  <2> QED
    BY <1>2, <2>1, <2>2
<1>4. CASE HandleVoteRequest(n, req)
  <2>1. PICK r \in Readings(n) :
          LET now == AdoptTerm(state[n], r, req.term)
              s == Voter(now.state, now.ctx)
              v == [term |-> req.term, candidate |-> req.from]
          IN  \E c, g, l : \/ Answer(n, req, s, c, g, l)
                           \/ Answer(n, req, [s EXCEPT !.vote = v], c, g, l)
    BY <1>4 DEF HandleVoteRequest
  <2> DEFINE now == AdoptTerm(state[n], r, req.term)
             s == Voter(now.state, now.ctx)
             v == [term |-> req.term, candidate |-> req.from]
  <2>2. Hopeless(s)
    BY AdoptTermHopeless, RolesHopeless DEF Voter
  <2>3. PICK c, g, l : \/ Answer(n, req, s, c, g, l)
                       \/ Answer(n, req, [s EXCEPT !.vote = v], c, g, l)
    BY <2>1
  <2> HIDE DEF now, s, v
  <2>4. Hopeless([s EXCEPT !.vote = v])
    BY <2>2 DEF Hopeless
  <2> QED
    BY <1>2, <2>2, <2>3, <2>4
<1>5. CASE HandleAcceptRequest(n, req)
  <2>1. PICK r \in Readings(n) :
          LET now == AdoptTerm(state[n], r, req.term)
              s == Acceptor(now.state, now.ctx, req)
          IN  \/ \E c, g, l : Answer(n, req, s, c, g, l)
              \/ \E c : Become(n, s, c)
    BY <1>5 DEF HandleAcceptRequest
  <2> DEFINE now == AdoptTerm(state[n], r, req.term)
             s == Acceptor(now.state, now.ctx, req)
  <2>2. Hopeless(s)
    BY AdoptTermHopeless, RolesHopeless DEF Acceptor
  <2>3. \/ \E c, g, l : Answer(n, req, s, c, g, l)
        \/ \E c : Become(n, s, c)
    BY <2>1
  <2> HIDE DEF now, s
  <2> QED
    BY <1>2, <2>2, <2>3, BecomeHopeless
<1> QED
  BY <1>1, <1>3, <1>4, <1>5

LEMMA OwnWorkHopeless ==
  ASSUME TypeOK, \A m \in Node : Hopeless(state[m]), NEW n \in Node,
         \/ LeaseLapses(n) \/ LeaderLeaseExpired(n) \/ ClockFires(n)
         \/ ElectionCountdownExpired(n)
         \/ PreVoteCampaignExpired(n) \/ VoteCampaignExpired(n)
         \/ DispatchAccept(n) \/ ClientWrite(n) \/ Restart(n)
  PROVE  \A m \in Node : Hopeless(state'[m])
<1>1. ASSUME NEW k
      PROVE  Hopeless([state[n] EXCEPT !.clock = k])
  BY DEF Hopeless, TypeOK, States
<1>2. CASE UNCHANGED state
  BY <1>2
<1>3. CASE ClockFires(n)
  BY <1>1, <1>3 DEF ClockFires, TypeOK
<1>4. CASE LeaderLeaseExpired(n)
  <2>1. \E y, d : Become(n, y, d) /\ Hopeless(y)
    BY <1>1, <1>4, RolesHopeless DEF LeaderLeaseExpired
  <2> QED
    BY <2>1, BecomeHopeless
<1>5. CASE ElectionCountdownExpired(n)
  <2>1. \E y, d : Become(n, y, d) /\ Hopeless(y)
    BY <1>5, RolesHopeless DEF ElectionCountdownExpired, DialFails, Panic
  <2> QED
    BY <2>1, BecomeHopeless
<1>6. CASE PreVoteCampaignExpired(n) \/ VoteCampaignExpired(n)
  <2>1. \E y, d : Become(n, y, d) /\ Hopeless(y)
    BY <1>6, RolesHopeless DEF PreVoteCampaignExpired, VoteCampaignExpired, StepDownFrom
  <2> QED
    BY <2>1, BecomeHopeless
<1>7. CASE Panic(n) \/ Restart(n)
  BY <1>7, RolesHopeless, BecomeHopeless DEF Panic, Restart
<1> QED
  BY <1>2, <1>3, <1>4, <1>5, <1>6, <1>7 DEF LeaseLapses, DispatchAccept, ClientWrite

-----------------------------------------------------------------------------
LEMMA AlwaysClosed == Spec => []NoSelfCalls /\ []Closed
<1>1. Init => NoSelfCalls /\ Closed
  BY RolesHopeless DEF Init, NoSelfCalls, Closed
<1>2. TypeOK /\ NoSelfCalls /\ [Next]_vars => NoSelfCalls'
  <2> SUFFICES ASSUME TypeOK, NoSelfCalls, [Next]_vars PROVE NoSelfCalls'
    OBVIOUS
  <2>1. CASE UNCHANGED vars
    BY <2>1 DEF vars, NoSelfCalls
  <2>2. CASE Lost \/ CallerGone \/ \E n \in Node : Restart(n)
    BY <2>2, FaultNoSelf
  <2>3. ASSUME NEW n \in Node, ReceiveRequest(n)
        PROVE  NoSelfCalls'
    BY <2>3, RequestNoSelf
  <2>4. ASSUME NEW n \in Node, ReceiveResponse(n) \/ OutsideAnswers(n)
        PROVE  NoSelfCalls'
    <3>1. PICK r : r.from # n /\ \E rest \in SUBSET calls : HandleResponse(n, r, rest)
      <4>1. CASE ReceiveResponse(n)
        <5>1. PICK r \in replies : r.to = n /\ HandleResponse(n, r, calls)
          BY <4>1 DEF ReceiveResponse
        <5>2. r.from # n
          BY <5>1 DEF NoSelfCalls
        <5>3. calls \in SUBSET calls
          OBVIOUS
        <5> QED
          BY <5>1, <5>2, <5>3
      <4>2. CASE OutsideAnswers(n)
        <5>1. PICK c \in calls :
                /\ c.from = n
                /\ \E r \in OutsideReplies(c) : HandleResponse(n, r, calls \ {c})
          BY <4>2 DEF OutsideAnswers
        <5>2. PICK r \in OutsideReplies(c) : HandleResponse(n, r, calls \ {c})
          BY <5>1
        <5>3. r.from = c.to
          BY <5>2, OutsideRepliesType DEF TypeOK
        <5>4. r.from # n
          BY <5>1, <5>3 DEF NoSelfCalls
        <5>5. calls \ {c} \in SUBSET calls
          OBVIOUS
        <5> QED
          BY <5>2, <5>4, <5>5
      <4> QED
        BY <2>4, <4>1, <4>2
    <3>2. replies' \subseteq replies
      BY <2>4, ResponseHandled
    <3> QED
      BY <3>1, <3>2, ResponseNoSelf DEF NoSelfCalls
  <2>5. ASSUME NEW n \in Node,
               \/ LeaseLapses(n) \/ LeaderLeaseExpired(n) \/ ClockFires(n)
               \/ ElectionCountdownExpired(n)
               \/ PreVoteCampaignExpired(n) \/ VoteCampaignExpired(n)
               \/ DispatchAccept(n) \/ ClientWrite(n)
        PROVE  NoSelfCalls'
    BY <2>5, OwnWorkNoSelf
  <2> QED
    BY <2>1, <2>2, <2>3, <2>4, <2>5 DEF Next
<1>3. TypeOK /\ GateInv /\ NoSelfCalls /\ Closed /\ [Next]_vars => Closed'
  <2> SUFFICES ASSUME TypeOK, GateInv, NoSelfCalls, [Next]_vars, Outside = {},
                      \A m \in Node : Hopeless(state[m])
               PROVE  \A m \in Node : Hopeless(state'[m])
    BY DEF Closed
  <2>1. CASE UNCHANGED state
    BY <2>1
  <2>2. ASSUME NEW n \in Node, ReceiveRequest(n)
        PROVE  \A m \in Node : Hopeless(state'[m])
    BY <2>2, RequestHopeless
  <2>3. ASSUME NEW n \in Node, ReceiveResponse(n)
        PROVE  \A m \in Node : Hopeless(state'[m])
    BY <2>3, ResponseHopeless
  <2>4. ASSUME NEW n \in Node
        PROVE  ~OutsideAnswers(n)
    BY DEF OutsideAnswers
  <2>5. ASSUME NEW n \in Node,
               \/ LeaseLapses(n) \/ LeaderLeaseExpired(n) \/ ClockFires(n)
               \/ ElectionCountdownExpired(n)
               \/ PreVoteCampaignExpired(n) \/ VoteCampaignExpired(n)
               \/ DispatchAccept(n) \/ ClientWrite(n) \/ Restart(n)
        PROVE  \A m \in Node : Hopeless(state'[m])
    BY <2>5, OwnWorkHopeless
  <2>6. CASE Lost \/ CallerGone \/ UNCHANGED vars
    BY <2>1, <2>6 DEF Lost, CallerGone, vars
  <2> QED
    BY <2>2, <2>3, <2>4, <2>5, <2>6 DEF Next
<1> QED
  BY <1>1, <1>2, <1>3, TypeCorrect, RefusesVotesAndAccepts, PTL DEF Spec, GateInv

\* With no outside member to grant one a vote, no Node is ever a Leader.
THEOREM NeverALeader == Spec => []NoLeaderElected
<1>1. Closed => NoLeaderElected
  BY DEF Closed, Hopeless, NoLeaderElected
<1> QED
  BY <1>1, AlwaysClosed, PTL

-----------------------------------------------------------------------------
(* What members of such a group still do: one campaign each, for a term that a *)
(* quorum lets them open, and no panic before the first fault.                 *)

\* A lease that nobody has watched to its end yet starts the only campaign.
Armed(s, c, q) ==
  \/ c.lease = "lapsed"
  \/ s.role = "Follower" /\ s.clock = "running"
  \/ s.role = "Follower" /\ ~Below(q, 3)

Once(s, c, q, t) ==
  /\ t <= 1
  /\ s.role # "Crashed" => c.lease # "running" /\ (Armed(s, c, q) => t = 0)

OnceInv == \A n \in Node : Once(state[n], ctx[n], timers[n], tries[n])

\* Nobody is, or is taken for, a Leader.
Silent == /\ \A n \in Node : state[n].leader = NoMember
          /\ \A r \in replies : r.leader = NoMember
          /\ \A c \in calls : c.kind # "accept"

Unharmed == faults = 0 => /\ \A n \in Node : state[n].role # "Crashed"
                          /\ \A c \in calls : c.live

OpenTerms == {0} \union {e.term : e \in opened}

Opened == /\ \A e \in opened : IsQuorum(e.by, e.backers)
          /\ \A n \in Node : ctx[n].term \in OpenTerms
          /\ \A c \in calls : c.kind = "vote" => c.term \in OpenTerms
          /\ \A r \in replies : r.term \in OpenTerms

\* A pre-vote for term t that n can still hear of.
Asks(n, t) ==
  \/ \E c \in calls : c.kind = "prevote" /\ c.from = n /\ c.live /\ c.term = t
  \/ \E r \in replies : r.kind = "prevote" /\ r.to = n /\ r.asked = t

Asked ==
  \A n \in Node :
    /\ state[n].role = "PreCandidate" =>
         /\ \A t : Asks(n, t) => t = ctx[n].term + 1
         /\ \A b \in state[n].board : b.asked = ctx[n].term + 1
    /\ state[n].role # "Crashed" /\ tries[n] = 0 => \A t : ~Asks(n, t)

Subdued == OnceInv /\ Silent /\ Unharmed /\ Opened /\ Asked

Known == /\ TypeOK /\ GateInv /\ NoSelfCalls /\ TimedInv
         /\ Outside = {} /\ \A m \in Node : Hopeless(state[m])

-----------------------------------------------------------------------------
\* A member's role object and context, replaced by one turn of its loop.
Turned(n, s, c) ==
  /\ Become(n, s, c)
  /\ s.leader = NoMember
  /\ s.role = "Crashed" => faults # 0
  /\ s.role # "Crashed" => state[n].role # "Crashed"
  /\ c.term \in {0} \union {e.term : e \in opened'}
  /\ s.role = "PreCandidate" => /\ state[n].role = "PreCandidate"
                                /\ c.term = ctx[n].term
                                /\ \A b \in s.board : b.asked = c.term + 1

\* What such a turn may send.
Sent ==
  /\ \A c \in calls' : \/ c \in calls
                       \/ c.kind = "vote" /\ c.live /\ c.term \in OpenTerms'
  /\ \A r \in replies' :
       \/ r \in replies
       \/ /\ r.leader = NoMember
          /\ r.term \in OpenTerms'
          /\ r.kind = "prevote" => Asks(r.to, r.asked)

LEMMA TurnSubdued ==
  ASSUME TypeOK, Subdued, NEW n \in Node, NEW s, NEW c, Turned(n, s, c), Sent,
         Once(s, c, timers'[n], tries[n]),
         \A m \in Node \ {n} : timers'[m] = timers[m],
         UNCHANGED <<faults, tries>>,
         opened \subseteq opened', \A e \in opened' : IsQuorum(e.by, e.backers)
  PROVE  Subdued'
<1>1. /\ state'[n] = s /\ ctx'[n] = c
      /\ \A m \in Node \ {n} : state'[m] = state[m] /\ ctx'[m] = ctx[m]
  BY DEF Turned, Become, TypeOK
<1>2. OnceInv'
  BY <1>1 DEF OnceInv, Subdued
<1>3. Silent'
  BY <1>1 DEF Silent, Subdued, Turned, Sent
<1>4. Unharmed'
  BY <1>1 DEF Unharmed, Subdued, Turned, Sent
<1>5. OpenTerms \subseteq OpenTerms'
  BY DEF OpenTerms
<1>6. Opened'
  <2>1. Opened
    BY DEF Subdued
  <2>2. c.term \in OpenTerms'
    BY DEF Turned, OpenTerms
  <2>3. \A m \in Node : ctx'[m].term \in OpenTerms'
    BY <1>1, <1>5, <2>1, <2>2 DEF Opened
  <2>4. \A x \in calls' : x.kind = "vote" => x.term \in OpenTerms'
    BY <1>5, <2>1 DEF Opened, Sent
  <2>5. \A r \in replies' : r.term \in OpenTerms'
    BY <1>5, <2>1 DEF Opened, Sent
  <2> QED
    BY <2>3, <2>4, <2>5 DEF Opened
<1>7. ASSUME NEW m \in Node, NEW t, Asks(m, t)'
      PROVE  Asks(m, t)
  <2>1. CASE \E x \in calls' : x.kind = "prevote" /\ x.from = m /\ x.live /\ x.term = t
    BY <2>1 DEF Asks, Sent
  <2>2. CASE \E r \in replies' : r.kind = "prevote" /\ r.to = m /\ r.asked = t
    BY <2>2 DEF Asks, Sent
  <2> QED
    BY <1>7, <2>1, <2>2 DEF Asks
<1>8. Asked'
  <2> SUFFICES ASSUME NEW m \in Node
               PROVE  /\ state'[m].role = "PreCandidate" =>
                           /\ \A t : Asks(m, t)' => t = ctx'[m].term + 1
                           /\ \A b \in state'[m].board : b.asked = ctx'[m].term + 1
                      /\ state'[m].role # "Crashed" /\ tries'[m] = 0 => \A t : ~Asks(m, t)'
    BY DEF Asked
  <2>1. Asked
    BY DEF Subdued
  <2>2. \/ state'[m].role # "PreCandidate"
        \/ /\ state[m].role = "PreCandidate" /\ ctx'[m].term = ctx[m].term
           /\ \A b \in state'[m].board : b.asked = ctx'[m].term + 1
    BY <1>1, <2>1 DEF Turned, Asked
  <2>3. state'[m].role # "Crashed" => state[m].role # "Crashed"
    BY <1>1 DEF Turned
  <2> QED
    BY <1>7, <2>1, <2>2, <2>3 DEF Asked
<1> QED
  BY <1>2, <1>3, <1>4, <1>6, <1>8 DEF Subdued

\* A member that listens has no lease, and a handler reads its context as it is.
LEMMA ReadsContext ==
  ASSUME Known, Subdued, NEW n \in Node, Listening(n), NEW r \in Readings(n)
  PROVE  r = ctx[n] /\ Expired(r) /\ r \in Contexts
<1>1. ctx[n] \in Contexts /\ state[n].role # "Crashed" /\ ctx[n].lease # "lapsed"
  BY DEF Known, TypeOK, Listening
<1>2. ctx[n].lease = "none"
  BY <1>1 DEF Subdued, OnceInv, Once, Contexts
<1>3. r = [ctx[n] EXCEPT !.lease = "none"]
  BY <1>2 DEF Readings, Expired
<1>4. [ctx[n] EXCEPT !.lease = "none"] = ctx[n]
  BY <1>1, <1>2 DEF Contexts
<1> QED
  BY <1>1, <1>2, <1>3, <1>4 DEF Expired

\* The pair after a term t is adopted, or not.
Adopted(n, s, c, t) ==
  \/ s = state[n] /\ c = ctx[n]
  \/ s = Follower(NoMember) /\ c = [ctx[n] EXCEPT !.term = t]

LEMMA ClosedAdopts ==
  ASSUME Known, Subdued, NEW n \in Node, NEW t
  PROVE  Adopted(n, AdoptTerm(state[n], ctx[n], t).state, AdoptTerm(state[n], ctx[n], t).ctx, t)
BY DEF Adopted, AdoptTerm, Subdued, Silent

\* A request changes the member by its term, or not at all.
LEMMA ClosedRequest ==
  ASSUME Known, Subdued, NEW n \in Node, ReceiveRequest(n)
  PROVE  \E req \in calls : \E s, c, g :
           /\ Listening(n) /\ req \in Calls /\ req.kind # "accept"
           /\ \/ s = state[n] /\ c = ctx[n]
              \/ req.kind = "vote" /\ Adopted(n, s, c, req.term)
           /\ Answer(n, req, s, c, g, NoMember)
<1>1. PICK req \in calls :
        \/ req.kind = "prevote" /\ HandlePreVoteRequest(n, req)
        \/ req.kind = "vote" /\ HandleVoteRequest(n, req)
        \/ req.kind = "accept" /\ HandleAcceptRequest(n, req)
  BY DEF ReceiveRequest, OutsideCalls, Known
<1>2. /\ Listening(n) /\ req \in Calls /\ req.kind # "accept"
      /\ state[n].leader = NoMember /\ state[n].role # "Leader"
  BY DEF ReceiveRequest, Known, TypeOK, Subdued, Silent, Hopeless
<1>3. CASE req.kind = "prevote" /\ HandlePreVoteRequest(n, req)
  <2>1. PICK before, c \in Readings(n) :
          LET s == PreVoteResponder(state[n], before)
              granted == PreVoteGranted(s, c, req)
          IN  Answer(n, req, s, c, granted,
                     CASE granted -> NoMember
                       [] s.role = "Leader" -> n
                       [] OTHER -> s.leader)
    BY <1>3 DEF HandlePreVoteRequest
  <2>2. PreVoteResponder(state[n], before) = state[n] /\ c = ctx[n]
    BY <1>2, ReadsContext DEF PreVoteResponder
  <2> DEFINE g == PreVoteGranted(state[n], c, req)
             l == CASE g -> NoMember [] state[n].role = "Leader" -> n
                    [] OTHER -> state[n].leader
  <2>3. Answer(n, req, state[n], ctx[n], g, l)
    BY <2>1, <2>2
  <2>4. l = NoMember
    BY <1>2
  <2> HIDE DEF g, l
  <2> QED
    BY <1>2, <2>3, <2>4
<1>4. CASE req.kind = "vote" /\ HandleVoteRequest(n, req)
  <2>1. PICK r \in Readings(n) :
          LET now == AdoptTerm(state[n], r, req.term)
              s == Voter(now.state, now.ctx)
              c == now.ctx
          IN  \/ VoteGranted(s, c, req)
              \/ Answer(n, req, s, c, FALSE, IF s.role = "Leader" THEN n ELSE s.leader)
    BY <1>4 DEF HandleVoteRequest
  <2> DEFINE now == AdoptTerm(state[n], r, req.term)
  <2>2. ~VoteGranted(Voter(now.state, now.ctx), now.ctx, req)
    BY <1>2, <1>4, VoteRefused DEF Known
  <2>3. r = ctx[n]
    BY <1>2, ReadsContext
  <2>4. Adopted(n, now.state, now.ctx, req.term)
    BY <2>3, ClosedAdopts
  <2>5. now.state.role # "Leader" /\ now.state.leader = NoMember
    BY <1>2, <2>4 DEF Adopted, Follower, Role
  <2>6. Voter(now.state, now.ctx) = now.state
    BY <2>5 DEF Voter
  <2>7. Answer(n, req, now.state, now.ctx, FALSE, NoMember)
    BY <2>1, <2>2, <2>5, <2>6
  <2> HIDE DEF now
  <2> QED
    BY <1>2, <1>4, <2>4, <2>7
<1> QED
  BY <1>1, <1>2, <1>3, <1>4

\* A response is counted by the PreCandidate it was meant for; any other one
\* changes the member by its term, ends its campaign or goes on its board.
LEMMA ClosedResponse ==
  ASSUME Known, Subdued, NEW n \in Node, ReceiveResponse(n)
  PROVE  \E r \in replies : \E s, c :
           /\ Listening(n) /\ r \in Replies /\ r.to = n
           /\ replies' = replies \ {r} /\ UNCHANGED <<timers, faults, tries>>
           /\ Adopted(n, s, c, r.term)
           /\ \/ s.role = "PreCandidate" /\ r.kind = "prevote" /\ CountPreVote(n, s, c, r, calls)
              \/ /\ \/ Become(n, s, c)
                    \/ s.role = "Candidate" /\ Become(n, Follower(NoMember), c)
                    \/ /\ s.role = "Candidate"
                       /\ Become(n, [s EXCEPT !.board = Recorded(s.board, r)], c)
                 /\ calls' = calls /\ opened' = opened
<1>1. PICK r \in replies : /\ r.to = n
                          /\ HandleResponse(n, r, calls)
                          /\ replies' = replies \ {r}
  BY DEF ReceiveResponse
<1>2. /\ Listening(n) /\ r \in Replies /\ r.leader = NoMember /\ r.from # n
      /\ r.kind = "vote" => ~r.granted
      /\ UNCHANGED <<timers, faults, tries>>
  BY <1>1, GateIsShut DEF HandleResponse, Known, TypeOK, Subdued, Silent, NoSelfCalls
<1>3. \A x \in Readings(n) : x = ctx[n]
  BY <1>2, ReadsContext
<1> DEFINE s == AdoptTerm(state[n], ctx[n], r.term).state
           c == AdoptTerm(state[n], ctx[n], r.term).ctx
<1>4. \/ s.role = "PreCandidate" /\ r.kind = "prevote" /\ CountPreVote(n, s, c, r, calls)
      \/ /\ s.role = "Candidate" /\ r.kind = "vote" /\ CountVote(n, s, c, r, calls)
         /\ opened' = opened
      \/ /\ Become(n, LearnLeader(s, c, r), c)
         /\ calls' = calls /\ opened' = opened
      \/ /\ s.role # "Leader" => Become(n, s, [c EXCEPT !.lease = c.lease])
         /\ s.role # "Leader" => calls' = calls
         /\ opened' = opened
  <2>1. CASE r.kind = "prevote" /\ HandlePreVoteResponse(n, r, calls)
    BY <1>3, <2>1 DEF HandlePreVoteResponse
  <2>2. CASE r.kind = "vote" /\ HandleVoteResponse(n, r, calls)
    BY <1>3, <2>2 DEF HandleVoteResponse
  <2>3. CASE r.kind = "accept" /\ HandleAcceptResponse(n, r, calls)
    <3>1. PICK x \in Readings(n) :
            LET now == AdoptTerm(state[n], x, r.term)
                sx == now.state
                cx == now.ctx
                counts == sx.role = "Leader" /\ r.term >= cx.term /\ r.granted
                probe == [kind |-> "accept", from |-> n, to |-> r.from, term |-> cx.term,
                          log |-> cx.log, live |-> TRUE]
            IN  /\ \E l \in {cx.lease} \union (IF counts THEN {"running"} ELSE {}) :
                     Become(n, sx, [cx EXCEPT !.lease = l])
                /\ \E again \in SUBSET (IF counts THEN {probe} ELSE {}) : calls' = calls \union again
                /\ UNCHANGED opened
      BY <2>3 DEF HandleAcceptResponse
    <3> DEFINE counts == s.role = "Leader" /\ r.term >= c.term /\ r.granted
               probe == [kind |-> "accept", from |-> n, to |-> r.from, term |-> c.term,
                         log |-> c.log, live |-> TRUE]
    <3>2. /\ \E l \in {c.lease} \union (IF counts THEN {"running"} ELSE {}) :
                Become(n, s, [c EXCEPT !.lease = l])
          /\ \E again \in SUBSET (IF counts THEN {probe} ELSE {}) : calls' = calls \union again
          /\ UNCHANGED opened
      BY <1>3, <3>1
    <3>3. s.role # "Leader" => ~counts
      OBVIOUS
    <3> HIDE DEF s, c, probe, counts
    <3> QED
      BY <3>2, <3>3
  <2> QED
    BY <1>1, <2>1, <2>2, <2>3 DEF HandleResponse
<1>5. Adopted(n, s, c, r.term)
  BY ClosedAdopts
<1>6. s \in States /\ c \in Contexts
  BY <1>2, AdoptTermType DEF Known, TypeOK, Replies
<1>7. Hopeless(s)
  BY AdoptTermHopeless DEF Known
<1> HIDE DEF s, c
<1>8. [c EXCEPT !.lease = c.lease] = c
  BY <1>6 DEF Contexts
<1>9. LearnLeader(s, c, r) = s
  BY <1>2, <1>7 DEF LearnLeader, Hopeless
<1>10. ASSUME s.role = "Candidate", r.kind = "vote", CountVote(n, s, c, r, calls)
       PROVE  /\ \/ Become(n, Follower(NoMember), c)
                 \/ Become(n, [s EXCEPT !.board = Recorded(s.board, r)], c)
              /\ calls' = calls
  <2> DEFINE board == Recorded(s.board, r)
  <2>1. \A b \in board : ~b.granted
    BY <1>2, <1>7, <1>10 DEF Recorded, Hopeless
  <2>2. Granters(board) = {}
    BY <2>1 DEF Granters
  <2>3. ~IsQuorum(n, Granters(board))
    BY <1>2, <2>2, OwnVoteIsNoQuorum DEF Replies, Members
  <2>4. \/ Become(n, Follower(NoMember), c)
        \/ Become(n, [s EXCEPT !.board = board], c)
    BY <1>10, <2>3 DEF CountVote
  <2>5. calls' = calls
    BY <1>10, <2>3 DEF CountVote
  <2> QED
    BY <2>4, <2>5
<1>11. \/ s.role = "PreCandidate" /\ r.kind = "prevote" /\ CountPreVote(n, s, c, r, calls)
       \/ /\ \/ Become(n, s, c)
             \/ s.role = "Candidate" /\ Become(n, Follower(NoMember), c)
             \/ /\ s.role = "Candidate"
                /\ Become(n, [s EXCEPT !.board = Recorded(s.board, r)], c)
          /\ calls' = calls /\ opened' = opened
  <2>1. s.role # "Leader"
    BY <1>7 DEF Hopeless
  <2>2. CASE s.role = "Candidate" /\ r.kind = "vote" /\ CountVote(n, s, c, r, calls)
               /\ opened' = opened
    <3>1. /\ \/ Become(n, Follower(NoMember), c)
             \/ Become(n, [s EXCEPT !.board = Recorded(s.board, r)], c)
          /\ calls' = calls
      BY <1>10, <2>2
    <3> QED
      BY <2>2, <3>1
  <2> QED
    BY <1>4, <1>8, <1>9, <2>1, <2>2
<1> QED
  BY <1>1, <1>2, <1>5, <1>11

-----------------------------------------------------------------------------
(* Every action leaves the group subdued. *)

\* What a handler finds, or makes, before it decides.
LEMMA AdoptedSubdued ==
  ASSUME Known, Subdued, NEW n \in Node, Listening(n), NEW s, NEW c, NEW t,
         Adopted(n, s, c, t), t \in OpenTerms
  PROVE  /\ Once(s, c, timers[n], tries[n])
         /\ Campaigning(s) => Once(Follower(NoMember), c, timers[n], tries[n])
         /\ Campaigning(s) => \A b : Once([s EXCEPT !.board = b], c, timers[n], tries[n])
         /\ opened \subseteq opened' /\ Become(n, s, c) => Turned(n, s, c)
         /\ Campaigning(s) => s = state[n] /\ c = ctx[n] /\ s \in States
         /\ state[n].role # "Crashed" /\ c.term \in OpenTerms
<1>1. /\ state[n] \in States /\ state[n].role # "Crashed" /\ ctx[n] \in Contexts
      /\ state[n].leader = NoMember /\ Once(state[n], ctx[n], timers[n], tries[n])
      /\ Timed(state[n], ctx[n], timers[n]) /\ timers[n] \in Seq(Timers)
      /\ ctx[n].term \in OpenTerms
  BY DEF Known, TypeOK, Listening, Subdued, OnceInv, Silent, TimedInv, Opened
<1>2. Campaigning(state[n]) => Below(timers[n], 3)
  BY <1>1, CampaignerQueue
<1>3. state[n].role = "Leader" => FALSE
  BY DEF Known, Hopeless
<1>4. c.lease = ctx[n].lease /\ c.term \in OpenTerms
  BY <1>1 DEF Adopted, Contexts
<1>5. Once(Follower(NoMember), c, timers[n], tries[n])
  BY <1>1, <1>2, <1>3, <1>4 DEF Once, Armed, Follower, Role, Campaigning, States, Roles
<1>6. Campaigning(s) => s = state[n] /\ c = ctx[n]
  BY DEF Adopted, Campaigning, Follower, Role
<1>7. Once(s, c, timers[n], tries[n])
  BY <1>1, <1>5 DEF Adopted
<1>8. Campaigning(s) => \A b : Once([s EXCEPT !.board = b], c, timers[n], tries[n])
  BY <1>1, <1>6 DEF Once, Armed, Campaigning, States
<1>9. s.leader = NoMember /\ s.role # "Crashed"
  BY <1>1 DEF Adopted, Follower, Role
<1>10. s.role = "PreCandidate" => /\ state[n].role = "PreCandidate"
                                  /\ c.term = ctx[n].term
                                  /\ \A b \in s.board : b.asked = c.term + 1
  BY <1>6 DEF Campaigning, Subdued, Asked
<1>11. opened \subseteq opened' => c.term \in {0} \union {e.term : e \in opened'}
  BY <1>4 DEF OpenTerms
<1> QED
  BY <1>1, <1>4, <1>5, <1>6, <1>7, <1>8, <1>9, <1>10, <1>11 DEF Turned

LEMMA CrashedTurn ==
  ASSUME Known, Subdued, NEW n \in Node, Panic(n), faults # 0
  PROVE  /\ Turned(n, Crashed, NewContext)
         /\ \A q : Once(Crashed, NewContext, q, tries[n])
<1>1. Turned(n, Crashed, NewContext)
  BY DEF Turned, Panic, Crashed, Role, NewContext
<1>2. tries[n] <= 1
  BY DEF Subdued, OnceInv, Once
<1> QED
  BY <1>1, <1>2 DEF Once, Crashed, Role

LEMMA RequestSubdued ==
  ASSUME Known, Subdued, NEW n \in Node, ReceiveRequest(n)
  PROVE  Subdued'
<1>1. PICK req \in calls : \E s, c, g :
        /\ Listening(n) /\ req \in Calls /\ req.kind # "accept"
        /\ \/ s = state[n] /\ c = ctx[n]
           \/ req.kind = "vote" /\ Adopted(n, s, c, req.term)
        /\ Answer(n, req, s, c, g, NoMember)
  BY ClosedRequest
<1>2. PICK s, c, g :
        /\ Listening(n) /\ req \in Calls /\ req.kind # "accept"
        /\ \/ s = state[n] /\ c = ctx[n]
           \/ req.kind = "vote" /\ Adopted(n, s, c, req.term)
        /\ Answer(n, req, s, c, g, NoMember)
  BY <1>1
<1>3. PICK t \in OpenTerms : Adopted(n, s, c, t)
  BY <1>2 DEF Adopted, Subdued, Opened
<1>4. /\ calls' = calls \ {req}
      /\ UNCHANGED <<timers, faults, tries, opened>>
      /\ TypeOK /\ \A e \in opened' : IsQuorum(e.by, e.backers)
  BY <1>2 DEF Answer, Known, Subdued, Opened
<1>5. /\ Once(s, c, timers[n], tries[n])
      /\ opened \subseteq opened' /\ Become(n, s, c) => Turned(n, s, c)
      /\ c.term \in OpenTerms
  BY <1>2, <1>3, AdoptedSubdued
<1>6. OpenTerms' = OpenTerms
  BY <1>4 DEF OpenTerms
<1>7. CASE req.live
  <2> DEFINE reply == [kind |-> req.kind, from |-> n, to |-> req.from, term |-> c.term,
                       granted |-> g, leader |-> NoMember, asked |-> req.term]
  <2>1. Become(n, s, c) /\ replies' \subseteq replies \union {reply}
    BY <1>2, <1>7 DEF Answer
  <2>2. /\ reply.leader = NoMember /\ reply.term \in OpenTerms'
        /\ reply.kind = "prevote" => Asks(reply.to, reply.asked)
    BY <1>5, <1>6, <1>7 DEF Asks
  <2> HIDE DEF reply
  <2>3. Sent
    BY <1>4, <2>1, <2>2 DEF Sent
  <2>4. Turned(n, s, c)
    BY <1>4, <1>5, <2>1
  <2> QED
    BY <1>4, <1>5, <2>3, <2>4, TurnSubdued
<1>8. CASE ~req.live
  <2>1. Panic(n) /\ replies' = replies
    BY <1>2, <1>8 DEF Answer
  <2>2. faults # 0
    BY <1>8 DEF Subdued, Unharmed
  <2>3. Turned(n, Crashed, NewContext) /\ Once(Crashed, NewContext, timers'[n], tries[n])
    BY <2>1, <2>2, CrashedTurn
  <2>4. Sent
    BY <1>4, <2>1 DEF Sent
  <2> QED
    BY <1>4, <2>3, <2>4, TurnSubdued
<1> QED
  BY <1>7, <1>8

\* The ballots that open a term were all asked for that term.
LEMMA OpeningQuorum ==
  ASSUME Known, Subdued, NEW n \in Node, NEW r \in replies, r.kind = "prevote",
         r.to = n, state[n].role = "PreCandidate"
  PROVE  LET board == Recorded(state[n].board, r)
             asked == ctx[n].term + 1
         IN  /\ \A b \in board : b.asked = asked
             /\ {b.from : b \in {x \in board : x.granted /\ x.asked = asked}} = Granters(board)
<1> DEFINE board == Recorded(state[n].board, r)
           asked == ctx[n].term + 1
<1>1. Asks(n, r.asked)
  BY DEF Asks
<1>2. r.asked = asked /\ \A b \in state[n].board : b.asked = asked
  BY <1>1 DEF Subdued, Asked
<1>3. \A b \in board : b.asked = asked
  BY <1>2 DEF Recorded
<1> HIDE DEF board, asked
<1>4. {x \in board : x.granted /\ x.asked = asked} = {x \in board : x.granted}
  BY <1>3
<1> QED
  BY <1>3, <1>4 DEF Granters, board, asked

LEMMA ResponseSubdued ==
  ASSUME Known, Subdued, NEW n \in Node, ReceiveResponse(n)
  PROVE  Subdued'
<1>1. PICK r \in replies : \E s, c :
        /\ Listening(n) /\ r \in Replies /\ r.to = n
        /\ replies' = replies \ {r} /\ UNCHANGED <<timers, faults, tries>>
        /\ Adopted(n, s, c, r.term)
        /\ \/ s.role = "PreCandidate" /\ r.kind = "prevote" /\ CountPreVote(n, s, c, r, calls)
           \/ /\ \/ Become(n, s, c)
                 \/ s.role = "Candidate" /\ Become(n, Follower(NoMember), c)
                 \/ /\ s.role = "Candidate"
                    /\ Become(n, [s EXCEPT !.board = Recorded(s.board, r)], c)
              /\ calls' = calls /\ opened' = opened
  BY ClosedResponse
<1>2. PICK s, c :
        /\ Listening(n) /\ r \in Replies /\ r.to = n
        /\ replies' = replies \ {r} /\ UNCHANGED <<timers, faults, tries>>
        /\ Adopted(n, s, c, r.term)
        /\ \/ s.role = "PreCandidate" /\ r.kind = "prevote" /\ CountPreVote(n, s, c, r, calls)
           \/ /\ \/ Become(n, s, c)
                 \/ s.role = "Candidate" /\ Become(n, Follower(NoMember), c)
                 \/ /\ s.role = "Candidate"
                    /\ Become(n, [s EXCEPT !.board = Recorded(s.board, r)], c)
              /\ calls' = calls /\ opened' = opened
  BY <1>1
<1>3. r.term \in OpenTerms /\ TypeOK /\ \A e \in opened : IsQuorum(e.by, e.backers)
  BY DEF Known, Subdued, Opened
<1>4. /\ Once(s, c, timers[n], tries[n])
      /\ Campaigning(s) => Once(Follower(NoMember), c, timers[n], tries[n])
      /\ Campaigning(s) => \A b : Once([s EXCEPT !.board = b], c, timers[n], tries[n])
      /\ opened \subseteq opened' /\ Become(n, s, c) => Turned(n, s, c)
      /\ Campaigning(s) => s = state[n] /\ c = ctx[n] /\ s \in States
      /\ state[n].role # "Crashed" /\ c.term \in OpenTerms
  BY <1>2, <1>3, AdoptedSubdued
<1>5. Campaigning(s) => s.leader = NoMember
  BY <1>4 DEF Subdued, Silent
<1>6. ASSUME opened \subseteq opened'
      PROVE  /\ Become(n, Follower(NoMember), c) => Turned(n, Follower(NoMember), c)
             /\ c.term \in {0} \union {e.term : e \in opened'}
  BY <1>4, <1>6 DEF Turned, OpenTerms, Follower, Role
<1>7. ASSUME opened' = opened, calls' = calls, NEW x, Turned(n, x, c),
             Once(x, c, timers[n], tries[n])
      PROVE  Subdued'
  <2>1. Sent
    BY <1>2, <1>7 DEF Sent
  <2> QED
    BY <1>2, <1>3, <1>7, <2>1, TurnSubdued
<1>8. CASE s.role = "PreCandidate" /\ r.kind = "prevote" /\ CountPreVote(n, s, c, r, calls)
  <2> DEFINE board == Recorded(s.board, r)
             backers == {b.from : b \in {x \in board : x.granted /\ x.asked = c.term + 1}}
  <2>1. /\ Campaigning(s) /\ s = state[n] /\ c = ctx[n] /\ s \in States
        /\ state[n].role = "PreCandidate"
    BY <1>4, <1>8 DEF Campaigning
  <2>2. backers = Granters(board) /\ \A b \in board : b.asked = c.term + 1
    BY <1>8, <1>2, <2>1, OpeningQuorum
  <2>3. CASE /\ IsQuorum(n, Granters(board))
             /\ Become(n, Campaign("Candidate"), [c EXCEPT !.term = @ + 1])
             /\ calls' = calls \union Broadcast(n, "vote", c.term + 1, c.log)
             /\ opened' = opened \union {[term |-> c.term + 1, by |-> n, backers |-> backers]}
    <3> DEFINE d == [c EXCEPT !.term = @ + 1]
    <3>1. d.term = c.term + 1 /\ d.lease = c.lease
      BY <2>1 DEF Known, TypeOK, Contexts
    <3>2. /\ opened \subseteq opened' /\ \A e \in opened' : IsQuorum(e.by, e.backers)
          /\ d.term \in {0} \union {e.term : e \in opened'}
      <4> DEFINE entry == [term |-> c.term + 1, by |-> n, backers |-> backers]
      <4>1. /\ opened' = opened \union {entry}
            /\ entry.term = d.term /\ entry.by = n /\ entry.backers = Granters(board)
        BY <2>2, <2>3, <3>1
      <4>2. IsQuorum(n, Granters(board))
        BY <2>3
      <4> HIDE DEF entry, board, d
      <4> QED
        BY <1>3, <4>1, <4>2
    <3> HIDE DEF d
    <3>3. Turned(n, Campaign("Candidate"), d)
      BY <1>4, <2>3, <3>2 DEF Turned, Campaign, Role, d
    <3>4. Once(Campaign("Candidate"), d, timers[n], tries[n])
      BY <1>4, <1>8, <3>1 DEF Once, Armed, Campaign, Role
    <3>5. Sent
      <4>1. c.term + 1 \in OpenTerms'
        BY <3>1, <3>2 DEF OpenTerms
      <4>2. \A x \in Broadcast(n, "vote", c.term + 1, c.log) :
              x.kind = "vote" /\ x.live /\ x.term \in OpenTerms'
        BY <4>1 DEF Broadcast
      <4>3. replies' \subseteq replies
        BY <1>2
      <4> QED
        BY <2>3, <4>2, <4>3 DEF Sent
    <3> QED
      BY <1>2, <1>3, <3>2, <3>3, <3>4, <3>5, TurnSubdued
  <2>4. CASE Become(n, Follower(NoMember), c) /\ calls' = calls /\ opened' = opened
    BY <1>4, <1>6, <1>7, <2>1, <2>4
  <2>5. CASE Become(n, [s EXCEPT !.board = board], c) /\ calls' = calls /\ opened' = opened
    <3> DEFINE x == [s EXCEPT !.board = board]
    <3>1. x.role = "PreCandidate" /\ x.leader = NoMember /\ x.board = board
      BY <1>5, <2>1 DEF States
    <3> HIDE DEF x
    <3>2. Turned(n, x, c)
      BY <1>6, <2>1, <2>2, <2>5, <3>1 DEF Turned, x
    <3>3. Once(x, c, timers[n], tries[n])
      BY <1>4, <2>1 DEF x
    <3> QED
      BY <1>7, <2>5, <3>2, <3>3
  <2> QED
    BY <1>8, <2>3, <2>4, <2>5 DEF CountPreVote
<1>9. CASE /\ \/ Become(n, s, c)
              \/ s.role = "Candidate" /\ Become(n, Follower(NoMember), c)
              \/ /\ s.role = "Candidate"
                 /\ Become(n, [s EXCEPT !.board = Recorded(s.board, r)], c)
           /\ calls' = calls /\ opened' = opened
  <2>1. CASE Become(n, s, c)
    BY <1>4, <1>7, <1>9, <2>1
  <2>2. CASE s.role = "Candidate" /\ Become(n, Follower(NoMember), c)
    BY <1>4, <1>6, <1>7, <1>9, <2>2 DEF Campaigning
  <2>3. CASE /\ s.role = "Candidate"
             /\ Become(n, [s EXCEPT !.board = Recorded(s.board, r)], c)
    <3> DEFINE x == [s EXCEPT !.board = Recorded(s.board, r)]
    <3>1. x.role = "Candidate" /\ x.leader = NoMember
      BY <1>4, <1>5, <2>3 DEF Campaigning, States
    <3>2. Once(x, c, timers[n], tries[n])
      BY <1>4, <2>3 DEF Campaigning
    <3> HIDE DEF x
    <3>3. Turned(n, x, c)
      BY <1>4, <1>6, <1>9, <2>3, <3>1 DEF Turned, x
    <3> QED
      BY <1>7, <1>9, <3>2, <3>3
  <2> QED
    BY <1>9, <2>1, <2>2, <2>3
<1> QED
  BY <1>2, <1>8, <1>9

LEMMA ClockSubdued ==
  ASSUME Known, Subdued, NEW n \in Node,
         \/ LeaseLapses(n) \/ LeaderLeaseExpired(n) \/ ClockFires(n)
         \/ PreVoteCampaignExpired(n) \/ VoteCampaignExpired(n)
  PROVE  Subdued'
<1>1. /\ state[n] \in States /\ ctx[n] \in Contexts /\ timers[n] \in Seq(Timers)
      /\ TypeOK /\ state[n].leader = NoMember /\ state[n].role # "Leader"
      /\ Once(state[n], ctx[n], timers[n], tries[n])
      /\ Timed(state[n], ctx[n], timers[n])
      /\ ctx[n].term \in OpenTerms /\ \A e \in opened : IsQuorum(e.by, e.backers)
  BY DEF Known, TypeOK, Subdued, OnceInv, Silent, TimedInv, Opened, Hopeless
<1>2. UNCHANGED <<calls, replies, faults, tries, opened>>
  BY DEF LeaseLapses, LeaderLeaseExpired, ClockFires, PreVoteCampaignExpired,
     VoteCampaignExpired, StepDownFrom
<1>3. Sent
  BY <1>2 DEF Sent
<1>4. \A b \in state[n].board : state[n].role = "PreCandidate" => b.asked = ctx[n].term + 1
  BY DEF Subdued, Asked
<1>5. ASSUME NEW x, NEW d, Become(n, x, d), x.leader = NoMember, x.role # "Crashed",
             state[n].role # "Crashed", d.term = ctx[n].term,
             x.role = "PreCandidate" =>
               state[n].role = "PreCandidate" /\ x.board = state[n].board,
             Once(x, d, timers'[n], tries[n]),
             \A m \in Node \ {n} : timers'[m] = timers[m]
      PROVE  Subdued'
  <2>1. Turned(n, x, d)
    BY <1>1, <1>2, <1>4, <1>5 DEF Turned, OpenTerms
  <2> QED
    BY <1>1, <1>2, <1>3, <1>5, <2>1, TurnSubdued
<1>6. CASE LeaseLapses(n)
  BY <1>1, <1>6 DEF LeaseLapses, Once
<1>7. CASE LeaderLeaseExpired(n)
  <2> DEFINE d == [ctx[n] EXCEPT !.lease = "none"]
             x == IF state[n].role = "Follower" THEN [state[n] EXCEPT !.clock = "running"]
                  ELSE state[n]
  <2>1. d.lease = "none" /\ d.term = ctx[n].term
    BY <1>1 DEF Contexts
  <2>2. /\ x.leader = NoMember /\ x.role = state[n].role /\ x.board = state[n].board
        /\ state[n].role # "Crashed" /\ ctx[n].lease = "lapsed"
    BY <1>1, <1>7 DEF States, LeaderLeaseExpired
  <2>3. Become(n, x, d) /\ timers' = timers
    BY <1>1, <1>7 DEF LeaderLeaseExpired
  <2> HIDE DEF d, x
  <2>4. Once(x, d, timers'[n], tries[n])
    BY <1>1, <2>1, <2>2, <2>3 DEF Once, Armed
  <2> QED
    BY <1>5, <2>1, <2>2, <2>3, <2>4
<1>8. CASE ClockFires(n)
  <2> DEFINE x == [state[n] EXCEPT !.clock = "idle"]
  <2>1. /\ x.leader = NoMember /\ x.role = state[n].role /\ x.board = state[n].board
        /\ state[n].role # "Crashed" /\ state[n].clock = "running"
    BY <1>1, <1>8 DEF ClockFires, States
  <2>2. Become(n, x, ctx[n])
    BY <1>8 DEF ClockFires, Become, Known, TypeOK
  <2>3. \A m \in Node \ {n} : timers'[m] = timers[m]
    BY <1>8 DEF ClockFires
  <2> HIDE DEF x
  <2>4. Once(x, ctx[n], timers'[n], tries[n])
    BY <1>1, <2>1 DEF Once, Armed
  <2> QED
    BY <1>5, <2>1, <2>2, <2>3, <2>4
<1>9. ASSUME NEW e, NEW role \in {"PreCandidate", "Candidate"}, TakeTimer(n, e),
             StepDownFrom(n, role)
      PROVE  Subdued'
  <2>1. /\ Listening(n) /\ timers[n] # <<>> /\ state[n].role # "Crashed"
        /\ timers'[n] = Tail(timers[n]) /\ \A m \in Node \ {n} : timers'[m] = timers[m]
    BY <1>1, <1>9 DEF TakeTimer, Listening, TypeOK
  <2>2. Become(n, IF state[n].role = role THEN Follower(NoMember) ELSE state[n], ctx[n])
    BY <1>9, <2>1, ReadsContext DEF StepDownFrom
  <2>3. Below(timers[n], 3) => Below(timers'[n], 3)
    BY <1>1, <2>1, TailInOrder DEF Timed
  <2>4. CASE state[n].role = role
    <3>1. Below(timers'[n], 3)
      BY <1>1, <2>3, <2>4, CampaignerQueue DEF Campaigning
    <3>2. Once(Follower(NoMember), ctx[n], timers'[n], tries[n])
      BY <1>1, <2>1, <3>1 DEF Once, Armed, Follower, Role
    <3> QED
      BY <1>5, <2>1, <2>2, <2>4, <3>2 DEF Follower, Role
  <2>5. CASE state[n].role # role
    <3>1. Once(state[n], ctx[n], timers'[n], tries[n])
      BY <1>1, <2>3 DEF Once, Armed
    <3> QED
      BY <1>1, <1>5, <2>1, <2>2, <2>5, <3>1
  <2> QED
    BY <2>4, <2>5
<1>10. CASE PreVoteCampaignExpired(n) \/ VoteCampaignExpired(n)
  BY <1>9, <1>10 DEF PreVoteCampaignExpired, VoteCampaignExpired
<1> QED
  BY <1>6, <1>7, <1>8, <1>10

\* The one campaign of a member finds no earlier pre-vote of its own about.
LEMMA CountdownSubdued ==
  ASSUME Known, Subdued, NEW n \in Node, ElectionCountdownExpired(n)
  PROVE  Subdued'
<1> DEFINE sent == Broadcast(n, "prevote", ctx[n].term + 1, ctx[n].log)
<1>1. /\ state[n] \in States /\ ctx[n] \in Contexts /\ timers[n] \in Seq(Timers)
      /\ TypeOK /\ state[n].role # "Leader"
      /\ Once(state[n], ctx[n], timers[n], tries[n])
      /\ Timed(state[n], ctx[n], timers[n]) /\ tries[n] \in Nat /\ faults \in Nat
  BY DEF Known, TypeOK, Subdued, OnceInv, TimedInv, Hopeless
<1>2. /\ Listening(n) /\ timers[n] # <<>> /\ Head(timers[n]) = "ElectionCountdownExpired"
      /\ timers' = [timers EXCEPT ![n] = Tail(@)]
      /\ UNCHANGED <<replies, opened>> /\ state[n].role # "Crashed"
  BY DEF ElectionCountdownExpired, TakeTimer, Listening
<1>3. ~Below(timers[n], 3)
  BY <1>1, <1>2 DEF Below, Rank
<1>4. state[n].role = "Follower" /\ tries[n] = 0
  BY <1>1, <1>2, <1>3, CampaignerQueue DEF Once, Armed, States, Roles, Campaigning
<1>5. timers'[n] = <<>> /\ \A m \in Node \ {n} : timers'[m] = timers[m]
  BY <1>1, <1>2, TailInOrder DEF Timed, Rank, TypeOK
<1>6. \/ /\ Become(n, Campaign("PreCandidate"), ctx[n])
         /\ calls' = calls \union sent
         /\ tries' = [tries EXCEPT ![n] = @ + 1]
         /\ UNCHANGED faults
      \/ DialFails(n, ctx[n])
  BY <1>2, <1>4, ReadsContext DEF ElectionCountdownExpired
<1>7. \A c \in sent : /\ c.kind = "prevote" /\ c.from = n /\ c.live
                      /\ c.term = ctx[n].term + 1
  BY DEF Broadcast
<1> HIDE DEF sent
<1>8. \A t : ~Asks(n, t)
  BY <1>2, <1>4 DEF Subdued, Asked
<1>9. PICK s, d : /\ Become(n, s, d) /\ s.leader = NoMember
                  /\ \/ /\ s = Campaign("PreCandidate") /\ d = ctx[n]
                        /\ tries' = [tries EXCEPT ![n] = @ + 1] /\ faults' = faults
                     \/ /\ s = Crashed /\ d = NewContext
                        /\ tries' = tries /\ faults' # 0
                  /\ calls' \subseteq calls \union sent
  <2>1. CASE DialFails(n, ctx[n])
    <3>1. calls' \subseteq calls \union sent /\ faults' # 0
      BY <1>1, <2>1 DEF DialFails, sent
    <3> QED
      BY <2>1, <3>1 DEF DialFails, Panic, Crashed, Role
  <2> QED
    BY <1>6, <2>1 DEF Campaign, Role
<1>10. /\ state'[n] = s /\ ctx'[n] = d
       /\ \A m \in Node \ {n} : state'[m] = state[m] /\ ctx'[m] = ctx[m]
       /\ \A m \in Node \ {n} : tries'[m] = tries[m]
       /\ tries'[n] = IF s = Crashed THEN 0 ELSE 1
       /\ s.role = IF s = Crashed THEN "Crashed" ELSE "PreCandidate"
       /\ s = Crashed => faults' # 0
       /\ s # Crashed => s = Campaign("PreCandidate") /\ d = ctx[n] /\ faults' = faults
  <2>1. Campaign("PreCandidate") # Crashed
    BY DEF Crashed, Campaign, Role
  <2>2. /\ state'[n] = s /\ ctx'[n] = d
        /\ \A m \in Node \ {n} : state'[m] = state[m] /\ ctx'[m] = ctx[m]
    BY <1>1, <1>9 DEF Become, TypeOK
  <2>3. CASE s = Crashed
    BY <1>4, <1>9, <2>1, <2>2, <2>3 DEF Crashed, Role
  <2>4. CASE s # Crashed
    <3>1. tries' = [tries EXCEPT ![n] = @ + 1] /\ s = Campaign("PreCandidate")
      BY <1>9, <2>4
    <3>2. tries'[n] = 1 /\ \A m \in Node \ {n} : tries'[m] = tries[m]
      BY <1>1, <1>4, <3>1 DEF TypeOK
    <3>3. s.role = "PreCandidate"
      BY <3>1 DEF Campaign, Role
    <3> QED
      BY <1>9, <2>2, <2>4, <3>2, <3>3
  <2> QED
    BY <2>3, <2>4
<1>11. OnceInv'
  <2>1. Once(s, d, <<>>, tries'[n])
    BY <1>1, <1>2, <1>10 DEF Once, Armed, Listening
  <2> QED
    BY <1>5, <1>10, <2>1 DEF OnceInv, Subdued
<1>12. Silent'
  BY <1>2, <1>7, <1>9, <1>10 DEF Silent, Subdued
<1>13. Unharmed'
  BY <1>7, <1>9, <1>10 DEF Unharmed, Subdued
<1>14. Opened'
  <2>1. OpenTerms' = OpenTerms /\ opened' = opened /\ replies' = replies
    BY <1>2 DEF OpenTerms
  <2>2. d.term \in OpenTerms
    BY <1>10, <1>9 DEF Subdued, Opened, OpenTerms, NewContext
  <2> QED
    BY <1>7, <1>9, <1>10, <2>1, <2>2 DEF Opened, Subdued
<1>15. Asked'
  <2>1. ASSUME NEW m \in Node, NEW t, Asks(m, t)'
        PROVE  Asks(m, t) \/ (m = n /\ t = ctx[n].term + 1)
    BY <1>2, <1>7, <1>9, <2>1 DEF Asks
  <2>2. s.role = "PreCandidate" => s.board = {}
    BY <1>10 DEF Campaign, Role
  <2> QED
    BY <1>8, <1>10, <2>1, <2>2 DEF Asked, Subdued
<1> QED
  BY <1>11, <1>12, <1>13, <1>14, <1>15 DEF Subdued

LEMMA FaultSubdued ==
  ASSUME Known, Subdued, Lost \/ CallerGone \/ \E n \in Node : Restart(n)
  PROVE  Subdued'
<1>1. ASSUME UNCHANGED <<state, ctx, timers, tries, opened>>, replies' \subseteq replies,
             faults' = 0 => faults = 0 /\ calls' \subseteq calls,
             \A x \in calls' : \E y \in calls :
               /\ x.kind = y.kind /\ x.from = y.from /\ x.term = y.term
               /\ x.live => y.live
      PROVE  Subdued'
  <2>1. OpenTerms' = OpenTerms
    BY <1>1 DEF OpenTerms
  <2>2. ASSUME NEW m, NEW t, Asks(m, t)'
        PROVE  Asks(m, t)
    BY <1>1, <2>2 DEF Asks
  <2>3. OnceInv' /\ Silent' /\ Unharmed'
    BY <1>1 DEF Subdued, OnceInv, Silent, Unharmed
  <2>4. Opened'
    BY <1>1, <2>1 DEF Subdued, Opened
  <2>5. Asked'
    BY <1>1, <2>2 DEF Subdued, Asked
  <2> QED
    BY <2>3, <2>4, <2>5 DEF Subdued
<1>2. \A c \in calls : c \in Calls
  BY DEF Known, TypeOK
<1>3. ASSUME NEW S \in SUBSET calls, NEW x \in Abandoned(S)
      PROVE  /\ ~x.live
             /\ \E y \in S : /\ x.kind = y.kind /\ x.from = y.from
                             /\ x.term = y.term /\ x.to = y.to
  <2>1. PICK y \in S : x = [y EXCEPT !.live = FALSE]
    BY <1>3 DEF Abandoned
  <2>2. y \in Calls
    BY <1>2
  <2>3. /\ x.kind = y.kind /\ x.from = y.from /\ x.term = y.term
        /\ x.to = y.to /\ ~x.live
    BY <2>1, <2>2 DEF Calls, CallsOf
  <2> QED
    BY <2>3
<1>4. CASE Lost
  BY <1>1, <1>4 DEF Lost
<1>5. CASE CallerGone
  <2>1. PICK c \in calls : calls' = (calls \ {c}) \union Abandoned({c})
    BY <1>5 DEF CallerGone
  <2>2. faults' # 0 /\ UNCHANGED <<state, ctx, timers, replies, tries, opened>>
    BY <1>5 DEF CallerGone, Known, TypeOK
  <2>3. \A x \in Abandoned({c}) :
          /\ ~x.live
          /\ x.kind = c.kind /\ x.from = c.from /\ x.term = c.term
    BY <1>3
  <2> QED
    BY <1>1, <2>1, <2>2, <2>3
<1>6. ASSUME NEW n \in Node, Restart(n)
      PROVE  Subdued'
  <2> DEFINE own == {c \in calls : c.from = n}
  <2>1. /\ Become(n, Follower(NoMember), NewContext)
        /\ timers' = [timers EXCEPT ![n] = <<>>]
        /\ tries' = [tries EXCEPT ![n] = 0]
        /\ calls' = {c \in (calls \ own) \union Abandoned(own) : c.to # n}
        /\ replies' = {r \in replies : r.to # n}
        /\ opened' = opened /\ faults' # 0
    BY <1>6 DEF Restart, Known, TypeOK
  <2>2. \A x \in Abandoned(own) :
          /\ ~x.live /\ x.from = n
          /\ \E y \in calls : x.kind = y.kind /\ x.term = y.term
    BY <1>3
  <2>3. /\ state'[n] = Follower(NoMember) /\ ctx'[n] = NewContext
        /\ timers'[n] = <<>> /\ tries'[n] = 0
        /\ \A m \in Node \ {n} : /\ state'[m] = state[m] /\ ctx'[m] = ctx[m]
                                 /\ timers'[m] = timers[m] /\ tries'[m] = tries[m]
    BY <2>1 DEF Become, Known, TypeOK
  <2>4. \A x \in calls' : \/ x \in calls /\ x.from # n
                          \/ /\ ~x.live /\ x.from = n
                             /\ \E y \in calls : x.kind = y.kind /\ x.term = y.term
    BY <2>1, <2>2
  <2> HIDE DEF own
  <2>5. OpenTerms' = OpenTerms
    BY <2>1 DEF OpenTerms
  <2>6. OnceInv'
    <3>1. Once(Follower(NoMember), NewContext, <<>>, 0)
      BY DEF Once, NewContext
    <3> QED
      BY <2>3, <3>1 DEF OnceInv, Subdued
  <2>7. Silent'
    BY <2>1, <2>3, <2>4 DEF Silent, Subdued, Follower, Role
  <2>8. Unharmed'
    BY <2>1 DEF Unharmed
  <2>9. Opened'
    <3>1. NewContext.term \in OpenTerms
      BY DEF NewContext, OpenTerms
    <3> QED
      BY <2>1, <2>3, <2>4, <2>5, <3>1 DEF Opened, Subdued
  <2>10. Asked'
    <3>1. ASSUME NEW m \in Node, NEW t, Asks(m, t)'
          PROVE  Asks(m, t) /\ m # n
      BY <2>1, <2>4, <3>1 DEF Asks
    <3>2. Follower(NoMember).role # "PreCandidate"
      BY DEF Follower, Role
    <3> QED
      BY <2>3, <3>1, <3>2 DEF Asked, Subdued
  <2> QED
    BY <2>6, <2>7, <2>8, <2>9, <2>10 DEF Subdued
<1> QED
  BY <1>4, <1>5, <1>6

\* The group is subdued from the start and stays so.
LEMMA AlwaysSubdued == Spec => [](Outside = {} => Subdued)
<1>1. Init => (Outside = {} => Subdued)
  <2> SUFFICES ASSUME Init PROVE Subdued
    OBVIOUS
  <2>1. OnceInv
    BY EmptyQueue DEF Init, OnceInv, Once, NewContext, Follower, Role
  <2>2. Silent /\ Unharmed /\ Asked
    BY DEF Init, Silent, Unharmed, Asked, Asks, Follower, Role
  <2>3. Opened
    BY DEF Init, Opened, OpenTerms, NewContext
  <2> QED
    BY <2>1, <2>2, <2>3 DEF Subdued
<1>2. /\ TypeOK /\ GateInv /\ NoSelfCalls /\ TimedInv /\ Closed
      /\ (Outside = {} => Subdued) /\ [Next]_vars
      => (Outside = {} => Subdued)'
  <2> SUFFICES ASSUME Known, Subdued, [Next]_vars PROVE Subdued'
    BY DEF Known, Closed
  <2>1. CASE UNCHANGED vars
    BY <2>1 DEF vars, Subdued, OnceInv, Silent, Unharmed, Opened, OpenTerms, Asked, Asks
  <2>2. ASSUME NEW n \in Node
        PROVE  ~OutsideAnswers(n) /\ ~DispatchAccept(n) /\ ~ClientWrite(n)
    BY <2>2 DEF OutsideAnswers, DispatchAccept, ClientWrite, Known, Hopeless, Subdued, Silent
  <2> QED
    BY <2>1, <2>2, RequestSubdued, ResponseSubdued, ClockSubdued, CountdownSubdued,
       FaultSubdued DEF Next
<1> QED
  BY <1>1, <1>2, TypeCorrect, RefusesVotesAndAccepts, AlwaysTimed, AlwaysClosed, PTL
     DEF Spec, GateInv

-----------------------------------------------------------------------------
\* A term is opened only by a quorum whose ballots were asked for that very term,
\* and no member ever holds a term that nobody opened.
THEOREM TermsNeedAQuorum == Spec => []TermsOpenedByQuorum
<1>1. (Outside = {} => Subdued) => TermsOpenedByQuorum
  BY DEF Subdued, Opened, OpenTerms, TermsOpenedByQuorum
<1> QED
  BY <1>1, AlwaysSubdued, PTL

\* A member campaigns at most once after each start of its process.
THEOREM OneCampaignEach == Spec => []OneCampaignPerStart
<1>1. (Outside = {} => Subdued) => OneCampaignPerStart
  BY DEF Subdued, OnceInv, Once, OneCampaignPerStart
<1> QED
  BY <1>1, AlwaysSubdued, PTL

\* No state machine panics before the first broken connection or restart.
THEOREM NoPanicWithoutFault == Spec => []PanicNeedsFault
<1>1. (Outside = {} => Subdued) => PanicNeedsFault
  BY DEF Subdued, Unharmed, PanicNeedsFault
<1> QED
  BY <1>1, AlwaysSubdued, PTL
=============================================================================
