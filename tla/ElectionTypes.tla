---------------------------- MODULE ElectionTypes ----------------------------
(***************************************************************************)
(* Type correctness of Election: every action keeps its state within what  *)
(* the code's types allow.                                                 *)
(***************************************************************************)
EXTENDS Election, TLAPS, FiniteSetTheorems

-----------------------------------------------------------------------------
(* Types of what the handlers are made of. *)

LEMMA RoleType ==
  ASSUME NEW r \in Roles, NEW l \in Members \union {NoMember}
  PROVE  Role(r, l) \in States
BY BoundsAssumption DEF Role, States, NoVote, Votes, Terms

LEMMA FollowerType ==
  ASSUME NEW l \in Members \union {NoMember}
  PROVE  /\ Follower(l) \in States
         /\ Crashed \in States
         /\ Campaign("PreCandidate") \in States
         /\ Campaign("Candidate") \in States
         /\ NewContext \in Contexts
<1>1. "Follower" \in Roles /\ "Crashed" \in Roles /\ "PreCandidate" \in Roles
        /\ "Candidate" \in Roles
  BY DEF Roles
<1>2. Follower(l) \in States /\ Crashed \in States
  BY <1>1, RoleType DEF Follower, Crashed
<1>3. ASSUME NEW r \in {"PreCandidate", "Candidate"}
      PROVE  Campaign(r) \in States
  BY <1>1, BoundsAssumption DEF Campaign, Role, States, NoVote, Votes, Terms
<1>4. NewContext \in Contexts
  BY BoundsAssumption DEF NewContext, Contexts, Positions, Terms
<1> QED
  BY <1>2, <1>3, <1>4

LEMMA ReadingType ==
  ASSUME TypeOK, NEW n \in Node, NEW c \in Readings(n)
  PROVE  /\ c \in Contexts
         /\ c.term = ctx[n].term
         /\ c.log = ctx[n].log
         /\ Expired(ctx[n]) => Expired(c)
         /\ ctx[n].lease = "none" <=> c.lease = "none"
BY DEF TypeOK, Readings, Contexts, Expired

LEMMA AdoptTermType ==
  ASSUME NEW s \in States, NEW c \in Contexts, NEW t \in Terms
  PROVE  /\ AdoptTerm(s, c, t).state \in States
         /\ AdoptTerm(s, c, t).ctx \in Contexts
         /\ AdoptTerm(s, c, t).ctx.term >= t
         /\ AdoptTerm(s, c, t).ctx.lease = c.lease
         /\ AdoptTerm(s, c, t).ctx.log = c.log
<1>1. CASE t > c.term
  <2>1. s.leader \in Members \union {NoMember}
    BY DEF States
  <2>2. [c EXCEPT !.term = t] \in Contexts
    BY DEF Contexts
  <2> QED
    BY <1>1, <2>1, <2>2, FollowerType, BoundsAssumption DEF AdoptTerm, Contexts, Terms
<1>2. CASE ~(t > c.term)
  BY <1>2, BoundsAssumption DEF AdoptTerm, Contexts, Terms
<1> QED
  BY <1>1, <1>2

LEMMA CallType ==
  ASSUME NEW c \in Calls
  PROVE  /\ c.kind \in Kinds
         /\ c.from \in Members
         /\ c.to \in Members
         /\ c.term \in AskedTerms
         /\ c.kind # "prevote" => c.term \in Terms
         /\ c.log \in Positions
         /\ c.live \in BOOLEAN
         /\ [c EXCEPT !.live = FALSE] \in Calls
<1>1. Terms \subseteq AskedTerms
  BY BoundsAssumption DEF AskedTerms, Terms
<1>2. CASE c \in CallsOf({"prevote"}, AskedTerms)
  BY <1>2 DEF Calls, CallsOf, Kinds
<1>3. CASE c \in CallsOf({"vote", "accept"}, Terms)
  BY <1>1, <1>3 DEF Calls, CallsOf, Kinds
<1> QED
  BY <1>2, <1>3 DEF Calls

LEMMA BroadcastType ==
  ASSUME NEW n \in Node, NEW k \in Kinds, NEW t \in AskedTerms, NEW l \in Positions,
         k # "prevote" => t \in Terms
  PROVE  Broadcast(n, k, t, l) \subseteq Calls
<1> SUFFICES ASSUME NEW p \in Peers(n)
             PROVE  [kind |-> k, from |-> n, to |-> p, term |-> t, log |-> l, live |-> TRUE]
                      \in Calls
  BY DEF Broadcast
<1>1. n \in Members /\ p \in Members
  BY DEF Members, Peers
<1>2. CASE k = "prevote"
  BY <1>1, <1>2 DEF Calls, CallsOf
<1>3. CASE k # "prevote"
  BY <1>1, <1>3 DEF Calls, CallsOf, Kinds
<1> QED
  BY <1>2, <1>3

LEMMA BecomeType ==
  ASSUME TypeOK, NEW n \in Node, NEW s \in States, NEW c \in Contexts, Become(n, s, c)
  PROVE  state' \in [Node -> States] /\ ctx' \in [Node -> Contexts]
BY DEF TypeOK, Become

LEMMA PanicType ==
  ASSUME TypeOK, NEW n \in Node, Panic(n)
  PROVE  state' \in [Node -> States] /\ ctx' \in [Node -> Contexts]
<1>1. Crashed \in States /\ NewContext \in Contexts
  BY FollowerType
<1> QED
  BY <1>1, BecomeType DEF Panic

LEMMA AnswerType ==
  ASSUME TypeOK, NEW n \in Node, NEW req \in Calls, NEW s \in States, NEW c \in Contexts,
         NEW g \in BOOLEAN, NEW l \in Members \union {NoMember},
         Answer(n, req, s, c, g, l)
  PROVE  TypeOK'
<1>1. calls' \subseteq Calls
  BY DEF Answer, TypeOK
<1>2. [kind |-> req.kind, from |-> n, to |-> req.from, term |-> c.term,
       granted |-> g, leader |-> l, asked |-> req.term] \in Replies
  BY CallType DEF Replies, Contexts, Members
<1>3. replies' \subseteq Replies
  BY <1>2 DEF Answer, TypeOK
<1>4. state' \in [Node -> States] /\ ctx' \in [Node -> Contexts]
  BY BecomeType, PanicType DEF Answer
<1> QED
  BY <1>1, <1>3, <1>4 DEF Answer, TypeOK

LEMMA OutsideCallsType ==
  ASSUME NEW n \in Node
  PROVE  OutsideCalls(n) \subseteq Calls
<1>1. Terms \subseteq AskedTerms
  BY BoundsAssumption DEF AskedTerms, Terms
<1> SUFFICES ASSUME NEW k \in Kinds, NEW o \in Outside, NEW t \in Terms, NEW l \in Positions
             PROVE  [kind |-> k, from |-> o, to |-> n, term |-> t, log |-> l, live |-> TRUE]
                      \in Calls
  BY DEF OutsideCalls
<1>2. o \in Members /\ n \in Members
  BY DEF Members
<1>3. CASE k = "prevote"
  BY <1>1, <1>2, <1>3 DEF Calls, CallsOf
<1>4. CASE k # "prevote"
  BY <1>2, <1>4 DEF Calls, CallsOf, Kinds
<1> QED
  BY <1>3, <1>4

-----------------------------------------------------------------------------
(* Every action preserves the types. *)

LEMMA RequestType ==
  ASSUME TypeOK, NEW n \in Node, ReceiveRequest(n)
  PROVE  TypeOK'
<1>1. OutsideCalls(n) \subseteq Calls
  BY OutsideCallsType
<1>2. PICK req \in Calls :
        \/ req.kind = "prevote" /\ HandlePreVoteRequest(n, req)
        \/ req.kind = "vote" /\ HandleVoteRequest(n, req)
        \/ req.kind = "accept" /\ HandleAcceptRequest(n, req)
  BY <1>1 DEF ReceiveRequest, TypeOK
<1>3. state[n] \in States /\ NoMember \in Members \union {NoMember} /\ n \in Members
        /\ req.from \in Members
  BY CallType DEF TypeOK, Members
<1>4. CASE HandlePreVoteRequest(n, req)
  <2>1. PICK before, c \in Readings(n) :
          LET s == PreVoteResponder(state[n], before)
              granted == PreVoteGranted(s, c, req)
          IN  Answer(n, req, s, c, granted,
                     CASE granted -> NoMember
                       [] s.role = "Leader" -> n
                       [] OTHER -> s.leader)
    BY <1>4 DEF HandlePreVoteRequest
  <2> DEFINE s == PreVoteResponder(state[n], before)
             granted == PreVoteGranted(s, c, req)
  <2>2. c \in Contexts
    BY ReadingType
  <2>3. s \in States
    BY <1>3, FollowerType DEF PreVoteResponder
  <2>4. granted \in BOOLEAN
    BY DEF PreVoteGranted
  <2> HIDE DEF s, granted
  <2>5. (CASE granted -> NoMember
           [] s.role = "Leader" -> n
           [] OTHER -> s.leader) \in Members \union {NoMember}
    BY <1>3, <2>3 DEF States
  <2>6. Answer(n, req, s, c, granted,
               CASE granted -> NoMember
                 [] s.role = "Leader" -> n
                 [] OTHER -> s.leader)
    BY <2>1 DEF s, granted
  <2> QED
    BY <2>2, <2>3, <2>4, <2>5, <2>6, AnswerType
<1>5. CASE req.kind = "vote" /\ HandleVoteRequest(n, req)
  <2>1. PICK r \in Readings(n) :
          LET now == AdoptTerm(state[n], r, req.term)
              s == Voter(now.state, now.ctx)
              c == now.ctx
          IN  IF VoteGranted(s, c, req)
              THEN Answer(n, req,
                          [s EXCEPT !.vote = [term |-> req.term, candidate |-> req.from]],
                          [c EXCEPT !.lease = IF s.role = "Follower" THEN "running" ELSE @],
                          TRUE, NoMember)
              ELSE Answer(n, req, s, c, FALSE, IF s.role = "Leader" THEN n ELSE s.leader)
    BY <1>5 DEF HandleVoteRequest
  <2> DEFINE now == AdoptTerm(state[n], r, req.term)
             s == Voter(now.state, now.ctx)
             c == now.ctx
  <2>2. req.term \in Terms
    BY <1>5, CallType
  <2>3. now.state \in States /\ now.ctx \in Contexts
    BY <1>3, <2>2, ReadingType, AdoptTermType
  <2>4. s \in States /\ c \in Contexts
    BY <1>3, <2>3, FollowerType DEF Voter
  <2> HIDE DEF now, s, c
  <2>5. [s EXCEPT !.vote = [term |-> req.term, candidate |-> req.from]] \in States
    BY <1>3, <2>2, <2>4 DEF States, Votes
  <2>6. [c EXCEPT !.lease = IF s.role = "Follower" THEN "running" ELSE @] \in Contexts
    BY <2>4 DEF Contexts
  <2>7. (IF s.role = "Leader" THEN n ELSE s.leader) \in Members \union {NoMember}
    BY <1>3, <2>4 DEF States
  <2>8. \/ Answer(n, req, [s EXCEPT !.vote = [term |-> req.term, candidate |-> req.from]],
                  [c EXCEPT !.lease = IF s.role = "Follower" THEN "running" ELSE @],
                  TRUE, NoMember)
        \/ Answer(n, req, s, c, FALSE, IF s.role = "Leader" THEN n ELSE s.leader)
    BY <2>1 DEF now, s, c
  <2> QED
    BY <1>3, <2>4, <2>5, <2>6, <2>7, <2>8, AnswerType
<1>6. CASE req.kind = "accept" /\ HandleAcceptRequest(n, req)
  <2>1. PICK r \in Readings(n) :
          LET now == AdoptTerm(state[n], r, req.term)
              s == Acceptor(now.state, now.ctx, req)
              c == now.ctx
          IN  \/ \E log \in Written(c, req) :
                   Answer(n, req, s, [c EXCEPT !.lease = "running", !.log = log], TRUE, NoMember)
              \/ Answer(n, req, s, c, FALSE, NoMember)
              \/ /\ Become(n, s, c)
                 /\ calls' = calls \ {req}
                 /\ UNCHANGED <<timers, replies, faults, tries, opened>>
    BY <1>6 DEF HandleAcceptRequest
  <2> DEFINE now == AdoptTerm(state[n], r, req.term)
             s == Acceptor(now.state, now.ctx, req)
             c == now.ctx
  <2>2. req.term \in Terms /\ req.log \in Positions
    BY <1>6, CallType
  <2>3. now.state \in States /\ now.ctx \in Contexts
    BY <1>3, <2>2, ReadingType, AdoptTermType
  <2>4. s \in States /\ c \in Contexts
    BY <1>3, <2>3, FollowerType DEF Acceptor
  <2> HIDE DEF now, s, c
  <2>5. \/ \E log \in Written(c, req) :
             Answer(n, req, s, [c EXCEPT !.lease = "running", !.log = log], TRUE, NoMember)
        \/ Answer(n, req, s, c, FALSE, NoMember)
        \/ /\ Become(n, s, c)
           /\ calls' = calls \ {req}
           /\ UNCHANGED <<timers, replies, faults, tries, opened>>
    BY <2>1 DEF now, s, c
  <2>6. ASSUME NEW log \in Written(c, req)
        PROVE  [c EXCEPT !.lease = "running", !.log = log] \in Contexts
    BY <2>2, <2>4 DEF Written, Contexts
  <2>7. CASE Become(n, s, c) /\ calls' = calls \ {req}
               /\ UNCHANGED <<timers, replies, faults, tries, opened>>
    BY <2>4, <2>7, BecomeType DEF TypeOK
  <2> QED
    BY <1>3, <2>4, <2>5, <2>6, <2>7, AnswerType
<1> QED
  BY <1>2, <1>4, <1>5, <1>6

LEMMA LearnLeaderType ==
  ASSUME NEW s \in States, NEW c \in Contexts, NEW r \in Replies
  PROVE  LearnLeader(s, c, r) \in States
<1>1. r.leader \in Members \union {NoMember}
  BY DEF Replies
<1>2. CASE r.term < c.term \/ ~Expired(c)
  BY <1>2 DEF LearnLeader
<1>3. CASE ~(r.term < c.term \/ ~Expired(c)) /\ s.role = "Leader"
  BY <1>1, <1>3, FollowerType DEF LearnLeader
<1>4. CASE /\ ~(r.term < c.term \/ ~Expired(c))
           /\ s.role = "Follower" /\ r.leader # NoMember
  <2>1. [s EXCEPT !.leader = r.leader] \in States
    BY <1>1 DEF States
  <2> QED
    BY <1>4, <2>1 DEF LearnLeader
<1> QED
  BY <1>2, <1>3, <1>4 DEF LearnLeader

LEMMA RecordedType ==
  ASSUME NEW board \in SUBSET Ballots, NEW r \in Replies
  PROVE  Recorded(board, r) \in SUBSET Ballots
BY DEF Recorded, Ballots, Replies

\* What remains of calls and replies, and what the handler leaves alone.
LEMMA ResponseType ==
  ASSUME TypeOK, NEW n \in Node, NEW r \in Replies, NEW rest \in SUBSET Calls,
         HandleResponse(n, r, rest), r.to = n
  PROVE  /\ state' \in [Node -> States]
         /\ ctx' \in [Node -> Contexts]
         /\ calls' \subseteq Calls
         /\ opened' \subseteq [term : Terms, by : Node, backers : SUBSET Members]
<1>1. state[n] \in States /\ r.term \in Terms
  BY DEF TypeOK, Replies
<1>2. CASE HandlePreVoteResponse(n, r, rest)
  <2>1. PICK reading \in Readings(n) :
          LET now == AdoptTerm(state[n], reading, r.term)
              s == now.state
              c == now.ctx
          IN  \/ /\ s.role = "PreCandidate"
                 /\ CountPreVote(n, s, c, r, rest)
              \/ /\ s.role # "PreCandidate"
                 /\ Become(n, LearnLeader(s, c, r), c)
                 /\ calls' = rest
                 /\ UNCHANGED opened
    BY <1>2 DEF HandlePreVoteResponse
  <2> DEFINE now == AdoptTerm(state[n], reading, r.term)
             s == now.state
             c == now.ctx
             board == Recorded(s.board, r)
             ballot == [term |-> c.term + 1, by |-> n,
                        backers |-> {b.from : b \in {x \in board :
                                       x.granted /\ x.asked = c.term + 1}}]
  <2>2. s \in States /\ c \in Contexts
    BY <1>1, ReadingType, AdoptTermType
  <2>3. \/ /\ c.term < MaxTerm
           /\ Become(n, Campaign("Candidate"), [c EXCEPT !.term = @ + 1])
           /\ calls' = rest \union Broadcast(n, "vote", c.term + 1, c.log)
           /\ opened' = opened \union {ballot}
        \/ /\ Become(n, IF AllReplied(n, board) THEN Follower(NoMember)
                        ELSE [s EXCEPT !.board = board], c)
           /\ calls' = rest
           /\ UNCHANGED opened
        \/ /\ Become(n, LearnLeader(s, c, r), c)
           /\ calls' = rest
           /\ UNCHANGED opened
    BY <2>1 DEF CountPreVote
  <2> HIDE DEF now, s, c
  <2>4. board \in SUBSET Ballots
    BY <2>2, RecordedType DEF States
  <2> HIDE DEF board
  <2>5. CASE /\ c.term < MaxTerm
             /\ Become(n, Campaign("Candidate"), [c EXCEPT !.term = @ + 1])
             /\ calls' = rest \union Broadcast(n, "vote", c.term + 1, c.log)
             /\ opened' = opened \union {ballot}
    <3>1. c.term + 1 \in Terms /\ c.term + 1 \in AskedTerms /\ c.log \in Positions
      BY <2>2, <2>5, BoundsAssumption DEF Contexts, Terms, AskedTerms
    <3>2. [c EXCEPT !.term = @ + 1] \in Contexts
      BY <2>2, <3>1 DEF Contexts
    <3>3. Broadcast(n, "vote", c.term + 1, c.log) \subseteq Calls
      BY <3>1, BroadcastType DEF Kinds
    <3>4. ballot \in [term : Terms, by : Node, backers : SUBSET Members]
      BY <2>4, <3>1 DEF Ballots
    <3> QED
      BY <2>5, <3>2, <3>3, <3>4, BecomeType, FollowerType DEF TypeOK
  <2>6. CASE /\ Become(n, IF AllReplied(n, board) THEN Follower(NoMember)
                          ELSE [s EXCEPT !.board = board], c)
             /\ calls' = rest
             /\ UNCHANGED opened
    <3>1. [s EXCEPT !.board = board] \in States
      BY <2>2, <2>4 DEF States
    <3> QED
      BY <2>2, <2>6, <3>1, BecomeType, FollowerType DEF TypeOK
  <2>7. CASE /\ Become(n, LearnLeader(s, c, r), c)
             /\ calls' = rest
             /\ UNCHANGED opened
    BY <2>2, <2>7, BecomeType, LearnLeaderType DEF TypeOK
  <2> QED
    BY <2>3, <2>5, <2>6, <2>7
<1>3. CASE HandleVoteResponse(n, r, rest)
  <2>1. PICK reading \in Readings(n) :
          LET now == AdoptTerm(state[n], reading, r.term)
              s == now.state
              c == now.ctx
          IN  \/ /\ s.role = "Candidate"
                 /\ CountVote(n, s, c, r, rest)
                 /\ UNCHANGED opened
              \/ /\ s.role # "Candidate"
                 /\ Become(n, LearnLeader(s, c, r), c)
                 /\ calls' = rest
                 /\ UNCHANGED opened
    BY <1>3 DEF HandleVoteResponse
  <2> DEFINE now == AdoptTerm(state[n], reading, r.term)
             s == now.state
             c == now.ctx
             board == Recorded(s.board, r)
  <2>2. s \in States /\ c \in Contexts
    BY <1>1, ReadingType, AdoptTermType
  <2>3. /\ UNCHANGED opened
        /\ \/ \E log \in Recovered(c) :
                /\ Become(n, [Role("Leader", NoMember) EXCEPT !.board = board],
                          [c EXCEPT !.lease = "running", !.log = log])
                /\ calls' = rest \union Broadcast(n, "accept", c.term, log)
           \/ /\ Become(n, Follower(NoMember), [c EXCEPT !.lease = "running"])
              /\ calls' = rest
           \/ /\ Become(n, IF AllReplied(n, board) THEN Follower(NoMember)
                           ELSE [s EXCEPT !.board = board], c)
              /\ calls' = rest
           \/ /\ Become(n, LearnLeader(s, c, r), c)
              /\ calls' = rest
    BY <2>1 DEF CountVote
  <2> HIDE DEF now, s, c
  <2>4. board \in SUBSET Ballots
    BY <2>2, RecordedType DEF States
  <2> HIDE DEF board
  <2>5. ASSUME NEW log \in Recovered(c),
               Become(n, [Role("Leader", NoMember) EXCEPT !.board = board],
                      [c EXCEPT !.lease = "running", !.log = log]),
               calls' = rest \union Broadcast(n, "accept", c.term, log)
        PROVE  /\ state' \in [Node -> States] /\ ctx' \in [Node -> Contexts]
               /\ calls' \subseteq Calls
    <3>1. log \in Positions /\ c.term \in Terms /\ c.term \in AskedTerms
      BY <2>2, BoundsAssumption DEF Recovered, Contexts, Positions, Terms, AskedTerms
    <3>2. [c EXCEPT !.lease = "running", !.log = log] \in Contexts
      BY <2>2, <3>1 DEF Contexts
    <3>3. [Role("Leader", NoMember) EXCEPT !.board = board] \in States
      <4>1. Role("Leader", NoMember) \in States
        BY RoleType DEF Roles
      <4> QED
        BY <2>4, <4>1 DEF States
    <3>4. Broadcast(n, "accept", c.term, log) \subseteq Calls
      BY <3>1, BroadcastType DEF Kinds
    <3> QED
      BY <2>5, <3>2, <3>3, <3>4, BecomeType
  <2>6. CASE /\ Become(n, Follower(NoMember), [c EXCEPT !.lease = "running"])
             /\ calls' = rest
    <3>1. [c EXCEPT !.lease = "running"] \in Contexts
      BY <2>2 DEF Contexts
    <3>2. Follower(NoMember) \in States
      BY FollowerType
    <3>3. calls' \subseteq Calls /\ opened' = opened
      BY <2>3, <2>6
    <3> QED
      BY <2>6, <3>1, <3>2, <3>3, BecomeType DEF TypeOK
  <2>7. CASE /\ Become(n, IF AllReplied(n, board) THEN Follower(NoMember)
                          ELSE [s EXCEPT !.board = board], c)
             /\ calls' = rest
    <3>1. (IF AllReplied(n, board) THEN Follower(NoMember)
           ELSE [s EXCEPT !.board = board]) \in States
      BY <2>2, <2>4, FollowerType DEF States
    <3>2. calls' \subseteq Calls /\ opened' = opened
      BY <2>3, <2>7
    <3> QED
      BY <2>2, <2>7, <3>1, <3>2, BecomeType DEF TypeOK
  <2>8. CASE Become(n, LearnLeader(s, c, r), c) /\ calls' = rest
    <3>1. LearnLeader(s, c, r) \in States
      BY <2>2, LearnLeaderType
    <3>2. calls' \subseteq Calls /\ opened' = opened
      BY <2>3, <2>8
    <3> QED
      BY <2>2, <2>8, <3>1, <3>2, BecomeType DEF TypeOK
  <2> QED
    BY <2>3, <2>5, <2>6, <2>7, <2>8 DEF TypeOK
<1>4. CASE HandleAcceptResponse(n, r, rest)
  <2>1. PICK reading \in Readings(n) :
          LET now == AdoptTerm(state[n], reading, r.term)
              s == now.state
              c == now.ctx
              counts == s.role = "Leader" /\ r.term >= c.term /\ r.granted
              probe == [kind |-> "accept", from |-> n, to |-> r.from, term |-> c.term,
                        log |-> c.log, live |-> TRUE]
          IN  /\ \E l \in {c.lease} \union (IF counts THEN {"running"} ELSE {}) :
                   Become(n, s, [c EXCEPT !.lease = l])
              /\ \E again \in SUBSET (IF counts THEN {probe} ELSE {}) :
                   calls' = rest \union again
              /\ UNCHANGED opened
    BY <1>4 DEF HandleAcceptResponse
  <2> DEFINE now == AdoptTerm(state[n], reading, r.term)
             s == now.state
             c == now.ctx
             probe == [kind |-> "accept", from |-> n, to |-> r.from, term |-> c.term,
                       log |-> c.log, live |-> TRUE]
  <2>2. s \in States /\ c \in Contexts
    BY <1>1, ReadingType, AdoptTermType
  <2>3. /\ \E l \in {c.lease, "running"} : Become(n, s, [c EXCEPT !.lease = l])
        /\ \E again \in SUBSET {probe} : calls' = rest \union again
        /\ UNCHANGED opened
    BY <2>1
  <2> HIDE DEF now, s, c
  <2>4. ASSUME NEW l \in {c.lease, "running"}
        PROVE  [c EXCEPT !.lease = l] \in Contexts
    BY <2>2 DEF Contexts
  <2>5. probe \in Calls
    BY <2>2 DEF Calls, CallsOf, Contexts, Replies, Members
  <2> HIDE DEF probe
  <2>6. state' \in [Node -> States] /\ ctx' \in [Node -> Contexts]
    BY <2>2, <2>3, <2>4, BecomeType
  <2> QED
    BY <2>3, <2>5, <2>6 DEF TypeOK
<1> QED
  BY <1>2, <1>3, <1>4 DEF HandleResponse

LEMMA TimerType ==
  ASSUME TypeOK, NEW n \in Node, NEW e \in Timers, TakeTimer(n, e)
  PROVE  timers' \in [Node -> Seq(Timers)]
<1>1. timers[n] \in Seq(Timers) /\ timers[n] # <<>>
  BY DEF TypeOK, TakeTimer
<1>2. Tail(timers[n]) \in Seq(Timers)
  BY <1>1
<1> QED
  BY <1>2 DEF TypeOK, TakeTimer

LEMMA CountdownType ==
  ASSUME TypeOK, NEW n \in Node, ElectionCountdownExpired(n)
  PROVE  TypeOK'
<1>1. timers' \in [Node -> Seq(Timers)]
  BY TimerType DEF ElectionCountdownExpired, Timers
<1>2. PICK c \in Readings(n) :
        \/ Become(n, state[n], c) /\ UNCHANGED <<calls, faults, tries>>
        \/ /\ Become(n, Campaign("PreCandidate"), c)
           /\ calls' = calls \union Broadcast(n, "prevote", c.term + 1, c.log)
           /\ tries' = [tries EXCEPT ![n] = @ + 1]
           /\ UNCHANGED faults
        \/ DialFails(n, c)
  BY DEF ElectionCountdownExpired
<1>3. c \in Contexts /\ state[n] \in States
  BY ReadingType DEF TypeOK
<1>4. Broadcast(n, "prevote", c.term + 1, c.log) \subseteq Calls
  <2>1. c.term + 1 \in AskedTerms /\ c.log \in Positions
    BY <1>3, BoundsAssumption DEF Contexts, Terms, AskedTerms
  <2> QED
    BY <2>1, BroadcastType DEF Kinds
<1>5. UNCHANGED <<replies, opened>>
  BY DEF ElectionCountdownExpired
<1>6. CASE Become(n, state[n], c) /\ UNCHANGED <<calls, faults, tries>>
  BY <1>1, <1>3, <1>5, <1>6, BecomeType DEF TypeOK
<1>7. CASE /\ Become(n, Campaign("PreCandidate"), c)
           /\ calls' = calls \union Broadcast(n, "prevote", c.term + 1, c.log)
           /\ tries' = [tries EXCEPT ![n] = @ + 1]
           /\ UNCHANGED faults
  <2>1. Campaign("PreCandidate") \in States
    BY FollowerType
  <2>2. state' \in [Node -> States] /\ ctx' \in [Node -> Contexts]
    BY <1>3, <1>7, <2>1, BecomeType
  <2>3. calls' \subseteq Calls /\ tries' \in [Node -> Nat]
    BY <1>4, <1>7 DEF TypeOK
  <2>4. UNCHANGED <<replies, opened, faults>>
    BY <1>5, <1>7
  <2> QED
    BY <1>1, <2>2, <2>3, <2>4 DEF TypeOK
<1>8. CASE DialFails(n, c)
  <2>1. state' \in [Node -> States] /\ ctx' \in [Node -> Contexts]
    BY <1>8, PanicType DEF DialFails
  <2>2. calls' \subseteq Calls /\ tries' = tries
    BY <1>4, <1>8 DEF DialFails, TypeOK
  <2>3. faults' \in 0..MaxFaults
    BY <1>8, BoundsAssumption DEF DialFails, TypeOK
  <2> QED
    BY <1>1, <1>5, <2>1, <2>2, <2>3 DEF TypeOK
<1> QED
  BY <1>2, <1>6, <1>7, <1>8

LEMMA DeadlineType ==
  ASSUME TypeOK, NEW n \in Node, PreVoteCampaignExpired(n) \/ VoteCampaignExpired(n)
  PROVE  TypeOK'
<1>1. timers' \in [Node -> Seq(Timers)]
  BY TimerType DEF PreVoteCampaignExpired, VoteCampaignExpired, Timers
<1>2. PICK role \in Roles : StepDownFrom(n, role)
  BY DEF PreVoteCampaignExpired, VoteCampaignExpired, Roles
<1>3. PICK c \in Readings(n) :
        Become(n, IF state[n].role = role THEN Follower(NoMember) ELSE state[n], c)
  BY <1>2 DEF StepDownFrom
<1>4. c \in Contexts /\ state[n] \in States /\ Follower(NoMember) \in States
  BY ReadingType, FollowerType DEF TypeOK
<1> QED
  BY <1>1, <1>2, <1>3, <1>4, BecomeType DEF StepDownFrom, TypeOK

LEMMA LeaseAndClockType ==
  ASSUME TypeOK, NEW n \in Node,
         LeaseLapses(n) \/ LeaderLeaseExpired(n) \/ ClockFires(n)
  PROVE  TypeOK'
<1>1. state[n] \in States /\ ctx[n] \in Contexts /\ timers[n] \in Seq(Timers)
  BY DEF TypeOK
<1>2. CASE LeaseLapses(n)
  <2>1. [ctx[n] EXCEPT !.lease = "lapsed"] \in Contexts
    BY <1>1 DEF Contexts
  <2> QED
    BY <1>2, <2>1 DEF LeaseLapses, TypeOK
<1>3. CASE LeaderLeaseExpired(n)
  <2>1. [ctx[n] EXCEPT !.lease = "none"] \in Contexts
    BY <1>1 DEF Contexts
  <2>2. state[n].role = "Follower" => [state[n] EXCEPT !.clock = "running"] \in States
    BY <1>1 DEF States
  <2>3. (CASE state[n].role = "Follower" -> [state[n] EXCEPT !.clock = "running"]
           [] state[n].role = "Leader" -> Follower(NoMember)
           [] OTHER -> state[n]) \in States
    BY <1>1, <2>2, FollowerType
  <2>4. state' \in [Node -> States] /\ ctx' \in [Node -> Contexts]
    BY <1>3, <2>1, <2>3, BecomeType DEF LeaderLeaseExpired
  <2> QED
    BY <1>3, <2>4 DEF LeaderLeaseExpired, TypeOK
<1>4. CASE ClockFires(n)
  <2>1. [state[n] EXCEPT !.clock = "idle"] \in States
    BY <1>1 DEF States
  <2>2. TimerOf[state[n].role] \in Timers
    BY <1>1, <1>4 DEF ClockFires, States, TimerOf, Timers
  <2>3. Append(timers[n], TimerOf[state[n].role]) \in Seq(Timers)
    BY <1>1, <2>2
  <2> QED
    BY <1>4, <2>1, <2>3 DEF ClockFires, TypeOK
<1> QED
  BY <1>2, <1>3, <1>4

LEMMA OutsideRepliesType ==
  ASSUME NEW c \in Calls, NEW r \in OutsideReplies(c)
  PROVE  r \in Replies /\ r.to = c.from /\ r.from = c.to
<1>1. PICK t \in Terms, g \in BOOLEAN, l \in Hints :
        r = [kind |-> c.kind, from |-> c.to, to |-> c.from, term |-> t, granted |-> g,
             leader |-> l, asked |-> c.term]
  BY DEF OutsideReplies
<1>2. l \in Members \union {NoMember}
  BY MembersAssumption
<1>3. /\ c.kind \in Kinds /\ c.from \in Members /\ c.to \in Members
      /\ c.term \in AskedTerms
  BY CallType
<1> QED
  BY <1>1, <1>2, <1>3 DEF Replies

LEMMA ResponsesType ==
  ASSUME TypeOK, NEW n \in Node, ReceiveResponse(n) \/ OutsideAnswers(n)
  PROVE  TypeOK'
<1>1. CASE ReceiveResponse(n)
  <2>1. PICK r \in replies : /\ r.to = n
                            /\ HandleResponse(n, r, calls)
                            /\ replies' = replies \ {r}
    BY <1>1 DEF ReceiveResponse
  <2>2. r \in Replies /\ calls \in SUBSET Calls
    BY DEF TypeOK
  <2>3. UNCHANGED <<timers, faults, tries>>
    BY <2>1 DEF HandleResponse
  <2> QED
    BY <2>1, <2>2, <2>3, ResponseType DEF TypeOK
<1>2. CASE OutsideAnswers(n)
  <2>1. PICK c \in calls : /\ c.from = n /\ c.to \in Outside
                          /\ \E r \in OutsideReplies(c) : HandleResponse(n, r, calls \ {c})
                          /\ UNCHANGED replies
    BY <1>2 DEF OutsideAnswers
  <2>2. c \in Calls /\ calls \ {c} \in SUBSET Calls
    BY DEF TypeOK
  <2>3. PICK r \in OutsideReplies(c) : HandleResponse(n, r, calls \ {c})
    BY <2>1
  <2>4. r \in Replies /\ r.to = n
    BY <2>1, <2>2, <2>3, OutsideRepliesType
  <2>5. UNCHANGED <<timers, faults, tries>>
    BY <2>3 DEF HandleResponse
  <2> QED
    BY <2>1, <2>2, <2>3, <2>4, <2>5, ResponseType DEF TypeOK
<1> QED
  BY <1>1, <1>2

LEMMA LeaderWorkType ==
  ASSUME TypeOK, NEW n \in Node, DispatchAccept(n) \/ ClientWrite(n)
  PROVE  TypeOK'
<1>1. ctx[n] \in Contexts
  BY DEF TypeOK
<1>2. CASE DispatchAccept(n)
  <2>1. ctx[n].term \in Terms /\ ctx[n].term \in AskedTerms /\ ctx[n].log \in Positions
    BY <1>1, BoundsAssumption DEF Contexts, Terms, AskedTerms
  <2>2. Broadcast(n, "accept", ctx[n].term, ctx[n].log) \subseteq Calls
    BY <2>1, BroadcastType DEF Kinds
  <2> QED
    BY <1>2, <2>2 DEF DispatchAccept, TypeOK
<1>3. CASE /\ ctx[n].log.slot < MaxSlot
           /\ ctx' = [ctx EXCEPT ![n].log = [term |-> ctx[n].term, slot |-> @.slot + 1]]
           /\ UNCHANGED <<state, timers, calls, replies, faults, tries, opened>>
  <2>1. [term |-> ctx[n].term, slot |-> ctx[n].log.slot + 1] \in Positions
    BY <1>1, <1>3, BoundsAssumption DEF Contexts, Positions
  <2>2. [ctx[n] EXCEPT !.log = [term |-> ctx[n].term, slot |-> ctx[n].log.slot + 1]]
          \in Contexts
    BY <1>1, <2>1 DEF Contexts
  <2> QED
    BY <1>3, <2>2 DEF TypeOK
<1>4. CASE Panic(n) /\ UNCHANGED <<timers, calls, replies, faults, tries, opened>>
  BY <1>4, PanicType DEF TypeOK
<1> QED
  BY <1>2, <1>3, <1>4 DEF ClientWrite

LEMMA AbandonedType ==
  ASSUME NEW S \in SUBSET Calls
  PROVE  Abandoned(S) \subseteq Calls
BY CallType DEF Abandoned

LEMMA FaultType ==
  ASSUME TypeOK, Lost \/ CallerGone \/ \E n \in Node : Restart(n)
  PROVE  TypeOK'
<1>1. CASE Lost
  BY <1>1 DEF Lost, TypeOK
<1>2. CASE CallerGone
  <2>1. PICK c \in calls : calls' = (calls \ {c}) \union Abandoned({c})
    BY <1>2 DEF CallerGone
  <2>2. calls' \subseteq Calls
    BY <2>1, AbandonedType DEF TypeOK
  <2>3. faults' \in 0..MaxFaults
    BY <1>2, BoundsAssumption DEF CallerGone, TypeOK
  <2> QED
    BY <1>2, <2>2, <2>3 DEF CallerGone, TypeOK
<1>3. ASSUME NEW n \in Node, Restart(n)
      PROVE  TypeOK'
  <2> DEFINE own == {c \in calls : c.from = n}
  <2>1. Abandoned(own) \subseteq Calls
    BY AbandonedType DEF TypeOK
  <2>2. calls' \subseteq Calls
    <3>1. calls' = {c \in (calls \ own) \union Abandoned(own) : c.to # n}
      BY <1>3 DEF Restart
    <3>2. calls \subseteq Calls
      BY DEF TypeOK
    <3> HIDE DEF own
    <3> QED
      BY <2>1, <3>1, <3>2
  <2>3. Follower(NoMember) \in States /\ NewContext \in Contexts
    BY FollowerType
  <2>4. state' \in [Node -> States] /\ ctx' \in [Node -> Contexts]
    BY <1>3, <2>3, BecomeType DEF Restart
  <2>5. /\ timers' \in [Node -> Seq(Timers)]
        /\ tries' \in [Node -> Nat]
        /\ replies' \subseteq Replies
        /\ opened' = opened
    BY <1>3 DEF Restart, TypeOK
  <2>6. faults' \in 0..MaxFaults
    BY <1>3, BoundsAssumption DEF Restart, TypeOK
  <2> QED
    BY <2>2, <2>4, <2>5, <2>6 DEF TypeOK
<1> QED
  BY <1>1, <1>2, <1>3

-----------------------------------------------------------------------------
\* The state stays what the code's types allow, for every group, every set of
\* outside members and every bound.
THEOREM TypeCorrect == Spec => []TypeOK
<1>1. Init => TypeOK
  <2>1. NoMember \in Members \union {NoMember} /\ <<>> \in Seq(Timers)
    OBVIOUS
  <2> QED
    BY <2>1, FollowerType, BoundsAssumption DEF Init, TypeOK
<1>2. TypeOK /\ [Next]_vars => TypeOK'
  <2> SUFFICES ASSUME TypeOK, [Next]_vars PROVE TypeOK'
    OBVIOUS
  <2>1. CASE UNCHANGED vars
    BY <2>1 DEF vars, TypeOK
  <2>2. CASE Lost \/ CallerGone \/ \E n \in Node : Restart(n)
    BY <2>2, FaultType
  <2>3. ASSUME NEW n \in Node,
               \/ LeaseLapses(n) \/ LeaderLeaseExpired(n) \/ ClockFires(n)
               \/ ElectionCountdownExpired(n)
               \/ PreVoteCampaignExpired(n) \/ VoteCampaignExpired(n)
               \/ ReceiveRequest(n)
               \/ ReceiveResponse(n) \/ OutsideAnswers(n)
               \/ DispatchAccept(n) \/ ClientWrite(n)
        PROVE  TypeOK'
    BY <2>3, LeaseAndClockType, CountdownType, DeadlineType, RequestType, ResponsesType,
       LeaderWorkType
  <2> QED
    BY <2>1, <2>2, <2>3 DEF Next
<1> QED
  BY <1>1, <1>2, PTL DEF Spec
=============================================================================
