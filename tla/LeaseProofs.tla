---------------------------- MODULE LeaseProofs ----------------------------
(***************************************************************************)
(* No two Leaders hold the lease at once, no later Leader breaks what an   *)
(* earlier one has promised, and client writes are externally consistent:  *)
(* for every number of members, uncertainty and length of the lease.       *)
(*                                                                         *)
(* A member that votes for a campaign, or that answers an accept request,  *)
(* vouches for a time: what the request says it was sent at, and a lease.  *)
(* Its own lease covers that time until it is past (Covers).  It votes in *)
(* a later term only with no lease, and so with all it vouched for past    *)
(* (Superseded); a Leader's lease ends at a time that a quorum has vouched *)
(* for (LeaderLeases), and two quorums meet.                               *)
(***************************************************************************)
EXTENDS Lease, FiniteSetTheorems, TLAPS

Quorums == {Q \in SUBSET Node : Cardinality(Q) >= QuorumSize}

\* Every term has had a campaign.
TermsOpened == /\ \A n \in Node : term[n] <= campaigns
               /\ \A r \in requests : r.term <= campaigns

\* The lease of f lasts until time, if that is not past.
Covers(f, time) == time < now \/ time <= expiry[f]

\* What an office of n has been since it began.
OfficeOf(n) ==
  /\ role[n] = "Follower" => office[n] = NoOffice
  /\ role[n] # "Follower" => n \in office[n].votes
  /\ role[n] = "Candidate" => /\ expiry[n] < now
                              /\ office[n].writes = {}
                              /\ office[n].contact = [f \in Node |-> Epoch]
  /\ role[n] = "Leader" => Cardinality(office[n].votes) >= QuorumSize
  /\ office[n].dispatch <= now
  /\ \A x \in office[n].writes : Start <= x
OfficesKept == \A n \in Node : OfficeOf(n)

\* A member keeps the lease and the term that it has answered an accept request with.
ResponsesCovered ==
  /\ \A r \in requests : r.sent <= now
  /\ \A r \in responses : /\ r.sent <= now
                          /\ r.term <= term[r.from]
                          /\ Covers(r.from, r.sent + LeaseLength)

\* ... and that it has voted with, if for another.
VotesCovered ==
  \A n \in Node : \A f \in office[n].votes :
    /\ term[n] <= term[f]
    /\ f # n => Covers(f, office[n].dispatch + LeaseLength)

\* A contact is the time that a response of this term has echoed.
ContactsReal ==
  \A n, f \in Node :
    \/ office[n].contact[f] = Epoch
    \/ [from |-> f, to |-> n, term |-> term[n], sent |-> office[n].contact[f]] \in responses

Contacted(n) == {f \in Peers(n) : expiry[n] <= office[n].contact[f] + LeaseLength}

\* The lease of a Leader ends with the votes', or when a quorum has been in contact.
LeaderLeases ==
  \A n \in Node : role[n] = "Leader" =>
    /\ LeaseFromDispatch(n) <= expiry[n] /\ expiry[n] <= now + LeaseLength
    /\ \/ expiry[n] <= LeaseFromDispatch(n)
       \/ Cardinality(Contacted(n)) >= QuorumSize - 1

\* What the writes of an office come after, besides the present.
Horizon(n) == {now} \union office[n].writes

\* What a voter has vouched for in earlier terms was past when it voted.
Superseded ==
  \A m \in Node : \A f \in office[m].votes, x \in Horizon(m) :
    /\ \A r \in responses : r.from = f /\ r.term < term[m] => r.sent + LeaseLength < x
    /\ \A n \in Node : f \in office[n].votes /\ term[n] < term[m] => LeaseFromDispatch(n) < x

OneVotePerTerm ==
  \A n, m \in Node : n # m /\ term[n] = term[m] =>
    office[n].votes \intersect office[m].votes = {}

\* Member f has vouched for what the Leader of term t has promised.
Upholds(f, t) ==
  /\ Covers(f, promised[t])
  /\ \A m \in Node : f \in office[m].votes /\ t < term[m] =>
       \A x \in Horizon(m) : promised[t] < x

PromisesUpheld ==
  \A t \in Terms : /\ promised[t] <= now + LeaseLength
                   /\ \E Q \in Quorums : \A f \in Q : Upholds(f, t)

AnsweredPast == answered < now

IInv == /\ TypeOK
        /\ TermsOpened
        /\ OfficesKept
        /\ ResponsesCovered
        /\ VotesCovered
        /\ ContactsReal
        /\ LeaderLeases
        /\ Superseded
        /\ OneVotePerTerm
        /\ PromisesUpheld
        /\ AnsweredPast

-----------------------------------------------------------------------------
(* Clocks and quorums.                                                     *)

\* A reading's bounds are on either side of now.
LEMMA ReadingBounds ==
  ASSUME TypeOK, NEW n \in Node
  PROVE  /\ Earliest(n) \in Nat /\ Earliest(n) <= now
         /\ Latest(n) \in Nat /\ now <= Latest(n)
         /\ Extended(n) \in Nat /\ now + LeaseLength <= Extended(n)
         /\ now \in Nat /\ LeaseLength \in Nat
<1>1. skew[n] \in Nat /\ skew[n] <= 2 * Uncertainty
  <2>1. skew[n] \in Skews
    BY DEF TypeOK
  <2>2. skew[n] \in 0..2 * Uncertainty
    BY <2>1, BoundsAssumption
  <2> QED
    BY <2>2, TimeAssumption
<1>2. now \in Nat /\ now >= 2 * Uncertainty /\ Uncertainty \in Nat /\ LeaseLength \in Nat
  BY TimeAssumption DEF TypeOK, Start
<1> QED
  BY <1>1, <1>2 DEF Earliest, Latest, Extended, Clock

LEMMA QuorumsMeet ==
  ASSUME NEW P \in SUBSET Node, NEW Q \in SUBSET Node,
         Cardinality(P) >= QuorumSize, Cardinality(Q) >= QuorumSize
  PROVE  \E f \in Node : f \in P /\ f \in Q
<1>1. Cardinality(Node) \in Nat /\ Cardinality(P) \in Nat /\ Cardinality(Q) \in Nat
  BY NodeAssumption, FS_Subset, FS_CardinalityType
<1>2. Cardinality(P) + Cardinality(Q) > Cardinality(Node)
  BY <1>1 DEF QuorumSize
<1>3. P \intersect Q # {}
  BY <1>2, NodeAssumption, FS_MajoritiesIntersect
<1> QED
  BY <1>3

LEMMA QuorumSizeType == QuorumSize \in Nat /\ QuorumSize >= 1 /\ Cardinality(Node) \in Nat
BY NodeAssumption, FS_CardinalityType DEF QuorumSize

\* The types of what an office holds.
LEMMA OfficeType ==
  ASSUME TypeOK, NEW n \in Node
  PROVE  /\ office[n] \in Offices
         /\ office[n].dispatch \in Nat
         /\ office[n].votes \subseteq Node
         /\ office[n].contact \in [Node -> Nat]
         /\ office[n].writes \subseteq Nat
         /\ LeaseFromDispatch(n) = office[n].dispatch + LeaseLength
         /\ LeaseFromDispatch(n) \in Nat
         /\ expiry[n] \in Nat /\ term[n] \in Nat /\ term[n] \in Terms
BY TimeAssumption, BoundsAssumption DEF TypeOK, Offices, LeaseFromDispatch, Terms

LEMMA ResponseType ==
  ASSUME TypeOK, NEW r \in responses
  PROVE  /\ r.from \in Node /\ r.to \in Node /\ r.term \in Terms /\ r.term \in Nat
         /\ r.sent \in Nat /\ r.sent + LeaseLength \in Nat
BY TimeAssumption, BoundsAssumption DEF TypeOK, Responses, Terms

LEMMA HorizonType ==
  ASSUME TypeOK, NEW n \in Node
  PROVE  Horizon(n) \subseteq Nat
BY OfficeType DEF Horizon, TypeOK

LEMMA NoOfficeType == /\ NoOffice \in Offices
                      /\ NoOffice.votes = {} /\ NoOffice.writes = {} /\ NoOffice.dispatch = Epoch
                      /\ NoOffice.contact = [f \in Node |-> Epoch]
BY DEF NoOffice, Offices, Epoch

LEMMA LaterType == \A s, t \in Nat : /\ Later(s, t) \in Nat
                                     /\ Later(s, t) = s \/ Later(s, t) = t
                                     /\ s <= Later(s, t) /\ t <= Later(s, t)
BY DEF Later

LEMMA ContactType ==
  ASSUME TypeOK, NEW n \in Node, NEW r \in responses
  PROVE  [office[n].contact EXCEPT ![r.from] = Later(@, r.sent)] \in [Node -> Nat]
<1>1. office[n].contact \in [Node -> Nat] /\ r.from \in Node /\ r.sent \in Nat
  BY OfficeType, ResponseType
<1> QED
  BY <1>1, LaterType

-----------------------------------------------------------------------------
(* Types.                                                                  *)

LEMMA InitType == Init => TypeOK /\ TermsOpened
<1> SUFFICES ASSUME Init PROVE TypeOK /\ TermsOpened
  OBVIOUS
<1>1. 0 \in Terms /\ Start \in Nat /\ Epoch \in Nat
  BY BoundsAssumption, TimeAssumption DEF Terms, Start, Epoch
<1>2. [n \in Node |-> 0] \in [Node -> Skews]
  BY BoundsAssumption
<1> QED
  BY <1>1, <1>2, NoOfficeType, BoundsAssumption DEF Init, TypeOK, TermsOpened

\* What each change of the office of one member keeps of the types.
LEMMA OfficeChangeType ==
  ASSUME TypeOK, NEW n \in Node
  PROVE  /\ [office EXCEPT ![n] = NoOffice] \in [Node -> Offices]
         /\ \A f \in Node : [office EXCEPT ![f] = NoOffice, ![n].votes = @ \union {f}]
                            \in [Node -> Offices]
         /\ [office EXCEPT ![n] = [NoOffice EXCEPT !.dispatch = Earliest(n), !.votes = {n}]]
              \in [Node -> Offices]
         /\ \A contact \in [Node -> Nat] : [office EXCEPT ![n].contact = contact]
                                           \in [Node -> Offices]
         /\ [office EXCEPT ![n].writes = @ \union {Latest(n)}] \in [Node -> Offices]
         /\ \A stamp : [office EXCEPT ![n].writes = @ \ {stamp}] \in [Node -> Offices]
<1> office \in [Node -> Offices] /\ NoOffice \in Offices
  BY NoOfficeType DEF TypeOK
<1>1. [office EXCEPT ![n] = NoOffice] \in [Node -> Offices]
  OBVIOUS
<1>2. ASSUME NEW f \in Node
      PROVE  [office EXCEPT ![f] = NoOffice, ![n].votes = @ \union {f}] \in [Node -> Offices]
  <2> DEFINE dropped == [office EXCEPT ![f] = NoOffice]
  <2>1. dropped \in [Node -> Offices] /\ dropped[n] \in Offices
    OBVIOUS
  <2>2. \A o \in Offices : [o EXCEPT !.votes = office[n].votes \union {f}] \in Offices
    BY DEF Offices
  <2>3. [dropped EXCEPT ![n].votes = office[n].votes \union {f}] \in [Node -> Offices]
    BY <2>1, <2>2
  <2> QED
    BY <2>3
<1>3. [NoOffice EXCEPT !.dispatch = Earliest(n), !.votes = {n}] \in Offices
  BY ReadingBounds DEF Offices
<1>4. \A contact \in [Node -> Nat], o \in Offices : [o EXCEPT !.contact = contact] \in Offices
  BY DEF Offices
<1>5. \A o \in Offices : [o EXCEPT !.writes = @ \union {Latest(n)}] \in Offices
  BY ReadingBounds DEF Offices
<1>6. \A o \in Offices : \A stamp : [o EXCEPT !.writes = @ \ {stamp}] \in Offices
  BY DEF Offices
<1> QED
  BY <1>1, <1>2, <1>3, <1>4, <1>5, <1>6

LEMMA RequestType ==
  ASSUME TypeOK, NEW n \in Node, Dispatch(n)
  PROVE  /\ requests' \subseteq Requests
         /\ \A r \in requests' : r \in requests \/ (r.sent <= now /\ r.term = term[n])
<1>1. Request(n) \in Requests /\ Request(n).sent <= now /\ Request(n).term = term[n]
  BY ReadingBounds DEF Request, Requests, TypeOK
<1> QED
  BY <1>1 DEF Dispatch, TypeOK

LEMMA NextType == TypeOK /\ TermsOpened /\ [Next]_vars => TypeOK' /\ TermsOpened'
<1> SUFFICES ASSUME TypeOK, TermsOpened, [Next]_vars PROVE TypeOK' /\ TermsOpened'
  OBVIOUS
<1> USE DEF clocks, member, messages, history
<1>1. CASE Tick
  BY <1>1, TimeAssumption DEF Tick, TypeOK, TermsOpened, Start
<1>2. ASSUME NEW n \in Node, NEW s \in Skews, Step(n, s) PROVE TypeOK' /\ TermsOpened'
  BY <1>2, BoundsAssumption DEF Step, TypeOK, TermsOpened
<1>3. ASSUME NEW n \in Node, Campaign(n) PROVE TypeOK' /\ TermsOpened'
  <2>1. campaigns + 1 \in Terms /\ term[n] + 1 \in Terms /\ term[n] + 1 <= campaigns + 1
    BY <1>3, BoundsAssumption DEF Campaign, TypeOK, TermsOpened, Terms
  <2>2. \A m \in Node : term[m] <= campaigns + 1
    BY BoundsAssumption DEF TypeOK, TermsOpened, Terms
  <2>3. \A r \in requests : r.term <= campaigns + 1
    BY BoundsAssumption DEF TypeOK, TermsOpened, Terms, Requests
  <2> QED
    BY <1>3, <2>1, <2>2, <2>3, OfficeChangeType DEF Campaign, TypeOK, TermsOpened
<1>4. ASSUME NEW f \in Node, NEW n \in Node, Vote(f, n) PROVE TypeOK' /\ TermsOpened'
  BY <1>4, OfficeChangeType, ReadingBounds DEF Vote, TypeOK, TermsOpened
<1>5. ASSUME NEW n \in Node, Win(n) PROVE TypeOK' /\ TermsOpened'
  BY <1>5, OfficeType, RequestType DEF Win, TypeOK, TermsOpened
<1>6. ASSUME NEW n \in Node, WinTooLate(n) \/ GiveUp(n) PROVE TypeOK' /\ TermsOpened'
  <2>1. LeaseFromDispatch(n) \in Nat
    BY OfficeType
  <2>2. [office EXCEPT ![n] = NoOffice] \in [Node -> Offices]
    BY OfficeChangeType
  <2>3. CASE WinTooLate(n)
    BY <2>1, <2>2, <2>3 DEF WinTooLate, BecomeFollower, TypeOK, TermsOpened
  <2>4. CASE GiveUp(n)
    BY <2>2, <2>4 DEF GiveUp, BecomeFollower, TypeOK, TermsOpened
  <2> QED
    BY <1>6, <2>3, <2>4
<1>7. ASSUME NEW n \in Node, NEW m \in Node, LearnTerm(n, m) PROVE TypeOK' /\ TermsOpened'
  BY <1>7, OfficeChangeType DEF LearnTerm, BecomeFollower, TypeOK, TermsOpened
<1>8. ASSUME NEW n \in Node, LeaseExpires(n) PROVE TypeOK' /\ TermsOpened'
  <2>1. [office EXCEPT ![n] = NoOffice] \in [Node -> Offices]
    BY OfficeChangeType
  <2>2. office' \in [Node -> Offices] /\ role' \in [Node -> {"Follower", "Candidate", "Leader"}]
    BY <1>8, <2>1 DEF LeaseExpires, BecomeFollower, TypeOK
  <2>3. expiry' \in [Node -> Nat]
    BY <1>8 DEF LeaseExpires, TypeOK, Epoch
  <2> QED
    BY <1>8, <2>2, <2>3 DEF LeaseExpires, TypeOK, TermsOpened
<1>9. ASSUME NEW n \in Node, Flush(n) PROVE TypeOK' /\ TermsOpened'
  BY <1>9, RequestType DEF Flush, TypeOK, TermsOpened
<1>10. ASSUME NEW n \in Node, Heartbeat(n) PROVE TypeOK' /\ TermsOpened'
  <2>1. Promise(n) \in Nat
    BY ReadingBounds DEF Promise, Sooner, TypeOK
  <2>2. Later(promised[term[n]], Promise(n)) \in Nat
    BY <2>1, LaterType DEF TypeOK
  <2> QED
    BY <1>10, <2>2, RequestType DEF Heartbeat, TypeOK, TermsOpened
<1>11. ASSUME NEW f \in Node, NEW r \in requests, Admit(f, r) PROVE TypeOK' /\ TermsOpened'
  <2>1. r \in Requests
    BY DEF TypeOK
  <2>2. Response(f, r) \in Responses
    BY <2>1 DEF Response, Requests, Responses
  <2> QED
    BY <1>11, <2>1, <2>2, ReadingBounds DEF Admit, TypeOK, TermsOpened, Requests
<1>12. ASSUME NEW n \in Node, NEW r \in responses, HandleAcceptResponse(n, r)
       PROVE  TypeOK' /\ TermsOpened'
  <2> DEFINE contact == [office[n].contact EXCEPT ![r.from] = Later(@, r.sent)]
  <2>1. contact \in [Node -> Nat]
    BY ContactType
  <2>2. PICK t \in {contact[f] : f \in Peers(n)} :
          expiry' = [expiry EXCEPT ![n] = Later(@, t + LeaseLength)]
    BY <1>12 DEF HandleAcceptResponse
  <2>3. t \in Nat
    BY <2>1 DEF Peers
  <2>4. Later(expiry[n], t + LeaseLength) \in Nat
    <3>1. expiry[n] \in Nat /\ t + LeaseLength \in Nat
      BY <2>3, TimeAssumption DEF TypeOK
    <3> QED
      BY <3>1, LaterType
  <2>5. office' = [office EXCEPT ![n].contact = contact]
    BY <1>12 DEF HandleAcceptResponse
  <2>6. office' \in [Node -> Offices]
    BY <2>1, <2>5, OfficeChangeType
  <2>7. expiry' \in [Node -> Nat]
    BY <2>2, <2>4 DEF TypeOK
  <2>8. UNCHANGED <<clocks, campaigns, role, term, messages, history>>
    BY <1>12 DEF HandleAcceptResponse
  <2> QED
    BY <2>6, <2>7, <2>8 DEF TypeOK, TermsOpened
<1>13. ASSUME NEW n \in Node, Write(n) PROVE TypeOK' /\ TermsOpened'
  BY <1>13, OfficeChangeType DEF Write, TypeOK, TermsOpened
<1>14. ASSUME NEW n \in Node, NEW stamp \in office[n].writes, Answer(n, stamp)
       PROVE  TypeOK' /\ TermsOpened'
  <2>1. Later(answered, stamp) \in Nat
    BY OfficeType, LaterType DEF TypeOK
  <2> QED
    BY <1>14, <2>1, OfficeChangeType DEF Answer, TypeOK, TermsOpened
<1>15. CASE UNCHANGED vars
  BY <1>15 DEF vars, TypeOK, TermsOpened
<1> QED
  BY <1>1, <1>2, <1>3, <1>4, <1>5, <1>6, <1>7, <1>8, <1>9, <1>10, <1>11, <1>12, <1>13, <1>14,
     <1>15 DEF Next

\* Types, for every group, uncertainty, length of the lease and value of the bounds.
THEOREM TypeCorrect == Spec => []TypeOK
<1>1. Init => TypeOK /\ TermsOpened
  BY InitType
<1>2. TypeOK /\ TermsOpened /\ [Next]_vars => (TypeOK /\ TermsOpened)'
  BY NextType
<1> QED
  BY <1>1, <1>2, PTL DEF Spec

LEMMA TypeKept == ASSUME IInv, [Next]_vars PROVE TypeOK' /\ TermsOpened'
BY NextType DEF IInv

-----------------------------------------------------------------------------
(* What a step can do to the parts that the invariant is about.            *)

LEMMA TermsGrow ==
  ASSUME TypeOK, [Next]_vars, NEW f \in Node
  PROVE  term[f] <= term'[f] /\ term[f] \in Nat /\ term'[f] \in Nat
<1> USE DEF clocks, member, messages, history
<1>1. term[f] \in Nat
  BY OfficeType
<1>2. CASE \E n \in Node : Campaign(n)
  BY <1>1, <1>2 DEF Campaign, TypeOK
<1>3. CASE \E g, n \in Node : Vote(g, n)
  <2>1. \A n \in Node : term[n] \in Nat
    BY OfficeType
  <2> QED
    BY <1>1, <1>3, <2>1 DEF Vote, TypeOK
<1>4. CASE \E n, m \in Node : LearnTerm(n, m)
  <2>1. \A n \in Node : term[n] \in Nat
    BY OfficeType
  <2> QED
    BY <1>1, <1>4, <2>1 DEF LearnTerm, TypeOK
<1>5. ASSUME NEW g \in Node, NEW r \in requests, Admit(g, r)
      PROVE  term[f] <= term'[f] /\ term'[f] \in Nat
  <2>1. r.term \in Nat
    BY BoundsAssumption DEF TypeOK, Requests, Terms
  <2> QED
    BY <1>1, <1>5, <2>1 DEF Admit, TypeOK
<1>6. CASE UNCHANGED term
  BY <1>1, <1>6
<1> QED
  BY <1>1, <1>2, <1>3, <1>4, <1>5, <1>6
  DEF Next, Tick, Step, Win, WinTooLate, GiveUp, LeaseExpires, Flush, Heartbeat,
      HandleAcceptResponse, Write, Answer, vars

LEMMA TimeGoesOn == ASSUME TypeOK, [Next]_vars PROVE now <= now' /\ now' \in Nat
<1> USE DEF clocks, member, messages, history
<1>1. CASE Tick
  BY <1>1 DEF Tick, TypeOK
<1>2. CASE UNCHANGED now
  BY <1>2 DEF TypeOK
<1> QED
  BY <1>1, <1>2
  DEF Next, Step, Campaign, Vote, Win, WinTooLate, GiveUp, LearnTerm, LeaseExpires, Flush,
      Heartbeat, Admit, HandleAcceptResponse, Write, Answer, vars

\* Nobody's lease ends before a time that it covers, unless that is farther off than a
\* lease that is given now.
LEMMA CoversStable ==
  ASSUME IInv, [Next]_vars, NEW f \in Node, NEW e \in Nat, e <= now + LeaseLength, Covers(f, e)
  PROVE  Covers(f, e)'
<1> USE DEF clocks, member, messages, history
<1>a. TypeOK /\ expiry[f] \in Nat /\ now \in Nat /\ LeaseLength \in Nat
  BY TimeAssumption DEF IInv, TypeOK
<1>1. now <= now' /\ now' \in Nat
  BY <1>a, TimeGoesOn
<1>2. CASE expiry[f] <= expiry'[f] /\ expiry'[f] \in Nat
  BY <1>a, <1>1, <1>2 DEF Covers
<1>3. CASE expiry[f] < now
  BY <1>a, <1>1, <1>3 DEF Covers
<1>4. CASE now + LeaseLength <= expiry'[f] /\ expiry'[f] \in Nat
  BY <1>a, <1>1, <1>4 DEF Covers
<1>5. ASSUME NEW n \in Node, After(expiry[n], n) PROVE expiry[n] < now
  BY <1>a, <1>5, ReadingBounds DEF After, TypeOK
<1>6. ASSUME NEW n \in Node, Campaign(n) PROVE Covers(f, e)'
  BY <1>6, <1>a, <1>2 DEF Campaign
<1>7. ASSUME NEW g \in Node, NEW n \in Node, Vote(g, n) PROVE Covers(f, e)'
  BY <1>7, <1>a, <1>2, <1>3, <1>5 DEF Vote, TypeOK
<1>8. ASSUME NEW n \in Node, Win(n) \/ WinTooLate(n) PROVE Covers(f, e)'
  <2>1. expiry[n] < now
    BY <1>8 DEF Win, WinTooLate, IInv, OfficesKept, OfficeOf
  <2> QED
    BY <1>8, <2>1, <1>a, <1>2, <1>3 DEF Win, WinTooLate, TypeOK
<1>9. ASSUME NEW n \in Node, LeaseExpires(n) PROVE Covers(f, e)'
  BY <1>9, <1>a, <1>2, <1>3, <1>5 DEF LeaseExpires, TypeOK
<1>10. ASSUME NEW g \in Node, NEW r \in requests, Admit(g, r) PROVE Covers(f, e)'
  BY <1>10, <1>a, <1>2, <1>4, ReadingBounds DEF Admit, TypeOK
<1>11. ASSUME NEW n \in Node, NEW r \in responses, HandleAcceptResponse(n, r)
       PROVE  Covers(f, e)'
  <2> DEFINE contact == [office[n].contact EXCEPT ![r.from] = Later(@, r.sent)]
  <2>1. contact \in [Node -> Nat]
    BY <1>a, ContactType
  <2>2. PICK t \in {contact[h] : h \in Peers(n)} :
          expiry' = [expiry EXCEPT ![n] = Later(@, t + LeaseLength)]
    BY <1>11 DEF HandleAcceptResponse
  <2>3. t + LeaseLength \in Nat /\ expiry[n] \in Nat
    BY <1>a, <2>1 DEF Peers, TypeOK
  <2>4. expiry[n] <= Later(expiry[n], t + LeaseLength) /\ Later(expiry[n], t + LeaseLength) \in Nat
    BY <2>3, LaterType
  <2> QED
    BY <2>2, <2>4, <1>a, <1>2 DEF TypeOK
<1>12. CASE UNCHANGED expiry
  BY <1>a, <1>2, <1>12
<1> QED
  BY <1>6, <1>7, <1>8, <1>9, <1>10, <1>11, <1>12
  DEF Next, Tick, Step, GiveUp, LearnTerm, Flush, Heartbeat, Write, Answer, vars

\* A vote that was there before, and one that the step gives: by a member whose lease is
\* over, to an office of a later term than its own.
OldVote(n, f) == /\ f \in office[n].votes
                 /\ term'[n] = term[n]
                 /\ office'[n].dispatch = office[n].dispatch

NewVote(n, f) == /\ expiry[f] < now
                 /\ term[f] < term'[n]
                 /\ term'[f] = term'[n]
                 /\ f # n => office'[n].dispatch + LeaseLength <= expiry'[f]
                 /\ office'[n].writes = {}
                 /\ now' = now
                 /\ responses' = responses
                 /\ \A k \in Node \ {n} : f \in office'[k].votes => k # f /\ OldVote(k, f)

LEMMA CampaignVotes ==
  ASSUME IInv, NEW c \in Node, Campaign(c), NEW n \in Node, NEW f \in office'[n].votes
  PROVE  IF n = c THEN NewVote(n, f) ELSE OldVote(n, f)
<1> USE DEF clocks, member, messages, history
<1>a. TypeOK
  BY DEF IInv
<1>1. /\ expiry[c] < now
      /\ term'[c] = term[c] + 1 /\ \A k \in Node \ {c} : term'[k] = term[k]
      /\ \A k \in Node \ {c} : office'[k] = office[k]
      /\ office'[c].votes = {c} /\ office'[c].dispatch = Earliest(c) /\ office'[c].writes = {}
      /\ now' = now /\ responses' = responses /\ term[c] \in Nat
  <2>1. expiry[c] < now /\ term[c] \in Nat
    BY <1>a, OfficeType, ReadingBounds DEF Campaign, After, TypeOK
  <2>2. \A k \in Node \ {c} : office'[k] = office[k]
    BY <1>a DEF Campaign, TypeOK
  <2>3. office'[c] = [NoOffice EXCEPT !.dispatch = Earliest(c), !.votes = {c}]
    BY <1>a DEF Campaign, TypeOK
  <2>4. /\ office'[c].votes = {c} /\ office'[c].dispatch = Earliest(c)
        /\ office'[c].writes = {}
    BY <2>3 DEF NoOffice
  <2> QED
    BY <1>a, <2>1, <2>2, <2>4 DEF Campaign, TypeOK
<1>2. CASE n # c
  BY <1>1, <1>2 DEF OldVote
<1>3. CASE n = c
  <2>1. f = c
    BY <1>1, <1>3
  <2>2. \A k \in Node \ {n} : f \in office'[k].votes => k # f /\ OldVote(k, f)
    BY <1>1, <1>3, <2>1 DEF OldVote
  <2> QED
    BY <1>1, <1>3, <2>1, <2>2 DEF NewVote
<1> QED
  BY <1>2, <1>3

LEMMA VoteVotes ==
  ASSUME IInv, NEW g \in Node, NEW c \in Node, Vote(g, c),
         NEW n \in Node, NEW f \in office'[n].votes
  PROVE  IF n = c /\ f = g THEN NewVote(n, f) ELSE OldVote(n, f)
<1> USE DEF clocks, member, messages, history
<1>a. TypeOK
  BY DEF IInv
<1>1. expiry[g] < now /\ term[g] \in Nat /\ term[c] \in Nat /\ term[g] < term[c] /\ g # c
  BY <1>a, OfficeType, ReadingBounds DEF Vote, After, TypeOK
<1>2. /\ office'[g] = NoOffice
      /\ office'[c] = [office[c] EXCEPT !.votes = office[c].votes \union {g}]
      /\ \A k \in Node \ {g, c} : office'[k] = office[k]
      /\ term'[g] = term[c]
      /\ \A k \in Node \ {g} : term'[k] = term[k]
      /\ expiry'[g] = Extended(g)
      /\ now' = now /\ responses' = responses
  BY <1>1, <1>a DEF Vote, TypeOK
<1>3. /\ office'[g].votes = {}
      /\ office'[c].votes = office[c].votes \union {g}
      /\ office'[c].dispatch = office[c].dispatch
      /\ office'[c].writes = {}
  <2>1. office[c].writes = {}
    BY DEF IInv, OfficesKept, OfficeOf, Vote
  <2>2. office[c] \in Offices
    BY <1>a, OfficeType
  <2> QED
    BY <1>2, <2>1, <2>2, NoOfficeType DEF Offices
<1>4. \A k \in Node : f \in office'[k].votes /\ ~(k = c /\ f = g) => k # g /\ OldVote(k, f)
  BY <1>1, <1>2, <1>3 DEF OldVote
<1>5. CASE n = c /\ f = g
  <2>1. \A k \in Node \ {n} : f \in office'[k].votes => k # f /\ OldVote(k, f)
    BY <1>4, <1>5
  <2>2. office'[n].dispatch + LeaseLength <= expiry'[f]
    <3>1. office[c].dispatch <= now /\ office[c].dispatch \in Nat /\ now \in Nat
      BY <1>a, OfficeType DEF IInv, OfficesKept, OfficeOf, TypeOK
    <3>2. now + LeaseLength <= Extended(g) /\ Extended(g) \in Nat /\ LeaseLength \in Nat
      BY <1>a, ReadingBounds
    <3>3. office'[n].dispatch = office[c].dispatch /\ expiry'[f] = Extended(g)
      BY <1>2, <1>3, <1>5
    <3>4. office[c].dispatch + LeaseLength <= Extended(g)
      BY <3>1, <3>2
    <3> QED
      BY <3>3, <3>4
  <2> QED
    BY <1>1, <1>2, <1>3, <1>5, <2>1, <2>2 DEF NewVote
<1> QED
  BY <1>4, <1>5

\* Every other step only drops offices, or leaves their votes as they are.
LEMMA OtherVotes ==
  ASSUME IInv, [Next]_vars, ~(\E c \in Node : Campaign(c)), ~(\E g, c \in Node : Vote(g, c)),
         NEW n \in Node, NEW f \in office'[n].votes
  PROVE  OldVote(n, f)
<1> USE DEF clocks, member, messages, history
<1>a. TypeOK /\ office[n] \in Offices
  BY OfficeType DEF IInv
<1>1. CASE UNCHANGED <<office, term>>
  BY <1>1 DEF OldVote
<1>2. ASSUME NEW c \in Node, UNCHANGED term, office' = [office EXCEPT ![c] = NoOffice]
      PROVE  OldVote(n, f)
  BY <1>2, <1>a, NoOfficeType DEF OldVote, TypeOK
<1>3. ASSUME NEW c \in Node, NEW m \in Node, LearnTerm(c, m) PROVE OldVote(n, f)
  BY <1>3, <1>a, NoOfficeType DEF LearnTerm, BecomeFollower, OldVote, TypeOK
<1>4. ASSUME NEW g \in Node, NEW r \in requests, Admit(g, r) PROVE OldVote(n, f)
  <2>1. office[g].votes = {} /\ office' = office
    BY <1>4, NoOfficeType DEF Admit, IInv, OfficesKept, OfficeOf
  <2> QED
    BY <1>4, <1>a, <2>1 DEF Admit, OldVote, TypeOK
<1>5. ASSUME NEW c \in Node, NEW r \in responses, HandleAcceptResponse(c, r)
      PROVE  OldVote(n, f)
  <2> DEFINE contact == [office[c].contact EXCEPT ![r.from] = Later(@, r.sent)]
  <2>1. office' = [office EXCEPT ![c].contact = contact] /\ UNCHANGED term
    BY <1>5 DEF HandleAcceptResponse
  <2> HIDE DEF contact
  <2>2. office'[n].votes = office[n].votes /\ office'[n].dispatch = office[n].dispatch
    BY <1>a, <2>1 DEF TypeOK, Offices
  <2> QED
    BY <2>1, <2>2 DEF OldVote
<1>6. ASSUME NEW c \in Node, NEW w, UNCHANGED term, office' = [office EXCEPT ![c].writes = w]
      PROVE  OldVote(n, f)
  BY <1>6, <1>a DEF OldVote, TypeOK, Offices
<1> QED
  BY <1>1, <1>2, <1>3, <1>4, <1>5, <1>6
  DEF Next, Tick, Step, Win, WinTooLate, GiveUp, LeaseExpires, BecomeFollower, Flush,
      Heartbeat, Write, Answer, vars

LEMMA VoteSteps ==
  ASSUME IInv, [Next]_vars, NEW n \in Node, NEW f \in office'[n].votes
  PROVE  OldVote(n, f) \/ NewVote(n, f)
BY CampaignVotes, VoteVotes, OtherVotes

\* Only a client write adds to an office's writes.
LEMMA WritesSteps ==
  ASSUME IInv, [Next]_vars, NEW m \in Node, ~(\E n \in Node : Write(n))
  PROVE  office'[m].writes \subseteq office[m].writes
<1> USE DEF clocks, member, messages, history
<1>a. TypeOK /\ office[m] \in Offices
  BY OfficeType DEF IInv, TypeOK
<1>1. CASE UNCHANGED office
  BY <1>1
<1>2. ASSUME NEW c \in Node, office' = [office EXCEPT ![c] = NoOffice]
      PROVE  office'[m].writes \subseteq office[m].writes
  BY <1>2, <1>a, NoOfficeType DEF TypeOK
<1>3. ASSUME NEW c \in Node, Campaign(c)
      PROVE  office'[m].writes \subseteq office[m].writes
  BY <1>3, <1>a, NoOfficeType DEF Campaign, TypeOK, Offices
<1>4. ASSUME NEW g \in Node, NEW c \in Node, Vote(g, c)
      PROVE  office'[m].writes \subseteq office[m].writes
  <2>1. m = g => office'[m] = NoOffice \/ g = c
    BY <1>4, <1>a DEF Vote, TypeOK
  <2>2. g # c
    BY <1>4, <1>a, OfficeType DEF Vote
  <2>3. m # g => office'[m].writes = office[m].writes
    BY <1>4, <1>a DEF Vote, TypeOK, Offices
  <2> QED
    BY <2>1, <2>2, <2>3, NoOfficeType
<1>5. ASSUME NEW c \in Node, NEW r \in responses, HandleAcceptResponse(c, r)
      PROVE  office'[m].writes \subseteq office[m].writes
  <2> DEFINE contact == [office[c].contact EXCEPT ![r.from] = Later(@, r.sent)]
  <2>1. office' = [office EXCEPT ![c].contact = contact]
    BY <1>5 DEF HandleAcceptResponse
  <2> HIDE DEF contact
  <2> QED
    BY <1>a, <2>1 DEF TypeOK, Offices
<1>6. ASSUME NEW c \in Node, NEW s \in office[c].writes, Answer(c, s)
      PROVE  office'[m].writes \subseteq office[m].writes
  BY <1>6, <1>a DEF Answer, TypeOK, Offices
<1> QED
  BY <1>1, <1>2, <1>3, <1>4, <1>5, <1>6
  DEF Next, Tick, Step, Win, WinTooLate, GiveUp, LearnTerm, LeaseExpires, BecomeFollower,
      Flush, Heartbeat, Admit, vars

\* What is new in an office is not before now.
LEMMA HorizonSteps ==
  ASSUME IInv, [Next]_vars, NEW m \in Node, NEW x \in Horizon(m)'
  PROVE  x \in Nat /\ \E y \in Horizon(m) : y \in Nat /\ y <= x
<1> USE DEF clocks, member, messages, history
<1>a. TypeOK /\ office[m] \in Offices /\ now \in Nat
  BY OfficeType DEF IInv, TypeOK
<1>1. now <= now' /\ now' \in Nat /\ now \in Horizon(m)
  BY <1>a, TimeGoesOn DEF Horizon
<1>2. CASE x = now'
  BY <1>1, <1>2, <1>a
<1>3. CASE x \in office[m].writes
  BY <1>3, <1>a, OfficeType DEF Horizon
<1>4. ASSUME NEW n \in Node, Write(n), x \in office'[m].writes, x \notin office[m].writes
      PROVE  x \in Nat /\ now <= x
  <2>1. x = Latest(n)
    BY <1>4, <1>a DEF Write, TypeOK, Offices
  <2> QED
    BY <2>1, <1>a, ReadingBounds
<1>5. ~(\E n \in Node : Write(n)) => office'[m].writes \subseteq office[m].writes
  BY WritesSteps
<1>6. CASE x \in office'[m].writes /\ x \notin office[m].writes
  BY <1>1, <1>4, <1>5, <1>6, <1>a
<1> QED
  BY <1>2, <1>3, <1>6 DEF Horizon

\* A response that is new echoes a request of its sender's own term or of a later one.
LEMMA ResponseSteps ==
  ASSUME IInv, [Next]_vars, NEW r \in responses'
  PROVE  \/ r \in responses
         \/ /\ r.from \in Node /\ r.sent \in Nat /\ r.term \in Nat
            /\ term[r.from] <= r.term /\ term'[r.from] = r.term
            /\ r.sent <= now /\ now' = now
            /\ r.sent + LeaseLength <= expiry'[r.from]
<1> USE DEF clocks, member, messages, history
<1>a. TypeOK /\ now \in Nat /\ LeaseLength \in Nat
  BY TimeAssumption DEF IInv, TypeOK
<1>1. ASSUME NEW g \in Node, NEW q \in requests, Admit(g, q), r \notin responses
      PROVE  /\ r.from \in Node /\ r.sent \in Nat /\ r.term \in Nat
             /\ term[r.from] <= r.term /\ term'[r.from] = r.term
             /\ r.sent <= now /\ now' = now
             /\ r.sent + LeaseLength <= expiry'[r.from]
  <2>1. r = Response(g, q)
    BY <1>1 DEF Admit
  <2>2. r.from = g /\ r.term = q.term /\ r.sent = q.sent
    BY <2>1 DEF Response
  <2>3. q.sent \in Nat /\ q.term \in Nat /\ q.sent <= now
    BY <1>a, BoundsAssumption DEF TypeOK, Requests, Terms, IInv, ResponsesCovered
  <2>4. expiry'[g] = Extended(g) /\ term'[g] = q.term /\ now' = now /\ term[g] <= q.term
    BY <1>1, <1>a DEF Admit, TypeOK
  <2>5. q.sent + LeaseLength <= Extended(g)
    BY <1>a, <2>3, ReadingBounds
  <2> QED
    BY <2>2, <2>3, <2>4, <2>5
<1>2. CASE UNCHANGED responses
  BY <1>2
<1> QED
  BY <1>1, <1>2
  DEF Next, Tick, Step, Campaign, Vote, Win, WinTooLate, GiveUp, LearnTerm, LeaseExpires,
      Flush, Heartbeat, HandleAcceptResponse, Write, Answer, vars

LEMMA ResponsesGrow == ASSUME [Next]_vars PROVE responses \subseteq responses'
BY DEF clocks, member, messages, history, Next, Tick, Step, Campaign, Vote, Win, WinTooLate,
       GiveUp, LearnTerm, LeaseExpires, Flush, Heartbeat, Admit, HandleAcceptResponse, Write,
       Answer, vars

-----------------------------------------------------------------------------
(* The parts that speak of votes and responses are kept.                   *)

LEMMA VotesCoveredKept == ASSUME IInv, [Next]_vars PROVE VotesCovered'
<1> SUFFICES ASSUME NEW n \in Node, NEW f \in office'[n].votes, TypeOK, TypeOK'
    PROVE  /\ term'[n] <= term'[f]
           /\ f # n => Covers(f, office[n].dispatch + LeaseLength)'
  BY TypeKept DEF VotesCovered, IInv
<1>1. f \in Node /\ term[f] \in Nat /\ term'[f] \in Nat /\ term[f] <= term'[f] /\ term[n] \in Nat
  <2>1. f \in Node
    BY DEF TypeOK, Offices
  <2> QED
    BY <2>1, TermsGrow
<1>2. CASE OldVote(n, f)
  <2>1. term[n] <= term[f] /\ (f # n => Covers(f, office[n].dispatch + LeaseLength))
    BY <1>2 DEF OldVote, IInv, VotesCovered
  <2>2. /\ office[n].dispatch + LeaseLength \in Nat
        /\ office[n].dispatch + LeaseLength <= now + LeaseLength
    BY OfficeType, TimeAssumption DEF IInv, OfficesKept, OfficeOf, TypeOK
  <2>3. f # n => Covers(f, office[n].dispatch + LeaseLength)'
    <3> DEFINE e == office[n].dispatch + LeaseLength
    <3>1. f # n => Covers(f, e) /\ e \in Nat /\ e <= now + LeaseLength
      BY <2>1, <2>2
    <3>2. e' = e
      BY <1>2 DEF OldVote
    <3>3. f # n => e' < now' \/ e' <= expiry'[f]
      <4> HIDE DEF e
      <4>1. f # n => e < now' \/ e <= expiry'[f]
        BY <1>1, <3>1, CoversStable DEF Covers
      <4> QED
        BY <3>2, <4>1
    <3> QED
      BY <3>3 DEF Covers
  <2> QED
    BY <1>1, <1>2, <2>1, <2>3 DEF OldVote
<1>3. CASE NewVote(n, f)
  BY <1>1, <1>3 DEF NewVote, Covers
<1> QED
  BY <1>2, <1>3, VoteSteps

LEMMA ResponsesCoveredKept == ASSUME IInv, [Next]_vars PROVE ResponsesCovered'
<1>a. TypeOK /\ TypeOK' /\ now \in Nat /\ LeaseLength \in Nat
  BY TypeKept, TimeAssumption DEF IInv, TypeOK
<1>b. now <= now' /\ now' \in Nat
  BY <1>a, TimeGoesOn
<1>1. ASSUME NEW r \in requests' PROVE r.sent <= now'
  <2>1. ASSUME NEW n \in Node, Dispatch(n), now' = now PROVE r.sent <= now'
    BY <2>1, <1>a, RequestType DEF IInv, ResponsesCovered
  <2>2. CASE r \in requests
    <3>1. r.sent <= now /\ r.sent \in Nat
      BY <1>a, <2>2 DEF IInv, ResponsesCovered, TypeOK, Requests
    <3> QED
      BY <3>1, <1>a, <1>b
  <2>3. (\E n \in Node : Win(n) \/ Flush(n) \/ Heartbeat(n)) \/ UNCHANGED requests
    BY DEF clocks, member, messages, history, Next, Tick, Step, Campaign, Vote, WinTooLate,
           GiveUp, LearnTerm, LeaseExpires, Admit, HandleAcceptResponse, Write, Answer, vars
  <2> QED
    BY <2>1, <2>2, <2>3 DEF Win, Flush, Heartbeat, clocks
<1>2. ASSUME NEW r \in responses'
      PROVE  /\ r.sent <= now' /\ r.term <= term'[r.from]
             /\ Covers(r.from, r.sent + LeaseLength)'
  <2>1. CASE r \in responses
    <3>1. /\ r.from \in Node /\ r.sent \in Nat /\ r.term \in Nat
          /\ r.sent + LeaseLength \in Nat
      BY <2>1, <1>a, ResponseType
    <3>2. /\ r.sent <= now /\ r.term <= term[r.from]
          /\ Covers(r.from, r.sent + LeaseLength)
      BY <2>1 DEF IInv, ResponsesCovered
    <3>3. r.sent + LeaseLength <= now + LeaseLength
      BY <3>1, <3>2, <1>a
    <3>4. Covers(r.from, r.sent + LeaseLength)'
      BY <3>1, <3>2, <3>3, CoversStable
    <3>5. term[r.from] <= term'[r.from] /\ term[r.from] \in Nat /\ term'[r.from] \in Nat
      BY <3>1, <1>a, TermsGrow
    <3> QED
      BY <3>1, <3>2, <3>4, <3>5, <1>a, <1>b
  <2>2. CASE r \notin responses
    BY <2>2, ResponseSteps, <1>a DEF Covers
  <2> QED
    BY <2>1, <2>2
<1> QED
  BY <1>1, <1>2 DEF ResponsesCovered

LEMMA OneVotePerTermKept == ASSUME IInv, [Next]_vars PROVE OneVotePerTerm'
<1>a. TypeOK /\ TypeOK'
  BY TypeKept DEF IInv
<1>1. ASSUME NEW n \in Node, NEW m \in Node, n # m, NEW f \in Node,
             NewVote(n, f), f \in office'[m].votes, term'[n] = term'[m]
      PROVE  FALSE
  <2>1. OldVote(m, f) /\ term[f] < term'[n]
    BY <1>1 DEF NewVote
  <2>2. term[m] <= term[f] /\ term'[m] = term[m]
    BY <2>1 DEF OldVote, IInv, VotesCovered
  <2>3. term[m] \in Nat /\ term[f] \in Nat
    BY <1>a, OfficeType
  <2> QED
    BY <1>1, <2>1, <2>2, <2>3
<1>2. ASSUME NEW n \in Node, NEW m \in Node, n # m, term'[n] = term'[m], NEW f \in Node,
             f \in office'[n].votes, f \in office'[m].votes
      PROVE  FALSE
  <2>1. OldVote(n, f) /\ OldVote(m, f)
    BY <1>1, <1>2, VoteSteps
  <2> QED
    BY <1>2, <2>1 DEF OldVote, IInv, OneVotePerTerm
<1>3. \A n \in Node : office'[n].votes \subseteq Node
  BY <1>a DEF TypeOK, Offices
<1> QED
  BY <1>2, <1>3 DEF OneVotePerTerm

LEMMA SupersededKept == ASSUME IInv, [Next]_vars PROVE Superseded'
<1>a. TypeOK /\ TypeOK' /\ now \in Nat /\ LeaseLength \in Nat
  BY TypeKept, TimeAssumption DEF IInv, TypeOK
<1>b. \A k \in Node : office'[k].votes \subseteq Node /\ term[k] \in Nat /\ term'[k] \in Nat
  <2>1. \A k \in Node : office'[k].votes \subseteq Node
    BY <1>a DEF TypeOK, Offices
  <2>2. \A k \in Node : term[k] \in Nat /\ term'[k] \in Nat
    BY <1>a, TermsGrow
  <2> QED
    BY <2>1, <2>2
<1> SUFFICES ASSUME NEW m \in Node, NEW f \in Node, f \in office'[m].votes, NEW x \in Horizon(m)'
    PROVE  /\ \A r \in responses' :
                r.from = f /\ r.term < term'[m] => r.sent + LeaseLength < x
           /\ \A n \in Node : f \in office'[n].votes /\ term'[n] < term'[m] =>
                office'[n].dispatch + LeaseLength < x
  BY <1>b DEF Superseded, LeaseFromDispatch
<1>1. PICK y \in Horizon(m) : x \in Nat /\ y \in Nat /\ y <= x
  BY HorizonSteps
<1>2. ASSUME OldVote(m, f), NEW r \in responses', r.from = f, r.term < term'[m]
      PROVE  r.sent + LeaseLength < x
  <2>1. term'[m] = term[m] /\ term[m] <= term[f]
    BY <1>2 DEF OldVote, IInv, VotesCovered
  <2>2. r \in responses
    BY <1>2, <2>1, <1>b, ResponseSteps
  <2>3. r.sent + LeaseLength < y
    BY <1>2, <2>1, <2>2 DEF OldVote, IInv, Superseded
  <2>4. r.sent + LeaseLength \in Nat
    BY <2>2, <1>a, ResponseType
  <2> QED
    BY <1>1, <2>3, <2>4
<1>3. ASSUME OldVote(m, f), NEW n \in Node, f \in office'[n].votes, term'[n] < term'[m]
      PROVE  office'[n].dispatch + LeaseLength < x
  <2>1. term'[m] = term[m] /\ term[m] <= term[f]
    BY <1>3 DEF OldVote, IInv, VotesCovered
  <2>2. ~NewVote(n, f)
    BY <1>3, <2>1, <1>b DEF NewVote
  <2>3. OldVote(n, f)
    BY <1>3, <2>2, VoteSteps
  <2>4. office[n].dispatch + LeaseLength < y
    BY <1>3, <2>1, <2>3 DEF OldVote, IInv, Superseded, LeaseFromDispatch
  <2>5. office[n].dispatch + LeaseLength \in Nat
    BY <1>a, OfficeType
  <2> QED
    BY <1>1, <2>3, <2>4, <2>5 DEF OldVote
<1>4. ASSUME NewVote(m, f) PROVE x = now /\ expiry[f] < now /\ expiry[f] \in Nat
  BY <1>4, <1>a DEF NewVote, Horizon, TypeOK
<1>5. ASSUME NewVote(m, f), NEW r \in responses', r.from = f
      PROVE  r.sent + LeaseLength < x
  <2>1. r \in responses /\ Covers(f, r.sent + LeaseLength)
    BY <1>5 DEF NewVote, IInv, ResponsesCovered
  <2>2. r.sent + LeaseLength \in Nat
    BY <2>1, <1>a, ResponseType
  <2> QED
    BY <1>4, <1>5, <2>1, <2>2, <1>a DEF Covers
<1>6. ASSUME NewVote(m, f), NEW n \in Node, f \in office'[n].votes, term'[n] < term'[m]
      PROVE  office'[n].dispatch + LeaseLength < x
  <2>1. n # m
    BY <1>6, <1>b
  <2>2. n # f /\ OldVote(n, f)
    BY <1>6, <2>1 DEF NewVote
  <2>3. Covers(f, office[n].dispatch + LeaseLength) /\ office'[n].dispatch = office[n].dispatch
    BY <2>2 DEF OldVote, IInv, VotesCovered
  <2>4. office[n].dispatch + LeaseLength \in Nat
    BY <1>a, OfficeType
  <2> QED
    BY <1>4, <1>6, <2>3, <2>4, <1>a DEF Covers
<1> QED
  BY <1>2, <1>3, <1>5, <1>6, VoteSteps

-----------------------------------------------------------------------------
(* The parts that speak of offices are kept.                               *)

LEMMA ContactsRealKept == ASSUME IInv, [Next]_vars PROVE ContactsReal'
<1> USE DEF clocks, member, messages, history
<1>a. TypeOK /\ responses \subseteq responses'
  BY ResponsesGrow DEF IInv
<1> SUFFICES ASSUME NEW n \in Node, NEW f \in Node
    PROVE  \/ office'[n].contact[f] = Epoch
           \/ [from |-> f, to |-> n, term |-> term'[n], sent |-> office'[n].contact[f]]
                \in responses'
  BY DEF ContactsReal
<1>b. office[n] \in Offices
  BY <1>a, OfficeType
<1>1. CASE office'[n].contact = office[n].contact /\ term'[n] = term[n]
  BY <1>1, <1>a DEF IInv, ContactsReal
<1>2. CASE office'[n].contact = [g \in Node |-> Epoch]
  BY <1>2
<1>3. ASSUME NEW c \in Node, UNCHANGED term, office' = [office EXCEPT ![c] = NoOffice]
      PROVE  office'[n].contact = office[n].contact \/ office'[n].contact = [g \in Node |-> Epoch]
  BY <1>3, <1>a, NoOfficeType DEF TypeOK
<1>4. ASSUME NEW c \in Node, NEW m \in Node, LearnTerm(c, m)
      PROVE  \/ office'[n].contact = office[n].contact /\ term'[n] = term[n]
             \/ office'[n].contact = [g \in Node |-> Epoch]
  BY <1>4, <1>a, NoOfficeType DEF LearnTerm, BecomeFollower, TypeOK
<1>5. ASSUME NEW c \in Node, Campaign(c)
      PROVE  \/ office'[n].contact = office[n].contact /\ term'[n] = term[n]
             \/ office'[n].contact = [g \in Node |-> Epoch]
  <2>1. CASE n = c
    BY <1>5, <2>1, <1>a DEF Campaign, TypeOK, NoOffice
  <2>2. CASE n # c
    BY <1>5, <2>2, <1>a DEF Campaign, TypeOK
  <2> QED
    BY <2>1, <2>2
<1>6. ASSUME NEW g \in Node, NEW c \in Node, Vote(g, c)
      PROVE  \/ office'[n].contact = office[n].contact /\ term'[n] = term[n]
             \/ office'[n].contact = [h \in Node |-> Epoch]
  <2>1. g # c
    BY <1>6, <1>a, OfficeType DEF Vote
  <2>2. n = g => office'[n] = NoOffice
    BY <1>6, <1>a, <2>1 DEF Vote, TypeOK
  <2>3. n # g => office'[n].contact = office[n].contact /\ term'[n] = term[n]
    BY <1>6, <1>a, <1>b DEF Vote, TypeOK, Offices
  <2> QED
    BY <2>2, <2>3, NoOfficeType
<1>7. ASSUME NEW g \in Node, NEW r \in requests, Admit(g, r)
      PROVE  \/ office'[n].contact = office[n].contact /\ term'[n] = term[n]
             \/ office'[n].contact = [h \in Node |-> Epoch]
  <2>1. office[g].contact = [h \in Node |-> Epoch] /\ office' = office
    BY <1>7, NoOfficeType DEF Admit, IInv, OfficesKept, OfficeOf
  <2> QED
    BY <1>7, <1>a, <2>1 DEF Admit, TypeOK
<1>8. ASSUME NEW c \in Node, NEW r \in responses, HandleAcceptResponse(c, r)
      PROVE  \/ office'[n].contact[f] = Epoch
             \/ [from |-> f, to |-> n, term |-> term'[n], sent |-> office'[n].contact[f]]
                  \in responses'
  <2> DEFINE contact == [office[c].contact EXCEPT ![r.from] = Later(@, r.sent)]
  <2>1. office' = [office EXCEPT ![c].contact = contact]
        /\ UNCHANGED <<term, responses>> /\ r.to = c /\ r.term = term[c]
    BY <1>8 DEF HandleAcceptResponse
  <2>2. office[c].contact \in [Node -> Nat] /\ r.from \in Node /\ r.sent \in Nat
    BY <1>a, OfficeType, ResponseType
  <2>3. contact[f] = office[c].contact[f] \/ (f = r.from /\ contact[f] = r.sent)
    BY <2>2, LaterType
  <2>4. r = [from |-> r.from, to |-> r.to, term |-> r.term, sent |-> r.sent]
    BY <1>a DEF TypeOK, Responses
  <2> HIDE DEF contact
  <2>5. office'[n].contact = IF n = c THEN contact ELSE office[n].contact
    BY <2>1, <1>a, <1>b DEF TypeOK, Offices
  <2>6. CASE office'[n].contact[f] = office[n].contact[f]
    BY <2>1, <2>6 DEF IInv, ContactsReal
  <2>7. CASE n = c /\ f = r.from /\ contact[f] = r.sent
    BY <2>1, <2>4, <2>5, <2>7
  <2> QED
    BY <2>3, <2>5, <2>6, <2>7
<1>9. ASSUME NEW c \in Node, NEW w, UNCHANGED term, office' = [office EXCEPT ![c].writes = w]
      PROVE  office'[n].contact = office[n].contact
  BY <1>9, <1>a, <1>b DEF TypeOK, Offices
<1>10. CASE UNCHANGED <<office, term>>
  BY <1>1, <1>10
<1> QED
  BY <1>1, <1>2, <1>3, <1>4, <1>5, <1>6, <1>7, <1>8, <1>9, <1>10
  DEF Next, Tick, Step, Win, WinTooLate, GiveUp, LeaseExpires, BecomeFollower, Flush,
      Heartbeat, Write, Answer, vars

\* An office that a step leaves alone.
LEMMA OfficeStays ==
  ASSUME IInv, [Next]_vars, NEW n \in Node, role'[n] = role[n], office'[n] = office[n],
         role[n] = "Candidate" => expiry'[n] = expiry[n]
  PROVE  OfficeOf(n)'
<1>1. OfficeOf(n) /\ TypeOK
  BY DEF IInv, OfficesKept
<1>2. /\ now <= now' /\ now \in Nat /\ now' \in Nat
      /\ office[n].dispatch \in Nat /\ expiry[n] \in Nat
  BY <1>1, OfficeType, TimeGoesOn DEF TypeOK
<1> QED
  BY <1>1, <1>2 DEF OfficeOf

LEMMA OfficeDropped ==
  ASSUME IInv, [Next]_vars, NEW n \in Node, role'[n] = "Follower", office'[n] = NoOffice
  PROVE  OfficeOf(n)'
<1>1. now' \in Nat
  BY TimeGoesOn DEF IInv
<1> QED
  BY <1>1, NoOfficeType DEF OfficeOf, Epoch

LEMMA OfficesKeptKept == ASSUME IInv, [Next]_vars PROVE OfficesKept'
<1> USE DEF clocks, member, messages, history
<1> SUFFICES ASSUME NEW k \in Node PROVE OfficeOf(k)'
  BY DEF OfficesKept
<1>a. TypeOK /\ OfficeOf(k) /\ office[k] \in Offices /\ now \in Nat
  BY OfficeType DEF IInv, OfficesKept, TypeOK
<1>1. CASE UNCHANGED <<role, office, expiry>>
  BY <1>1, OfficeStays
<1>2. ASSUME NEW c \in Node, Campaign(c) PROVE OfficeOf(k)'
  <2>1. CASE k = c
    <3>1. /\ office'[c] = [NoOffice EXCEPT !.dispatch = Earliest(c), !.votes = {c}]
          /\ role'[c] = "Candidate" /\ expiry' = expiry /\ now' = now
      BY <1>2, <1>a DEF Campaign, TypeOK
    <3>2. expiry[c] < now /\ Earliest(c) <= now
      BY <1>2, <1>a, ReadingBounds DEF Campaign, After, TypeOK
    <3>3. /\ office'[c].votes = {c} /\ office'[c].dispatch = Earliest(c)
          /\ office'[c].writes = {} /\ office'[c].contact = [f \in Node |-> Epoch]
      BY <3>1 DEF NoOffice
    <3> QED
      BY <2>1, <3>1, <3>2, <3>3 DEF OfficeOf
  <2>2. CASE k # c
    BY <1>2, <2>2, <1>a, OfficeStays DEF Campaign, TypeOK
  <2> QED
    BY <2>1, <2>2
<1>3. ASSUME NEW g \in Node, NEW c \in Node, Vote(g, c) PROVE OfficeOf(k)'
  <2>1. g # c
    BY <1>3, <1>a, OfficeType DEF Vote
  <2>2. CASE k = g
    BY <1>3, <1>a, <2>1, <2>2, OfficeDropped DEF Vote, TypeOK
  <2>3. CASE k = c
    <3>1. /\ office'[c] = [office[c] EXCEPT !.votes = office[c].votes \union {g}]
          /\ role'[c] = "Candidate" /\ role[c] = "Candidate"
          /\ expiry'[c] = expiry[c] /\ now' = now
      BY <1>3, <1>a, <2>1 DEF Vote, TypeOK
    <3>2. /\ office'[c].votes = office[c].votes \union {g}
          /\ office'[c].dispatch = office[c].dispatch
          /\ office'[c].writes = office[c].writes /\ office'[c].contact = office[c].contact
      BY <3>1, <2>3, <1>a DEF Offices
    <3> QED
      BY <2>3, <3>1, <3>2, <1>a DEF OfficeOf
  <2>4. CASE k \notin {g, c}
    BY <1>3, <1>a, <2>4, OfficeStays DEF Vote, TypeOK
  <2> QED
    BY <2>2, <2>3, <2>4
<1>4. ASSUME NEW c \in Node, Win(c) PROVE OfficeOf(k)'
  <2>1. CASE k = c
    BY <1>4, <2>1, <1>a DEF Win, TypeOK, OfficeOf
  <2>2. CASE k # c
    BY <1>4, <2>2, <1>a, OfficeStays DEF Win, TypeOK
  <2> QED
    BY <2>1, <2>2
<1>5. ASSUME NEW c \in Node, BecomeFollower(c), \A n \in Node \ {c} : expiry'[n] = expiry[n]
      PROVE  OfficeOf(k)'
  <2>1. CASE k = c
    BY <1>5, <2>1, <1>a, OfficeDropped DEF BecomeFollower, TypeOK
  <2>2. CASE k # c
    BY <1>5, <2>2, <1>a, OfficeStays DEF BecomeFollower, TypeOK
  <2> QED
    BY <2>1, <2>2
<1>6. ASSUME NEW c \in Node, WinTooLate(c) PROVE OfficeOf(k)'
  BY <1>6, <1>5, <1>a DEF WinTooLate, TypeOK
<1>7. ASSUME NEW c \in Node, GiveUp(c) PROVE OfficeOf(k)'
  BY <1>7, <1>5 DEF GiveUp
<1>8. ASSUME NEW c \in Node, NEW m \in Node, LearnTerm(c, m) PROVE OfficeOf(k)'
  BY <1>8, <1>5 DEF LearnTerm
<1>9. ASSUME NEW c \in Node, LeaseExpires(c) PROVE OfficeOf(k)'
  <2>1. \A n \in Node \ {c} : expiry'[n] = expiry[n]
    BY <1>9, <1>a DEF LeaseExpires, TypeOK
  <2>2. CASE role[c] = "Leader"
    BY <1>9, <2>1, <2>2, <1>5 DEF LeaseExpires
  <2>3. CASE role[c] # "Leader" /\ k # c
    BY <1>9, <2>1, <2>3, OfficeStays DEF LeaseExpires
  <2>4. CASE role[c] # "Leader" /\ k = c
    <3>1. /\ role'[c] = role[c] /\ office'[c] = office[c] /\ expiry'[c] = Epoch /\ now' = now
      BY <1>9, <2>4, <1>a DEF LeaseExpires, TypeOK
    <3>2. Epoch < now
      BY <1>a, TimeAssumption DEF Epoch, TypeOK, Start
    <3> QED
      BY <2>4, <3>1, <3>2, <1>a DEF OfficeOf
  <2> QED
    BY <2>2, <2>3, <2>4
<1>10. ASSUME NEW g \in Node, NEW r \in requests, Admit(g, r) PROVE OfficeOf(k)'
  <2>1. role[k] = "Candidate" => expiry'[k] = expiry[k]
    BY <1>10, <1>a DEF Admit, TypeOK
  <2> QED
    BY <1>10, <2>1, OfficeStays DEF Admit
<1>11. ASSUME NEW c \in Node, NEW r \in responses, HandleAcceptResponse(c, r)
       PROVE  OfficeOf(k)'
  <2> DEFINE contact == [office[c].contact EXCEPT ![r.from] = Later(@, r.sent)]
  <2>1. /\ office' = [office EXCEPT ![c].contact = contact]
        /\ UNCHANGED <<role, now>> /\ role[c] = "Leader"
        /\ \A n \in Node \ {c} : expiry'[n] = expiry[n]
    BY <1>11, <1>a DEF HandleAcceptResponse, TypeOK
  <2> HIDE DEF contact
  <2>2. CASE k = c
    <3>1. /\ office'[c].votes = office[c].votes /\ office'[c].dispatch = office[c].dispatch
          /\ office'[c].writes = office[c].writes
      BY <2>1, <2>2, <1>a DEF TypeOK, Offices
    <3> QED
      BY <2>1, <2>2, <3>1, <1>a DEF OfficeOf
  <2>3. CASE k # c
    BY <2>1, <2>3, <1>a, OfficeStays DEF TypeOK
  <2> QED
    BY <2>2, <2>3
<1>12. ASSUME NEW c \in Node, NEW w \in SUBSET Nat, role[c] = "Leader",
              \A x \in w : Start <= x, UNCHANGED <<role, expiry, now>>,
              office' = [office EXCEPT ![c].writes = w]
       PROVE  OfficeOf(k)'
  <2>1. CASE k = c
    <3>1. /\ office'[c].votes = office[c].votes /\ office'[c].dispatch = office[c].dispatch
          /\ office'[c].writes = w
      BY <1>12, <2>1, <1>a DEF TypeOK, Offices
    <3> QED
      BY <1>12, <2>1, <3>1, <1>a DEF OfficeOf
  <2>2. CASE k # c
    BY <1>12, <2>2, <1>a, OfficeStays DEF TypeOK
  <2> QED
    BY <2>1, <2>2
<1>13. ASSUME NEW c \in Node, Write(c) PROVE OfficeOf(k)'
  <2> DEFINE w == office[c].writes \union {Latest(c)}
  <2>1. /\ w \in SUBSET Nat
        /\ \A x \in w : Start <= x
    <3>1. Latest(c) \in Nat /\ Start <= Latest(c)
      BY <1>a, ReadingBounds, TimeAssumption DEF TypeOK, Start
    <3> QED
      BY <3>1, <1>a, OfficeType DEF IInv, OfficesKept, OfficeOf
  <2>2. /\ office' = [office EXCEPT ![c].writes = w] /\ role[c] = "Leader"
        /\ UNCHANGED <<role, expiry, now>>
    BY <1>13 DEF Write
  <2> HIDE DEF w
  <2> QED
    BY <2>1, <2>2, <1>12
<1>14. ASSUME NEW c \in Node, NEW s \in office[c].writes, Answer(c, s) PROVE OfficeOf(k)'
  <2> DEFINE w == office[c].writes \ {s}
  <2>1. w \in SUBSET Nat /\ \A x \in w : Start <= x
    BY <1>a, OfficeType DEF IInv, OfficesKept, OfficeOf
  <2>2. role[c] = "Leader"
    BY <1>a, NoOfficeType DEF IInv, OfficesKept, OfficeOf, TypeOK
  <2>3. /\ office' = [office EXCEPT ![c].writes = w]
        /\ UNCHANGED <<role, expiry, now>>
    BY <1>14 DEF Answer
  <2> HIDE DEF w
  <2> QED
    BY <2>1, <2>2, <2>3, <1>12
<1> QED
  BY <1>1, <1>2, <1>3, <1>4, <1>6, <1>7, <1>8, <1>9, <1>10, <1>11, <1>13, <1>14
  DEF Next, Tick, Step, Flush, Heartbeat, vars

-----------------------------------------------------------------------------
(* Leases and promises are kept.                                           *)

LEMMA ContactedType ==
  ASSUME IInv, NEW n \in Node
  PROVE  /\ Contacted(n) \subseteq Node /\ n \notin Contacted(n)
         /\ IsFiniteSet(Contacted(n)) /\ Cardinality(Contacted(n)) \in Nat
<1>1. Contacted(n) \subseteq Node /\ n \notin Contacted(n)
  BY DEF Contacted, Peers
<1> QED
  BY <1>1, NodeAssumption, FS_Subset, FS_CardinalityType

\* The echoed time that the lease is extended from, and the quorum that it is from.
LEMMA LeaseExtended ==
  ASSUME IInv, NEW n \in Node, NEW r \in responses, HandleAcceptResponse(n, r)
  PROVE  /\ \A f \in Node : /\ office[n].contact[f] <= office'[n].contact[f]
                            /\ office[n].contact[f] \in Nat
                            /\ office'[n].contact[f] \in Nat
         /\ office'[n].dispatch = office[n].dispatch
         /\ \/ expiry'[n] = expiry[n]
            \/ \E t \in Nat :
                 /\ t <= now
                 /\ expiry[n] <= t + LeaseLength
                 /\ expiry'[n] = t + LeaseLength
                 /\ Cardinality({f \in Peers(n) : office'[n].contact[f] >= t}) >= QuorumSize - 1
<1>a. TypeOK /\ office[n] \in Offices /\ now \in Nat /\ LeaseLength \in Nat /\ expiry[n] \in Nat
  BY OfficeType, TimeAssumption DEF IInv, TypeOK
<1> DEFINE contact == [office[n].contact EXCEPT ![r.from] = Later(@, r.sent)]
<1>1. contact \in [Node -> Nat]
  BY <1>a, ContactType
<1>2. PICK t \in {contact[f] : f \in Peers(n)} :
        /\ IsQuorumContact(n, contact, t)
        /\ expiry' = [expiry EXCEPT ![n] = Later(@, t + LeaseLength)]
  BY DEF HandleAcceptResponse
<1>3. office' = [office EXCEPT ![n].contact = contact]
  BY DEF HandleAcceptResponse
<1>4. \A f \in Node : /\ office[n].contact[f] <= contact[f]
                      /\ office[n].contact[f] \in Nat /\ contact[f] \in Nat
                      /\ contact[f] <= now
  <2> SUFFICES ASSUME NEW f \in Node
      PROVE  /\ office[n].contact[f] <= contact[f]
             /\ office[n].contact[f] \in Nat /\ contact[f] \in Nat
             /\ contact[f] <= now
    OBVIOUS
  <2>1. office[n].contact \in [Node -> Nat] /\ r.from \in Node /\ r.sent \in Nat
    BY <1>a, OfficeType, ResponseType
  <2>2. r.sent <= now
    BY DEF IInv, ResponsesCovered
  <2>3. office[n].contact[f] <= now
    <3>1. CASE office[n].contact[f] = Epoch
      BY <3>1, <1>a DEF Epoch
    <3>2. CASE office[n].contact[f] # Epoch
      <4> DEFINE q == [from |-> f, to |-> n, term |-> term[n], sent |-> office[n].contact[f]]
      <4>1. q \in responses
        BY <3>2 DEF IInv, ContactsReal
      <4>2. q.sent <= now
        BY <4>1 DEF IInv, ResponsesCovered
      <4> QED
        BY <4>2
    <3> QED
      BY <3>1, <3>2
  <2>4. contact[f] = IF f = r.from THEN Later(office[n].contact[f], r.sent)
                     ELSE office[n].contact[f]
    BY <2>1
  <2> DEFINE old == office[n].contact[f]
  <2>5. old \in Nat /\ contact[f] \in Nat
    BY <2>1, <1>1
  <2>6. CASE f = r.from
    <3>1. contact[f] = Later(old, r.sent)
      BY <2>4, <2>6
    <3>2. \/ Later(old, r.sent) = old
          \/ Later(old, r.sent) = r.sent
      BY DEF Later
    <3>3. old <= Later(old, r.sent)
      BY <2>1, <2>5, LaterType
    <3> HIDE DEF contact, old
    <3>4. contact[f] <= now
      BY <2>2, <2>3, <3>1, <3>2 DEF old
    <3> QED
      BY <2>5, <3>1, <3>3, <3>4 DEF old
  <2>7. CASE f # r.from
    <3>1. contact[f] = old
      BY <2>4, <2>7
    <3> HIDE DEF contact
    <3> QED
      BY <2>3, <2>5, <3>1
  <2> QED
    BY <2>6, <2>7
<1>5. t \in Nat /\ t <= now /\ Cardinality({f \in Peers(n) : contact[f] >= t}) >= QuorumSize - 1
  BY <1>2, <1>4 DEF IsQuorumContact, Peers
<1> HIDE DEF contact
<1>6. office'[n].contact = contact /\ office'[n].dispatch = office[n].dispatch
  BY <1>3, <1>a DEF TypeOK, Offices
<1>7. expiry'[n] = Later(expiry[n], t + LeaseLength)
  BY <1>2, <1>a DEF TypeOK
<1>8. expiry'[n] = expiry[n] \/ (expiry'[n] = t + LeaseLength /\ expiry[n] <= t + LeaseLength)
  BY <1>5, <1>7, <1>a, LaterType
<1>9. CASE expiry'[n] = expiry[n]
  BY <1>4, <1>6, <1>9
<1>10. CASE expiry'[n] = t + LeaseLength /\ expiry[n] <= t + LeaseLength
  BY <1>4, <1>5, <1>6, <1>10
<1> QED
  BY <1>8, <1>9, <1>10

LEMMA LeaderLeasesKept == ASSUME IInv, [Next]_vars PROVE LeaderLeases'
<1> USE DEF clocks, member, messages, history
<1>a. TypeOK /\ now \in Nat /\ LeaseLength \in Nat /\ now <= now' /\ now' \in Nat
  BY TimeGoesOn, TimeAssumption DEF IInv, TypeOK
<1> DEFINE Lease(n) == /\ LeaseFromDispatch(n) <= expiry[n] /\ expiry[n] <= now + LeaseLength
                       /\ \/ expiry[n] <= LeaseFromDispatch(n)
                          \/ Cardinality(Contacted(n)) >= QuorumSize - 1
<1>b. \A n \in Node : role[n] = "Leader" => Lease(n)
  BY DEF IInv, LeaderLeases
<1> SUFFICES ASSUME NEW n \in Node, role'[n] = "Leader" PROVE Lease(n)'
  BY DEF LeaderLeases
<1>c. office[n] \in Offices /\ expiry[n] \in Nat /\ LeaseFromDispatch(n) \in Nat
  BY <1>a, OfficeType
<1>1. ASSUME role[n] = "Leader", expiry'[n] = expiry[n],
             office'[n].dispatch = office[n].dispatch, office'[n].contact = office[n].contact
      PROVE  Lease(n)'
  <2>1. Contacted(n)' = Contacted(n) /\ LeaseFromDispatch(n)' = LeaseFromDispatch(n)
    BY <1>1 DEF Contacted, LeaseFromDispatch
  <2> QED
    BY <1>1, <1>a, <1>b, <1>c, <2>1
<1>2. CASE UNCHANGED <<role, expiry, office>>
  BY <1>1, <1>2
<1>3. ASSUME NEW c \in Node, Campaign(c) PROVE Lease(n)'
  <2>1. n # c /\ role[n] = "Leader" /\ office'[n] = office[n] /\ expiry' = expiry
    BY <1>3, <1>a DEF Campaign, TypeOK
  <2> QED
    BY <2>1, <1>1
<1>4. ASSUME NEW g \in Node, NEW c \in Node, Vote(g, c) PROVE Lease(n)'
  <2>1. n # g /\ role[n] = "Leader" /\ role[c] = "Candidate"
    BY <1>4, <1>a DEF Vote, TypeOK
  <2>2. office'[n] = office[n] /\ expiry'[n] = expiry[n]
    BY <1>4, <1>a, <2>1 DEF Vote, TypeOK
  <2> QED
    BY <2>1, <2>2, <1>1
<1>5. ASSUME NEW c \in Node, Win(c) PROVE Lease(n)'
  <2>1. CASE n = c
    <3>1. expiry'[n] = LeaseFromDispatch(n) /\ office' = office /\ now' = now
      BY <1>5, <2>1, <1>a DEF Win, TypeOK
    <3>2. LeaseFromDispatch(n)' = LeaseFromDispatch(n)
      BY <3>1 DEF LeaseFromDispatch
    <3>3. LeaseFromDispatch(n) <= now + LeaseLength
      BY <1>a, OfficeType DEF IInv, OfficesKept, OfficeOf
    <3> QED
      BY <1>c, <3>1, <3>2, <3>3
  <2>2. CASE n # c
    BY <1>5, <2>2, <1>a, <1>1 DEF Win, TypeOK
  <2> QED
    BY <2>1, <2>2
<1>6. ASSUME NEW c \in Node, BecomeFollower(c), \A k \in Node \ {c} : expiry'[k] = expiry[k]
      PROVE  Lease(n)'
  <2>1. n # c /\ role[n] = "Leader" /\ office'[n] = office[n]
    BY <1>6, <1>a DEF BecomeFollower, TypeOK
  <2> QED
    BY <1>6, <2>1, <1>1
<1>7. ASSUME NEW c \in Node, WinTooLate(c) PROVE Lease(n)'
  BY <1>7, <1>6, <1>a DEF WinTooLate, TypeOK
<1>8. ASSUME NEW c \in Node, GiveUp(c) PROVE Lease(n)'
  BY <1>8, <1>6 DEF GiveUp
<1>9. ASSUME NEW c \in Node, NEW m \in Node, LearnTerm(c, m) PROVE Lease(n)'
  BY <1>9, <1>6 DEF LearnTerm
<1>10. ASSUME NEW c \in Node, LeaseExpires(c) PROVE Lease(n)'
  <2>1. \A k \in Node \ {c} : expiry'[k] = expiry[k]
    BY <1>10, <1>a DEF LeaseExpires, TypeOK
  <2>2. CASE role[c] = "Leader"
    BY <1>10, <2>1, <2>2, <1>6 DEF LeaseExpires
  <2>3. CASE role[c] # "Leader"
    BY <1>10, <2>1, <2>3, <1>1 DEF LeaseExpires
  <2> QED
    BY <2>2, <2>3
<1>11. ASSUME NEW g \in Node, NEW r \in requests, Admit(g, r) PROVE Lease(n)'
  BY <1>11, <1>a, <1>1 DEF Admit, TypeOK
<1>12. ASSUME NEW c \in Node, NEW r \in responses, HandleAcceptResponse(c, r)
       PROVE  Lease(n)'
  <2>1. role' = role /\ now' = now
    BY <1>12 DEF HandleAcceptResponse
  <2>2. CASE n # c
    <3>1. expiry'[n] = expiry[n] /\ office'[n] = office[n]
      BY <1>12, <2>2, <1>a DEF HandleAcceptResponse, TypeOK
    <3> QED
      BY <2>1, <3>1, <1>1
  <2>3. CASE n = c
    <3>1. LeaseFromDispatch(n)' = LeaseFromDispatch(n)
      BY <1>12, <2>3, LeaseExtended DEF LeaseFromDispatch
    <3>2. \A f \in Node : /\ office[n].contact[f] <= office'[n].contact[f]
                          /\ office[n].contact[f] \in Nat /\ office'[n].contact[f] \in Nat
      BY <1>12, <2>3, LeaseExtended
    <3>3. Lease(n)
      BY <2>1, <1>b
    <3>4. ASSUME NEW S \in SUBSET Contacted(n)' PROVE Cardinality(S) <= Cardinality(Contacted(n)')
      <4>1. IsFiniteSet(Contacted(n)')
        <5>1. Contacted(n)' \subseteq Node
          BY DEF Contacted, Peers
        <5> QED
          BY <5>1, NodeAssumption, FS_Subset
      <4> QED
        BY <4>1, FS_Subset
    <3>5. Cardinality(Contacted(n)') \in Nat
      <4>1. Contacted(n)' \subseteq Node
        BY DEF Contacted, Peers
      <4> QED
        BY <4>1, NodeAssumption, FS_Subset, FS_CardinalityType
    <3>6. CASE expiry'[n] = expiry[n]
      <4>1. Contacted(n) \subseteq Contacted(n)'
        BY <3>2, <3>6, <1>a, <1>c DEF Contacted, Peers
      <4>2. Cardinality(Contacted(n)) <= Cardinality(Contacted(n)')
        BY <3>4, <4>1
      <4>3. Cardinality(Contacted(n)) >= QuorumSize - 1
              => Cardinality(Contacted(n)') >= QuorumSize - 1
        BY <3>5, <4>2, ContactedType, QuorumSizeType
      <4> QED
        BY <2>1, <3>1, <3>3, <3>6, <4>3
    <3>7. ASSUME NEW t \in Nat, t <= now, expiry[n] <= t + LeaseLength,
                 expiry'[n] = t + LeaseLength,
                 Cardinality({f \in Peers(n) : office'[n].contact[f] >= t}) >= QuorumSize - 1
          PROVE  Lease(n)'
      <4> DEFINE S == {f \in Peers(n) : office'[n].contact[f] >= t}
      <4>1. S \subseteq Contacted(n)'
        BY <3>2, <3>7, <1>a DEF Contacted, Peers
      <4>2. Cardinality(S) <= Cardinality(Contacted(n)')
        BY <3>4, <4>1
      <4>3. S \subseteq Node /\ Cardinality(S) >= QuorumSize - 1
        BY <3>7 DEF Peers
      <4> HIDE DEF S
      <4>4. Cardinality(S) \in Nat
        BY <4>3, NodeAssumption, FS_Subset, FS_CardinalityType
      <4>5. Cardinality(Contacted(n)') >= QuorumSize - 1
        BY <4>2, <4>3, <4>4, <3>5, QuorumSizeType
      <4>6. LeaseFromDispatch(n)' <= expiry'[n] /\ expiry'[n] <= now' + LeaseLength
        BY <2>1, <3>1, <3>3, <3>7, <1>a, <1>c
      <4> QED
        BY <4>5, <4>6
    <3> QED
      BY <1>12, <2>3, <3>6, <3>7, LeaseExtended
  <2> QED
    BY <2>2, <2>3
<1>13. ASSUME NEW c \in Node, NEW w, UNCHANGED <<role, expiry>>,
              office' = [office EXCEPT ![c].writes = w]
       PROVE  Lease(n)'
  <2>1. office'[n].dispatch = office[n].dispatch /\ office'[n].contact = office[n].contact
    BY <1>13, <1>a, <1>c DEF TypeOK, Offices
  <2> QED
    BY <1>13, <2>1, <1>1
<1> HIDE DEF Lease
<1> QED
  BY <1>2, <1>3, <1>4, <1>5, <1>7, <1>8, <1>9, <1>10, <1>11, <1>12, <1>13
  DEF Next, Tick, Step, Flush, Heartbeat, Write, Answer, vars

\* A quorum covers a Leader's lease, and votes in no later term before it is past.
LEMMA LeaderBacked ==
  ASSUME IInv, NEW n \in Node, role[n] = "Leader"
  PROVE  \E Q \in Quorums : \A f \in Q :
           /\ Covers(f, expiry[n])
           /\ \A m \in Node : f \in office[m].votes /\ term[n] < term[m] =>
                \A x \in Horizon(m) : expiry[n] < x
<1> DEFINE Backs(f) == /\ Covers(f, expiry[n])
                       /\ \A m \in Node : f \in office[m].votes /\ term[n] < term[m] =>
                            \A x \in Horizon(m) : expiry[n] < x
<1>a. /\ TypeOK /\ now \in Nat /\ LeaseLength \in Nat /\ expiry[n] \in Nat
      /\ LeaseFromDispatch(n) \in Nat /\ office[n].dispatch \in Nat
      /\ LeaseFromDispatch(n) = office[n].dispatch + LeaseLength
  BY OfficeType, TimeAssumption DEF IInv, TypeOK
<1>b. LeaseFromDispatch(n) <= expiry[n]
  BY DEF IInv, LeaderLeases
<1>1. Covers(n, expiry[n])
  BY <1>a DEF Covers
<1>2. CASE expiry[n] <= LeaseFromDispatch(n)
  <2>1. expiry[n] = LeaseFromDispatch(n)
    BY <1>2, <1>a, <1>b
  <2>2. office[n].votes \in Quorums
    BY <1>a, OfficeType DEF IInv, OfficesKept, OfficeOf, Quorums
  <2>3. ASSUME NEW f \in office[n].votes PROVE Backs(f)
    <3>1. f # n => Covers(f, expiry[n])
      BY <1>a, <2>1 DEF IInv, VotesCovered
    <3>2. \A m \in Node : f \in office[m].votes /\ term[n] < term[m] =>
            \A x \in Horizon(m) : expiry[n] < x
      BY <2>1 DEF IInv, Superseded
    <3> QED
      BY <1>1, <3>1, <3>2
  <2> QED
    BY <2>2, <2>3
<1>3. CASE ~(expiry[n] <= LeaseFromDispatch(n))
  <2> DEFINE Q == Contacted(n) \union {n}
  <2>1. Q \in Quorums
    <3>1. Cardinality(Contacted(n)) >= QuorumSize - 1
      BY <1>3 DEF IInv, LeaderLeases
    <3>2. Cardinality(Q) = Cardinality(Contacted(n)) + 1
      BY ContactedType, FS_AddElement
    <3>3. Cardinality(Q) >= QuorumSize
      BY <3>1, <3>2, ContactedType, QuorumSizeType
    <3>4. Q \subseteq Node
      BY ContactedType
    <3> QED
      BY <3>3, <3>4 DEF Quorums
  <2>2. Backs(n)
    <3>1. ASSUME NEW m \in Node, n \in office[m].votes, term[n] < term[m] PROVE FALSE
      <4>1. term[m] <= term[n] /\ term[m] \in Nat /\ term[n] \in Nat
        BY <3>1, <1>a, OfficeType DEF IInv, VotesCovered
      <4> QED
        BY <3>1, <4>1
    <3> QED
      BY <1>1, <3>1
  <2>3. ASSUME NEW f \in Contacted(n) PROVE Backs(f)
    <3> DEFINE sent == office[n].contact[f]
    <3>1. f \in Node /\ sent \in Nat /\ expiry[n] <= sent + LeaseLength
      <4>1. f \in Node /\ expiry[n] <= sent + LeaseLength
        BY DEF Contacted, Peers
      <4>2. office[n].contact \in [Node -> Nat]
        BY <1>a, OfficeType
      <4> QED
        BY <4>1, <4>2
    <3>2. sent # Epoch
      BY <3>1, <1>a, <1>3 DEF Epoch
    <3> DEFINE r == [from |-> f, to |-> n, term |-> term[n], sent |-> sent]
    <3>3. r \in responses
      BY <3>1, <3>2 DEF IInv, ContactsReal
    <3>4. r.from = f /\ r.term = term[n] /\ r.sent = sent
      OBVIOUS
    <3> HIDE DEF r, sent
    <3>5. Covers(f, sent + LeaseLength)
      BY <3>3, <3>4 DEF IInv, ResponsesCovered
    <3>6. Covers(f, expiry[n])
      <4>1. expiry[f] \in Nat
        BY <1>a, <3>1, OfficeType
      <4> QED
        BY <1>a, <3>1, <3>5, <4>1 DEF Covers
    <3>7. ASSUME NEW m \in Node, f \in office[m].votes, term[n] < term[m], NEW x \in Horizon(m)
          PROVE  expiry[n] < x
      <4>1. sent + LeaseLength < x
        BY <3>3, <3>4, <3>7 DEF IInv, Superseded
      <4>2. x \in Nat
        BY <1>a, HorizonType
      <4> QED
        BY <1>a, <3>1, <4>1, <4>2
    <3> QED
      BY <3>6, <3>7
  <2> QED
    BY <2>1, <2>2, <2>3
<1> QED
  BY <1>2, <1>3

\* Whoever has vouched for a promise goes on doing so.
LEMMA UpholdsStable ==
  ASSUME IInv, [Next]_vars, NEW t \in Terms, promised'[t] = promised[t],
         NEW f \in Node, Upholds(f, t)
  PROVE  Upholds(f, t)'
<1>a. TypeOK /\ TypeOK' /\ now \in Nat /\ LeaseLength \in Nat
  BY TypeKept, TimeAssumption DEF IInv, TypeOK
<1>b. promised[t] \in Nat /\ promised[t] <= now + LeaseLength /\ t \in Nat
  BY <1>a, BoundsAssumption DEF IInv, TypeOK, PromisesUpheld, Terms
<1>1. promised[t] < now' \/ promised[t] <= expiry'[f]
  <2>1. ASSUME NEW e \in Nat, e = promised[t] PROVE e < now' \/ e <= expiry'[f]
    <3>1. Covers(f, e) /\ e <= now + LeaseLength
      BY <2>1, <1>b DEF Upholds
    <3>2. Covers(f, e)'
      BY <3>1, CoversStable
    <3> QED
      BY <3>2 DEF Covers
  <2> QED
    BY <2>1, <1>b
<1>2. ASSUME NEW m \in Node, f \in office'[m].votes, t < term'[m], NEW x \in Horizon(m)'
      PROVE  promised[t] < x
  <2>1. PICK y \in Horizon(m) : x \in Nat /\ y \in Nat /\ y <= x
    BY <1>2, HorizonSteps
  <2>2. CASE OldVote(m, f)
    <3>1. promised[t] < y
      BY <1>2, <2>1, <2>2 DEF OldVote, Upholds
    <3> QED
      BY <2>1, <3>1, <1>b
  <2>3. CASE NewVote(m, f)
    <3>1. x = now /\ expiry[f] < now /\ expiry[f] \in Nat
      BY <1>2, <2>3, <1>a DEF NewVote, Horizon, TypeOK
    <3> QED
      BY <3>1, <1>a, <1>b DEF Upholds, Covers
  <2> QED
    BY <1>2, <2>2, <2>3, VoteSteps
<1>3. \A m \in Node : f \in office'[m].votes /\ t < term'[m] =>
        \A x \in Horizon(m)' : promised'[t] < x
  BY <1>2
<1> QED
  BY <1>1, <1>3 DEF Upholds, Covers

LEMMA PromisesUpheldKept == ASSUME IInv, [Next]_vars PROVE PromisesUpheld'
<1> USE DEF clocks, member, messages, history
<1>a. TypeOK /\ TypeOK' /\ now \in Nat /\ LeaseLength \in Nat /\ now <= now' /\ now' \in Nat
  BY TypeKept, TimeGoesOn, TimeAssumption DEF IInv, TypeOK
<1> SUFFICES ASSUME NEW t \in Terms
    PROVE  /\ promised'[t] <= now' + LeaseLength
           /\ \E Q \in Quorums : \A f \in Q : Upholds(f, t)'
  BY DEF PromisesUpheld
<1>b. promised[t] \in Nat /\ promised[t] <= now + LeaseLength
  BY <1>a DEF TypeOK, IInv, PromisesUpheld
<1>1. CASE promised'[t] = promised[t]
  <2>1. PICK Q \in Quorums : \A f \in Q : Upholds(f, t)
    BY DEF IInv, PromisesUpheld
  <2>2. \A f \in Q : Upholds(f, t)'
    <3>1. Q \subseteq Node
      BY DEF Quorums
    <3> QED
      BY <3>1, <2>1, <1>1, UpholdsStable
  <2>3. promised'[t] <= now' + LeaseLength
    BY <1>a, <1>b, <1>1
  <2> QED
    BY <2>2, <2>3
<1>2. ASSUME NEW n \in Node, Heartbeat(n), promised'[t] # promised[t]
      PROVE  /\ promised'[t] <= now' + LeaseLength
             /\ \E Q \in Quorums : \A f \in Q : Upholds(f, t)'
  <2>1. /\ role[n] = "Leader" /\ UNCHANGED <<now, term, expiry, office>>
        /\ t = term[n] /\ promised'[t] = Later(promised[t], Promise(n))
    BY <1>2, <1>a DEF Heartbeat, TypeOK
  <2>2. promised'[t] = Promise(n)
    BY <1>2, <2>1 DEF Later
  <2>3. Promise(n) \in Nat /\ Promise(n) <= expiry[n] /\ expiry[n] \in Nat
    <3>1. Latest(n) \in Nat /\ expiry[n] \in Nat
      BY <1>a, ReadingBounds, OfficeType
    <3> QED
      BY <3>1 DEF Promise, Sooner
  <2>4. expiry[n] <= now + LeaseLength
    BY <2>1 DEF IInv, LeaderLeases
  <2>5. PICK Q \in Quorums : \A f \in Q :
          /\ Covers(f, expiry[n])
          /\ \A m \in Node : f \in office[m].votes /\ term[n] < term[m] =>
               \A x \in Horizon(m) : expiry[n] < x
    BY <2>1, LeaderBacked
  <2>6. ASSUME NEW f \in Q PROVE Upholds(f, t)'
    <3>1. f \in Node /\ expiry[f] \in Nat
      BY <1>a, OfficeType DEF Quorums
    <3>2. Promise(n) < now' \/ Promise(n) <= expiry'[f]
      BY <1>a, <2>1, <2>3, <2>5, <3>1 DEF Covers
    <3>3. ASSUME NEW m \in Node, f \in office'[m].votes, t < term'[m], NEW x \in Horizon(m)'
          PROVE  Promise(n) < x
      <4>1. x \in Horizon(m)
        BY <2>1 DEF Horizon
      <4>2. x \in Nat
        BY <1>a, <4>1, HorizonType
      <4>3. f \in office[m].votes /\ term[n] < term[m]
        BY <2>1, <3>3
      <4>4. expiry[n] < x
        BY <2>5, <4>1, <4>3
      <4> QED
        BY <2>3, <4>2, <4>4
    <3>4. \A m \in Node : f \in office'[m].votes /\ t < term'[m] =>
            \A x \in Horizon(m)' : promised'[t] < x
      BY <2>2, <3>3
    <3> QED
      BY <2>2, <3>2, <3>4 DEF Upholds, Covers
  <2> QED
    BY <1>a, <2>1, <2>2, <2>3, <2>4, <2>6
<1>3. CASE UNCHANGED promised
  BY <1>1, <1>3
<1> QED
  BY <1>1, <1>2, <1>3
  DEF Next, Tick, Step, Campaign, Vote, Win, WinTooLate, GiveUp, LearnTerm, LeaseExpires,
      Flush, Admit, HandleAcceptResponse, Write, Answer, vars

LEMMA AnsweredPastKept == ASSUME IInv, [Next]_vars PROVE AnsweredPast'
<1> USE DEF clocks, member, messages, history
<1>a. TypeOK /\ now \in Nat /\ now <= now' /\ now' \in Nat /\ answered \in Nat
  BY TimeGoesOn DEF IInv, TypeOK
<1>1. CASE UNCHANGED answered
  BY <1>1, <1>a DEF IInv, AnsweredPast
<1>2. ASSUME NEW n \in Node, NEW stamp \in office[n].writes, Answer(n, stamp)
      PROVE  AnsweredPast'
  <2>1. stamp \in Nat /\ stamp < now
    <3>1. Earliest(n) \in Nat /\ Earliest(n) <= now /\ stamp \in Nat
      BY <1>a, ReadingBounds, OfficeType
    <3>2. stamp < Earliest(n)
      BY <1>2 DEF Answer, CommitWaited, After
    <3> QED
      BY <1>a, <3>1, <3>2
  <2>2. Later(answered, stamp) < now
    BY <1>a, <2>1 DEF Later, IInv, AnsweredPast
  <2>3. answered' = Later(answered, stamp) /\ now' = now
    BY <1>2 DEF Answer
  <2> QED
    BY <2>2, <2>3 DEF AnsweredPast
<1> QED
  BY <1>1, <1>2
  DEF Next, Tick, Step, Campaign, Vote, Win, WinTooLate, GiveUp, LearnTerm, LeaseExpires,
      Flush, Heartbeat, Admit, HandleAcceptResponse, Write, vars

-----------------------------------------------------------------------------
(* The invariant.                                                          *)

LEMMA InitInvariant == Init => IInv
<1> SUFFICES ASSUME Init PROVE IInv
  OBVIOUS
<1>1. TypeOK /\ TermsOpened
  BY InitType
<1>2. /\ \A n \in Node : office[n] = NoOffice /\ role[n] = "Follower" /\ expiry[n] = 0
      /\ responses = {} /\ requests = {} /\ answered = 0
      /\ \A t \in Terms : promised[t] = 0
      /\ now \in Nat /\ 0 < now
  BY TimeAssumption DEF Init, Epoch, Start
<1>3. OfficesKept
  BY <1>2, NoOfficeType DEF OfficesKept, OfficeOf, Epoch
<1>4. VotesCovered /\ Superseded /\ OneVotePerTerm /\ LeaderLeases
  BY <1>2, NoOfficeType DEF VotesCovered, Superseded, OneVotePerTerm, LeaderLeases
<1>5. ResponsesCovered /\ AnsweredPast
  BY <1>2 DEF ResponsesCovered, AnsweredPast
<1>6. ContactsReal
  BY <1>2, NoOfficeType DEF ContactsReal
<1>7. Node \in Quorums
  <2>1. Cardinality(Node) \in Nat /\ Cardinality(Node) # 0
    BY NodeAssumption, FS_CardinalityType, FS_EmptySet
  <2>2. Cardinality(Node) >= Cardinality(Node) \div 2 + 1
    BY <2>1
  <2> QED
    BY <2>2 DEF Quorums, QuorumSize
<1>8. \A t \in Terms, f \in Node : Upholds(f, t)
  BY <1>2, NoOfficeType DEF Upholds, Covers
<1>9. \A t \in Terms : promised[t] <= now + LeaseLength
  BY <1>2, TimeAssumption
<1>10. PromisesUpheld
  BY <1>7, <1>8, <1>9 DEF PromisesUpheld
<1> QED
  BY <1>1, <1>3, <1>4, <1>5, <1>6, <1>10 DEF IInv

LEMMA NextInvariant == IInv /\ [Next]_vars => IInv'
BY TypeKept, OfficesKeptKept, ResponsesCoveredKept, VotesCoveredKept, ContactsRealKept,
   LeaderLeasesKept, SupersededKept, OneVotePerTermKept, PromisesUpheldKept, AnsweredPastKept
DEF IInv

LEMMA Invariant == Spec => []IInv
BY InitInvariant, NextInvariant, PTL DEF Spec

-----------------------------------------------------------------------------
(* What it implies.                                                        *)

LEMMA LeasesAreDisjoint == IInv => DisjointLeases
<1> SUFFICES ASSUME IInv, NEW n \in Node, NEW m \in Node, n # m,
                    role[n] = "Leader", role[m] = "Leader"
    PROVE  term[n] # term[m] /\ (term[n] < term[m] => expiry[n] < now)
  BY DEF DisjointLeases
<1>a. TypeOK
  BY DEF IInv
<1>1. /\ office[n].votes \in Quorums
      /\ office[m].votes \in Quorums
  BY <1>a, OfficeType DEF IInv, OfficesKept, OfficeOf, Quorums
<1>2. term[n] # term[m]
  <2>1. \E f \in Node : f \in office[n].votes /\ f \in office[m].votes
    BY <1>1, QuorumsMeet DEF Quorums
  <2> QED
    BY <2>1 DEF IInv, OneVotePerTerm
<1>3. ASSUME term[n] < term[m] PROVE expiry[n] < now
  <2>1. PICK Q \in Quorums : \A f \in Q : \A k \in Node :
          f \in office[k].votes /\ term[n] < term[k] => \A x \in Horizon(k) : expiry[n] < x
    BY LeaderBacked
  <2>2. PICK f \in Node : f \in Q /\ f \in office[m].votes
    BY <1>1, QuorumsMeet DEF Quorums
  <2> QED
    BY <1>3, <2>1, <2>2 DEF Horizon
<1> QED
  BY <1>2, <1>3

LEMMA LeasesAreOutlasted == IInv => LeaseOutlasted
<1> SUFFICES ASSUME IInv, NEW n \in Node, role[n] = "Leader", now <= expiry[n]
    PROVE  Cardinality({f \in Node : expiry[f] >= expiry[n]}) >= QuorumSize
  BY DEF LeaseOutlasted
<1> DEFINE Outlasting == {f \in Node : expiry[f] >= expiry[n]}
<1>1. PICK Q \in Quorums : \A f \in Q : Covers(f, expiry[n])
  BY LeaderBacked
<1>2. Q \subseteq Outlasting
  <2>1. now \in Nat /\ \A f \in Node : expiry[f] \in Nat
    BY DEF IInv, TypeOK
  <2> QED
    BY <1>1, <2>1 DEF Covers, Quorums
<1>3. IsFiniteSet(Outlasting) /\ Cardinality(Q) <= Cardinality(Outlasting)
  <2>1. IsFiniteSet(Outlasting)
    BY NodeAssumption, FS_Subset
  <2> QED
    BY <1>2, <2>1, FS_Subset
<1>4. Cardinality(Q) \in Nat /\ Cardinality(Outlasting) \in Nat /\ Cardinality(Q) >= QuorumSize
  BY <1>3, NodeAssumption, FS_Subset, FS_CardinalityType DEF Quorums
<1> QED
  BY <1>3, <1>4, QuorumSizeType

LEMMA PromisesAreKept == IInv => PromisesKept
<1> SUFFICES ASSUME IInv, NEW n \in Node, NEW stamp \in office[n].writes, NEW t \in Terms,
                    t < term[n]
    PROVE  promised[t] < stamp
  BY DEF PromisesKept
<1>a. TypeOK
  BY DEF IInv
<1>1. office[n].votes \in Quorums
  <2>1. role[n] = "Leader"
    BY <1>a, NoOfficeType DEF IInv, OfficesKept, OfficeOf, TypeOK
  <2> QED
    BY <1>a, <2>1, OfficeType DEF IInv, OfficesKept, OfficeOf, Quorums
<1>2. PICK Q \in Quorums : \A f \in Q : Upholds(f, t)
  BY DEF IInv, PromisesUpheld
<1>3. PICK f \in Node : f \in Q /\ f \in office[n].votes
  BY <1>1, <1>2, QuorumsMeet DEF Quorums
<1> QED
  BY <1>2, <1>3 DEF Upholds, Horizon

LEMMA LaterStamps ==
  ASSUME IInv, [Next]_vars, NEW n \in Node, NEW stamp \in office'[n].writes \ office[n].writes
  PROVE  answered < stamp
<1>a. TypeOK /\ now \in Nat /\ answered \in Nat /\ answered < now
  BY DEF IInv, TypeOK, AnsweredPast
<1>1. PICK c \in Node : Write(c)
  BY WritesSteps
<1>2. stamp = Latest(n) 
  BY <1>1, <1>a DEF Write, TypeOK, Offices
<1>3. Latest(n) \in Nat /\ now <= Latest(n)
  BY <1>a, ReadingBounds
<1> QED
  BY <1>a, <1>2, <1>3

\* No two Leaders hold the lease at once: that of the earlier term has ended, in real
\* time, when another leads.
THEOREM OneLeaseAtATime == Spec => []DisjointLeases
BY Invariant, LeasesAreDisjoint, PTL

\* A Leader's lease is never longer than the leases of a quorum.
THEOREM QuorumsOutlast == Spec => []LeaseOutlasted
BY Invariant, LeasesAreOutlasted, PTL

\* What a Leader has promised with min_next_ts, no later Leader's stamps break.
THEOREM PromisesHold == Spec => []PromisesKept
BY Invariant, PromisesAreKept, PTL

\* A write asked for after another was answered gets the later timestamp.
THEOREM ExternallyConsistent == Spec => ExternalConsistency
<1>1. IInv /\ [Next]_vars =>
        [\A n \in Node : \A stamp \in office'[n].writes \ office[n].writes : answered < stamp]_vars
  BY LaterStamps
<1> QED
  BY <1>1, Invariant, PTL DEF Spec, ExternalConsistency
=============================================================================
