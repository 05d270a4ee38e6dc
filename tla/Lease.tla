------------------------------- MODULE Lease -------------------------------
(***************************************************************************)
(* Leader leases, commit wait and MinNextTS over TrueTime.                 *)
(*                                                                         *)
(* now is real time, in milliseconds since the epoch, and no member sees   *)
(* it: TrueTime::now() reads a clock that is off by Uncertainty at most,   *)
(* and that may step within that band at any moment, back as well.         *)
(*                                                                         *)
(* Elections are as src/README.md describes them, with a pre-vote that is  *)
(* always granted; logs are Replication's subject.  A vote request may be  *)
(* under way for as long as its campaign lasts, and a vote counts at once, *)
(* as the campaign may win at any later time.  An accept request is        *)
(* delivered any number of times, at any time, or never, and so is its     *)
(* response.                                                               *)
(***************************************************************************)
EXTENDS Naturals, FiniteSets

CONSTANTS Node,         \* the members of the group
          Uncertainty,  \* UNCERTAINTY_MS
          LeaseLength,  \* lease_length
          Skews,        \* bound: how far a clock may be ahead of now - Uncertainty
          MaxTime,      \* bound: real time
          MaxSteps,     \* bound: steps of clocks
          MaxCampaigns, \* bound: campaigns, and so terms
          MaxWrites,    \* bound: writes in flight at a Leader
          MaxSends      \* bound: accept requests sent before a flush or a heartbeat

ASSUME NodeAssumption == IsFiniteSet(Node) /\ Node # {}
ASSUME TimeAssumption == Uncertainty \in Nat \ {0} /\ LeaseLength \in Nat \ {0}
ASSUME BoundsAssumption ==
  /\ 0 \in Skews /\ Skews \subseteq 0..2 * Uncertainty
  /\ MaxTime \in Nat /\ MaxSteps \in Nat
  /\ MaxCampaigns \in Nat /\ MaxWrites \in Nat /\ MaxSends \in Nat

VARIABLES now,       \* real time
          skew,      \* how far each clock is ahead of now - Uncertainty
          steps,     \* how often a clock has stepped
          campaigns, \* how many campaigns there have been
          role,      \* Follower (and PreCandidate), Candidate or Leader
          term,      \* PaxosSharedContext.term
          expiry,    \* LeaseState.expiry; the epoch stands for None as well
          office,    \* what the Candidate or Leader object owns
          requests,  \* accept requests ever sent
          responses, \* accept responses ever sent
          promised,  \* history: the latest min_next_ts that the Leader of a term has sent
          answered   \* history: the latest timestamp of an answered write

clocks == <<now, skew, steps>>
member == <<role, term, expiry, office>>
messages == <<requests, responses>>
history == <<promised, answered>>
vars == <<clocks, campaigns, member, messages, history>>

Peers(n) == Node \ {n}
QuorumSize == Cardinality(Node) \div 2 + 1
Terms == 0..MaxCampaigns
Epoch == 0
Start == 2 * Uncertainty  \* late enough for every reading to be after the epoch

\* vote_dispatch_time and the granted votes of a Candidate, which its Leader keeps as
\* history; last_contact and the timestamps of in_flight_writes of a Leader.
Offices == [dispatch : Nat, votes : SUBSET Node, contact : [Node -> Nat], writes : SUBSET Nat]
NoOffice == [dispatch |-> Epoch, votes |-> {}, contact |-> [f \in Node |-> Epoch],
             writes |-> {}]

Requests == [from : Node, term : Terms, sent : Nat]
Responses == [from : Node, to : Node, term : Terms, sent : Nat]

-----------------------------------------------------------------------------
\* TrueTime.

Clock(n) == now + skew[n] - Uncertainty
Earliest(n) == Clock(n) - Uncertainty
Latest(n) == Clock(n) + Uncertainty
Before(t, n) == t > Latest(n)
After(t, n) == t < Earliest(n)

Later(s, t) == IF s < t THEN t ELSE s
Sooner(s, t) == IF s < t THEN s ELSE t

ExtendedFromEarliest(n) == Earliest(n) + LeaseLength

\* extend_leader_lease_expiry_time
Extended(n) == Latest(n) + LeaseLength

-----------------------------------------------------------------------------
Init == /\ now = Start
        /\ skew = [n \in Node |-> 0]
        /\ steps = 0
        /\ campaigns = 0
        /\ role = [n \in Node |-> "Follower"]
        /\ term = [n \in Node |-> 0]
        /\ expiry = [n \in Node |-> Epoch]
        /\ office = [n \in Node |-> NoOffice]
        /\ requests = {}
        /\ responses = {}
        /\ promised = [t \in Terms |-> Epoch]
        /\ answered = Epoch

Tick == /\ now < MaxTime
        /\ now' = now + 1
        /\ UNCHANGED <<skew, steps, campaigns, member, messages, history>>

\* The clock of n is set, or drifts.
Step(n, s) == /\ steps < MaxSteps
              /\ s # skew[n]
              /\ skew' = [skew EXCEPT ![n] = s]
              /\ steps' = steps + 1
              /\ UNCHANGED <<now, campaigns, member, messages, history>>

RequestOfNextTerm(n) == [from |-> n, term |-> term[n] + 1, sent |-> Earliest(n)]

\* The accept request that a Leader sends now.
Request(n) == [from |-> n, term |-> term[n], sent |-> Earliest(n)]
Dispatch(n) == requests' = requests \union {Request(n)}

Response(f, r) == [from |-> f, to |-> r.from, term |-> r.term, sent |-> r.sent]

-----------------------------------------------------------------------------
\* Elections.

\* The Candidate or Leader object is dropped.
BecomeFollower(n) == /\ role' = [role EXCEPT ![n] = "Follower"]
                     /\ office' = [office EXCEPT ![n] = NoOffice]

\* A Follower whose lease is over becomes a Candidate, which has its own vote.
Campaign(n) ==
  /\ role[n] = "Follower"
  /\ campaigns < MaxCampaigns
  /\ campaigns' = campaigns + 1
  /\ After(expiry[n], n)
  /\ role' = [role EXCEPT ![n] = "Candidate"]
  /\ term' = [term EXCEPT ![n] = @ + 1]
  /\ office' = [office EXCEPT ![n] = [NoOffice EXCEPT !.dispatch = Earliest(n), !.votes = {n}]]
  /\ UNCHANGED <<clocks, expiry, messages, history>>

\* handle_vote_request: a vote is a lease, given by a member whose own is over.
Vote(f, n) ==
  /\ role[n] = "Candidate"
  /\ term[n] > term[f]
  /\ After(expiry[f], f)
  /\ expiry' = [expiry EXCEPT ![f] = Extended(f)]
  /\ role' = [role EXCEPT ![f] = "Follower"]
  /\ term' = [term EXCEPT ![f] = term[n]]
  /\ office' = [office EXCEPT ![f] = NoOffice, ![n].votes = @ \union {f}]
  /\ UNCHANGED <<clocks, campaigns, messages, history>>

LeaseFromNow(n) == now + LeaseLength

\* compute_leader_lease_expiry
LeaseFromDispatch(n) == office[n].dispatch + LeaseLength

\* A Candidate with a quorum of votes takes the lease, and leads while it lasts.
Win(n) ==
  /\ role[n] = "Candidate"
  /\ Cardinality(office[n].votes) >= QuorumSize
  /\ Before(LeaseFromDispatch(n), n)
  /\ expiry' = [expiry EXCEPT ![n] = LeaseFromDispatch(n)]
  /\ role' = [role EXCEPT ![n] = "Leader"]
  /\ Dispatch(n)
  /\ UNCHANGED <<clocks, campaigns, term, office, responses, history>>

\* The lease is over, or may be, before it begins.
WinTooLate(n) ==
  /\ role[n] = "Candidate"
  /\ Cardinality(office[n].votes) >= QuorumSize
  /\ ~Before(LeaseFromDispatch(n), n)
  /\ expiry' = [expiry EXCEPT ![n] = LeaseFromDispatch(n)]
  /\ BecomeFollower(n)
  /\ UNCHANGED <<clocks, campaigns, term, messages, history>>

\* The campaign has timed out.
GiveUp(n) ==
  /\ role[n] = "Candidate"
  /\ BecomeFollower(n)
  /\ UNCHANGED <<clocks, campaigns, term, expiry, messages, history>>

\* process_event: an event of a higher term, from m, ends any office.
LearnTerm(n, m) ==
  /\ term[m] > term[n]
  /\ term' = [term EXCEPT ![n] = term[m]]
  /\ BecomeFollower(n)
  /\ UNCHANGED <<clocks, campaigns, expiry, messages, history>>

\* wait_until_expired, and LeaderLeaseExpired in the roles: the lease is taken away,
\* and a Leader steps down.
LeaseExpires(n) ==
  /\ expiry[n] # Epoch
  /\ After(expiry[n], n)
  /\ expiry' = [expiry EXCEPT ![n] = Epoch]
  /\ IF role[n] = "Leader" THEN BecomeFollower(n) ELSE UNCHANGED <<role, office>>
  /\ UNCHANGED <<clocks, campaigns, term, messages, history>>

-----------------------------------------------------------------------------
\* Accept requests.

\* handle_write_flush
Flush(n) ==
  /\ role[n] = "Leader"
  /\ Cardinality(requests) < MaxSends
  /\ Dispatch(n)
  /\ UNCHANGED <<clocks, campaigns, member, responses, history>>

PromiseUncapped(n) == Latest(n)

\* min_next_ts: no further than the lease.
Promise(n) == Sooner(Latest(n), expiry[n])

\* handle_heartbeat_timer
Heartbeat(n) ==
  /\ role[n] = "Leader"
  /\ Cardinality(requests) < MaxSends
  /\ promised' = [promised EXCEPT ![term[n]] = Later(@, Promise(n))]
  /\ Dispatch(n)
  /\ UNCHANGED <<clocks, campaigns, member, responses, answered>>

\* handle_accept_request, of a Follower whose lease runs.
Admit(f, r) ==
  /\ r.from # f
  /\ r.term >= term[f]
  /\ role[f] = "Follower"
  /\ ~After(expiry[f], f)
  /\ expiry' = [expiry EXCEPT ![f] = Extended(f)]
  /\ term' = [term EXCEPT ![f] = r.term]
  /\ responses' = responses \union {Response(f, r)}
  /\ UNCHANGED <<clocks, campaigns, role, office, requests, history>>

\* The echoed t_send of the weakest of the QuorumSize - 1 most recent contacts.
IsQuorumContact(n, contact, t) ==
  /\ Cardinality({f \in Peers(n) : contact[f] >= t}) >= QuorumSize - 1
  /\ \A f \in Peers(n) : contact[f] > t =>
       Cardinality({g \in Peers(n) : contact[g] >= contact[f]}) < QuorumSize - 1

\* handle_accept_response: the Leader's lease runs from that contact, and is never
\* made shorter.
HandleAcceptResponse(n, r) ==
  /\ role[n] = "Leader"
  /\ r.to = n /\ r.term = term[n]
  /\ LET contact == [office[n].contact EXCEPT ![r.from] = Later(@, r.sent)]
     IN /\ office' = [office EXCEPT ![n].contact = contact]
        /\ \E t \in {contact[f] : f \in Peers(n)} :
             /\ IsQuorumContact(n, contact, t)
             /\ expiry' = [expiry EXCEPT ![n] = Later(@, t + LeaseLength)]
  /\ UNCHANGED <<clocks, campaigns, role, term, messages, history>>

-----------------------------------------------------------------------------
\* Client writes.

\* handle_client_write
Write(n) ==
  /\ role[n] = "Leader"
  /\ Cardinality(office[n].writes) < MaxWrites
  /\ office' = [office EXCEPT ![n].writes = @ \union {Latest(n)}]
  /\ UNCHANGED <<clocks, campaigns, role, term, expiry, messages, history>>

WaitedForLatest(stamp, n) == stamp <= Latest(n)

\* commit_wait is over.
CommitWaited(stamp, n) == After(stamp, n)

\* resolve_in_flight_writes, of a write that a quorum has.
Answer(n, stamp) ==
  /\ stamp \in office[n].writes
  /\ CommitWaited(stamp, n)
  /\ office' = [office EXCEPT ![n].writes = @ \ {stamp}]
  /\ answered' = Later(answered, stamp)
  /\ UNCHANGED <<clocks, campaigns, role, term, expiry, messages, promised>>

-----------------------------------------------------------------------------
Next ==
  \/ Tick
  \/ \E n \in Node :
       \/ \E s \in Skews : Step(n, s)
       \/ Campaign(n) \/ Win(n) \/ WinTooLate(n) \/ GiveUp(n) \/ LeaseExpires(n)
       \/ Flush(n) \/ Heartbeat(n) \/ Write(n)
       \/ \E m \in Node : Vote(n, m) \/ LearnTerm(n, m)
       \/ \E r \in requests : Admit(n, r)
       \/ \E r \in responses : HandleAcceptResponse(n, r)
       \/ \E stamp \in office[n].writes : Answer(n, stamp)

Spec == Init /\ [][Next]_vars

-----------------------------------------------------------------------------
\* Types: terms stay within their bound, and no time is before the epoch.
TypeOK == /\ now \in Nat /\ now >= Start
          /\ skew \in [Node -> Skews]
          /\ steps \in 0..MaxSteps
          /\ campaigns \in Terms
          /\ role \in [Node -> {"Follower", "Candidate", "Leader"}]
          /\ term \in [Node -> Terms]
          /\ expiry \in [Node -> Nat]
          /\ office \in [Node -> Offices]
          /\ requests \subseteq Requests
          /\ responses \subseteq Responses
          /\ promised \in [Terms -> Nat]
          /\ answered \in Nat

\* "a Leader's lease interval is guaranteed to expire before a quorum of Followers will
\* agree to elect a new one" (src/README.md:96): in real time, whatever the clocks read,
\* and though late responses go on extending it.
DisjointLeases ==
  \A n, m \in Node : n # m /\ role[n] = "Leader" /\ role[m] = "Leader" =>
    /\ term[n] # term[m]
    /\ term[n] < term[m] => expiry[n] < now

\* While a Leader's lease lasts, a quorum has leases that last as long.
LeaseOutlasted ==
  \A n \in Node : role[n] = "Leader" /\ now <= expiry[n] =>
    Cardinality({f \in Node : expiry[f] >= expiry[n]}) >= QuorumSize

\* No later Leader has stamped a write with what an earlier one has promised that no
\* write will be stamped with (min_next_ts), even if the earlier goes on promising.
PromisesKept ==
  \A n \in Node : \A stamp \in office[n].writes, t \in Terms :
    t < term[n] => promised[t] < stamp

\* External consistency: a write that is asked for after another has been answered, by
\* whichever Leader, gets the later timestamp.
ExternalConsistency ==
  [][\A n \in Node : \A stamp \in office'[n].writes \ office[n].writes : answered < stamp]_vars
=============================================================================
