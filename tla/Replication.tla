---------------------------- MODULE Replication ----------------------------
(***************************************************************************)
(* Log replication in a Paxos group: the Leader's score board and accept   *)
(* requests, the Follower's write-ahead log, the commit rule, and what a   *)
(* new Leader does with the entries its voters promise it.                 *)
(*                                                                         *)
(* How offices change hands is not the subject: TakeOffice is an election  *)
(* as src/README.md describes it, ending in the code that runs once a      *)
(* Candidate has its quorum.  Election shows what the code's own elections *)
(* do.  Nor is time: a lease decides one thing here, whether a Follower    *)
(* admits a request, and is a choice (Admit or Refuse); timestamps, leases *)
(* and t_safe are in Lease.  A Leader that is deposed and does not know it *)
(* goes on for as long as nobody tells it.                                 *)
(*                                                                         *)
(* An accept request is a gRPC call in a task of its own: calls[n][f] are  *)
(* the requests n has sent f and f has not handled, oldest first.  A call  *)
(* that fails, on its way there or on its way back, tells the Leader       *)
(* nothing, so whether it will is settled when it is sent or answered.     *)
(***************************************************************************)
EXTENDS Naturals, Sequences, FiniteSets, FiniteSetsExt, SequencesExt

CONSTANTS Node,       \* the members of the group
          InOrder,    \* TRUE if no request overtakes another one to the same member
                      \* and none is handled after the accept timeout (60 s)
          MaxTerm,    \* bound: no term grows beyond it
          MaxSlot,    \* bound: no log grows beyond it
          MaxWrites,  \* bound: client writes
          MaxCalls    \* bound: requests on their way, and responses

ASSUME NodeAssumption == IsFiniteSet(Node) /\ Cardinality(Node) >= 2
ASSUME OrderAssumption == InOrder \in BOOLEAN
ASSUME BoundsAssumption ==
  MaxTerm \in Nat /\ MaxSlot \in Nat /\ MaxWrites \in Nat /\ MaxCalls \in Nat

VARIABLES role,     \* role[n]: Follower, Leader or Crashed
          ctx,      \* ctx[n]: what PaxosSharedContext keeps of the log
          office,   \* office[n]: what the Leader object n owns, while n is one
          calls,    \* accept requests, by sender and receiver
          replies,  \* responses sent and not handled
          writes,   \* client writes so far; a write's number is its value
          chosen,   \* history: what some Leader has committed, slot by slot
          acked     \* history: the writes whose client was told of success

vars == <<role, ctx, office, calls, replies, writes, chosen, acked>>

Peers(n) == Node \ {n}
QuorumSize == Cardinality(Node) \div 2 + 1

Terms == 0..MaxTerm
Slots == 1..MaxSlot
Values == 1..MaxWrites
Entries == [term : Terms, value : Values]
Logs == UNION {[S -> Entries] : S \in SUBSET Slots}
LogPositions == [term : Terms, slot : 0..MaxSlot]
Contexts == [term : Terms, log : LogPositions, committed : 0..MaxSlot,
             uncommitted : Logs, wal : Logs]
Positions == [match : 0..MaxSlot, next : 0..(MaxSlot + 1), sent : 0..MaxSlot,
              batch : 0..MaxSlot]  \* batch: the last slot in flight, 0 if none is
Offices(n) == [pos : [Peers(n) -> Positions], waiting : SUBSET Slots]
Requests == [term : Terms, prev : LogPositions, entries : Logs, commit : 0..MaxSlot]
Hints == [term : Terms, first : 0..(MaxSlot + 1)]
Replies == [from : Node, to : Node, term : Terms,
            outcome : {"written", "conflict", "refused"},
            slot : 0..MaxSlot, hint : Hints]

NoHint == [term |-> 0, first |-> 0]
EmptyLog == [s \in {} |-> [term |-> 0, value |-> 0]]
NoOffice == [pos |-> EmptyLog, waiting |-> {}]
NewContext == [term |-> 0, log |-> [term |-> 0, slot |-> 0], committed |-> 0,
               uncommitted |-> EmptyLog, wal |-> EmptyLog]

Init == /\ role = [n \in Node |-> "Follower"]
        /\ ctx = [n \in Node |-> NewContext]
        /\ office = [n \in Node |-> NoOffice]
        /\ calls = [n \in Node |-> [f \in Node |-> <<>>]]
        /\ replies = {}
        /\ writes = 0
        /\ chosen = {}
        /\ acked = {}

-----------------------------------------------------------------------------
\* The write-ahead log.

From(wal, slot) == [s \in {t \in DOMAIN wal : t >= slot} |-> wal[s]]
TruncateTooMuch(wal, slot) == [s \in {t \in DOMAIN wal : t + 1 < slot} |-> wal[s]]
TruncateFrom(wal, slot) == [s \in {t \in DOMAIN wal : t < slot} |-> wal[s]]
\* The entries of the first log win.
Over(new, old) == [s \in DOMAIN new \union DOMAIN old |->
                     IF s \in DOMAIN new THEN new[s] ELSE old[s]]
SlotsOfTerm(wal, term) == {s \in DOMAIN wal : wal[s].term = term}
TermAt(wal, slot) == IF slot = 0 THEN 0 ELSE wal[slot].term
LastSlot(wal) == Max(DOMAIN wal \union {0})

-----------------------------------------------------------------------------
\* The Leader's side of one follower.

Anchor(pos) == IF pos.sent > pos.next THEN pos.sent
               ELSE IF pos.next = 0 THEN 0 ELSE pos.next - 1

\* wal.get_term(prev_log_slot).expect(...)
CanAnchor(c, pos) == Anchor(pos) = 0 \/ Anchor(pos) \in DOMAIN c.wal

Request(c, pos) ==
  [term |-> c.term,
   prev |-> [term |-> TermAt(c.wal, Anchor(pos)), slot |-> Anchor(pos)],
   entries |-> From(c.wal, Anchor(pos) + 1),
   commit |-> c.committed]

Sent(c, pos) ==
  LET last == LastSlot(From(c.wal, Anchor(pos) + 1))
  IN IF last = 0 THEN pos
     ELSE [pos EXCEPT !.sent = last, !.batch = last]

ClearInFlight(pos) == [pos EXCEPT !.batch = 0,
                                  !.sent = IF pos.next = 0 THEN 0 ELSE pos.next - 1]

OnTheWay == MapThenSumSet(LAMBDA n : MapThenSumSet(LAMBDA f : Len(calls[n][f]), Node), Node)

\* The requests to F that get there, of those the bound has room for.
Delivered(F) == LET room == MaxCalls - OnTheWay
                IN IF room = 0 THEN {{}} ELSE {D \in SUBSET F : Cardinality(D) <= room}

\* A request to each follower of D.
Send(n, c, pos, D) ==
  calls' = [calls EXCEPT ![n] =
              [f \in Node |-> IF f \in D THEN Append(@[f], Request(c, pos[f])) ELSE @[f]]]

SentTo(c, pos, F) == [f \in DOMAIN pos |-> IF f \in F THEN Sent(c, pos[f]) ELSE pos[f]]

\* dispatch_accept_request by a Leader with context c and office o: one request to
\* each follower in F, of which some get there.
SendAll(n, c, o, F) ==
  \E D \in Delivered({f \in F : CanAnchor(c, o.pos[f])}) : Send(n, c, o.pos, D)

\* What becomes of that Leader: the expect that fails panics its loop, and the
\* context, log and all, goes with it.
Seat(c, o, F) ==
  IF \A f \in F : CanAnchor(c, o.pos[f])
  THEN [role |-> "Leader", ctx |-> c, office |-> [o EXCEPT !.pos = SentTo(c, @, F)]]
  ELSE [role |-> "Crashed", ctx |-> NewContext, office |-> NoOffice]

Dispatch(n, c, o, F) ==
  /\ SendAll(n, c, o, F)
  /\ role' = [role EXCEPT ![n] = Seat(c, o, F).role]
  /\ ctx' = [ctx EXCEPT ![n] = Seat(c, o, F).ctx]
  /\ office' = [office EXCEPT ![n] = Seat(c, o, F).office]

-----------------------------------------------------------------------------
\* A new Leader.

GrantsOnTerm(v, n) == role[v] # "Crashed" /\ ctx[v].log.term <= ctx[n].log.term

\* handle_vote_request: neither the term nor the slot of the voter's last entry is
\* above the candidate's.
Grants(v, n) == /\ role[v] # "Crashed"
                /\ ctx[v].log.term <= ctx[n].log.term
                /\ ctx[v].log.slot <= ctx[n].log.slot

\* merge_uncommitted_logs: of the entries promised for a slot, one of the highest term.
Promised(V) ==
  [s \in UNION {DOMAIN ctx[v].uncommitted : v \in V} |->
     LET offers == {ctx[v].uncommitted[s] : v \in {u \in V : s \in DOMAIN ctx[u].uncommitted}}
     IN CHOOSE e \in offers : \A d \in offers : d.term <= e.term]

\* flush_uncommitted_logs: what is promised for a slot above the committed one is
\* taken unless the Candidate has an entry of the same or a higher term there.
Collected(c, promised) ==
  LET taken == {s \in DOMAIN promised :
                  /\ s > c.committed
                  /\ s \in DOMAIN c.uncommitted => promised[s].term > c.uncommitted[s].term}
  IN Over([s \in taken |-> promised[s]], c.uncommitted)

\* process_uncommitted_logs: they are written again in the new term.
Restamped(c, term, collected) ==
  LET log == [s \in DOMAIN collected |-> [collected[s] EXCEPT !.term = term]]
  IN [c EXCEPT !.term = term, !.uncommitted = log, !.wal = Over(log, @),
               !.log = IF log = EmptyLog THEN @ ELSE [term |-> term, slot |-> LastSlot(log)]]

\* Candidate::handle_vote_response seeds the board from the promises.
Seeded(n, V) ==
  [f \in Peers(n) |->
     [match |-> IF f \in V /\ ctx[f].log.term = ctx[n].log.term
                THEN Min({ctx[f].log.slot, ctx[n].log.slot}) ELSE 0,
      next |-> ctx[n].log.slot + 1, sent |-> 0, batch |-> 0]]

NewOffice(n, V, collected) ==
  [NoOffice EXCEPT !.pos =
     IF collected = EmptyLog THEN Seeded(n, V)
     ELSE [f \in Peers(n) |-> [Seeded(n, V)[f] EXCEPT !.next = LastSlot(collected) + 1]]]

TermOfOwn(n, V) == ctx[n].term + 1

\* The voters of V have been in no later term.
NewTerm(n, V) == Max({ctx[m].term : m \in V \union {n}}) + 1

\* n wins the votes of V, which adopt its term; one of them that was a Leader is
\* none any more: its lease is over, or it would have refused.  A campaign that
\* fails, and a vote beyond the quorum, only keep a member from answering an older
\* Leader, as a lost request does, and are left out.
TakeOffice(n, V) ==
  /\ role[n] # "Crashed"
  /\ Cardinality(V) + 1 = QuorumSize
  /\ \A v \in V : Grants(v, n)
  /\ LET term == NewTerm(n, V)
         collected == Collected(ctx[n], Promised(V))
         c == Restamped(ctx[n], term, collected)
         o == NewOffice(n, V, collected)
         seat == Seat(c, o, Peers(n))
     IN /\ term <= MaxTerm
        /\ SendAll(n, c, o, Peers(n))
        /\ role' = [m \in Node |-> IF m = n THEN seat.role
                                  ELSE IF m \in V THEN "Follower" ELSE role[m]]
        /\ ctx' = [m \in Node |-> IF m = n THEN seat.ctx
                                 ELSE IF m \in V THEN [ctx[m] EXCEPT !.term = term] ELSE ctx[m]]
        /\ office' = [m \in Node |-> IF m = n THEN seat.office
                                    ELSE IF m \in V THEN NoOffice ELSE office[m]]
  /\ UNCHANGED <<replies, writes, chosen, acked>>

-----------------------------------------------------------------------------
\* The Leader's events.

\* handle_client_write
ClientWrite(n) ==
  /\ role[n] = "Leader"
  /\ writes < MaxWrites
  /\ ctx[n].log.slot < MaxSlot
  /\ LET slot == ctx[n].log.slot + 1
         e == [s \in {slot} |-> [term |-> ctx[n].term, value |-> writes + 1]]
     IN /\ ctx' = [ctx EXCEPT ![n].wal = Over(e, @), ![n].uncommitted = Over(e, @),
                              ![n].log = [term |-> ctx[n].term, slot |-> slot]]
        /\ office' = [office EXCEPT ![n].waiting = @ \union {slot}]
  /\ writes' = writes + 1
  /\ UNCHANGED <<role, calls, replies, chosen, acked>>

\* handle_write_flush, of a Leader that has buffered writes, and
\* handle_heartbeat_timer, of one that has been idle, dispatch alike.
Broadcast(n) == /\ role[n] = "Leader"
                /\ Dispatch(n, ctx[n], office[n], Peers(n))
                /\ UNCHANGED <<replies, writes, chosen, acked>>

\* Some batch of f has no answer yet.
Waiting(n, f) == role[n] = "Leader" /\ office[n].pos[f].batch > 0
                 /\ InOrder => OnTheWay = 0 /\ replies = {}

\* handle_accept_timeout_check: the batches of F have waited for too long.
AcceptTimeoutCheck(n, F) ==
  /\ role[n] = "Leader"
  /\ office' = [office EXCEPT ![n].pos =
                  [f \in Peers(n) |-> IF f \in F THEN ClearInFlight(@[f]) ELSE @[f]]]
  /\ UNCHANGED <<role, ctx, calls, replies, writes, chosen, acked>>

-----------------------------------------------------------------------------
\* The Follower: handle_accept_request.

Adopted(c, term) == [c EXCEPT !.term = Max({c.term, term})]

LastWritten(req) == IF req.entries = EmptyLog THEN req.prev.slot ELSE LastSlot(req.entries)

\* The anchor's slot is absent, or holds an entry of another term.
Missing(c, req) == req.prev.slot > 0 /\ req.prev.slot \notin DOMAIN c.wal
DiffersNever(c, req) == FALSE
Differs(c, req) == /\ ~Missing(c, req)
                   /\ TermAt(c.wal, req.prev.slot) # req.prev.term

\* The anchor is in place: what follows it is replaced by the request's entries.
Written(c, req) ==
  LET last == LastWritten(req)
      committed == Max({c.committed, Min({req.commit, last})})
      uncommitted == Over(req.entries, c.uncommitted)
  IN [c EXCEPT !.wal = Over(req.entries, TruncateFrom(@, req.prev.slot + 1)),
               !.uncommitted = IF committed > c.committed
                               THEN From(uncommitted, committed + 1) ELSE uncommitted,
               !.committed = committed,
               !.log = IF req.entries = EmptyLog THEN @
                       ELSE [term |-> req.entries[last].term, slot |-> last]]

Reply(f, n, c, outcome, slot, hint) ==
  [from |-> f, to |-> n, term |-> c.term, outcome |-> outcome, slot |-> slot, hint |-> hint]

\* The response gets there or not; one that its receiver will ignore need not.
Respond(r) == \/ replies' = replies
              \/ /\ \/ r.term > ctx[r.to].term
                    \/ r.term = ctx[r.to].term /\ role[r.to] = "Leader" /\ r.outcome # "refused"
                 /\ Cardinality(replies) < MaxCalls
                 /\ replies' = replies \union {r}

\* The i-th unhandled request of n to f is taken; the role of a Leader whose
\* lease is over, or that sees a higher term, becomes Follower.
Take(n, f, i) ==
  /\ i \in 1..Len(calls[n][f])
  /\ InOrder => i = 1
  /\ role[f] # "Crashed"
  /\ calls' = [calls EXCEPT ![n][f] = RemoveAt(@, i)]
  /\ role' = [role EXCEPT ![f] = "Follower"]
  /\ office' = [office EXCEPT ![f] = NoOffice]

\* The lease is running and n is the Leader that f knows.
Admit(n, f, i) ==
  /\ role[f] = "Follower"
  /\ Take(n, f, i)
  /\ LET req == calls[n][f][i]
         c == Adopted(ctx[f], req.term)
         local == c.wal[req.prev.slot].term
     IN /\ req.term >= ctx[f].term
        /\ \/ /\ Missing(c, req)
              /\ ctx' = [ctx EXCEPT ![f] = c]
              /\ Respond(Reply(f, n, c, "conflict", 0,
                               [term |-> 0, first |-> c.log.slot + 1]))
           \/ /\ Differs(c, req)
              /\ ctx' = [ctx EXCEPT ![f] = c]
              /\ Respond(Reply(f, n, c, "conflict", 0,
                               [term |-> local, first |-> Min(SlotsOfTerm(c.wal, local))]))
           \/ /\ ~Missing(c, req) /\ ~Differs(c, req)
              /\ ctx' = [ctx EXCEPT ![f] = Written(c, req)]
              /\ Respond(Reply(f, n, c, "written", LastWritten(req), NoHint))
  /\ UNCHANGED <<writes, chosen, acked>>

\* The request is of an older term, or f has no lease or no such leader.
Refuse(n, f, i) ==
  /\ Take(n, f, i)
  /\ calls[n][f][i].term # ctx[f].term
  /\ LET c == Adopted(ctx[f], calls[n][f][i].term)
     IN /\ ctx' = [ctx EXCEPT ![f] = c]
        /\ Respond(Reply(f, n, c, "refused", 0, NoHint))
  /\ UNCHANGED <<writes, chosen, acked>>

-----------------------------------------------------------------------------
\* The Leader: handle_accept_response.

\* The highest slot that the Leader and QuorumSize - 1 followers have.
QuorumSlot(pos, last) ==
  Max({s \in 0..last : Cardinality({f \in DOMAIN pos : pos[f].match >= s}) >= QuorumSize - 1})

AcknowledgedPast(pos, slot) ==
  [pos EXCEPT !.match = slot, !.next = slot + 2, !.sent = Max({@, slot}),
              !.batch = IF @ > slot THEN @ ELSE 0]

Acknowledged(pos, slot) ==
  [pos EXCEPT !.match = slot, !.next = slot + 1, !.sent = Max({@, slot}),
              !.batch = IF @ > slot THEN @ ELSE 0]

AnsweredTooSoon(waiting, slot) == {s \in waiting : s <= slot + 1}

\* resolve_in_flight_writes: the writes in the slots up to slot.
Answered(waiting, slot) == {s \in waiting : s <= slot}

\* The slots up to slot are committed, and the writes among them answered.
Commit(n, pos, slot) ==
  LET wal == ctx[n].wal
      done == Answered(office[n].waiting, slot)
  IN /\ ctx' = [ctx EXCEPT ![n].committed = slot, ![n].uncommitted = From(@, slot + 1)]
     /\ office' = [office EXCEPT ![n] = [pos |-> pos, waiting |-> @.waiting \ done]]
     /\ chosen' = chosen \union {[slot |-> s, value |-> wal[s].value] :
                                   s \in (ctx[n].committed + 1)..slot \intersect DOMAIN wal}
     /\ acked' = acked \union {wal[s].value : s \in done}

\* A follower has written up to r.slot.
HandleWritten(n, r) ==
  LET pos == [office[n].pos EXCEPT ![r.from] = Acknowledged(@, r.slot)]
      slot == QuorumSlot(pos, ctx[n].log.slot)
      news == r.slot > office[n].pos[r.from].match
  IN \/ ~news /\ UNCHANGED <<ctx, office, chosen, acked>>
     \/ /\ news /\ slot <= ctx[n].committed
        /\ office' = [office EXCEPT ![n].pos = pos]
        /\ UNCHANGED <<ctx, chosen, acked>>
     \/ news /\ slot > ctx[n].committed /\ Commit(n, pos, slot)

\* A follower could not place the entries: probe it again from its hint.
HandleConflict(n, r) ==
  LET known == SlotsOfTerm(ctx[n].wal, r.hint.term)
      next == IF r.hint.term = 0 \/ known = {} THEN r.hint.first ELSE Max(known) + 1
      pos == [ClearInFlight(office[n].pos[r.from]) EXCEPT !.next = next]
  IN /\ Dispatch(n, ctx[n], [office[n] EXCEPT !.pos[r.from] = pos], {r.from})
     /\ UNCHANGED <<chosen, acked>>

ReceiveResponse(n, r) ==
  /\ r \in replies /\ r.to = n
  /\ role[n] = "Leader"
  /\ r.term = ctx[n].term
  /\ \/ r.outcome = "written" /\ HandleWritten(n, r) /\ UNCHANGED <<role, calls>>
     \/ r.outcome = "conflict" /\ HandleConflict(n, r)
  /\ replies' = replies \ {r}
  /\ UNCHANGED writes

\* process_event: a response of a higher term ends the office.
ReceiveHigherTerm(n, r) ==
  /\ r \in replies /\ r.to = n
  /\ role[n] # "Crashed"
  /\ r.term > ctx[n].term
  /\ ctx' = [ctx EXCEPT ![n].term = r.term]
  /\ role' = [role EXCEPT ![n] = "Follower"]
  /\ office' = [office EXCEPT ![n] = NoOffice]
  /\ replies' = replies \ {r}
  /\ UNCHANGED <<calls, writes, chosen, acked>>

\* A response that finds no Leader of its term, or only refuses, changes nothing.
IgnoreResponse(n, r) ==
  /\ r \in replies /\ r.to = n
  /\ \/ r.term < ctx[n].term
     \/ r.term = ctx[n].term /\ (role[n] # "Leader" \/ r.outcome = "refused")
     \/ role[n] = "Crashed"
  /\ replies' = replies \ {r}
  /\ UNCHANGED <<role, ctx, office, calls, writes, chosen, acked>>

-----------------------------------------------------------------------------
Next ==
  \/ \E n \in Node :
       \/ \E V \in SUBSET Peers(n) : TakeOffice(n, V)
       \/ ClientWrite(n)
       \/ Broadcast(n)
       \/ \E F \in SUBSET {f \in Peers(n) : Waiting(n, f)} \ {{}} : AcceptTimeoutCheck(n, F)
       \/ \E r \in replies :
            ReceiveResponse(n, r) \/ ReceiveHigherTerm(n, r) \/ IgnoreResponse(n, r)
       \/ \E f \in Peers(n), i \in 1..MaxCalls :
            Admit(n, f, i) \/ Refuse(n, f, i)

Spec == Init /\ [][Next]_vars

-----------------------------------------------------------------------------
\* Types: terms, slots and the marks of every score board stay within the log.
TypeOK == /\ role \in [Node -> {"Follower", "Leader", "Crashed"}]
          /\ ctx \in [Node -> Contexts]
          /\ DOMAIN office = Node
          /\ \A n \in Node : office[n] \in IF role[n] = "Leader" THEN Offices(n) ELSE {NoOffice}
          /\ calls \in [Node -> [Node -> Seq(Requests)]]
          /\ replies \subseteq Replies
          /\ writes \in 0..MaxWrites
          /\ chosen \subseteq [slot : Slots, value : Values]
          /\ acked \subseteq Values

Holds(n, e) == e.slot \in DOMAIN ctx[n].wal /\ ctx[n].wal[e.slot].value = e.value

\* No Leader knows a term above n's.
Newest(n) == role[n] = "Leader" /\ \A m \in Node : ctx[m].term <= ctx[n].term

\* Durability: what a Leader has committed, and may have answered its client for,
\* is in the logs of a quorum, and stays there when followers truncate
\* (handle_accept_request) and new Leaders restamp (process_uncommitted_logs).
ChosenStays == \A e \in chosen : Cardinality({n \in Node : Holds(n, e)}) >= QuorumSize

\* A Leader that no later one has replaced has every committed entry, although it
\* collects from its voters only what they have not committed themselves.
LeaderComplete == \A n \in Node : Newest(n) => \A e \in chosen : Holds(n, e)

\* What any member counts as committed is what some Leader has committed for the
\* slot: a follower takes the commit slot on trust, with the entries it has.
CommittedIsChosen ==
  \A n \in Node : \A s \in 1..ctx[n].committed :
    s \in DOMAIN ctx[n].wal /\ [slot |-> s, value |-> ctx[n].wal[s].value] \in chosen

\* The term of an entry identifies it: the anchor check compares nothing else.
OneValuePerTerm ==
  \A m, n \in Node : \A s \in DOMAIN ctx[m].wal \intersect DOMAIN ctx[n].wal :
    ctx[m].wal[s].term = ctx[n].wal[s].term => ctx[m].wal[s].value = ctx[n].wal[s].value

\* A follower has the entries that the score board counts for it, whether the mark
\* comes from a promise, which the Candidate turns into a match slot, or from a
\* response.
MatchIsReal ==
  \A n \in Node : Newest(n)
    => \A f \in Peers(n) : \A s \in 1..office[n].pos[f].match :
         s \in DOMAIN ctx[n].wal => Holds(f, [slot |-> s, value |-> ctx[n].wal[s].value])

\* "prev_log_slot is a slot previously sent, so it must be in the WAL" (leader.rs:249),
\* or the Leader panics: the anchor of its next request to a follower is in its log.
AnchorsInLog == \A n \in Node : role[n] # "Crashed"

\* The group implements one log that only grows, of which every member knows a
\* prefix, and from which every acknowledged write is taken.
Abstract == INSTANCE ChosenLog WITH known <- [n \in Node |-> ctx[n].committed], told <- acked
ImplementsChosenLog == Abstract!Spec
=============================================================================
