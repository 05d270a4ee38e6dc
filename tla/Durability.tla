----------------------------- MODULE Durability -----------------------------
(***************************************************************************)
(* Why the group does not lose what it has committed: the inductive        *)
(* invariants behind the safety properties of Replication.                 *)
(*                                                                         *)
(* TermInv holds in a group of any size, whatever overtakes what.          *)
(* DurabilityInv holds in a group of at most four members whose requests   *)
(* are handled in order, for as long as no Leader panics.                  *)
(***************************************************************************)
EXTENDS Replication

\* The requests that n has sent f and f has not handled.
InFlight(n, f) == {calls[n][f][i] : i \in 1..Len(calls[n][f])}

\* Some log, or some request on its way, has e in slot s.
Appears(s, e) ==
  \/ \E m \in Node : s \in DOMAIN ctx[m].wal /\ ctx[m].wal[s] = e
  \/ \E m \in Node : s \in DOMAIN ctx[m].uncommitted /\ ctx[m].uncommitted[s] = e
  \/ \E n, f \in Node : \E r \in InFlight(n, f) : s \in DOMAIN r.entries /\ r.entries[s] = e

\* What the types alone do not say of requests, responses and waiting clients: no
\* member writes to itself, and a client waits for a slot of its Leader's log.
Shapes ==
  /\ \A n, f \in Node : \A r \in InFlight(n, f) : n # f /\ (r.prev.slot = 0 => r.prev.term = 0)
  /\ \A n \in Node : office[n].waiting \subseteq DOMAIN ctx[n].wal
  /\ \A r \in replies : r.from # r.to

-----------------------------------------------------------------------------
(* Terms. *)

\* A quorum knows t, or is down for good: a Candidate, whose term is above that of
\* each of its voters, wins no term that is not above t.
Opened(t) == \E Q \in SUBSET Node :
  /\ Cardinality(Q) >= QuorumSize
  /\ \A m \in Q : role[m] = "Crashed" \/ ctx[m].term >= t

\* Every term that anything bears is open, and no log, nor any request, bears one
\* that its owner does not know.
TermsOpened ==
  /\ \A m \in Node : Opened(ctx[m].term)
  /\ \A m \in Node : ctx[m].log.term <= ctx[m].term
  /\ \A m \in Node : \A s \in DOMAIN ctx[m].wal : ctx[m].wal[s].term <= ctx[m].term
  /\ \A m \in Node : \A s \in DOMAIN ctx[m].uncommitted :
       ctx[m].uncommitted[s].term <= ctx[m].term
  /\ \A n, f \in Node : \A r \in InFlight(n, f) :
       /\ Opened(r.term)
       /\ \A s \in DOMAIN r.entries : r.entries[s].term <= r.term
  /\ \A r \in replies : Opened(r.term)

\* A term has one Leader, and only its Leader's requests bear it.
OneLeader ==
  /\ \A m, n \in Node : role[m] = "Leader" /\ role[n] = "Leader" /\ ctx[m].term = ctx[n].term
       => m = n
  /\ \A m, n, f \in Node : \A r \in InFlight(m, f) :
       role[n] = "Leader" /\ r.term = ctx[n].term => m = n

\* The entries of a Leader's term are in slots of its own log, so that the next slot
\* it writes has none.
LeaderAhead ==
  \A n \in Node : role[n] = "Leader" => \A s \in Slots, e \in Entries :
    Appears(s, e) /\ e.term = ctx[n].term
      => s <= ctx[n].log.slot /\ ctx[n].log.term = ctx[n].term

\* Whatever has an entry of a term in a slot has the same one.
OneEntryPerTerm ==
  \A s \in Slots : \A d, e \in Entries : Appears(s, d) /\ Appears(s, e) /\ d.term = e.term => d = e

TermInv == TermsOpened /\ OneLeader /\ LeaderAhead /\ OneEntryPerTerm

-----------------------------------------------------------------------------
(* Durability. *)

\* A write for slot s can be chosen in term t once two members reach it there: no new
\* Leader then lacks both among its voters and itself.
Reach(m, t, s) == ctx[m].log.term >= t /\ ctx[m].log.slot >= s

\* Who takes r has an entry of term t or a later one in slot s.
Covers(r, t, s) == IF s <= r.prev.slot THEN r.prev.term >= t
                   ELSE s \in DOMAIN r.entries /\ r.entries[s].term >= t

\* From term t on nothing but v is in slot s: no entry has another value, no log
\* reaches it without an entry, no Leader falls short of it, and no request leaves
\* it out.
Agreed(t, s, v) ==
  /\ \A e \in Entries : Appears(s, e) /\ e.term >= t => e.value = v
  /\ \A m \in Node : Reach(m, t, s) => s \in DOMAIN ctx[m].wal /\ ctx[m].wal[s].term >= t
  /\ \A n \in Node : role[n] = "Leader" /\ ctx[n].term >= t => Reach(n, t, s)
  /\ \A n, f \in Node : \A r \in InFlight(n, f) :
       r.term > t \/ (r.term = t /\ LastWritten(r) >= s) => Covers(r, t, s)

\* What is agreed stays agreed, as two members that reach it see to.
Grounded(t, s, v) ==
  Agreed(t, s, v) /\ \E m1, m2 \in Node : m1 # m2 /\ Reach(m1, t, s) /\ Reach(m2, t, s)

Backed(m, s, v) == \E t \in Terms : Grounded(t, s, v) /\ Reach(m, t, s)

BackedAlike(m, n, s) == \E v \in Values : Backed(m, s, v) /\ Backed(n, s, v)

\* All but one member know the newest term: what a quorum of two, or of three out of
\* four, makes of every election.
AllButOne ==
  \A m1, m2, k \in Node :
    m1 # m2 => ctx[m1].term >= ctx[k].term \/ ctx[m2].term >= ctx[k].term

\* A log has no gaps, and its terms do not fall.  Its end, the last position that the
\* member reports, may be past its last entry: an empty request that truncates the
\* log leaves the position as it was.
WalShape(c) ==
  /\ \E k \in 0..c.log.slot : DOMAIN c.wal = 1..k /\ c.committed <= k
  /\ \A s1, s2 \in DOMAIN c.wal : s1 <= s2 => c.wal[s1].term <= c.wal[s2].term
  /\ \A s \in DOMAIN c.wal : c.wal[s].term <= c.log.term

\* The uncommitted entries are those of the log, and have everything from the first
\* of them, and from the commit slot, to the end; more past it.
PendingShape(c) ==
  /\ \A s \in DOMAIN c.wal \intersect DOMAIN c.uncommitted : c.wal[s] = c.uncommitted[s]
  /\ \A s \in (c.committed + 1)..c.log.slot : s \in DOMAIN c.uncommitted
  /\ \A s1 \in DOMAIN c.uncommitted : \A s2 \in (c.committed + 1)..s1 : s2 \in DOMAIN c.uncommitted
  /\ \A s1 \in DOMAIN c.uncommitted : \A s2 \in s1..c.log.slot : s2 \in DOMAIN c.uncommitted
  /\ DOMAIN c.uncommitted # {} => \E s \in DOMAIN c.uncommitted : s >= c.log.slot

LogsWellFormed == \A m \in Node : WalShape(ctx[m]) /\ PendingShape(ctx[m])

\* A Leader's log ends where it says, what older terms left in it is committed, no log
\* and no request of its term goes further, and what it wrote itself is agreed for as
\* long as nobody knows a later term.
LeaderLog ==
  \A n \in Node : role[n] = "Leader" =>
    /\ DOMAIN ctx[n].wal = 1..ctx[n].log.slot
    /\ \A s \in DOMAIN ctx[n].wal : ctx[n].wal[s].term < ctx[n].term => s <= ctx[n].committed
    /\ \A m \in Node : ctx[m].log.term = ctx[n].term
         => ctx[m].log.slot <= ctx[n].log.slot /\ ctx[n].log.term = ctx[n].term
    /\ \A f \in Node : \A r \in InFlight(n, f) :
         r.term = ctx[n].term => LastWritten(r) <= ctx[n].log.slot
    /\ Newest(n) => \A t \in Terms, v \in Values : \A s \in DOMAIN ctx[n].wal :
         t = ctx[n].term /\ t = ctx[n].wal[s].term /\ v = ctx[n].wal[s].value => Agreed(t, s, v)

RequestShape(r) ==
  /\ DOMAIN r.entries = (r.prev.slot + 1)..LastWritten(r)
  /\ r.prev.slot <= LastWritten(r) /\ r.prev.term <= r.term
  /\ \A s1, s2 \in DOMAIN r.entries : s1 <= s2 => r.entries[s1].term <= r.entries[s2].term
  /\ \A s \in DOMAIN r.entries : r.prev.term <= r.entries[s].term

\* What a request commits is chosen; it does not shorten a log of its term; and if it
\* is not too old, everything up to its last slot is agreed and another member than
\* its receiver reaches it.
RequestedOf(n, f, r) ==
  /\ RequestShape(r)
  /\ r.term <= ctx[n].term
  /\ \A s \in 1..r.commit : \E v \in Values, t \in 0..r.term :
       [slot |-> s, value |-> v] \in chosen /\ Grounded(t, s, v)
  /\ r.term = ctx[f].term /\ r.term = ctx[f].log.term => LastWritten(r) >= ctx[f].log.slot
  /\ r.term >= ctx[f].term => \A s \in 1..LastWritten(r) : \E v \in Values, t \in Terms :
       Agreed(t, s, v) /\ Covers(r, t, s) /\ \E m \in Node \ {f} : Reach(m, t, s)

Requested == \A n, f \in Node : \A r \in InFlight(n, f) : RequestedOf(n, f, r)

OneSender ==
  \A m, n, f, g \in Node : \A q \in InFlight(m, f), r \in InFlight(n, g) : q.term = r.term => m = n

\* A later request of a term goes at least as far.
QueuesSorted ==
  \A n, f \in Node : \A i, j \in 1..Len(calls[n][f]) :
    i <= j => LET q == calls[n][f][i]
                  r == calls[n][f][j]
              IN q.term <= r.term /\ (q.term = r.term => LastWritten(q) <= LastWritten(r))

\* Two logs that end in the same term agree as far as both of them go.
LogsMatch ==
  \A m, n \in Node : m # n /\ ctx[m].log.term = ctx[n].log.term =>
    \A s \in 1..ctx[m].log.slot : s <= ctx[n].log.slot => BackedAlike(m, n, s)

\* The marks of a score board, and what the responses on their way will make of them.
BoardsBacked ==
  \A n \in Node : role[n] = "Leader" =>
    \A f \in Peers(n) : \A s \in 1..office[n].pos[f].match : BackedAlike(n, f, s)

RepliesBacked ==
  \A r \in replies :
    /\ r.term <= ctx[r.from].term
    /\ role[r.to] = "Leader" /\ r.term = ctx[r.to].term /\ r.outcome = "written"
         => \A s \in 1..r.slot : BackedAlike(r.to, r.from, s)

ChosenBacked ==
  \A e \in chosen : Cardinality({m \in Node : Backed(m, e.slot, e.value)}) >= QuorumSize

CommittedBacked ==
  \A m \in Node : \A s \in 1..ctx[m].committed : \E v \in Values :
    [slot |-> s, value |-> v] \in chosen /\ Backed(m, s, v)

DurabilityInv ==
  /\ AllButOne /\ LogsWellFormed /\ LeaderLog /\ Requested /\ OneSender /\ QueuesSorted
  /\ LogsMatch /\ BoardsBacked /\ RepliesBacked /\ ChosenBacked /\ CommittedBacked

\* A Leader that panics takes its log with it, and what it alone reached.
Durable == AnchorsInLog => DurabilityInv
=============================================================================
