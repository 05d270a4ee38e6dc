-------------------------- MODULE DurabilityProofs --------------------------
(***************************************************************************)
(* What a group of at most four members has committed it keeps, as long as *)
(* its requests are handled in order and no Leader panics.                 *)
(*                                                                         *)
(* DurabilityInv is shown to hold step by step, for the shapes of step     *)
(* that NextIs distinguishes: those that move no log (Calm), a write of a  *)
(* client, a request that is accepted (Overwrites) and a new Leader        *)
(* (Elects).  At the heart of each is that what is agreed stays agreed     *)
(* (Stays): from some term on, every entry for the slot has one value, and *)
(* two members reach it, of which every later Leader's voters have one.    *)
(* At the end, the group is shown to implement one log (ChosenLog).        *)
(***************************************************************************)
EXTENDS ReplicationProofs

-----------------------------------------------------------------------------
(* What a request carries. *)

\* A Leader whose context is c may send r.
SentFrom(c, r) ==
  /\ r.term = c.term /\ r.commit = c.committed
  /\ r.prev.slot = 0 \/ r.prev.slot \in DOMAIN c.wal
  /\ r.prev.term = TermAt(c.wal, r.prev.slot)
  /\ DOMAIN r.entries = {s \in DOMAIN c.wal : s > r.prev.slot}
  /\ \A s \in DOMAIN r.entries : r.entries[s] = c.wal[s]

LEMMA RequestIsSent ==
  ASSUME NEW c \in Contexts, NEW pos \in Positions, CanAnchor(c, pos)
  PROVE  SentFrom(c, Request(c, pos))
BY RequestIs, AnchorIs DEF SentFrom

\* It goes to the end of that Leader's log, whatever its anchor.
LEMMA SentFromIs ==
  ASSUME NEW c \in Contexts, WalShape(c), c.log.term <= c.term,
         NEW r \in Requests, SentFrom(c, r)
  PROVE  /\ RequestShape(r)
         /\ LastWritten(r) <= c.log.slot
         /\ DOMAIN c.wal = 1..LastWritten(r)
         /\ \A s \in DOMAIN c.wal : \A t \in Nat : c.wal[s].term >= t => Covers(r, t, s)
<1>1. PICK k \in 0..c.log.slot : DOMAIN c.wal = 1..k /\ c.committed <= k
  BY DEF WalShape
<1>2. /\ c.log.slot \in Nat /\ c.log.term \in Nat /\ c.term \in Nat /\ c.wal \in Logs /\ k \in Nat
      /\ r.prev.slot \in Nat /\ r.prev.term \in Nat /\ r.term \in Nat /\ r.entries \in Logs
      /\ LastWritten(r) \in Nat
  BY <1>1, ContextElim, RequestElim
<1>3. \A s \in DOMAIN c.wal : s \in Nat /\ c.wal[s].term \in Nat /\ c.wal[s].term <= c.term
  <2>1. \A s \in DOMAIN c.wal : s \in Nat /\ c.wal[s].term \in Nat
    BY <1>2, LogElim, BoundsAssumption DEF Terms
  <2>2. \A s \in DOMAIN c.wal : c.wal[s].term <= c.log.term
    BY DEF WalShape
  <2> QED
    BY <1>2, <2>1, <2>2
<1>4. \A s1, s2 \in DOMAIN c.wal : s1 <= s2 => c.wal[s1].term <= c.wal[s2].term
  BY DEF WalShape
<1>5. /\ r.prev.slot <= k
      /\ DOMAIN r.entries = (r.prev.slot + 1)..k
      /\ \A s \in DOMAIN r.entries : s \in DOMAIN c.wal /\ r.entries[s] = c.wal[s]
      /\ r.prev.slot > 0 => r.prev.slot \in DOMAIN c.wal /\ r.prev.term = c.wal[r.prev.slot].term
      /\ r.prev.slot = 0 => r.prev.term = 0
      /\ r.term = c.term
  BY <1>1, <1>2 DEF SentFrom, TermAt
<1>6. LastWritten(r) = k
  <2>1. CASE r.entries = EmptyLog
    <3>1. DOMAIN r.entries = {}
      BY <1>2, <2>1, EmptyLogIs
    <3>2. LastWritten(r) = r.prev.slot
      BY <2>1, RequestElim
    <3>3. r.prev.slot = k
      BY <1>2, <1>5, <3>1
    <3> QED
      BY <3>2, <3>3
  <2>2. CASE r.entries # EmptyLog
    <3>1. LastWritten(r) \in DOMAIN r.entries /\ \A s \in DOMAIN r.entries : s <= LastWritten(r)
      BY <2>2, RequestElim
    <3>2. LastWritten(r) \in (r.prev.slot + 1)..k
      BY <1>5, <3>1
    <3>3. k \in (r.prev.slot + 1)..k
      BY <1>2, <3>2
    <3>4. k <= LastWritten(r)
      BY <1>5, <3>1, <3>3
    <3> QED
      BY <1>2, <3>2, <3>4
  <2> QED
    BY <2>1, <2>2
<1>7. r.prev.term <= r.term
  <2>1. CASE r.prev.slot = 0
    BY <1>2, <1>5, <2>1
  <2>2. CASE r.prev.slot > 0
    BY <1>2, <1>3, <1>5, <2>2
  <2> QED
    BY <1>2, <2>1, <2>2
<1>8. \A s \in DOMAIN r.entries : r.prev.term <= r.entries[s].term
  BY <1>2, <1>3, <1>4, <1>5
<1>9. \A s1, s2 \in DOMAIN r.entries : s1 <= s2 => r.entries[s1].term <= r.entries[s2].term
  BY <1>4, <1>5
<1>10. RequestShape(r)
  BY <1>2, <1>5, <1>6, <1>7, <1>8, <1>9 DEF RequestShape
<1>11. ASSUME NEW s \in DOMAIN c.wal, NEW t \in Nat, c.wal[s].term >= t
       PROVE  Covers(r, t, s)
  <2>1. CASE s <= r.prev.slot
    <3>1. s \in Nat /\ s >= 1
      BY <1>1, <1>2
    <3>2. r.prev.slot \in DOMAIN c.wal /\ r.prev.term = c.wal[r.prev.slot].term
      BY <1>2, <1>5, <2>1, <3>1
    <3>3. c.wal[s].term <= r.prev.term
      BY <1>4, <2>1, <3>2
    <3>4. c.wal[s].term \in Nat
      BY <1>3
    <3>5. r.prev.term >= t
      BY <1>2, <1>11, <3>3, <3>4
    <3> QED
      BY <2>1, <3>5 DEF Covers
  <2>2. CASE ~ (s <= r.prev.slot)
    BY <1>1, <1>2, <1>3, <1>5, <1>11, <2>2 DEF Covers
  <2> QED
    BY <2>1, <2>2
<1> QED
  BY <1>1, <1>6, <1>10, <1>11

-----------------------------------------------------------------------------
(* What is agreed stays agreed. *)

\* What is on its way after a step, and was not before it, a Leader has sent.
Sending ==
  \A m, f \in Node : \A r \in InFlight(m, f)' :
    \/ r \in InFlight(m, f)
    \/ role'[m] = "Leader" /\ f # m /\ SentFrom(ctx'[m], r)

LEMMA SendsIsSending ==
  ASSUME TypeInv, NEW n \in Node, NEW c \in Contexts, Sends(n, c),
         role'[n] = "Leader", ctx'[n] = c
  PROVE  Sending
<1> SUFFICES ASSUME NEW m \in Node, NEW f \in Node, NEW r \in InFlight(m, f)',
                    r \notin InFlight(m, f)
             PROVE  role'[m] = "Leader" /\ f # m /\ SentFrom(ctx'[m], r)
  BY DEF Sending
<1>1. m = n /\ f # n /\ \E pos \in Positions : CanAnchor(c, pos) /\ r = Request(c, pos)
  BY SentIsInLog
<1> QED
  BY <1>1, RequestIsSent

LEMMA TypesAfter ==
  ASSUME TypeInv'
  PROVE  /\ CallsOK'
         /\ \A m \in Node : ctx'[m] \in Contexts /\ ctx'[m].term \in Nat
         /\ \A m, f \in Node : \A r \in InFlight(m, f)' : r \in Requests
<1>1. CallsOK' /\ \A m \in Node : ctx'[m] \in Contexts
  BY DEF TypeInv, TypeOK, CallsOK
<1>2. \A m \in Node : ctx'[m].term \in Nat
  BY <1>1, ContextElim
<1>3. ASSUME NEW m \in Node, NEW f \in Node, NEW r \in InFlight(m, f)'
      PROVE  r \in Requests
  <2>1. calls'[m][f] \in Seq(Requests)
    BY <1>1 DEF CallsOK
  <2>2. \E i \in 1..Len(calls'[m][f]) : r = calls'[m][f][i]
    BY DEF InFlight
  <2> QED
    BY <2>1, <2>2, ElementOfSeq
<1> QED
  BY <1>1, <1>2, <1>3

\* The four parts of an agreement, after a step.
LEMMA AgreedAfter ==
  ASSUME TypeInv', TermsOpened', LogsWellFormed', Sending,
         NEW t \in Terms, NEW s \in Slots, NEW v, Agreed(t, s, v),
         \A e \in Entries : Appears(s, e)' /\ e.term >= t => Appears(s, e) \/ e.value = v,
         \A m \in Node : ctx'[m].log.term >= t /\ ctx'[m].log.slot >= s
           => s \in DOMAIN ctx'[m].wal /\ ctx'[m].wal[s].term >= t,
         \A m \in Node : role'[m] = "Leader" /\ ctx'[m].term >= t
           => ctx'[m].log.term >= t /\ ctx'[m].log.slot >= s
  PROVE  Agreed(t, s, v)'
<1>1. t \in Nat
  BY BoundsAssumption DEF Terms
<1>2. ASSUME NEW m \in Node, NEW f \in Node, NEW r \in InFlight(m, f)',
             r.term > t \/ (r.term = t /\ LastWritten(r) >= s)
      PROVE  Covers(r, t, s)
  <2>1. CASE r \in InFlight(m, f)
    BY <1>2, <2>1 DEF Agreed
  <2>2. CASE role'[m] = "Leader" /\ SentFrom(ctx'[m], r)
    <3>1. ctx'[m] \in Contexts /\ ctx'[m].term \in Nat /\ r \in Requests
      BY TypesAfter
    <3>2. ctx'[m].log.term <= ctx'[m].term /\ WalShape(ctx'[m])
      BY DEF TermsOpened, LogsWellFormed
    <3>3. r.term = ctx'[m].term
      BY <2>2 DEF SentFrom
    <3>4. ctx'[m].term >= t
      BY <1>1, <1>2, <3>1, <3>3
    <3>5. s \in DOMAIN ctx'[m].wal /\ ctx'[m].wal[s].term >= t
      BY <2>2, <3>4
    <3> QED
      BY <1>1, <2>2, <3>1, <3>2, <3>5, SentFromIs
  <2> QED
    BY <2>1, <2>2 DEF Sending
<1>3. ASSUME NEW e \in Entries, Appears(s, e)', e.term >= t
      PROVE  e.value = v
  BY <1>3 DEF Agreed
<1> QED
  BY <1>2, <1>3 DEF Agreed, Reach

\* A step that moves no log, as all but four of them are.
Calm ==
  /\ \A m \in Node : role'[m] = "Leader" => role[m] = "Leader" /\ ctx'[m].term = ctx[m].term
  /\ \A m \in Node : ctx'[m].log = ctx[m].log /\ ctx'[m].wal = ctx[m].wal
  /\ \A s, e : Appears(s, e)' => Appears(s, e)
  /\ Sending

\* What two members reach stays agreed, and what a member reaches it goes on reaching.
Stays ==
  \A t \in Terms, s \in Slots, v \in Values :
    /\ Grounded(t, s, v) => Grounded(t, s, v)'
    /\ Agreed(t, s, v) => \A m \in Node : Reach(m, t, s) => Reach(m, t, s)'

LEMMA CalmAgreed ==
  ASSUME TypeInv', TermsOpened', LogsWellFormed', Calm,
         NEW t \in Terms, NEW s \in Slots, NEW v, Agreed(t, s, v)
  PROVE  Agreed(t, s, v)' /\ \A m \in Node : Reach(m, t, s) => Reach(m, t, s)'
<1>1. \A m \in Node : ctx'[m].log = ctx[m].log /\ ctx'[m].wal = ctx[m].wal
  BY DEF Calm
<1>2. \A e \in Entries : Appears(s, e)' /\ e.term >= t => Appears(s, e) \/ e.value = v
  BY DEF Calm
<1>3. \A m \in Node : ctx'[m].log.term >= t /\ ctx'[m].log.slot >= s
        => s \in DOMAIN ctx'[m].wal /\ ctx'[m].wal[s].term >= t
  BY <1>1 DEF Agreed, Reach
<1>4. \A m \in Node : role'[m] = "Leader" /\ ctx'[m].term >= t
        => ctx'[m].log.term >= t /\ ctx'[m].log.slot >= s
  BY <1>1 DEF Agreed, Reach, Calm
<1>5. Sending
  BY DEF Calm
<1>6. Agreed(t, s, v)'
  BY <1>2, <1>3, <1>4, <1>5, AgreedAfter
<1> QED
  BY <1>1, <1>6 DEF Reach

LEMMA StaysIntro ==
  ASSUME \A t \in Terms, s \in Slots, v \in Values : Agreed(t, s, v) =>
           Agreed(t, s, v)' /\ \A m \in Node : Reach(m, t, s) => Reach(m, t, s)'
  PROVE  Stays
<1> SUFFICES ASSUME NEW t \in Terms, NEW s \in Slots, NEW v \in Values
             PROVE  /\ Grounded(t, s, v) => Grounded(t, s, v)'
                    /\ Agreed(t, s, v) => \A m \in Node : Reach(m, t, s) => Reach(m, t, s)'
  BY DEF Stays
<1>1. Agreed(t, s, v) => Agreed(t, s, v)' /\ \A m \in Node : Reach(m, t, s) => Reach(m, t, s)'
  OBVIOUS
<1>2. ASSUME Grounded(t, s, v) PROVE Grounded(t, s, v)'
  <2>1. PICK m1, m2 \in Node : m1 # m2 /\ Reach(m1, t, s) /\ Reach(m2, t, s)
    BY <1>2 DEF Grounded
  <2>2. Agreed(t, s, v)' /\ Reach(m1, t, s)' /\ Reach(m2, t, s)'
    BY <1>1, <1>2, <2>1 DEF Grounded
  <2> QED
    BY <2>1, <2>2 DEF Grounded
<1> QED
  BY <1>1, <1>2

LEMMA BackedStays ==
  ASSUME Stays, NEW m \in Node, NEW s \in Slots, NEW v \in Values, Backed(m, s, v)
  PROVE  Backed(m, s, v)'
<1>1. PICK t \in Terms : Grounded(t, s, v) /\ Reach(m, t, s)
  BY DEF Backed
<1>2. Grounded(t, s, v)' /\ Reach(m, t, s)'
  BY <1>1 DEF Stays, Grounded
<1> QED
  BY <1>2 DEF Backed

LEMMA BackedAlikeStays ==
  ASSUME Stays, NEW m \in Node, NEW n \in Node, NEW s \in Slots, BackedAlike(m, n, s)
  PROVE  BackedAlike(m, n, s)'
<1>1. PICK v \in Values : Backed(m, s, v) /\ Backed(n, s, v)
  BY DEF BackedAlike
<1>2. Backed(m, s, v)' /\ Backed(n, s, v)'
  BY <1>1, BackedStays
<1> QED
  BY <1>2 DEF BackedAlike

\* What is backed is in the log.
LEMMA BackedIs ==
  ASSUME TypeInv, NEW m \in Node, NEW s \in Slots, NEW v \in Values, Backed(m, s, v)
  PROVE  s \in DOMAIN ctx[m].wal /\ ctx[m].wal[s].value = v
<1>1. PICK t \in Terms : Agreed(t, s, v) /\ Reach(m, t, s)
  BY DEF Backed, Grounded
<1>2. s \in DOMAIN ctx[m].wal /\ ctx[m].wal[s].term >= t
  BY <1>1 DEF Agreed
<1>3. Appears(s, ctx[m].wal[s])
  BY <1>2, AppearsIntro
<1>4. ctx[m].wal[s] \in Entries
  BY <1>3, AppearsTyped
<1> QED
  BY <1>1, <1>2, <1>3, <1>4 DEF Agreed

LEMMA ChosenStaysBacked ==
  ASSUME TypeInv, Stays, ChosenBacked, NEW e \in chosen
  PROVE  Cardinality({m \in Node : Backed(m, e.slot, e.value)'}) >= QuorumSize
<1>1. e.slot \in Slots /\ e.value \in Values
  BY DEF TypeInv, TypeOK
<1> DEFINE Q == {m \in Node : Backed(m, e.slot, e.value)}
           R == {m \in Node : Backed(m, e.slot, e.value)'}
<1>2. Q \subseteq R /\ R \subseteq Node
  BY <1>1, BackedStays
<1>3. Cardinality(Q) >= QuorumSize
  BY DEF ChosenBacked
<1> HIDE DEF Q, R
<1>4. IsFiniteSet(R)
  BY <1>2, NodeAssumption, FS_Subset
<1>5. IsFiniteSet(Q) /\ Cardinality(Q) <= Cardinality(R)
  BY <1>2, <1>4, FS_Subset
<1>6. Cardinality(R) \in Nat /\ Cardinality(Q) \in Nat
  BY <1>4, <1>5, FS_CardinalityType
<1>7. PICK n \in Node : TRUE
  BY NodeAssumption, FS_EmptySet
<1>8. QuorumSize \in Nat
  BY <1>7, PeersIs
<1>9. Cardinality(R) >= QuorumSize
  BY <1>3, <1>5, <1>6, <1>8
<1> QED
  BY <1>9 DEF R

-----------------------------------------------------------------------------
(* The parts of the invariant, after a step. *)

\* No step but an election makes a term that nobody knows.
TermsFollow ==
  \A m \in Node : /\ ctx'[m].term >= ctx[m].term
                  /\ ctx'[m].term = ctx[m].term \/ \E k \in Node : ctx'[m].term <= ctx[k].term

LEMMA AllButOneKept ==
  ASSUME TypeInv, TypeInv', AllButOne, TermsFollow
  PROVE  AllButOne'
<1>1. \A m \in Node : ctx[m].term \in Nat /\ ctx'[m].term \in Nat
  BY TermsAreNumbers, TypesAfter
<1> SUFFICES ASSUME NEW m1 \in Node, NEW m2 \in Node, NEW k \in Node, m1 # m2
             PROVE  ctx'[m1].term >= ctx'[k].term \/ ctx'[m2].term >= ctx'[k].term
  BY DEF AllButOne
<1>2. PICK j \in Node : ctx'[k].term <= ctx[j].term
  BY <1>1 DEF TermsFollow
<1>3. ctx[m1].term >= ctx[j].term \/ ctx[m2].term >= ctx[j].term
  BY DEF AllButOne
<1>4. ctx'[m1].term >= ctx[m1].term /\ ctx'[m2].term >= ctx[m2].term
  BY DEF TermsFollow
<1> QED
  BY <1>1, <1>2, <1>3, <1>4

LEMMA NewestBefore ==
  ASSUME TypeInv, TypeInv', NEW n \in Node, role[n] = "Leader", ctx'[n].term = ctx[n].term,
         \A m \in Node : ctx'[m].term >= ctx[m].term, Newest(n)'
  PROVE  Newest(n)
<1>1. \A m \in Node : ctx[m].term \in Nat /\ ctx'[m].term \in Nat
  BY TermsAreNumbers, TypesAfter
<1>2. \A m \in Node : ctx'[m].term <= ctx'[n].term
  BY DEF Newest
<1> QED
  BY <1>1, <1>2 DEF Newest

\* What a Leader sends is as every request is.
LEMMA SentRequested ==
  ASSUME TypeInv', TermInv', AllButOne', LogsWellFormed', LeaderLog', CommittedBacked',
         NEW n \in Node, NEW f \in Node, NEW r \in InFlight(n, f)',
         role'[n] = "Leader", f # n, SentFrom(ctx'[n], r)
  PROVE  RequestedOf(n, f, r)'
<1> DEFINE c == ctx'[n]
<1>0. PICK T \in Terms : T = c.term
  BY TypesAfter, ContextElim
<1>1. /\ c \in Contexts /\ r \in Requests /\ T \in Terms /\ T \in Nat
      /\ c.log.term \in Nat /\ c.log.slot \in Nat /\ c.log.slot <= MaxSlot /\ c.committed \in Nat
  BY <1>0, TypesAfter, ContextElim
<1>2. WalShape(c) /\ PendingShape(c) /\ c.log.term <= T /\ r.term = T /\ r.commit = c.committed
  BY <1>0 DEF LogsWellFormed, TermInv, TermsOpened, SentFrom
<1>3. /\ RequestShape(r)
      /\ DOMAIN c.wal = 1..LastWritten(r)
      /\ \A s \in DOMAIN c.wal : \A t \in Nat : c.wal[s].term >= t => Covers(r, t, s)
  BY <1>0, <1>1, <1>2, SentFromIs
<1>4. /\ DOMAIN c.wal = 1..c.log.slot
      /\ \A s \in DOMAIN c.wal : c.wal[s].term < T => s <= c.committed
      /\ \A m \in Node : ctx'[m].log.term = T => ctx'[m].log.slot <= c.log.slot
      /\ Newest(n)' => \A v \in Values : \A s \in DOMAIN c.wal :
           c.wal[s].term = T /\ v = c.wal[s].value => Agreed(T, s, v)'
  <2>1. /\ DOMAIN c.wal = 1..c.log.slot
        /\ \A s \in DOMAIN c.wal : c.wal[s].term < c.term => s <= c.committed
        /\ \A m \in Node : ctx'[m].log.term = c.term => ctx'[m].log.slot <= c.log.slot
    BY DEF LeaderLog
  <2>2. Newest(n)' => \A t \in Terms, v \in Values : \A s \in DOMAIN c.wal :
          t = c.term /\ t = c.wal[s].term /\ v = c.wal[s].value => Agreed(t, s, v)'
    BY DEF LeaderLog
  <2> QED
    BY <1>0, <2>1, <2>2
<1>5. \A s \in 1..c.committed : \E v \in Values :
        [slot |-> s, value |-> v] \in chosen' /\ Backed(n, s, v)'
  BY DEF CommittedBacked
<1>6. \A m \in Node : ctx'[m].term \in Nat
  BY TypesAfter
<1>7. LastWritten(r) \in Nat
  BY <1>1, RequestElim
<1>8. LastWritten(r) = c.log.slot
  <2>1. c.log.slot <= LastWritten(r) /\ LastWritten(r) <= c.log.slot
    BY <1>1, <1>3, <1>4, <1>7
  <2> QED
    BY <1>1, <1>7, <2>1
<1>9. ASSUME NEW s \in 1..c.committed
      PROVE  \E v \in Values, t \in 0..r.term :
               /\ [slot |-> s, value |-> v] \in chosen' /\ Grounded(t, s, v)'
               /\ c.log.term >= t /\ c.log.slot >= s
  <2>1. PICK v \in Values : [slot |-> s, value |-> v] \in chosen' /\ Backed(n, s, v)'
    BY <1>5
  <2>2. PICK t \in Terms : Grounded(t, s, v)' /\ c.log.term >= t /\ c.log.slot >= s
    BY <2>1 DEF Backed, Reach
  <2>3. t \in 0..r.term
    BY <1>1, <1>2, <2>2, BoundsAssumption DEF Terms
  <2> QED
    BY <2>1, <2>2, <2>3
<1>10. ASSUME NEW s \in 1..r.commit
       PROVE  \E v \in Values, t \in 0..r.term :
                [slot |-> s, value |-> v] \in chosen' /\ Grounded(t, s, v)'
  BY <1>2, <1>9
<1>11. r.term = ctx'[f].term /\ r.term = ctx'[f].log.term => LastWritten(r) >= ctx'[f].log.slot
  <2>1. ctx'[f].log.slot \in Nat
    BY TypesAfter, ContextElim
  <2> QED
    BY <1>1, <1>2, <1>4, <1>8, <2>1
<1>12. ASSUME r.term >= ctx'[f].term, NEW s \in 1..LastWritten(r)
       PROVE  \E v \in Values, t \in Terms :
                Agreed(t, s, v)' /\ Covers(r, t, s) /\ \E m \in Node \ {f} : Reach(m, t, s)'
  <2>1. s \in DOMAIN c.wal /\ c.wal[s] \in Entries /\ c.wal[s].term \in Nat
        /\ c.wal[s].value \in Values
    <3>1. s \in DOMAIN c.wal /\ c.wal \in Logs
      BY <1>1, <1>3, ContextElim
    <3> QED
      BY <3>1, LogElim, BoundsAssumption DEF Terms
  <2>2. s \in Nat /\ s <= c.log.slot
    BY <1>1, <1>8
  <2>3. c.wal[s].term <= c.log.term
    BY <1>2, <2>1 DEF WalShape
  <2>4. CASE c.wal[s].term = T
    <3>1. \A k \in Node : ctx'[n].term >= ctx'[k].term \/ ctx'[f].term >= ctx'[k].term
      BY DEF AllButOne
    <3>2. \A k \in Node : ctx'[k].term <= T
      BY <1>0, <1>2, <1>6, <1>12, <3>1
    <3>3. Newest(n)'
      BY <1>0, <3>2 DEF Newest
    <3>4. PICK v \in Values : v = c.wal[s].value
      BY <2>1
    <3>9. Agreed(T, s, v)'
      BY <1>4, <2>1, <2>4, <3>3, <3>4
    <3>5. Covers(r, T, s)
      BY <1>1, <1>3, <2>1, <2>4
    <3>6. Reach(n, T, s)'
      BY <2>2, <2>3, <2>4 DEF Reach
    <3>7. n \in Node \ {f}
      OBVIOUS
    <3> QED
      BY <3>5, <3>6, <3>7, <3>9
  <2>5. CASE c.wal[s].term # T
    <3>1. c.wal[s].term < T
      BY <1>1, <1>2, <2>1, <2>3, <2>5
    <3>2. s \in 1..c.committed
      BY <1>1, <1>4, <2>1, <2>2, <3>1
    <3>3. PICK v \in Values, t \in 0..r.term :
            Grounded(t, s, v)' /\ c.log.term >= t /\ c.log.slot >= s
      BY <1>9, <3>2
    <3>4. t \in Terms /\ t \in Nat
      BY <1>1, <1>2, BoundsAssumption DEF Terms
    <3>5. Agreed(t, s, v)' /\ Reach(n, t, s)'
      BY <3>3 DEF Grounded, Reach
    <3>6. c.wal[s].term >= t
      BY <3>5 DEF Agreed
    <3>7. Covers(r, t, s)
      BY <1>3, <2>1, <3>4, <3>6
    <3>8. n \in Node \ {f}
      OBVIOUS
    <3> QED
      BY <3>4, <3>5, <3>7, <3>8
  <2> QED
    BY <2>4, <2>5
<1>13. r.term <= ctx'[n].term
  BY <1>0, <1>1, <1>2
<1> QED
  BY <1>3, <1>10, <1>11, <1>12, <1>13 DEF RequestedOf

\* Queues grow at one end, by what a Leader sends, and lose what is taken.
QueueMoves ==
  \A m, f \in Node :
    \/ calls'[m][f] = calls[m][f]
    \/ /\ role'[m] = "Leader"
       /\ \E r \in Requests : SentFrom(ctx'[m], r) /\ calls'[m][f] = Append(calls[m][f], r)
    \/ \E i \in 1..Len(calls[m][f]) : calls'[m][f] = RemoveAt(calls[m][f], i)

LEMMA SentEnds ==
  ASSUME TypeInv', TermsOpened', LogsWellFormed', LeaderLog', NEW m \in Node, role'[m] = "Leader",
         NEW r \in Requests, SentFrom(ctx'[m], r)
  PROVE  LastWritten(r) = ctx'[m].log.slot /\ r.term = ctx'[m].term
<1>1. ctx'[m] \in Contexts /\ ctx'[m].log.slot \in Nat /\ LastWritten(r) \in Nat
  BY TypesAfter, ContextElim, RequestElim
<1>2. WalShape(ctx'[m]) /\ ctx'[m].log.term <= ctx'[m].term
  BY DEF LogsWellFormed, TermsOpened
<1>3. DOMAIN ctx'[m].wal = 1..LastWritten(r) /\ DOMAIN ctx'[m].wal = 1..ctx'[m].log.slot
  BY <1>1, <1>2, SentFromIs DEF LeaderLog
<1>4. LastWritten(r) <= ctx'[m].log.slot /\ ctx'[m].log.slot <= LastWritten(r)
  BY <1>1, <1>3
<1> QED
  BY <1>1, <1>4 DEF SentFrom

LEMMA QueuesAfter ==
  ASSUME TypeInv, TypeInv', TermsOpened', LogsWellFormed', LeaderLog', QueuesSorted, Requested,
         \A m \in Node : ctx'[m].term >= ctx[m].term, QueueMoves
  PROVE  QueuesSorted'
<1> DEFINE Before(q, r) == q.term <= r.term /\ (q.term = r.term => LastWritten(q) <= LastWritten(r))
<1> SUFFICES ASSUME NEW m \in Node, NEW f \in Node,
                    NEW i \in 1..Len(calls'[m][f]), NEW j \in 1..Len(calls'[m][f]), i <= j
             PROVE  Before(calls'[m][f][i], calls'[m][f][j])
  BY DEF QueuesSorted
<1>1. /\ calls[m][f] \in Seq(Requests) /\ calls'[m][f] \in Seq(Requests)
      /\ Len(calls[m][f]) \in Nat /\ Len(calls'[m][f]) \in Nat
  <2>1. calls[m][f] \in Seq(Requests) /\ calls'[m][f] \in Seq(Requests)
    BY DEF TypeInv, TypeOK
  <2> QED
    BY <2>1, LenProperties
<1>2. \A a, b \in 1..Len(calls[m][f]) : a <= b => Before(calls[m][f][a], calls[m][f][b])
  BY DEF QueuesSorted
<1> HIDE DEF Before
<1>3. CASE calls'[m][f] = calls[m][f]
  BY <1>2, <1>3
<1>4. CASE \E k \in 1..Len(calls[m][f]) : calls'[m][f] = RemoveAt(calls[m][f], k)
  <2>1. PICK k \in 1..Len(calls[m][f]) : calls'[m][f] = RemoveAt(calls[m][f], k)
    BY <1>4
  <2> DEFINE old(a) == IF a < k THEN a ELSE a + 1
  <2>2. /\ Len(calls'[m][f]) = Len(calls[m][f]) - 1
        /\ \A a \in 1..Len(calls'[m][f]) : calls'[m][f][a] = calls[m][f][old(a)]
    BY <1>1, <2>1, RemoveAtIs
  <2>3. old(i) \in 1..Len(calls[m][f]) /\ old(j) \in 1..Len(calls[m][f]) /\ old(i) <= old(j)
    BY <1>1, <2>2
  <2> HIDE DEF old
  <2> QED
    BY <1>2, <2>2, <2>3
<1>5. CASE /\ role'[m] = "Leader"
           /\ \E r \in Requests : SentFrom(ctx'[m], r) /\ calls'[m][f] = Append(calls[m][f], r)
  <2>1. PICK r \in Requests : SentFrom(ctx'[m], r) /\ calls'[m][f] = Append(calls[m][f], r)
    BY <1>5
  <2> DEFINE L == Len(calls[m][f])
  <2>2. /\ Len(calls'[m][f]) = L + 1
        /\ \A a \in 1..L : calls'[m][f][a] = calls[m][f][a]
        /\ calls'[m][f][L + 1] = r
    BY <1>1, <2>1, AppendIs
  <2>3. LastWritten(r) = ctx'[m].log.slot /\ r.term = ctx'[m].term
        /\ LastWritten(r) \in Nat /\ r.term \in Nat
    BY <1>5, <2>1, SentEnds, RequestElim
  <2>7. i \in Nat /\ j \in Nat /\ i >= 1 /\ j <= L + 1 /\ i <= j /\ L \in Nat
    BY <1>1, <2>2
  <2> HIDE DEF L
  <2>4. CASE j <= L
    <3>1. i \in 1..L /\ j \in 1..L
      BY <2>4, <2>7
    <3>2. Before(calls[m][f][i], calls[m][f][j])
      BY <1>2, <2>7, <3>1 DEF L
    <3> QED
      BY <2>2, <3>1, <3>2
  <2>5. CASE i = L + 1
    <3>1. j = L + 1
      BY <2>5, <2>7
    <3> QED
      BY <2>2, <2>3, <2>5, <3>1 DEF Before
  <2>6. CASE i <= L /\ j = L + 1
    <3> DEFINE q == calls[m][f][i]
    <3>1. i \in 1..L /\ i \in 1..Len(calls'[m][f]) /\ calls'[m][f][i] = q
      BY <2>2, <2>6, <2>7
    <3>2. q \in InFlight(m, f) /\ q \in InFlight(m, f)'
      BY <3>1 DEF InFlight, L
    <3> HIDE DEF q
    <3>3. q \in Requests /\ q.term \in Nat /\ LastWritten(q) \in Nat
      BY <3>2, TypesAfter, RequestElim
    <3>4. q.term <= ctx[m].term
      BY <3>2 DEF Requested, RequestedOf
    <3>5. q.term = ctx'[m].term => LastWritten(q) <= ctx'[m].log.slot
      BY <1>5, <3>2 DEF LeaderLog
    <3>6. ctx[m].term \in Nat /\ ctx'[m].term \in Nat
      BY TermsAreNumbers, TypesAfter
    <3>7. q.term <= r.term /\ (q.term = r.term => LastWritten(q) <= LastWritten(r))
      BY <2>3, <3>3, <3>4, <3>5, <3>6
    <3> QED
      BY <2>2, <2>6, <3>1, <3>7 DEF Before
  <2> QED
    BY <2>4, <2>5, <2>6, <2>7
<1> QED
  BY <1>3, <1>4, <1>5 DEF QueueMoves

LEMMA OneSenderAfter ==
  ASSUME TypeInv', OneLeader', OneSender, Sending
  PROVE  OneSender'
<1> SUFFICES ASSUME NEW m \in Node, NEW n \in Node, NEW f \in Node, NEW g \in Node,
                    NEW q \in InFlight(m, f)', NEW r \in InFlight(n, g)', q.term = r.term
             PROVE  m = n
  BY DEF OneSender
<1>1. CASE q \in InFlight(m, f) /\ r \in InFlight(n, g)
  BY <1>1 DEF OneSender
<1>2. CASE role'[m] = "Leader" /\ SentFrom(ctx'[m], q)
  <2>1. r.term = ctx'[m].term
    BY <1>2 DEF SentFrom
  <2> QED
    BY <1>2, <2>1 DEF OneLeader
<1>3. CASE role'[n] = "Leader" /\ SentFrom(ctx'[n], r)
  <2>1. q.term = ctx'[n].term
    BY <1>3 DEF SentFrom
  <2> QED
    BY <1>3, <2>1 DEF OneLeader
<1> QED
  BY <1>1, <1>2, <1>3 DEF Sending

-----------------------------------------------------------------------------
(* The steps that move no log. *)

LEMMA CalmStays ==
  ASSUME TypeInv', TermsOpened', LogsWellFormed', Calm
  PROVE  Stays
BY CalmAgreed, StaysIntro

LEMMA CalmLeaderLog ==
  ASSUME TypeInv, TypeInv', TermsOpened', LogsWellFormed', LeaderLog, Calm, TermsFollow,
         \A m \in Node : ctx'[m].committed >= ctx[m].committed
  PROVE  LeaderLog'
<1> SUFFICES ASSUME NEW n \in Node, role'[n] = "Leader"
             PROVE  /\ DOMAIN ctx'[n].wal = 1..ctx'[n].log.slot
                    /\ \A s \in DOMAIN ctx'[n].wal :
                         ctx'[n].wal[s].term < ctx'[n].term => s <= ctx'[n].committed
                    /\ \A m \in Node : ctx'[m].log.term = ctx'[n].term
                         => ctx'[m].log.slot <= ctx'[n].log.slot /\ ctx'[n].log.term = ctx'[n].term
                    /\ \A f \in Node : \A r \in InFlight(n, f)' :
                         r.term = ctx'[n].term => LastWritten(r) <= ctx'[n].log.slot
                    /\ Newest(n)' => \A t \in Terms, v \in Values : \A s \in DOMAIN ctx'[n].wal :
                         t = ctx'[n].term /\ t = ctx'[n].wal[s].term /\ v = ctx'[n].wal[s].value
                           => Agreed(t, s, v)'
  BY DEF LeaderLog
<1>1. role[n] = "Leader" /\ ctx'[n].term = ctx[n].term
  BY DEF Calm
<1>2. \A m \in Node : ctx'[m].log = ctx[m].log /\ ctx'[m].wal = ctx[m].wal
  BY DEF Calm
<1>3. DOMAIN ctx'[n].wal = 1..ctx'[n].log.slot
  BY <1>1, <1>2 DEF LeaderLog
<1>4. ASSUME NEW s \in DOMAIN ctx'[n].wal, ctx'[n].wal[s].term < ctx'[n].term
      PROVE  s <= ctx'[n].committed
  <2>1. s \in DOMAIN ctx[n].wal /\ s <= ctx[n].committed
    BY <1>1, <1>2, <1>4 DEF LeaderLog
  <2>2. s \in Nat
    BY <2>1, AppearsIntro, AppearsTyped
  <2>3. ctx[n].committed \in Nat /\ ctx'[n].committed \in Nat
    BY TermsAreNumbers, TypesAfter, ContextElim
  <2> QED
    BY <2>1, <2>2, <2>3
<1>5. ASSUME NEW m \in Node, ctx'[m].log.term = ctx'[n].term
      PROVE  ctx'[m].log.slot <= ctx'[n].log.slot /\ ctx'[n].log.term = ctx'[n].term
  BY <1>1, <1>2, <1>5 DEF LeaderLog
<1>6. ASSUME NEW f \in Node, NEW r \in InFlight(n, f)', r.term = ctx'[n].term
      PROVE  LastWritten(r) <= ctx'[n].log.slot
  <2>1. CASE r \in InFlight(n, f)
    BY <1>1, <1>2, <1>6, <2>1 DEF LeaderLog
  <2>2. CASE SentFrom(ctx'[n], r)
    <3>1. r \in Requests /\ ctx'[n] \in Contexts
      BY TypesAfter
    <3>2. WalShape(ctx'[n]) /\ ctx'[n].log.term <= ctx'[n].term
      BY DEF LogsWellFormed, TermsOpened
    <3> QED
      BY <2>2, <3>1, <3>2, SentFromIs
  <2> QED
    BY <2>1, <2>2 DEF Calm, Sending
<1>7. ASSUME Newest(n)', NEW t \in Terms, NEW v \in Values, NEW s \in DOMAIN ctx'[n].wal,
             t = ctx'[n].term, t = ctx'[n].wal[s].term, v = ctx'[n].wal[s].value
      PROVE  Agreed(t, s, v)'
  <2>1. Newest(n)
    BY <1>1, <1>7, NewestBefore DEF TermsFollow
  <2>2. Agreed(t, s, v)
    BY <1>1, <1>2, <1>7, <2>1 DEF LeaderLog
  <2>3. s \in Slots
    BY <1>2, AppearsIntro, AppearsTyped
  <2> QED
    BY <2>2, <2>3, CalmAgreed
<1> QED
  BY <1>3, <1>4, <1>5, <1>6, <1>7

LEMMA CalmRequested ==
  ASSUME TypeInv, TypeInv', TermInv, TermInv', AllButOne', LogsWellFormed', LeaderLog',
         CommittedBacked', Requested, Calm, TermsFollow, chosen \subseteq chosen'
  PROVE  Requested'
<1> SUFFICES ASSUME NEW n \in Node, NEW f \in Node, NEW r \in InFlight(n, f)'
             PROVE  RequestedOf(n, f, r)'
  BY DEF Requested
<1>1. CASE r \notin InFlight(n, f)
  BY <1>1, SentRequested DEF Calm, Sending
<1>2. CASE r \in InFlight(n, f)
  <2>1. RequestedOf(n, f, r)
    BY <1>2 DEF Requested
  <2>2. /\ r \in Requests /\ r.term \in Nat /\ LastWritten(r) \in Nat /\ LastWritten(r) <= MaxSlot
        /\ r.commit \in Nat /\ r.commit <= MaxSlot
    BY TypesAfter, RequestElim, BoundsAssumption
  <2>3. \A m \in Node : ctx[m].term \in Nat /\ ctx'[m].term \in Nat
    BY TermsAreNumbers, TypesAfter
  <2>4. RequestShape(r) /\ r.term <= ctx'[n].term
    BY <2>1, <2>2, <2>3 DEF RequestedOf, TermsFollow
  <2>5. ASSUME NEW s \in 1..r.commit
        PROVE  \E v \in Values, t \in 0..r.term :
                 [slot |-> s, value |-> v] \in chosen' /\ Grounded(t, s, v)'
    <3>1. PICK v \in Values, t \in 0..r.term :
            [slot |-> s, value |-> v] \in chosen /\ Grounded(t, s, v)
      BY <2>1 DEF RequestedOf
    <3>2. r.term \in Terms
      BY <2>2, RequestElim
    <3>3. t \in Terms /\ s \in Slots
      BY <2>2, <3>2, BoundsAssumption DEF Terms, Slots
    <3> QED
      BY <3>1, <3>3, CalmStays DEF Stays, TermInv
  <2>6. r.term = ctx'[f].term /\ r.term = ctx'[f].log.term => LastWritten(r) >= ctx'[f].log.slot
    <3>1. ctx'[f].log = ctx[f].log /\ ctx'[f].term >= ctx[f].term
      BY DEF Calm, TermsFollow
    <3>2. ctx[f].log.term <= ctx[f].term
      BY DEF TermInv, TermsOpened
    <3>3. ctx[f].log.term \in Nat
      BY TermsAreNumbers, ContextElim
    <3> QED
      BY <2>1, <2>2, <2>3, <3>1, <3>2, <3>3 DEF RequestedOf
  <2>7. ASSUME r.term >= ctx'[f].term, NEW s \in 1..LastWritten(r)
        PROVE  \E v \in Values, t \in Terms :
                 Agreed(t, s, v)' /\ Covers(r, t, s) /\ \E m \in Node \ {f} : Reach(m, t, s)'
    <3>1. r.term >= ctx[f].term
      BY <2>2, <2>3, <2>7 DEF TermsFollow
    <3>2. PICK v \in Values, t \in Terms :
            Agreed(t, s, v) /\ Covers(r, t, s) /\ \E m \in Node \ {f} : Reach(m, t, s)
      BY <2>1, <3>1 DEF RequestedOf
    <3>3. s \in Slots
      BY <2>2, BoundsAssumption DEF Slots
    <3> QED
      BY <3>2, <3>3, CalmAgreed DEF TermInv
  <2> QED
    BY <2>4, <2>5, <2>6, <2>7 DEF RequestedOf
<1> QED
  BY <1>1, <1>2

LEMMA CalmLogsMatch ==
  ASSUME TypeInv, TypeInv', Calm, Stays, LogsMatch
  PROVE  LogsMatch'
<1> SUFFICES ASSUME NEW m \in Node, NEW n \in Node, m # n, ctx'[m].log.term = ctx'[n].log.term,
                    NEW s \in 1..ctx'[m].log.slot, s <= ctx'[n].log.slot
             PROVE  BackedAlike(m, n, s)'
  BY DEF LogsMatch
<1>1. ctx'[m].log = ctx[m].log /\ ctx'[n].log = ctx[n].log
  BY DEF Calm
<1>2. BackedAlike(m, n, s)
  BY <1>1 DEF LogsMatch
<1>3. ctx[m].log.slot \in Nat /\ ctx[m].log.slot <= MaxSlot
  BY TermsAreNumbers, ContextElim
<1>4. s \in Slots
  BY <1>1, <1>3, BoundsAssumption DEF Slots
<1> QED
  BY <1>2, <1>4, BackedAlikeStays

LEMMA RepliesKept ==
  ASSUME TypeInv, TypeInv', TermsFollow, Stays, RepliesBacked,
         \A m \in Node : role'[m] = "Leader" => role[m] = "Leader" /\ ctx'[m].term = ctx[m].term,
         \A r \in replies' : r \in replies \/ (r.term <= ctx'[r.from].term /\ r.outcome # "written")
  PROVE  RepliesBacked'
<1> SUFFICES ASSUME NEW r \in replies', r \in replies
             PROVE  /\ r.term <= ctx'[r.from].term
                    /\ role'[r.to] = "Leader" /\ r.term = ctx'[r.to].term /\ r.outcome = "written"
                         => \A s \in 1..r.slot : BackedAlike(r.to, r.from, s)'
  BY DEF RepliesBacked
<1>1. r.from \in Node /\ r.to \in Node /\ r.term \in Nat /\ r.slot \in 0..MaxSlot
  BY BoundsAssumption DEF TypeInv, TypeOK, Replies, Terms
<1>2. \A m \in Node : ctx[m].term \in Nat /\ ctx'[m].term \in Nat
  BY TermsAreNumbers, TypesAfter
<1>3. r.term <= ctx[r.from].term
  BY DEF RepliesBacked
<1>4. r.term <= ctx'[r.from].term
  BY <1>1, <1>2, <1>3 DEF TermsFollow
<1>5. ASSUME role'[r.to] = "Leader", r.term = ctx'[r.to].term, r.outcome = "written",
             NEW s \in 1..r.slot
      PROVE  BackedAlike(r.to, r.from, s)'
  <2>1. role[r.to] = "Leader" /\ r.term = ctx[r.to].term
    BY <1>1, <1>5
  <2>2. BackedAlike(r.to, r.from, s)
    BY <1>5, <2>1 DEF RepliesBacked
  <2>3. s \in Slots
    BY <1>1, BoundsAssumption DEF Slots
  <2> QED
    BY <1>1, <2>2, <2>3, BackedAlikeStays
<1> QED
  BY <1>4, <1>5

LEMMA CalmDurable ==
  ASSUME TypeInv, TypeInv', TermInv, TermInv', DurabilityInv, Calm, TermsFollow, QueueMoves,
         LogsWellFormed', ChosenBacked', CommittedBacked', BoardsBacked',
         \A m \in Node : ctx'[m].committed >= ctx[m].committed,
         chosen \subseteq chosen',
         \A r \in replies' : r \in replies \/ (r.term <= ctx'[r.from].term /\ r.outcome # "written")
  PROVE  DurabilityInv'
<1>1. TermsOpened' /\ OneLeader' /\ Sending
  BY DEF TermInv, Calm
<1>2. AllButOne'
  BY AllButOneKept DEF DurabilityInv
<1>3. LeaderLog'
  BY <1>1, CalmLeaderLog DEF DurabilityInv
<1>4. Requested'
  BY <1>2, <1>3, CalmRequested DEF DurabilityInv
<1>5. OneSender'
  BY <1>1, OneSenderAfter DEF DurabilityInv
<1>6. QueuesSorted'
  BY <1>1, <1>3, QueuesAfter DEF DurabilityInv, TermsFollow
<1>7. LogsMatch' /\ RepliesBacked'
  <2>1. Stays
    BY <1>1, CalmStays
  <2>2. \A m \in Node : role'[m] = "Leader" => role[m] = "Leader" /\ ctx'[m].term = ctx[m].term
    BY DEF Calm
  <2> QED
    BY <2>1, <2>2, CalmLogsMatch, RepliesKept DEF DurabilityInv
<1> QED
  BY <1>2, <1>3, <1>4, <1>5, <1>6, <1>7 DEF DurabilityInv

LEMMA CommittedKept ==
  ASSUME TypeInv, Stays, CommittedBacked, chosen \subseteq chosen', NEW m \in Node,
         NEW s \in 1..ctx[m].committed
  PROVE  \E v \in Values : [slot |-> s, value |-> v] \in chosen' /\ Backed(m, s, v)'
<1>1. PICK v \in Values : [slot |-> s, value |-> v] \in chosen /\ Backed(m, s, v)
  BY DEF CommittedBacked
<1>2. ctx[m].committed \in 0..MaxSlot
  BY TermsAreNumbers, ContextElim
<1>3. s \in Slots
  BY <1>2, BoundsAssumption DEF Slots
<1> QED
  BY <1>1, <1>3, BackedStays

LEMMA BoardKept ==
  ASSUME TypeInv, Stays, BoardsBacked, NEW n \in Node, role[n] = "Leader", NEW f \in Peers(n),
         NEW s \in 1..office[n].pos[f].match
  PROVE  BackedAlike(n, f, s)'
<1>1. BackedAlike(n, f, s) /\ f \in Node
  BY DEF BoardsBacked, Peers
<1>2. office[n] \in Offices(n)
  BY DEF TypeInv, TypeOK
<1>3. office[n].pos[f].match \in 0..MaxSlot
  BY <1>2, OfficeElim, PositionElim
<1>4. s \in Slots
  BY <1>3, BoundsAssumption DEF Slots
<1> QED
  BY <1>1, <1>4, BackedAlikeStays

\* The steps that move no log, commit nothing and acknowledge nothing.
LEMMA IdleDurable ==
  ASSUME TypeInv, TypeInv', TermInv, TermInv', DurabilityInv, Calm, TermsFollow, QueueMoves,
         \A m \in Node : /\ ctx'[m].committed = ctx[m].committed
                         /\ ctx'[m].uncommitted = ctx[m].uncommitted,
         \A n \in Node : role'[n] = "Leader" =>
           \A f \in Peers(n) : office'[n].pos[f].match = office[n].pos[f].match,
         chosen' = chosen,
         \A r \in replies' : r \in replies \/ (r.term <= ctx'[r.from].term /\ r.outcome # "written")
  PROVE  DurabilityInv'
<1>1. LogsWellFormed'
  <2> SUFFICES ASSUME NEW m \in Node
               PROVE  WalShape(ctx'[m]) /\ PendingShape(ctx'[m])
    BY DEF LogsWellFormed
  <2>1. WalShape(ctx[m]) /\ PendingShape(ctx[m])
    BY DEF DurabilityInv, LogsWellFormed
  <2>2. /\ ctx'[m].log = ctx[m].log /\ ctx'[m].wal = ctx[m].wal
        /\ ctx'[m].committed = ctx[m].committed /\ ctx'[m].uncommitted = ctx[m].uncommitted
    BY DEF Calm
  <2>3. WalShape(ctx'[m])
    BY <2>1, <2>2 DEF WalShape
  <2>4. PendingShape(ctx'[m])
    BY <2>1, <2>2 DEF PendingShape
  <2> QED
    BY <2>3, <2>4
<1>2. Stays
  BY <1>1, CalmStays DEF TermInv
<1>3. ChosenBacked'
  <2>1. \A e \in chosen' : Cardinality({m \in Node : Backed(m, e.slot, e.value)'}) >= QuorumSize
    BY <1>2, ChosenStaysBacked DEF DurabilityInv
  <2> QED
    BY <2>1 DEF ChosenBacked
<1>4. CommittedBacked'
  <2> SUFFICES ASSUME NEW m \in Node, NEW s \in 1..ctx'[m].committed
               PROVE  \E v \in Values : [slot |-> s, value |-> v] \in chosen' /\ Backed(m, s, v)'
    BY DEF CommittedBacked
  <2>1. s \in 1..ctx[m].committed
    OBVIOUS
  <2> QED
    BY <1>2, <2>1, CommittedKept DEF DurabilityInv
<1>5. BoardsBacked'
  <2> SUFFICES ASSUME NEW n \in Node, role'[n] = "Leader", NEW f \in Peers(n),
                      NEW s \in 1..office'[n].pos[f].match
               PROVE  BackedAlike(n, f, s)'
    BY DEF BoardsBacked
  <2>1. role[n] = "Leader" /\ s \in 1..office[n].pos[f].match
    BY DEF Calm
  <2> QED
    BY <1>2, <2>1, BoardKept DEF DurabilityInv
<1>6. \A m \in Node : ctx'[m].committed >= ctx[m].committed
  <2>1. \A m \in Node : ctx[m].committed \in Nat
    BY TermsAreNumbers, ContextElim
  <2> QED
    BY <2>1
<1> QED
  BY <1>1, <1>3, <1>4, <1>5, <1>6, CalmDurable

LEMMA SendsQueue ==
  ASSUME NEW n \in Node, NEW c \in Contexts, Sends(n, c), role'[n] = "Leader", ctx'[n] = c
  PROVE  QueueMoves
<1> SUFFICES ASSUME NEW m \in Node, NEW f \in Node, calls'[m][f] # calls[m][f]
             PROVE  /\ role'[m] = "Leader"
                    /\ \E r \in Requests : /\ SentFrom(ctx'[m], r)
                                           /\ calls'[m][f] = Append(calls[m][f], r)
  BY DEF QueueMoves
<1>1. m = n /\ \E pos \in Positions : /\ CanAnchor(c, pos)
                                      /\ calls'[m][f] = Append(calls[m][f], Request(c, pos))
  BY DEF Sends
<1>2. PICK pos \in Positions : /\ CanAnchor(c, pos)
                               /\ calls'[m][f] = Append(calls[m][f], Request(c, pos))
  BY <1>1
<1>3. Request(c, pos) \in Requests /\ SentFrom(c, Request(c, pos))
  BY <1>2, RequestIs, RequestIsSent
<1> QED
  BY <1>1, <1>2, <1>3

LEMMA TakesQueue ==
  ASSUME TypeInv, NEW n \in Node, NEW f \in Peers(n), NEW i \in 1..MaxCalls, Takes(n, f, i)
  PROVE  QueueMoves
<1>1. /\ i \in 1..Len(calls[n][f]) /\ calls'[n][f] = RemoveAt(calls[n][f], i)
      /\ \A m, g \in Node : m # n \/ g # f => calls'[m][g] = calls[m][g]
  <2>1. TypeOK /\ i \in 1..Len(calls[n][f])
    BY DEF Takes, TypeInv
  <2> QED
    BY <2>1, TakesIs
<1> QED
  BY <1>1 DEF QueueMoves

LEMMA CalmIntro ==
  ASSUME TypeInv,
         \A m \in Node : role'[m] = "Leader" => role[m] = "Leader" /\ ctx'[m].term = ctx[m].term,
         \A m \in Node : ctx'[m].log = ctx[m].log /\ ctx'[m].wal = ctx[m].wal,
         \A m \in Node : \A s \in DOMAIN ctx'[m].uncommitted :
           s \in DOMAIN ctx[m].uncommitted /\ ctx'[m].uncommitted[s] = ctx[m].uncommitted[s],
         Sending
  PROVE  Calm
<1>1. \A m \in Node : \A s \in DOMAIN ctx'[m].wal : Appears(s, ctx'[m].wal[s])
  BY AppearsIntro
<1>2. \A m \in Node : \A s \in DOMAIN ctx'[m].uncommitted : Appears(s, ctx'[m].uncommitted[s])
  BY AppearsIntro
<1>3. \A m, f \in Node : \A r \in InFlight(m, f)' : \A s \in DOMAIN r.entries :
        Appears(s, r.entries[s])
  <2> SUFFICES ASSUME NEW m \in Node, NEW f \in Node, NEW r \in InFlight(m, f)',
                      NEW x \in DOMAIN r.entries
               PROVE  Appears(x, r.entries[x])
    OBVIOUS
  <2>1. CASE r \in InFlight(m, f)
    BY <2>1, AppearsIntro
  <2>2. CASE SentFrom(ctx'[m], r)
    <3>1. x \in DOMAIN ctx'[m].wal /\ r.entries[x] = ctx'[m].wal[x]
      BY <2>2 DEF SentFrom
    <3> QED
      BY <1>1, <3>1
  <2> QED
    BY <2>1, <2>2 DEF Sending
<1>4. \A s, e : Appears(s, e)' => Appears(s, e)
  BY <1>1, <1>2, <1>3, AppearsStill
<1> QED
  BY <1>4 DEF Calm

LEMMA MarksKept ==
  ASSUME TypeInv, NEW n \in Node, SameMarks(n)
  PROVE  \A m \in Node : \A f \in Peers(m) : office'[m].pos[f].match = office[m].pos[f].match
<1>1. PICK p \in Offices(n) :
        /\ office' = [office EXCEPT ![n] = p]
        /\ \A f \in Peers(n) : p.pos[f].match = office[n].pos[f].match
  BY DEF SameMarks
<1>2. \A m \in Node : office'[m] = IF m = n THEN p ELSE office[m]
  BY <1>1 DEF TypeInv, TypeOK
<1> QED
  BY <1>1, <1>2

LEMMA ResendsDurable ==
  ASSUME TypeInv, TypeInv', TermInv, TermInv', DurabilityInv, AnchorsInLog',
         NEW n \in Node, Resends(n)
  PROVE  DurabilityInv'
<1>1. /\ role[n] = "Leader" /\ CallsOK' /\ Sends(n, ctx[n])
      /\ role' = role /\ ctx' = ctx /\ SameMarks(n)
      /\ replies' \subseteq replies /\ UNCHANGED <<writes, chosen, acked>>
  <2>1. ~ Panics(n)
    <3> SUFFICES ASSUME Panics(n) PROVE FALSE
      OBVIOUS
    <3> QED
      BY PanicsIs DEF AnchorsInLog
  <2> QED
    BY <2>1 DEF Resends
<1>2. ctx[n] \in Contexts
  BY TermsAreNumbers
<1>3. Sending /\ QueueMoves
  BY <1>1, <1>2, SendsIsSending, SendsQueue
<1>4. Calm
  BY <1>1, <1>3, CalmIntro
<1>5. TermsFollow
  BY <1>1, TermsAreNumbers DEF TermsFollow
<1>6. \A m \in Node : role'[m] = "Leader" =>
        \A f \in Peers(m) : office'[m].pos[f].match = office[m].pos[f].match
  BY <1>1, MarksKept
<1> QED
  BY <1>1, <1>3, <1>4, <1>5, <1>6, IdleDurable

LEMMA QuietDurable ==
  ASSUME TypeInv, TypeInv', TermInv, TermInv', DurabilityInv, Quiet
  PROVE  DurabilityInv'
<1>1. UNCHANGED <<role, ctx, calls, writes, chosen, acked>> /\ replies' \subseteq replies
  BY DEF Quiet
<1>2. Sending /\ QueueMoves
  BY <1>1 DEF Sending, QueueMoves, InFlight
<1>3. Calm
  BY <1>1, <1>2, CalmIntro
<1>4. TermsFollow
  BY <1>1, TermsAreNumbers DEF TermsFollow
<1>5. \A m \in Node : role'[m] = "Leader" =>
        \A f \in Peers(m) : office'[m].pos[f].match = office[m].pos[f].match
  BY MarksKept DEF Quiet
<1> QED
  BY <1>1, <1>2, <1>3, <1>4, <1>5, IdleDurable

\* A member that learns a term, which another one knows.
LEMMA AdoptsDurable ==
  ASSUME TypeInv, TypeInv', TermInv, TermInv', DurabilityInv, QueueMoves,
         NEW f \in Node, NEW c \in Contexts, NEW k \in Node,
         c.term >= ctx[f].term, c.term = ctx[f].term \/ c.term <= ctx[k].term,
         c.log = ctx[f].log, c.committed = ctx[f].committed,
         c.wal = ctx[f].wal, c.uncommitted = ctx[f].uncommitted,
         \A m \in Node : /\ ctx'[m] = IF m = f THEN c ELSE ctx[m]
                         /\ role'[m] = IF m = f THEN "Follower" ELSE role[m]
                         /\ office'[m] = IF m = f THEN NoOffice ELSE office[m],
         \A m, g \in Node : InFlight(m, g)' \subseteq InFlight(m, g),
         \A r \in replies' : r \in replies \/ (r.term <= ctx'[r.from].term /\ r.outcome # "written"),
         chosen' = chosen
  PROVE  DurabilityInv'
<1>1. Sending
  BY DEF Sending
<1>2. \A m \in Node : /\ ctx'[m].log = ctx[m].log /\ ctx'[m].wal = ctx[m].wal
                      /\ ctx'[m].committed = ctx[m].committed
                      /\ ctx'[m].uncommitted = ctx[m].uncommitted
  OBVIOUS
<1>3. \A m \in Node : role'[m] = "Leader"
        => role[m] = "Leader" /\ ctx'[m].term = ctx[m].term /\ office'[m] = office[m]
  OBVIOUS
<1>4. Calm
  BY <1>1, <1>2, <1>3, CalmIntro
<1>5. \A m \in Node : ctx[m].term \in Nat
  BY TermsAreNumbers
<1>6. TermsFollow
  BY <1>5 DEF TermsFollow
<1> QED
  BY <1>2, <1>3, <1>4, <1>6, IdleDurable

LEMMA RejectsDurable ==
  ASSUME TypeInv, TypeInv', TermInv, TermInv', DurabilityInv,
         NEW n \in Node, NEW f \in Peers(n), NEW i \in 1..MaxCalls, Rejects(n, f, i)
  PROVE  DurabilityInv'
<1> DEFINE r == calls[n][f][i]
           c == Adopted(ctx[f], r.term)
<1>1. /\ f \in Node /\ f # n /\ role[f] # "Crashed"
      /\ r \in Requests /\ r \in InFlight(n, f) /\ c \in Contexts
      /\ c.term = IF ctx[f].term >= r.term THEN ctx[f].term ELSE r.term
      /\ c.log = ctx[f].log /\ c.committed = ctx[f].committed
      /\ c.wal = ctx[f].wal /\ c.uncommitted = ctx[f].uncommitted
      /\ \A m \in Node : /\ ctx'[m] = IF m = f THEN c ELSE ctx[m]
                         /\ role'[m] = IF m = f THEN "Follower" ELSE role[m]
                         /\ office'[m] = IF m = f THEN NoOffice ELSE office[m]
      /\ \A m, g \in Node : InFlight(m, g)' \subseteq InFlight(m, g)
      /\ \E outcome \in {"conflict", "refused"} : \E slot \in 0..MaxSlot :
           Answers(f, n, c, outcome, slot)
      /\ UNCHANGED <<writes, chosen, acked>>
  BY RejectsIs
<1>2. QueueMoves
  BY TakesQueue DEF Rejects
<1> HIDE DEF r, c
<1>3. r.term <= ctx[n].term
  BY <1>1 DEF DurabilityInv, Requested, RequestedOf
<1>4. r.term \in Nat /\ ctx[f].term \in Nat /\ c.term \in Nat
  BY <1>1, TermsAreNumbers, RequestElim, ContextElim
<1>5. c.term >= ctx[f].term /\ (c.term = ctx[f].term \/ c.term <= ctx[n].term)
  BY <1>1, <1>3, <1>4
<1>6. \A q \in replies' : q \in replies \/ (q.term <= ctx'[q.from].term /\ q.outcome # "written")
  <2>1. PICK outcome \in {"conflict", "refused"}, slot \in 0..MaxSlot :
          Answers(f, n, c, outcome, slot)
    BY <1>1
  <2>2. PICK out \in Replies : /\ replies' \subseteq replies \union {out}
                               /\ out.from = f /\ out.term = c.term /\ out.outcome = outcome
    BY <2>1 DEF Answers
  <2>3. ctx'[f] = c /\ c.term <= c.term
    BY <1>1, <1>4
  <2> QED
    BY <2>2, <2>3
<1>7. chosen' = chosen
  BY <1>1
<1>8. /\ c \in Contexts
      /\ c.log = ctx[f].log /\ c.committed = ctx[f].committed
      /\ c.wal = ctx[f].wal /\ c.uncommitted = ctx[f].uncommitted
  BY <1>1
<1>9. \A m \in Node : /\ ctx'[m] = IF m = f THEN c ELSE ctx[m]
                      /\ role'[m] = IF m = f THEN "Follower" ELSE role[m]
                      /\ office'[m] = IF m = f THEN NoOffice ELSE office[m]
  BY <1>1
<1>10. f \in Node /\ \A m, g \in Node : InFlight(m, g)' \subseteq InFlight(m, g)
  BY <1>1
<1> QED
  BY <1>2, <1>5, <1>6, <1>7, <1>8, <1>9, <1>10, AdoptsDurable

LEMMA HigherTermDurable ==
  ASSUME TypeInv, TypeInv', TermInv, TermInv', DurabilityInv,
         NEW n \in Node, NEW r \in replies, ReceiveHigherTerm(n, r)
  PROVE  DurabilityInv'
<1> DEFINE c == [ctx[n] EXCEPT !.term = r.term]
<1>1. /\ role[n] # "Crashed" /\ r.term > ctx[n].term /\ r.term \in Terms /\ r.term \in Nat
      /\ c \in Contexts /\ c.term = r.term
      /\ c.log = ctx[n].log /\ c.committed = ctx[n].committed
      /\ c.wal = ctx[n].wal /\ c.uncommitted = ctx[n].uncommitted
      /\ \A m \in Node : /\ ctx'[m] = IF m = n THEN c ELSE ctx[m]
                         /\ role'[m] = IF m = n THEN "Follower" ELSE role[m]
                         /\ office'[m] = IF m = n THEN NoOffice ELSE office[m]
      /\ \A m, g \in Node : InFlight(m, g)' = InFlight(m, g)
      /\ replies' \subseteq replies
      /\ UNCHANGED <<calls, writes, chosen, acked>>
  BY HigherTermIs
<1> HIDE DEF c
<1>2. r.from \in Node /\ r.term <= ctx[r.from].term
  BY DEF TypeInv, TypeOK, Replies, DurabilityInv, RepliesBacked
<1>3. QueueMoves
  BY <1>1 DEF QueueMoves
<1>4. ctx[n].term \in Nat
  BY TermsAreNumbers
<1>5. c.term >= ctx[n].term /\ c.term <= ctx[r.from].term
  BY <1>1, <1>2, <1>4
<1>6. \A m, g \in Node : InFlight(m, g)' \subseteq InFlight(m, g)
  BY <1>1
<1>7. chosen' = chosen /\ replies' \subseteq replies
  BY <1>1
<1>8. \A m \in Node : /\ ctx'[m] = IF m = n THEN c ELSE ctx[m]
                      /\ role'[m] = IF m = n THEN "Follower" ELSE role[m]
                      /\ office'[m] = IF m = n THEN NoOffice ELSE office[m]
  BY <1>1
<1>9. /\ c \in Contexts
      /\ c.log = ctx[n].log /\ c.committed = ctx[n].committed
      /\ c.wal = ctx[n].wal /\ c.uncommitted = ctx[n].uncommitted
  BY <1>1
<1> QED
  BY <1>2, <1>3, <1>5, <1>6, <1>7, <1>8, <1>9, AdoptsDurable

-----------------------------------------------------------------------------
(* A Leader commits. *)

LEMMA CommittedShape ==
  ASSUME NEW c \in Contexts, NEW slot \in 0..MaxSlot, WalShape(c), PendingShape(c),
         DOMAIN c.wal = 1..c.log.slot, slot > c.committed, slot <= c.log.slot
  PROVE  WalShape(Committed(c, slot)) /\ PendingShape(Committed(c, slot))
<1>1. /\ c.log.slot \in Nat /\ c.committed \in Nat /\ slot \in Nat
      /\ c.uncommitted \in Logs /\ \A s \in DOMAIN c.uncommitted : s \in Nat
  BY ContextElim, LogElim, BoundsAssumption
<1> DEFINE d == Committed(c, slot)
<1>2. /\ d.log = c.log /\ d.wal = c.wal /\ d.committed = slot
      /\ DOMAIN d.uncommitted = {s \in DOMAIN c.uncommitted : s > slot}
      /\ \A s \in DOMAIN d.uncommitted : d.uncommitted[s] = c.uncommitted[s]
  BY CommittedIs
<1> HIDE DEF d
<1>3. WalShape(d)
  <2>1. c.log.slot \in 0..d.log.slot /\ DOMAIN d.wal = 1..c.log.slot /\ d.committed <= c.log.slot
    BY <1>1, <1>2
  <2>2. /\ \A s1, s2 \in DOMAIN d.wal : s1 <= s2 => d.wal[s1].term <= d.wal[s2].term
        /\ \A s \in DOMAIN d.wal : d.wal[s].term <= d.log.term
    BY <1>2 DEF WalShape
  <2> QED
    BY <2>1, <2>2 DEF WalShape
<1>4. \A s \in DOMAIN d.wal \intersect DOMAIN d.uncommitted : d.wal[s] = d.uncommitted[s]
  BY <1>2 DEF PendingShape
<1>5. \A s \in (d.committed + 1)..d.log.slot : s \in DOMAIN d.uncommitted
  BY <1>1, <1>2 DEF PendingShape
<1>6. \A s1 \in DOMAIN d.uncommitted : \A s2 \in (d.committed + 1)..s1 : s2 \in DOMAIN d.uncommitted
  <2> SUFFICES ASSUME NEW s1 \in DOMAIN d.uncommitted, NEW s2 \in (slot + 1)..s1
               PROVE  s2 \in DOMAIN d.uncommitted
    BY <1>2
  <2>1. s1 \in DOMAIN c.uncommitted /\ s1 \in Nat
    BY <1>1, <1>2
  <2>2. s2 \in (c.committed + 1)..s1 /\ s2 > slot
    BY <1>1, <2>1
  <2> QED
    BY <1>2, <2>1, <2>2 DEF PendingShape
<1>7. \A s1 \in DOMAIN d.uncommitted : \A s2 \in s1..d.log.slot : s2 \in DOMAIN d.uncommitted
  <2> SUFFICES ASSUME NEW s1 \in DOMAIN d.uncommitted, NEW s2 \in s1..c.log.slot
               PROVE  s2 \in DOMAIN d.uncommitted
    BY <1>2
  <2>1. s1 \in DOMAIN c.uncommitted /\ s1 \in Nat /\ s1 > slot
    BY <1>1, <1>2
  <2>2. s2 \in DOMAIN c.uncommitted /\ s2 > slot
    BY <1>1, <2>1 DEF PendingShape
  <2> QED
    BY <1>2, <2>2
<1>8. DOMAIN d.uncommitted # {} => \E s \in DOMAIN d.uncommitted : s >= d.log.slot
  <2> SUFFICES ASSUME NEW x \in DOMAIN d.uncommitted
               PROVE  \E s \in DOMAIN d.uncommitted : s >= c.log.slot
    BY <1>2
  <2>1. x \in DOMAIN c.uncommitted /\ x \in Nat /\ x > slot
    BY <1>1, <1>2
  <2>2. PICK s \in DOMAIN c.uncommitted : s >= c.log.slot
    BY <2>1 DEF PendingShape
  <2>3. CASE s > slot
    BY <1>2, <2>2, <2>3
  <2>4. CASE ~ (s > slot)
    <3>1. x >= c.log.slot
      BY <1>1, <2>1, <2>2, <2>4
    <3> QED
      BY <3>1
  <2> QED
    BY <2>3, <2>4
<1>9. PendingShape(d)
  BY <1>4, <1>5, <1>6, <1>7, <1>8 DEF PendingShape
<1> QED
  BY <1>3, <1>9 DEF d

\* The marks with r counted, and what a quorum of them says of a slot.
LEMMA BoardBacked ==
  ASSUME TypeInv, DurabilityInv, NEW n \in Node, NEW r \in replies, Acknowledges(n, r)
  PROVE  \A f \in Peers(n) : \A s \in 1..Board(n, r)[f].match : s \in Slots /\ BackedAlike(n, f, s)
<1>1. /\ role[n] = "Leader" /\ r.to = n /\ r.term = ctx[n].term /\ r.outcome = "written"
      /\ r \in Replies /\ r.from # r.to
  BY DEF Acknowledges, TypeInv, TypeOK, Shapes
<1>2. /\ Board(n, r) \in [Peers(n) -> Positions]
      /\ \A f \in Peers(n) : Board(n, r)[f].match
           = IF f = r.from THEN r.slot ELSE office[n].pos[f].match
  BY <1>1, BoardIs DEF TypeInv
<1> SUFFICES ASSUME NEW f \in Peers(n), NEW s \in 1..Board(n, r)[f].match
             PROVE  s \in Slots /\ BackedAlike(n, f, s)
  OBVIOUS
<1>3. s \in Slots
  <2>1. Board(n, r)[f].match \in 0..MaxSlot
    BY <1>2, PositionElim
  <2> QED
    BY <2>1, BoundsAssumption DEF Slots
<1>4. BackedAlike(n, f, s)
  <2>1. CASE f = r.from
    BY <1>1, <1>2, <2>1 DEF DurabilityInv, RepliesBacked
  <2>2. CASE f # r.from
    BY <1>1, <1>2, <2>2 DEF DurabilityInv, BoardsBacked
  <2> QED
    BY <2>1, <2>2
<1> QED
  BY <1>3, <1>4

LEMMA CommitBacked ==
  ASSUME TypeInv, DurabilityInv, Stays, NEW n \in Node, NEW r \in replies, Acknowledges(n, r),
         NEW s \in 1..QuorumSlot(Board(n, r), ctx[n].log.slot), s \in DOMAIN ctx[n].wal
  PROVE  \E v \in Values : /\ v = ctx[n].wal[s].value /\ Backed(n, s, v)'
                           /\ Cardinality({m \in Node : Backed(m, s, v)'}) >= QuorumSize
<1> DEFINE slot == QuorumSlot(Board(n, r), ctx[n].log.slot)
           Q == {f \in Peers(n) : Board(n, r)[f].match >= slot}
<1>1. PICK v \in Values : v = ctx[n].wal[s].value
  BY AppearsIntro, AppearsTyped
<1>2. /\ role[n] = "Leader" /\ r \in Replies /\ r.from # n
      /\ ctx[n].log.slot \in Nat
  BY TermsAreNumbers, ContextElim DEF Acknowledges, TypeInv, TypeOK, Shapes
<1>3. Board(n, r) \in [Peers(n) -> Positions]
  BY <1>2, BoardIs DEF TypeInv
<1>4. slot \in 0..ctx[n].log.slot /\ Cardinality(Q) >= QuorumSize - 1
  BY <1>2, <1>3, QuorumSlotIs
<1>5. slot \in Nat /\ s \in Nat /\ s >= 1 /\ s <= slot
  BY <1>2, <1>4
<1>6. Q \subseteq Peers(n) /\ \A f \in Q : Board(n, r)[f].match >= slot
  OBVIOUS
<1> HIDE DEF Q, slot
<1>7. \A f \in Q : f \in Node /\ f # n /\ s \in Slots /\ Backed(f, s, v) /\ Backed(n, s, v)
  <2> SUFFICES ASSUME NEW f \in Q
               PROVE  f \in Node /\ f # n /\ s \in Slots /\ Backed(f, s, v) /\ Backed(n, s, v)
    OBVIOUS
  <2>1. f \in Peers(n) /\ f \in Node /\ f # n
    BY <1>6 DEF Peers
  <2>2. Board(n, r)[f].match \in Nat /\ Board(n, r)[f].match >= slot
    BY <1>3, <1>6, <2>1, PositionElim
  <2>3. s \in 1..Board(n, r)[f].match
    BY <1>5, <2>2
  <2>4. s \in Slots /\ BackedAlike(n, f, s)
    BY <2>1, <2>3, BoardBacked
  <2>5. PICK w \in Values : Backed(n, s, w) /\ Backed(f, s, w)
    BY <2>4 DEF BackedAlike
  <2>6. w = v
    BY <1>1, <2>4, <2>5, BackedIs
  <2> QED
    BY <2>1, <2>4, <2>5, <2>6
<1>8. IsFiniteSet(Peers(n)) /\ QuorumSize \in Nat /\ QuorumSize >= 2
  BY PeersIs
<1>9. IsFiniteSet(Q) /\ Cardinality(Q) \in Nat
  BY <1>6, <1>8, FS_Subset, FS_CardinalityType
<1>10. n \notin Q
  BY <1>7
<1>11. Cardinality(Q \union {n}) = Cardinality(Q) + 1
  BY <1>9, <1>10, FS_AddElement
<1>12. PICK g \in Q : TRUE
  <2>1. Q # {}
    BY <1>4, <1>8, FS_EmptySet
  <2> QED
    BY <2>1
<1> DEFINE R == {m \in Node : Backed(m, s, v)'}
<1>13. Q \union {n} \subseteq R /\ R \subseteq Node
  BY <1>7, <1>12, BackedStays
<1>14. n \in R
  BY <1>13
<1>15. Backed(n, s, v)'
  BY <1>14
<1> HIDE DEF R
<1>16. IsFiniteSet(R)
  BY <1>13, NodeAssumption, FS_Subset
<1>17. Cardinality(Q \union {n}) <= Cardinality(R) /\ Cardinality(R) \in Nat
  BY <1>13, <1>16, FS_Subset, FS_CardinalityType
<1>18. Cardinality(R) >= QuorumSize
  BY <1>4, <1>8, <1>9, <1>11, <1>17
<1> QED
  BY <1>1, <1>15, <1>18 DEF R

LEMMA AcknowledgesDurable ==
  ASSUME TypeInv, TypeInv', TermInv, TermInv', DurabilityInv,
         NEW n \in Node, NEW r \in replies, Acknowledges(n, r)
  PROVE  DurabilityInv'
<1> DEFINE slot == QuorumSlot(Board(n, r), ctx[n].log.slot)
<1>1. /\ role[n] = "Leader" /\ role' = role /\ calls' = calls /\ replies' \subseteq replies
      /\ r \in Replies /\ r.from # n
      /\ \A m \in Node :
           /\ ctx'[m].term = ctx[m].term /\ ctx'[m].log = ctx[m].log
           /\ ctx'[m].wal = ctx[m].wal
           /\ m # n => ctx'[m] = ctx[m]
           /\ \A s \in DOMAIN ctx'[m].uncommitted : s \in DOMAIN ctx[m].uncommitted
                /\ ctx'[m].uncommitted[s] = ctx[m].uncommitted[s]
  BY AcknowledgesKeeps DEF Acknowledges, TypeInv, TypeOK, Shapes
<1>2. \/ UNCHANGED <<ctx, office, chosen, acked>>
      \/ /\ office' = [office EXCEPT ![n].pos = Board(n, r)]
         /\ UNCHANGED <<ctx, chosen, acked>>
      \/ /\ slot > ctx[n].committed /\ slot \in 0..ctx[n].log.slot /\ slot \in 0..MaxSlot
         /\ ctx' = [ctx EXCEPT ![n] = Committed(ctx[n], slot)]
         /\ office' = [office EXCEPT ![n] = [pos |-> Board(n, r),
                waiting |-> office[n].waiting \ Answered(office[n].waiting, slot)]]
         /\ chosen' = chosen \union {[slot |-> s, value |-> ctx[n].wal[s].value] :
               s \in (ctx[n].committed + 1)..slot \intersect DOMAIN ctx[n].wal}
         /\ acked' = acked \union {ctx[n].wal[s].value :
                                    s \in Answered(office[n].waiting, slot)}
  BY <1>1, HandleWrittenIs DEF Acknowledges, TypeInv
<1> HIDE DEF slot
<1>3. Sending /\ QueueMoves
  BY <1>1 DEF Sending, QueueMoves, InFlight
<1>4. Calm
  BY <1>1, <1>3, CalmIntro
<1>5. TermsFollow
  BY <1>1, TermsAreNumbers DEF TermsFollow
<1>6. ctx \in [Node -> Contexts] /\ DOMAIN office = Node /\ ctx[n] \in Contexts
  BY DEF TypeInv, TypeOK
<1>7. ctx[n].log.slot \in Nat /\ ctx[n].committed \in Nat
  BY <1>6, ContextElim
<1>8. DOMAIN ctx[n].wal = 1..ctx[n].log.slot
  BY <1>1 DEF DurabilityInv, LeaderLog
<1> DEFINE news == {[slot |-> s, value |-> ctx[n].wal[s].value] :
                      s \in (ctx[n].committed + 1)..slot \intersect DOMAIN ctx[n].wal}
<1>9. \/ ctx' = ctx /\ chosen' = chosen
      \/ /\ slot > ctx[n].committed /\ slot \in 0..ctx[n].log.slot /\ slot \in 0..MaxSlot
         /\ \A m \in Node : ctx'[m] = IF m = n THEN Committed(ctx[n], slot) ELSE ctx[m]
         /\ chosen' = chosen \union news
  BY <1>2, <1>6
<1>10. \A m \in Node \ {n} : office'[m] = office[m]
  BY <1>2, <1>6
<1>11. office'[n].pos = office[n].pos \/ office'[n].pos = Board(n, r)
  <2>1. office[n] \in Offices(n)
    BY <1>1 DEF TypeInv, TypeOK
  <2> QED
    BY <1>2, <1>6, <2>1 DEF Offices
<1> HIDE DEF news
<1>12. LogsWellFormed'
  <2> SUFFICES ASSUME NEW m \in Node
               PROVE  WalShape(ctx'[m]) /\ PendingShape(ctx'[m])
    BY DEF LogsWellFormed
  <2>1. WalShape(ctx[m]) /\ PendingShape(ctx[m])
    BY DEF DurabilityInv, LogsWellFormed
  <2>2. CASE ctx'[m] = ctx[m]
    BY <2>1, <2>2
  <2>3. CASE /\ m = n /\ slot > ctx[n].committed /\ slot \in 0..ctx[n].log.slot
             /\ slot \in 0..MaxSlot /\ ctx'[m] = Committed(ctx[n], slot)
    <3>1. slot <= ctx[n].log.slot
      BY <1>7, <2>3
    <3> QED
      BY <1>6, <1>8, <2>1, <2>3, <3>1, CommittedShape
  <2> QED
    BY <1>9, <2>2, <2>3
<1>13. Stays
  BY <1>4, <1>12, CalmStays DEF TermInv
<1>14. chosen \subseteq chosen' /\ \A m \in Node : ctx'[m].committed >= ctx[m].committed
  <2>1. \A m \in Node : ctx[m].committed \in Nat
    BY TermsAreNumbers, ContextElim
  <2>2. slot \in 0..MaxSlot => Committed(ctx[n], slot).committed = slot
    BY <1>6, CommittedIs
  <2> QED
    BY <1>7, <1>9, <2>1, <2>2
<1>15. BoardsBacked'
  <2> SUFFICES ASSUME NEW m \in Node, role'[m] = "Leader", NEW f \in Peers(m),
                      NEW s \in 1..office'[m].pos[f].match
               PROVE  BackedAlike(m, f, s)'
    BY DEF BoardsBacked
  <2>1. CASE office'[m].pos = office[m].pos
    <3>1. role[m] = "Leader" /\ s \in 1..office[m].pos[f].match
      BY <1>1, <2>1
    <3> QED
      BY <1>13, <3>1, BoardKept DEF DurabilityInv
  <2>2. CASE m = n /\ office'[n].pos = Board(n, r)
    <3>1. s \in Slots /\ BackedAlike(n, f, s) /\ f \in Node
      BY <2>2, BoardBacked DEF Peers
    <3> QED
      BY <1>13, <2>2, <3>1, BackedAlikeStays
  <2> QED
    BY <1>10, <1>11, <2>1, <2>2
<1>16. ASSUME NEW s \in (ctx[n].committed + 1)..slot, s \in DOMAIN ctx[n].wal, slot \in Nat
       PROVE  \E v \in Values : /\ v = ctx[n].wal[s].value /\ Backed(n, s, v)'
                                /\ Cardinality({m \in Node : Backed(m, s, v)'}) >= QuorumSize
  <2>1. s \in 1..slot
    BY <1>7, <1>16
  <2> QED
    BY <1>13, <1>16, <2>1, CommitBacked DEF slot
<1>17. \A e \in chosen' : Cardinality({m \in Node : Backed(m, e.slot, e.value)'}) >= QuorumSize
  <2>1. ASSUME NEW e \in chosen
        PROVE  Cardinality({m \in Node : Backed(m, e.slot, e.value)'}) >= QuorumSize
    BY <1>13, ChosenStaysBacked DEF DurabilityInv
  <2>2. ASSUME NEW e \in news, slot \in Nat
        PROVE  Cardinality({m \in Node : Backed(m, e.slot, e.value)'}) >= QuorumSize
    <3>1. PICK s \in (ctx[n].committed + 1)..slot \intersect DOMAIN ctx[n].wal :
            e = [slot |-> s, value |-> ctx[n].wal[s].value]
      BY DEF news
    <3>2. PICK v \in Values : /\ v = ctx[n].wal[s].value /\ Backed(n, s, v)'
                              /\ Cardinality({m \in Node : Backed(m, s, v)'}) >= QuorumSize
      BY <1>16, <2>2
    <3>3. e.slot = s /\ e.value = v
      BY <3>1, <3>2
    <3> QED
      BY <3>2, <3>3
  <2> QED
    BY <1>7, <1>9, <2>1, <2>2
<1>18. ChosenBacked'
  BY <1>17 DEF ChosenBacked
<1>19. CommittedBacked'
  <2> SUFFICES ASSUME NEW m \in Node, NEW s \in 1..ctx'[m].committed
               PROVE  \E v \in Values : [slot |-> s, value |-> v] \in chosen' /\ Backed(m, s, v)'
    BY DEF CommittedBacked
  <2>1. CASE s \in 1..ctx[m].committed
    BY <1>13, <1>14, <2>1, CommittedKept DEF DurabilityInv
  <2>2. CASE s \notin 1..ctx[m].committed
    <3>1. /\ m = n /\ slot > ctx[n].committed /\ slot \in 0..ctx[n].log.slot /\ slot \in 0..MaxSlot
          /\ ctx'[n] = Committed(ctx[n], slot) /\ chosen' = chosen \union news
      BY <1>9, <2>2
    <3>2. Committed(ctx[n], slot).committed = slot /\ slot \in Nat /\ slot <= ctx[n].log.slot
      BY <1>6, <1>7, <3>1, CommittedIs
    <3>3. s \in (ctx[n].committed + 1)..slot /\ s \in DOMAIN ctx[n].wal
      BY <1>7, <1>8, <2>2, <3>1, <3>2
    <3>4. PICK v \in Values : v = ctx[n].wal[s].value /\ Backed(n, s, v)'
      BY <1>16, <3>2, <3>3
    <3>5. [slot |-> s, value |-> v] \in news
      BY <3>3, <3>4 DEF news
    <3> QED
      BY <3>1, <3>4, <3>5
  <2> QED
    BY <2>1, <2>2
<1>20. \A q \in replies' : q \in replies
  BY <1>1
<1> QED
  BY <1>3, <1>4, <1>5, <1>12, <1>14, <1>15, <1>18, <1>19, <1>20, CalmDurable

-----------------------------------------------------------------------------
(* A Leader writes. *)

LEMMA ExtendedShape ==
  ASSUME NEW c \in Contexts, NEW v \in Values, c.log.slot < MaxSlot, WalShape(c), PendingShape(c),
         DOMAIN c.wal = 1..c.log.slot, c.log.term <= c.term
  PROVE  WalShape(Extended(c, v)) /\ PendingShape(Extended(c, v))
<1> DEFINE d == Extended(c, v)
           slot == c.log.slot + 1
           e == [term |-> c.term, value |-> v]
<1>1. /\ d.committed = c.committed /\ d.log.term = c.term /\ d.log.slot = slot
      /\ DOMAIN d.wal = {slot} \union DOMAIN c.wal /\ d.wal[slot] = e
      /\ \A s \in DOMAIN c.wal : s # slot => d.wal[s] = c.wal[s]
      /\ DOMAIN d.uncommitted = {slot} \union DOMAIN c.uncommitted /\ d.uncommitted[slot] = e
      /\ \A s \in DOMAIN c.uncommitted : s # slot => d.uncommitted[s] = c.uncommitted[s]
  BY ExtendedIs, Zenon
<1>2. /\ e.term = c.term /\ slot = c.log.slot + 1 /\ c.log.slot \in Nat /\ c.committed \in Nat
      /\ c.term \in Nat /\ c.log.term \in Nat
      /\ \A s \in DOMAIN c.uncommitted : s \in Nat
      /\ \A s \in DOMAIN c.wal : s \in Nat /\ c.wal[s].term \in Nat /\ c.wal[s].term <= c.log.term
  <2>1. c.wal \in Logs
    BY ContextElim
  <2>2. \A s \in DOMAIN c.wal : s \in Nat /\ c.wal[s].term \in Nat
    <3>1. \A s \in DOMAIN c.wal : s \in Nat /\ c.wal[s].term \in Terms
      BY <2>1, LogElim
    <3> QED
      BY <3>1, BoundsAssumption DEF Terms
  <2>3. \A s \in DOMAIN c.uncommitted : s \in Nat
    <3>1. c.uncommitted \in Logs
      BY ContextElim
    <3> QED
      BY <3>1, LogElim
  <2> QED
    BY <2>2, <2>3, ContextElim DEF WalShape
<1> HIDE DEF d, e, slot
<1>3. WalShape(d)
  <2>1. slot \in 0..d.log.slot /\ DOMAIN d.wal = 1..slot /\ d.committed <= slot
    <3>1. PICK k \in 0..c.log.slot : c.committed <= k
      BY DEF WalShape
    <3>2. c.committed <= slot
      BY <1>2, <3>1
    <3>3. {slot} \union 1..c.log.slot = 1..slot
      BY <1>2
    <3> QED
      BY <1>1, <1>2, <3>2, <3>3
  <2>2. \A s \in DOMAIN d.wal : d.wal[s].term <= c.term
    <3>1. d.wal[slot].term <= c.term
      BY <1>1, <1>2
    <3>2. \A s \in DOMAIN c.wal : s # slot => d.wal[s].term <= c.term
      BY <1>1, <1>2
    <3> QED
      BY <1>1, <3>1, <3>2
  <2>3. ASSUME NEW s1 \in DOMAIN d.wal, NEW s2 \in DOMAIN d.wal, s1 <= s2
        PROVE  d.wal[s1].term <= d.wal[s2].term
    <3>1. CASE s2 = slot
      BY <1>1, <1>2, <2>2, <3>1
    <3>2. CASE s2 # slot
      <4>1. s2 \in DOMAIN c.wal /\ s1 \in DOMAIN c.wal /\ s1 # slot
        BY <1>1, <1>2, <2>3, <3>2
      <4> QED
        BY <1>1, <2>3, <3>2, <4>1 DEF WalShape
    <3> QED
      BY <3>1, <3>2
  <2> QED
    BY <1>1, <2>1, <2>2, <2>3 DEF WalShape
<1>4. \A s \in DOMAIN d.wal \intersect DOMAIN d.uncommitted : d.wal[s] = d.uncommitted[s]
  BY <1>1 DEF PendingShape
<1>5. ASSUME NEW s \in (c.committed + 1)..slot
      PROVE  s \in DOMAIN d.uncommitted
  <2>1. CASE s = slot
    BY <1>1, <2>1
  <2>2. CASE s # slot
    <3>1. s \in (c.committed + 1)..c.log.slot
      BY <1>2, <2>2
    <3> QED
      BY <1>1, <3>1 DEF PendingShape
  <2> QED
    BY <2>1, <2>2
<1>6. ASSUME NEW s1 \in DOMAIN d.uncommitted, NEW s2 \in (c.committed + 1)..s1
      PROVE  s2 \in DOMAIN d.uncommitted
  <2>1. CASE s1 = slot
    BY <1>5, <2>1
  <2>2. CASE s1 # slot
    <3>1. s1 \in DOMAIN c.uncommitted
      BY <1>1, <2>2
    <3> QED
      BY <1>1, <3>1 DEF PendingShape
  <2> QED
    BY <2>1, <2>2
<1>7. ASSUME NEW s1 \in DOMAIN d.uncommitted, NEW s2 \in s1..slot
      PROVE  s2 \in DOMAIN d.uncommitted
  <2>1. CASE s2 = slot
    BY <1>1, <2>1
  <2>2. CASE s2 # slot
    <3>1. s1 \in Nat
      BY <1>1, <1>2
    <3>2. s1 # slot /\ s2 \in s1..c.log.slot
      BY <1>2, <2>2, <3>1
    <3>3. s1 \in DOMAIN c.uncommitted
      BY <1>1, <3>2
    <3> QED
      BY <1>1, <3>2, <3>3 DEF PendingShape
  <2> QED
    BY <2>1, <2>2
<1>8. \E s \in DOMAIN d.uncommitted : s >= d.log.slot
  <2>1. slot \in DOMAIN d.uncommitted /\ slot >= d.log.slot
    BY <1>1, <1>2
  <2> QED
    BY <2>1
<1>9. PendingShape(d)
  BY <1>1, <1>4, <1>5, <1>6, <1>7, <1>8 DEF PendingShape
<1> QED
  BY <1>3, <1>9 DEF d

LEMMA ClientWriteDurable ==
  ASSUME TypeInv, TypeInv', TermInv, TermInv', DurabilityInv, NEW n \in Node, ClientWrite(n)
  PROVE  DurabilityInv'
<1>0. PICK T \in Terms, slot \in Slots, v0 \in Values :
        T = ctx[n].term /\ slot = ctx[n].log.slot + 1 /\ v0 = writes + 1
  <2>1. ctx[n].log.slot < MaxSlot /\ writes + 1 \in Values
    BY ClientWriteIs DEF TypeInv
  <2>2. ctx[n].log.slot \in Nat /\ ctx[n].term \in Terms
    BY TermsAreNumbers, ContextElim
  <2> QED
    BY <2>1, <2>2, BoundsAssumption DEF Slots
<1> DEFINE d == Extended(ctx[n], writes + 1)
           e == [term |-> T, value |-> v0]
<1>1. /\ role[n] = "Leader" /\ ctx[n].log.slot < MaxSlot /\ writes + 1 \in Values
      /\ ctx' = [ctx EXCEPT ![n] = d]
      /\ office' = [office EXCEPT ![n].waiting = @ \union {slot}]
      /\ UNCHANGED <<role, calls, replies, chosen>>
  BY <1>0, ClientWriteIs DEF TypeInv
<1>2. \A m \in Node : /\ ctx[m] \in Contexts /\ ctx[m].term \in Nat
                      /\ ctx[m].log.term \in Nat /\ ctx[m].log.slot \in Nat
  BY TermsAreNumbers, ContextElim
<1>3. /\ slot \in Slots /\ e \in Entries /\ e.term = T /\ e.value \in Values
      /\ d.term = T /\ d.committed = ctx[n].committed
      /\ d.log.term = T /\ d.log.slot = slot
      /\ DOMAIN d.wal = {slot} \union DOMAIN ctx[n].wal /\ d.wal[slot] = e
      /\ \A s \in DOMAIN ctx[n].wal : s # slot => d.wal[s] = ctx[n].wal[s]
      /\ DOMAIN d.uncommitted = {slot} \union DOMAIN ctx[n].uncommitted /\ d.uncommitted[slot] = e
      /\ \A s \in DOMAIN ctx[n].uncommitted : s # slot => d.uncommitted[s] = ctx[n].uncommitted[s]
  BY <1>0, <1>1, <1>2, ExtendedIs
<1>4. slot = ctx[n].log.slot + 1 /\ slot \in Nat /\ T \in Nat /\ e.value = v0
  BY <1>0, <1>2
<1>5. \A m \in Node : ctx'[m] = IF m = n THEN d ELSE ctx[m]
  BY <1>1 DEF TypeInv, TypeOK
<1>6. \A m \in Node : role'[m] = "Leader" => office'[m].pos = office[m].pos
  <2>1. office[n] \in Offices(n) /\ DOMAIN office = Node
    BY <1>1 DEF TypeInv, TypeOK
  <2> QED
    BY <1>1, <2>1 DEF Offices
<1>7. /\ \A s \in DOMAIN ctx[n].wal : ctx[n].wal[s].term < T => s <= ctx[n].committed
      /\ DOMAIN ctx[n].wal = 1..ctx[n].log.slot
      /\ \A m \in Node : ctx[m].log.term = T
           => ctx[m].log.slot <= ctx[n].log.slot /\ ctx[n].log.term = T
      /\ \A f \in Node : \A r \in InFlight(n, f) :
           r.term = T => LastWritten(r) <= ctx[n].log.slot
      /\ Newest(n) => \A v \in Values : \A s \in DOMAIN ctx[n].wal :
           T = ctx[n].wal[s].term /\ v = ctx[n].wal[s].value => Agreed(T, s, v)
  BY <1>0, <1>1 DEF DurabilityInv, LeaderLog
<1>8. LogsWellFormed'
  <2>1. \A m \in Node : WalShape(ctx[m]) /\ PendingShape(ctx[m])
    BY DEF DurabilityInv, LogsWellFormed
  <2>2. ctx[n].log.term <= ctx[n].term
    BY DEF TermInv, TermsOpened
  <2>3. WalShape(d) /\ PendingShape(d)
    BY <1>1, <1>2, <1>7, <2>1, <2>2, ExtendedShape
  <2> QED
    BY <1>5, <2>1, <2>3 DEF LogsWellFormed
<1> HIDE DEF d, e
<1>9. \A m, g \in Node : InFlight(m, g)' = InFlight(m, g)
  BY <1>1 DEF InFlight
<1>10. Sending /\ QueueMoves
  BY <1>1, <1>9 DEF Sending, QueueMoves
<1>11. \A m \in Node : ctx'[m].term = ctx[m].term /\ role'[m] = role[m]
  BY <1>0, <1>1, <1>3, <1>5
<1>12. TermsFollow
  BY <1>2, <1>11 DEF TermsFollow
<1>13. \A s, x : Appears(s, x)' => Appears(s, x) \/ (s = slot /\ x = e)
  <2> DEFINE new == [s \in {slot} |-> e]
  <2>1. \A m \in Node : \A s \in DOMAIN ctx'[m].wal :
          Appears(s, ctx'[m].wal[s]) \/ (s \in DOMAIN new /\ ctx'[m].wal[s] = new[s])
    BY <1>3, <1>5, AppearsIntro
  <2>2. \A m \in Node : \A s \in DOMAIN ctx'[m].uncommitted :
          Appears(s, ctx'[m].uncommitted[s]) \/ (s \in DOMAIN new /\ ctx'[m].uncommitted[s] = new[s])
    BY <1>3, <1>5, AppearsIntro
  <2>3. \A m, f \in Node : \A r \in InFlight(m, f)' : \A s \in DOMAIN r.entries :
          Appears(s, r.entries[s]) \/ (s \in DOMAIN new /\ r.entries[s] = new[s])
    BY <1>9, AppearsIntro
  <2>4. DOMAIN new = {slot} /\ new[slot] = e
    OBVIOUS
  <2> HIDE DEF new
  <2>5. \A s, x : Appears(s, x)' => Appears(s, x) \/ (s \in DOMAIN new /\ x = new[s])
    BY <2>1, <2>2, <2>3, AppearsAfter
  <2> QED
    BY <2>4, <2>5
<1>14. ASSUME NEW t \in Terms, NEW s \in Slots, NEW v \in Values, Agreed(t, s, v)
       PROVE  Agreed(t, s, v)' /\ \A m \in Node : Reach(m, t, s) => Reach(m, t, s)'
  <2>1. t \in Nat /\ s \in Nat
    BY BoundsAssumption DEF Terms, Slots
  <2>2. T >= t => ctx[n].log.term >= t /\ ctx[n].log.slot >= s
    BY <1>0, <1>1, <1>14 DEF Agreed, Reach
  <2>3. T >= t => s # slot /\ s \in DOMAIN ctx[n].wal /\ ctx[n].wal[s].term >= t
    BY <1>2, <1>4, <1>14, <2>1, <2>2 DEF Agreed, Reach
  <2>4. \A x \in Entries : Appears(s, x)' /\ x.term >= t => Appears(s, x) \/ x.value = v
    BY <1>3, <1>13, <2>3
  <2>5. \A m \in Node : ctx'[m].log.term >= t /\ ctx'[m].log.slot >= s
          => s \in DOMAIN ctx'[m].wal /\ ctx'[m].wal[s].term >= t
    <3> SUFFICES ASSUME NEW m \in Node, ctx'[m].log.term >= t, ctx'[m].log.slot >= s
                 PROVE  s \in DOMAIN ctx'[m].wal /\ ctx'[m].wal[s].term >= t
      OBVIOUS
    <3>1. CASE m = n
      <4>1. T >= t
        BY <1>3, <1>5, <3>1
      <4> QED
        BY <1>3, <1>5, <2>3, <3>1, <4>1
    <3>2. CASE m # n
      BY <1>5, <1>14, <3>2 DEF Agreed, Reach
    <3> QED
      BY <3>1, <3>2
  <2>6. \A m \in Node : Reach(m, t, s) => ctx'[m].log.term >= t /\ ctx'[m].log.slot >= s
    <3> SUFFICES ASSUME NEW m \in Node, Reach(m, t, s)
                 PROVE  ctx'[m].log.term >= t /\ ctx'[m].log.slot >= s
      OBVIOUS
    <3>1. ctx[m].log.term >= t /\ ctx[m].log.slot >= s /\ ctx[m].log.term <= ctx[m].term
      BY DEF Reach, TermInv, TermsOpened
    <3>2. CASE m = n
      BY <1>0, <1>2, <1>3, <1>4, <1>5, <2>1, <3>1, <3>2
    <3>3. CASE m # n
      BY <1>5, <3>1, <3>3
    <3> QED
      BY <3>2, <3>3
  <2>7. \A m \in Node : role'[m] = "Leader" /\ ctx'[m].term >= t
          => ctx'[m].log.term >= t /\ ctx'[m].log.slot >= s
    BY <1>11, <1>14, <2>6 DEF Agreed
  <2>8. Agreed(t, s, v)'
    BY <1>8, <1>10, <1>14, <2>4, <2>5, <2>7, AgreedAfter DEF TermInv
  <2> QED
    BY <2>6, <2>8 DEF Reach
<1>15. Stays
  BY <1>14, StaysIntro
<1>16. \A m \in Node : Newest(m)' => Newest(m)
  <2>1. \A m \in Node : ctx'[m].term >= ctx[m].term
    BY <1>12 DEF TermsFollow
  <2> QED
    BY <1>1, <1>11, <2>1, NewestBefore DEF Newest
<1>17. ASSUME Newest(n)
       PROVE  Agreed(T, slot, v0)'
  <2>1. \A m \in Node : ctx[m].term <= T
    BY <1>0, <1>17 DEF Newest
  <2>2. ASSUME NEW x \in Entries, Appears(slot, x), x.term >= T
        PROVE  FALSE
    <3>1. x.term \in Nat
      BY <2>2, AppearsTyped
    <3>2. \E m \in Node : x.term <= ctx[m].term
      <4>1. CASE \E m \in Node : slot \in DOMAIN ctx[m].wal /\ ctx[m].wal[slot] = x
        BY <4>1 DEF TermInv, TermsOpened
      <4>2. CASE \E m \in Node : slot \in DOMAIN ctx[m].uncommitted /\ ctx[m].uncommitted[slot] = x
        BY <4>2 DEF TermInv, TermsOpened
      <4>3. CASE \E m, f \in Node : \E r \in InFlight(m, f) :
                   slot \in DOMAIN r.entries /\ r.entries[slot] = x
        <5>1. PICK m \in Node, f \in Node : \E r \in InFlight(m, f) :
                slot \in DOMAIN r.entries /\ r.entries[slot] = x
          BY <4>3
        <5>2. PICK r \in InFlight(m, f) : slot \in DOMAIN r.entries /\ r.entries[slot] = x
          BY <5>1
        <5>3. x.term <= r.term /\ r.term <= ctx[m].term
          BY <5>2 DEF TermInv, TermsOpened, DurabilityInv, Requested, RequestedOf
        <5>4. r.term \in Nat
          BY FlightElim, RequestElim DEF TypeInv, TypeOK, CallsOK
        <5> QED
          BY <1>2, <3>1, <5>3, <5>4
      <4> QED
        BY <2>2, <4>1, <4>2, <4>3 DEF Appears
    <3>3. x.term = T
      BY <1>2, <1>4, <2>1, <2>2, <3>1, <3>2
    <3>4. slot <= ctx[n].log.slot
      BY <1>0, <1>1, <1>3, <2>2, <3>3 DEF TermInv, LeaderAhead
    <3> QED
      BY <1>2, <1>4, <3>4
  <2>3. \A x \in Entries : Appears(slot, x)' /\ x.term >= T => x.value = v0
    BY <1>4, <1>13, <2>2
  <2>4. \A m \in Node : Reach(m, T, slot)' => slot \in DOMAIN ctx'[m].wal /\ ctx'[m].wal[slot].term >= T
    <3> SUFFICES ASSUME NEW m \in Node, ctx'[m].log.term >= T, ctx'[m].log.slot >= slot
                 PROVE  slot \in DOMAIN ctx'[m].wal /\ ctx'[m].wal[slot].term >= T
      BY DEF Reach
    <3>1. CASE m = n
      BY <1>3, <1>4, <1>5, <3>1
    <3>2. CASE m # n
      <4>1. ctx[m].log.term >= T /\ ctx[m].log.slot >= slot /\ ctx[m].log.term <= ctx[m].term
        BY <1>5, <3>2 DEF TermInv, TermsOpened
      <4>2. ctx[m].log.term = T
        BY <1>2, <1>4, <2>1, <4>1
      <4>3. ctx[m].log.slot <= ctx[n].log.slot
        BY <1>7, <4>2
      <4> QED
        BY <1>2, <1>4, <4>1, <4>3
    <3> QED
      BY <3>1, <3>2
  <2>5. \A m \in Node : role'[m] = "Leader" /\ ctx'[m].term >= T => Reach(m, T, slot)'
    <3> SUFFICES ASSUME NEW m \in Node, role[m] = "Leader", ctx[m].term >= T
                 PROVE  Reach(m, T, slot)'
      BY <1>11
    <3>1. ctx[m].term = T
      BY <1>2, <1>4, <2>1
    <3>2. m = n
      BY <1>0, <1>1, <3>1 DEF TermInv, OneLeader
    <3> QED
      BY <1>3, <1>4, <1>5, <3>2 DEF Reach
  <2>6. ASSUME NEW m \in Node, NEW f \in Node, NEW r \in InFlight(m, f)',
               r.term > T \/ (r.term = T /\ LastWritten(r) >= slot)
        PROVE  FALSE
    <3>1. r \in InFlight(m, f)
      BY <1>9
    <3>2. r.term \in Nat /\ LastWritten(r) \in Nat
      BY TypesAfter, RequestElim
    <3>3. r.term <= ctx[m].term
      BY <3>1 DEF DurabilityInv, Requested, RequestedOf
    <3>4. r.term = T /\ LastWritten(r) >= slot
      BY <1>2, <1>4, <2>1, <2>6, <3>2, <3>3
    <3>5. m = n
      BY <1>0, <1>1, <3>1, <3>4 DEF TermInv, OneLeader
    <3>6. LastWritten(r) <= ctx[n].log.slot
      BY <1>7, <3>1, <3>4, <3>5
    <3> QED
      BY <1>2, <1>4, <3>2, <3>4, <3>6
  <2> QED
    BY <2>3, <2>4, <2>5, <2>6 DEF Agreed
<1>18. LeaderLog'
  <2> SUFFICES ASSUME NEW m \in Node, role'[m] = "Leader"
               PROVE  /\ DOMAIN ctx'[m].wal = 1..ctx'[m].log.slot
                      /\ \A s \in DOMAIN ctx'[m].wal :
                           ctx'[m].wal[s].term < ctx'[m].term => s <= ctx'[m].committed
                      /\ \A k \in Node : ctx'[k].log.term = ctx'[m].term
                           => ctx'[k].log.slot <= ctx'[m].log.slot /\ ctx'[m].log.term = ctx'[m].term
                      /\ \A f \in Node : \A r \in InFlight(m, f)' :
                           r.term = ctx'[m].term => LastWritten(r) <= ctx'[m].log.slot
                      /\ Newest(m)' => \A t \in Terms, v \in Values : \A s \in DOMAIN ctx'[m].wal :
                           t = ctx'[m].term /\ t = ctx'[m].wal[s].term /\ v = ctx'[m].wal[s].value
                             => Agreed(t, s, v)'
    BY DEF LeaderLog
  <2>1. CASE m # n
    <3>1. ctx'[m] = ctx[m] /\ role[m] = "Leader"
      BY <1>1, <1>5, <2>1
    <3>2. ctx[m].term # T
      BY <1>0, <1>1, <2>1, <3>1 DEF TermInv, OneLeader
    <3>3. /\ DOMAIN ctx[m].wal = 1..ctx[m].log.slot
          /\ \A s \in DOMAIN ctx[m].wal : ctx[m].wal[s].term < ctx[m].term => s <= ctx[m].committed
          /\ \A k \in Node : ctx[k].log.term = ctx[m].term
               => ctx[k].log.slot <= ctx[m].log.slot /\ ctx[m].log.term = ctx[m].term
          /\ \A f \in Node : \A r \in InFlight(m, f) :
               r.term = ctx[m].term => LastWritten(r) <= ctx[m].log.slot
          /\ Newest(m) => \A t \in Terms, v \in Values : \A s \in DOMAIN ctx[m].wal :
               t = ctx[m].term /\ t = ctx[m].wal[s].term /\ v = ctx[m].wal[s].value => Agreed(t, s, v)
      BY <3>1 DEF DurabilityInv, LeaderLog
    <3>4. \A k \in Node : ctx'[k].log.term = ctx'[m].term
            => ctx'[k].log.slot <= ctx'[m].log.slot /\ ctx'[m].log.term = ctx'[m].term
      BY <1>3, <1>5, <3>1, <3>2, <3>3
    <3>5. ASSUME Newest(m)', NEW t \in Terms, NEW v \in Values, NEW s \in DOMAIN ctx'[m].wal,
                 t = ctx'[m].term, t = ctx'[m].wal[s].term, v = ctx'[m].wal[s].value
          PROVE  Agreed(t, s, v)'
      <4>1. Agreed(t, s, v)
        BY <1>16, <3>1, <3>3, <3>5
      <4>2. s \in Slots
        BY <3>1, AppearsIntro, AppearsTyped
      <4> QED
        BY <1>14, <4>1, <4>2
    <3> QED
      BY <1>9, <3>1, <3>3, <3>4, <3>5
  <2>2. CASE m = n
    <3>1. ctx'[n] = d
      BY <1>5
    <3>2. DOMAIN d.wal = 1..d.log.slot
      <4>1. {slot} \union 1..ctx[n].log.slot = 1..slot
        BY <1>2, <1>4
      <4> QED
        BY <1>3, <1>7, <4>1
    <3>3. ASSUME NEW s \in DOMAIN d.wal, d.wal[s].term < d.term
          PROVE  s <= d.committed
      <4>1. s # slot
        BY <1>3, <1>4, <3>3
      <4> QED
        BY <1>3, <1>7, <3>3, <4>1
    <3>4. \A k \in Node : ctx'[k].log.term = d.term => ctx'[k].log.slot <= d.log.slot
      <4> SUFFICES ASSUME NEW k \in Node, ctx'[k].log.term = T
                   PROVE  ctx'[k].log.slot <= slot
        BY <1>3
      <4>1. CASE k = n
        BY <1>3, <1>4, <1>5, <4>1
      <4>2. CASE k # n
        <5>1. ctx[k].log.slot <= ctx[n].log.slot /\ ctx'[k] = ctx[k]
          BY <1>5, <1>7, <4>2
        <5> QED
          BY <1>2, <1>4, <5>1
      <4> QED
        BY <4>1, <4>2
    <3>5. \A f \in Node : \A r \in InFlight(n, f)' : r.term = d.term => LastWritten(r) <= d.log.slot
      <4> SUFFICES ASSUME NEW f \in Node, NEW r \in InFlight(n, f)', r.term = T
                   PROVE  LastWritten(r) <= slot
        BY <1>3
      <4>1. LastWritten(r) <= ctx[n].log.slot
        BY <1>7, <1>9
      <4>2. LastWritten(r) \in Nat
        BY TypesAfter, RequestElim
      <4> QED
        BY <1>2, <1>4, <4>1, <4>2
    <3>6. ASSUME Newest(n)', NEW t \in Terms, NEW v \in Values, NEW s \in DOMAIN d.wal,
                 t = d.term, t = d.wal[s].term, v = d.wal[s].value
          PROVE  Agreed(t, s, v)'
      <4>1. Newest(n) /\ t = T
        BY <1>3, <1>16, <3>6
      <4>2. CASE s = slot
        <5>1. Agreed(T, slot, v0)'
          BY <1>17, <4>1
        <5>2. v = v0
          BY <1>3, <1>4, <3>6, <4>2
        <5> QED
          BY <4>1, <4>2, <5>1, <5>2
      <4>3. CASE s # slot
        <5>1. s \in DOMAIN ctx[n].wal /\ t = ctx[n].wal[s].term /\ v = ctx[n].wal[s].value
          BY <1>3, <3>6, <4>3
        <5>2. Agreed(t, s, v)
          BY <1>7, <4>1, <5>1
        <5>3. s \in Slots
          BY <5>1, AppearsIntro, AppearsTyped
        <5> QED
          BY <1>14, <5>2, <5>3
      <4> QED
        BY <4>2, <4>3
    <3>7. d.log.term = d.term
      BY <1>3
    <3> QED
      BY <2>2, <3>1, <3>2, <3>3, <3>4, <3>5, <3>6, <3>7
  <2> QED
    BY <2>1, <2>2
<1>19. Requested'
  <2> SUFFICES ASSUME NEW m \in Node, NEW f \in Node, NEW r \in InFlight(m, f)'
               PROVE  RequestedOf(m, f, r)'
    BY DEF Requested
  <2>1. r \in InFlight(m, f) /\ RequestedOf(m, f, r)
    BY <1>9 DEF DurabilityInv, Requested
  <2>2. /\ r \in Requests /\ r.term \in Nat /\ LastWritten(r) \in Nat /\ LastWritten(r) <= MaxSlot
        /\ r.commit \in Nat /\ r.commit <= MaxSlot /\ r.term \in Terms
    BY TypesAfter, RequestElim, BoundsAssumption
  <2>3. RequestShape(r) /\ r.term <= ctx'[m].term
    BY <1>11, <2>1 DEF RequestedOf
  <2>4. ASSUME NEW s \in 1..r.commit
        PROVE  \E v \in Values, t \in 0..r.term :
                 [slot |-> s, value |-> v] \in chosen' /\ Grounded(t, s, v)'
    <3>1. PICK v \in Values, t \in 0..r.term :
            [slot |-> s, value |-> v] \in chosen /\ Grounded(t, s, v)
      BY <2>1 DEF RequestedOf
    <3>2. t \in Terms /\ s \in Slots
      BY <2>2, BoundsAssumption DEF Terms, Slots
    <3> QED
      BY <1>1, <1>15, <3>1, <3>2 DEF Stays
  <2>5. r.term = ctx'[f].term /\ r.term = ctx'[f].log.term => LastWritten(r) >= ctx'[f].log.slot
    <3>1. CASE f # n
      BY <1>5, <2>1, <3>1 DEF RequestedOf
    <3>2. CASE f = n
      <4>1. m # n
        BY <2>1, <3>2 DEF TypeInv, Shapes
      <4>2. r.term # ctx[n].term
        BY <1>1, <2>1, <4>1 DEF TermInv, OneLeader
      <4> QED
        BY <1>11, <3>2, <4>2
    <3> QED
      BY <3>1, <3>2
  <2>6. ASSUME r.term >= ctx'[f].term, NEW s \in 1..LastWritten(r)
        PROVE  \E v \in Values, t \in Terms :
                 Agreed(t, s, v)' /\ Covers(r, t, s) /\ \E k \in Node \ {f} : Reach(k, t, s)'
    <3>1. PICK v \in Values, t \in Terms :
            Agreed(t, s, v) /\ Covers(r, t, s) /\ \E k \in Node \ {f} : Reach(k, t, s)
      BY <1>11, <2>1, <2>6 DEF RequestedOf
    <3>2. s \in Slots
      BY <2>2, BoundsAssumption DEF Slots
    <3> QED
      BY <1>14, <3>1, <3>2
  <2> QED
    BY <2>3, <2>4, <2>5, <2>6 DEF RequestedOf
<1>20. LogsMatch'
  <2>1. ASSUME NEW m \in Node, m # n, ctx[m].log.term = T, NEW s \in 1..ctx[m].log.slot
        PROVE  BackedAlike(n, m, s)' /\ BackedAlike(m, n, s)'
    <3>1. ctx[m].log.slot <= ctx[n].log.slot /\ ctx[n].log.term = T
      BY <1>7, <2>1
    <3>2. s \in 1..ctx[n].log.slot /\ s <= ctx[m].log.slot
      BY <1>2, <2>1, <3>1
    <3>3. BackedAlike(n, m, s) /\ BackedAlike(m, n, s)
      BY <2>1, <3>1, <3>2 DEF DurabilityInv, LogsMatch
    <3>4. s \in Slots
      <4>1. ctx[m].log.slot <= MaxSlot
        BY <1>2, ContextElim
      <4> QED
        BY <1>2, <4>1, BoundsAssumption DEF Slots
    <3> QED
      BY <1>15, <3>3, <3>4, BackedAlikeStays
  <2> SUFFICES ASSUME NEW m1 \in Node, NEW m2 \in Node, m1 # m2,
                      ctx'[m1].log.term = ctx'[m2].log.term,
                      NEW s \in 1..ctx'[m1].log.slot, s <= ctx'[m2].log.slot
               PROVE  BackedAlike(m1, m2, s)'
    BY DEF LogsMatch
  <2>2. CASE m1 = n
    <3>1. m2 # n /\ ctx'[m2] = ctx[m2] /\ ctx[m2].log.term = T
      BY <1>3, <1>5, <2>2
    <3>2. s \in 1..ctx[m2].log.slot
      BY <1>2, <3>1
    <3> QED
      BY <2>1, <2>2, <3>1, <3>2
  <2>3. CASE m2 = n
    <3>1. m1 # n /\ ctx'[m1] = ctx[m1] /\ ctx[m1].log.term = T
      BY <1>3, <1>5, <2>3
    <3> QED
      BY <2>1, <2>3, <3>1
  <2>4. CASE m1 # n /\ m2 # n
    <3>1. BackedAlike(m1, m2, s)
      BY <1>5, <2>4 DEF DurabilityInv, LogsMatch
    <3>2. s \in Slots
      <4>1. ctx[m1].log.slot <= MaxSlot /\ ctx'[m1] = ctx[m1]
        BY <1>2, <1>5, <2>4, ContextElim
      <4> QED
        BY <1>2, <4>1, BoundsAssumption DEF Slots
    <3> QED
      BY <1>15, <3>1, <3>2, BackedAlikeStays
  <2> QED
    BY <2>2, <2>3, <2>4
<1>21. AllButOne'
  BY <1>12, AllButOneKept DEF DurabilityInv
<1>22. OneSender'
  BY <1>10, OneSenderAfter DEF DurabilityInv, TermInv
<1>23. QueuesSorted'
  <2>1. \A m \in Node : ctx'[m].term >= ctx[m].term
    BY <1>12 DEF TermsFollow
  <2> QED
    BY <1>8, <1>10, <1>18, <2>1, QueuesAfter DEF DurabilityInv, TermInv
<1>24. BoardsBacked'
  <2> SUFFICES ASSUME NEW m \in Node, role'[m] = "Leader", NEW f \in Peers(m),
                      NEW s \in 1..office'[m].pos[f].match
               PROVE  BackedAlike(m, f, s)'
    BY DEF BoardsBacked
  <2>1. role[m] = "Leader" /\ s \in 1..office[m].pos[f].match
    BY <1>1, <1>6
  <2> QED
    BY <1>15, <2>1, BoardKept DEF DurabilityInv
<1>25. RepliesBacked'
  <2>1. \A m \in Node : role'[m] = "Leader" => role[m] = "Leader" /\ ctx'[m].term = ctx[m].term
    BY <1>11
  <2>2. replies' = replies
    BY <1>1
  <2> QED
    BY <1>12, <1>15, <2>1, <2>2, RepliesKept DEF DurabilityInv
<1>26. ChosenBacked'
  <2>1. \A x \in chosen' : Cardinality({m \in Node : Backed(m, x.slot, x.value)'}) >= QuorumSize
    BY <1>1, <1>15, ChosenStaysBacked DEF DurabilityInv
  <2> QED
    BY <2>1 DEF ChosenBacked
<1>27. CommittedBacked'
  <2> SUFFICES ASSUME NEW m \in Node, NEW s \in 1..ctx'[m].committed
               PROVE  \E v \in Values : [slot |-> s, value |-> v] \in chosen' /\ Backed(m, s, v)'
    BY DEF CommittedBacked
  <2>1. s \in 1..ctx[m].committed /\ chosen \subseteq chosen'
    BY <1>1, <1>3, <1>5
  <2> QED
    BY <1>15, <2>1, CommittedKept DEF DurabilityInv
<1> QED
  BY <1>8, <1>18, <1>19, <1>20, <1>21, <1>22, <1>23, <1>24, <1>25, <1>26, <1>27
     DEF DurabilityInv

-----------------------------------------------------------------------------
(* A follower writes what a Leader sends. *)

LEMMA InPlaceIs ==
  ASSUME NEW c \in Contexts, NEW r \in Requests, WalShape(c), RequestShape(r),
         ~ Missing(c, r), ~ Differs(c, r)
  PROVE  LET p == r.prev.slot
             q == LastWritten(r)
             d == Written(c, r)
         IN /\ p \in Nat /\ q \in Nat /\ p <= q /\ p <= c.log.slot
            /\ DOMAIN r.entries = (p + 1)..q /\ DOMAIN d.wal = 1..q
            /\ p > 0 => p \in DOMAIN c.wal /\ c.wal[p].term = r.prev.term
            /\ p = 0 => r.prev.term = 0
            /\ \A s \in 1..p : s \in DOMAIN c.wal /\ d.wal[s] = c.wal[s]
            /\ \A s \in DOMAIN r.entries : d.wal[s] = r.entries[s]
            /\ p = q => d.log = c.log
            /\ p < q => /\ q \in DOMAIN r.entries /\ d.log.slot = q
                        /\ d.log.term = r.entries[q].term
<1> DEFINE p == r.prev.slot
           q == LastWritten(r)
           d == Written(c, r)
<1>1. /\ DOMAIN d.wal = DOMAIN r.entries \union {s \in DOMAIN c.wal : s <= p}
      /\ \A s \in DOMAIN r.entries : d.wal[s] = r.entries[s]
      /\ \A s \in DOMAIN c.wal : s <= p /\ s \notin DOMAIN r.entries => d.wal[s] = c.wal[s]
      /\ DOMAIN r.entries = {} => d.log = c.log
      /\ DOMAIN r.entries # {} => /\ q \in DOMAIN r.entries /\ d.log.slot = q
                                  /\ d.log.term = r.entries[q].term
  BY WrittenIs
<1>2. DOMAIN r.entries = (p + 1)..q /\ p <= q
  BY DEF RequestShape
<1>3. p \in Nat /\ q \in Nat
  BY RequestElim
<1>4. p > 0 => p \in DOMAIN c.wal /\ c.wal[p].term = r.prev.term
  BY <1>3 DEF Missing, Differs, TermAt
<1>5. p = 0 => r.prev.term = 0
  BY <1>3 DEF Missing, Differs, TermAt
<1>6. PICK k \in 0..c.log.slot : DOMAIN c.wal = 1..k
  BY DEF WalShape
<1>7. k \in Nat /\ c.log.slot \in Nat /\ k <= c.log.slot
  BY <1>6, ContextElim
<1> HIDE DEF p, q, d
<1>8. p <= k
  BY <1>3, <1>4, <1>6, <1>7
<1>9. {s \in DOMAIN c.wal : s <= p} = 1..p
  BY <1>3, <1>6, <1>7, <1>8
<1>10. DOMAIN d.wal = 1..q
  BY <1>1, <1>2, <1>3, <1>9
<1>11. \A s \in 1..p : s \in DOMAIN c.wal /\ s \notin DOMAIN r.entries /\ s <= p
  BY <1>2, <1>3, <1>6, <1>7, <1>8
<1>12. \A s \in 1..p : s \in DOMAIN c.wal /\ d.wal[s] = c.wal[s]
  BY <1>1, <1>11
<1>13. p = q => DOMAIN r.entries = {}
  BY <1>2, <1>3
<1>14. p < q => q \in DOMAIN r.entries
  BY <1>2, <1>3
<1>15. p <= c.log.slot
  BY <1>3, <1>7, <1>8
<1> QED
  BY <1>1, <1>2, <1>3, <1>4, <1>5, <1>10, <1>12, <1>13, <1>14, <1>15 DEF p, q, d

\* Who takes r reaches what r covers.
LEMMA WrittenReaches ==
  ASSUME NEW c \in Contexts, NEW r \in Requests, WalShape(c), RequestShape(r),
         ~ Missing(c, r), ~ Differs(c, r),
         NEW t \in Terms, NEW s \in Slots, Covers(r, t, s)
  PROVE  /\ Written(c, r).log.term >= t /\ Written(c, r).log.slot >= s
         /\ s <= r.prev.slot => c.log.term >= t /\ c.log.slot >= s
<1> DEFINE p == r.prev.slot
           q == LastWritten(r)
           d == Written(c, r)
<1>1. /\ p \in Nat /\ q \in Nat /\ p <= q /\ p <= c.log.slot
      /\ DOMAIN r.entries = (p + 1)..q
      /\ p > 0 => p \in DOMAIN c.wal /\ c.wal[p].term = r.prev.term
      /\ p = q => d.log = c.log
      /\ p < q => /\ q \in DOMAIN r.entries /\ d.log.slot = q
                  /\ d.log.term = r.entries[q].term
  BY InPlaceIs
<1>2. /\ s \in Nat /\ s >= 1 /\ t \in Nat
      /\ c.log.slot \in Nat /\ c.log.term \in Nat /\ r.prev.term \in Nat
  BY ContextElim, RequestElim, BoundsAssumption DEF Terms, Slots
<1>3. \A x \in DOMAIN r.entries : r.entries[x].term \in Nat
  <2>1. r.entries \in Logs
    BY RequestElim
  <2>2. \A x \in DOMAIN r.entries : r.entries[x].term \in Terms
    BY <2>1, LogElim
  <2> QED
    BY <2>2, BoundsAssumption DEF Terms
<1>4. /\ \A x \in DOMAIN r.entries : r.prev.term <= r.entries[x].term
      /\ \A x1, x2 \in DOMAIN r.entries : x1 <= x2 => r.entries[x1].term <= r.entries[x2].term
  BY DEF RequestShape
<1>5. IF s <= p THEN r.prev.term >= t ELSE s \in DOMAIN r.entries /\ r.entries[s].term >= t
  BY DEF Covers
<1>6. p > 0 => c.wal[p].term <= c.log.term
  BY <1>1 DEF WalShape
<1> HIDE DEF p, q, d
<1>7. CASE s <= p
  <2>1. p > 0 /\ r.prev.term >= t
    BY <1>1, <1>2, <1>5, <1>7
  <2>2. c.log.term >= t /\ c.log.slot >= s
    <3>1. c.log.slot >= s
      BY <1>1, <1>2, <1>7
    <3>2. r.prev.term <= c.log.term
      BY <1>1, <1>6, <2>1
    <3>3. c.log.term >= t
      BY <1>2, <2>1, <3>2
    <3> QED
      BY <3>1, <3>3
  <2>3. ASSUME p = q
        PROVE  d.log.term >= t /\ d.log.slot >= s
    <3>1. d.log = c.log
      BY <1>1, <2>3
    <3> QED
      BY <2>2, <3>1
  <2>4. ASSUME p < q
        PROVE  d.log.term >= t /\ d.log.slot >= s
    <3>1. d.log.slot = q /\ d.log.term = r.entries[q].term /\ q \in DOMAIN r.entries
      BY <1>1, <2>4
    <3>2. r.entries[q].term \in Nat /\ r.prev.term <= r.entries[q].term
      BY <1>3, <1>4, <3>1
    <3>3. d.log.term >= t
      BY <1>2, <2>1, <3>1, <3>2
    <3>4. d.log.slot >= s
      BY <1>1, <1>2, <1>7, <2>4, <3>1
    <3> QED
      BY <3>3, <3>4
  <2>5. p = q \/ p < q
    BY <1>1
  <2>6. d.log.term >= t /\ d.log.slot >= s
    BY <2>3, <2>4, <2>5
  <2> QED
    BY <2>2, <2>6 DEF d
<1>8. CASE ~ (s <= p)
  <2>1. s \in DOMAIN r.entries /\ r.entries[s].term >= t
    BY <1>5, <1>8
  <2>2. s <= q /\ p < q
    BY <1>1, <1>2, <2>1
  <2>3. q \in DOMAIN r.entries /\ d.log.slot = q /\ d.log.term = r.entries[q].term
    BY <1>1, <2>2
  <2>4. /\ r.entries[s].term <= r.entries[q].term
        /\ r.entries[s].term \in Nat /\ r.entries[q].term \in Nat
    BY <1>3, <1>4, <2>1, <2>2, <2>3
  <2>5. d.log.term >= t /\ d.log.slot >= s
    BY <1>1, <1>2, <2>1, <2>2, <2>3, <2>4
  <2> QED
    BY <1>8, <2>5 DEF d, p
<1> QED
  BY <1>7, <1>8

LEMMA WrittenShape ==
  ASSUME NEW c \in Contexts, NEW r \in Requests, WalShape(c), PendingShape(c), RequestShape(r),
         ~ Missing(c, r), ~ Differs(c, r), c.committed <= LastWritten(r)
  PROVE  WalShape(Written(c, r)) /\ PendingShape(Written(c, r))
<1> DEFINE p == r.prev.slot
           q == LastWritten(r)
           d == Written(c, r)
           high == CommittedBy(c, r)
<1>1. /\ p \in Nat /\ q \in Nat /\ p <= q /\ p <= c.log.slot
      /\ DOMAIN r.entries = (p + 1)..q /\ DOMAIN d.wal = 1..q
      /\ p > 0 => p \in DOMAIN c.wal /\ c.wal[p].term = r.prev.term
      /\ p = 0 => r.prev.term = 0
      /\ \A s \in 1..p : s \in DOMAIN c.wal /\ d.wal[s] = c.wal[s]
      /\ \A s \in DOMAIN r.entries : d.wal[s] = r.entries[s]
      /\ p = q => d.log = c.log
      /\ p < q => /\ q \in DOMAIN r.entries /\ d.log.slot = q
                  /\ d.log.term = r.entries[q].term
  BY InPlaceIs
<1>2. /\ d.committed = high
      /\ \A s : s \in DOMAIN d.uncommitted
           <=> /\ s \in DOMAIN r.entries \/ s \in DOMAIN c.uncommitted
               /\ high > c.committed => s > high
      /\ \A s \in DOMAIN d.uncommitted : d.uncommitted[s]
           = IF s \in DOMAIN r.entries THEN r.entries[s] ELSE c.uncommitted[s]
  BY WrittenIs
<1>3. c.log.slot \in Nat /\ c.log.term \in Nat /\ c.committed \in Nat /\ r.commit \in Nat
      /\ c.wal \in Logs /\ r.entries \in Logs /\ c.uncommitted \in Logs
  BY ContextElim, RequestElim
<1>4. high \in Nat /\ high >= c.committed /\ high <= q
  BY <1>1, <1>3 DEF CommittedBy
<1>5. \A x \in DOMAIN r.entries : x \in Nat /\ r.entries[x].term \in Nat
  <2>1. \A x \in DOMAIN r.entries : x \in Nat /\ r.entries[x].term \in Terms
    BY <1>3, LogElim
  <2> QED
    BY <2>1, BoundsAssumption DEF Terms
<1>6. \A x \in DOMAIN c.wal : x \in Nat /\ c.wal[x].term \in Nat
  <2>1. \A x \in DOMAIN c.wal : x \in Nat /\ c.wal[x].term \in Terms
    BY <1>3, LogElim
  <2> QED
    BY <2>1, BoundsAssumption DEF Terms
<1>7. \A x \in DOMAIN c.uncommitted : x \in Nat
  BY <1>3, LogElim
<1>8. /\ r.prev.term \in Nat
      /\ \A x \in DOMAIN r.entries : r.prev.term <= r.entries[x].term
      /\ \A x1, x2 \in DOMAIN r.entries : x1 <= x2 => r.entries[x1].term <= r.entries[x2].term
  BY RequestElim DEF RequestShape
<1>9. /\ \A x \in DOMAIN c.wal : c.wal[x].term <= c.log.term
      /\ \A x1, x2 \in DOMAIN c.wal : x1 <= x2 => c.wal[x1].term <= c.wal[x2].term
  BY DEF WalShape
<1>10. /\ \A s \in DOMAIN c.wal \intersect DOMAIN c.uncommitted : c.wal[s] = c.uncommitted[s]
       /\ \A s \in (c.committed + 1)..c.log.slot : s \in DOMAIN c.uncommitted
       /\ \A s1 \in DOMAIN c.uncommitted : \A s2 \in (c.committed + 1)..s1 :
            s2 \in DOMAIN c.uncommitted
       /\ \A s1 \in DOMAIN c.uncommitted : \A s2 \in s1..c.log.slot : s2 \in DOMAIN c.uncommitted
       /\ DOMAIN c.uncommitted # {} => \E s \in DOMAIN c.uncommitted : s >= c.log.slot
  BY DEF PendingShape
<1> HIDE DEF p, q, d, high
<1>11. \A s \in 1..q : \/ s \in 1..p
                       \/ s \in DOMAIN r.entries
  BY <1>1
<1>12. ASSUME NEW s1 \in 1..q, NEW s2 \in 1..q, s1 <= s2
       PROVE  d.wal[s1].term <= d.wal[s2].term
  <2>1. CASE s2 \in 1..p
    <3>1. s1 \in 1..p
      BY <1>1, <1>12, <2>1
    <3> QED
      BY <1>1, <1>9, <1>12, <2>1, <3>1
  <2>2. CASE s1 \in 1..p /\ s2 \in DOMAIN r.entries
    <3>1. p > 0 /\ s1 <= p /\ p \in DOMAIN c.wal /\ s1 \in DOMAIN c.wal
      BY <1>1, <2>2
    <3>2. c.wal[s1].term <= c.wal[p].term
      BY <1>9, <3>1
    <3>3. c.wal[s1].term <= r.prev.term
      BY <1>1, <3>1, <3>2
    <3>4. c.wal[s1].term <= r.entries[s2].term
      BY <1>5, <1>6, <1>8, <2>2, <3>1, <3>3
    <3> QED
      BY <1>1, <2>2, <3>4
  <2>3. CASE s1 \in DOMAIN r.entries /\ s2 \in DOMAIN r.entries
    BY <1>1, <1>8, <1>12, <2>3
  <2>4. ~ (s1 \in DOMAIN r.entries /\ s2 \in 1..p)
    BY <1>1, <1>12
  <2> QED
    BY <1>11, <2>1, <2>2, <2>3, <2>4
<1>13. ASSUME NEW s \in 1..q
       PROVE  d.wal[s].term <= d.log.term
  <2>1. CASE p = q
    <3>1. d.log = c.log /\ d.wal[s] = c.wal[s] /\ s \in DOMAIN c.wal
      BY <1>1, <2>1
    <3> QED
      BY <1>9, <3>1
  <2>2. CASE p < q
    <3>1. q \in 1..q /\ d.log.term = d.wal[q].term
      BY <1>1, <2>2
    <3>2. s <= q
      BY <1>1
    <3>3. d.wal[s].term <= d.wal[q].term
      BY <1>12, <3>1, <3>2
    <3> QED
      BY <3>1, <3>3
  <2> QED
    BY <1>1, <2>1, <2>2
<1>14. q \in 0..d.log.slot
  <2>1. CASE p = q
    <3>1. d.log = c.log
      BY <1>1, <2>1
    <3> QED
      BY <1>1, <1>3, <2>1, <3>1
  <2>2. CASE p < q
    BY <1>1, <2>2
  <2> QED
    BY <1>1, <2>1, <2>2
<1>15. WalShape(d)
  <2>1. DOMAIN d.wal = 1..q /\ d.committed <= q
    BY <1>1, <1>2, <1>4
  <2> QED
    BY <1>12, <1>13, <1>14, <2>1 DEF WalShape
<1>16. ASSUME NEW s \in DOMAIN d.wal \intersect DOMAIN d.uncommitted
       PROVE  d.wal[s] = d.uncommitted[s]
  <2>1. CASE s \in DOMAIN r.entries
    BY <1>1, <1>2, <2>1
  <2>2. CASE s \notin DOMAIN r.entries
    <3>1. s \in 1..p /\ s \in DOMAIN c.uncommitted
      BY <1>1, <1>2, <1>11, <2>2
    <3> QED
      BY <1>1, <1>2, <1>10, <2>2, <3>1
  <2> QED
    BY <2>1, <2>2
\* What is not in r and below the end of it was pending before.
<1>17. ASSUME NEW s \in Nat, s > c.committed, s <= q
       PROVE  s \in DOMAIN r.entries \/ s \in DOMAIN c.uncommitted
  <2>1. CASE s > p
    BY <1>1, <1>17, <2>1
  <2>2. CASE ~ (s > p)
    <3>1. s \in (c.committed + 1)..c.log.slot
      BY <1>1, <1>3, <1>17, <2>2
    <3> QED
      BY <1>10, <3>1
  <2> QED
    BY <2>1, <2>2
<1>18. ASSUME NEW s \in (d.committed + 1)..d.log.slot
       PROVE  s \in DOMAIN d.uncommitted
  <2>1. s \in Nat /\ s > high /\ s > c.committed
    <3>1. d.committed = high /\ high \in Nat /\ s \in Int
      BY <1>2, <1>4
    <3> QED
      BY <1>3, <1>4, <1>18, <3>1
  <2>2. s \in DOMAIN r.entries \/ s \in DOMAIN c.uncommitted
    <3>1. CASE p = q
      <4>1. s \in (c.committed + 1)..c.log.slot
        <5>1. s <= c.log.slot
          BY <1>1, <1>2, <1>3, <1>4, <1>18, <3>1
        <5> QED
          BY <1>3, <2>1, <5>1
      <4> QED
        BY <1>10, <4>1
    <3>2. CASE p < q
      <4>1. s <= q
        BY <1>1, <1>2, <1>4, <1>18, <3>2
      <4> QED
        BY <1>17, <2>1, <4>1
    <3> QED
      BY <1>1, <3>1, <3>2
  <2> QED
    BY <1>2, <2>1, <2>2
<1>19. ASSUME NEW s1 \in DOMAIN d.uncommitted, NEW s2 \in (d.committed + 1)..s1
       PROVE  s2 \in DOMAIN d.uncommitted
  <2>1. s1 \in Nat
    BY <1>2, <1>5, <1>7
  <2>2. s2 \in Nat /\ s2 > high /\ s2 > c.committed /\ s2 <= s1
    <3>1. d.committed = high /\ high \in Nat /\ s2 \in Int
      BY <1>2, <1>4
    <3> QED
      BY <1>3, <1>4, <1>19, <2>1, <3>1
  <2>3. s2 \in DOMAIN r.entries \/ s2 \in DOMAIN c.uncommitted
    <3>1. CASE s1 \in DOMAIN r.entries
      <4>1. s2 <= q
        BY <1>1, <2>1, <2>2, <3>1
      <4> QED
        BY <1>17, <2>2, <4>1
    <3>2. CASE s1 \in DOMAIN c.uncommitted
      <4>1. s2 \in (c.committed + 1)..s1
        BY <1>3, <2>1, <2>2
      <4> QED
        BY <1>10, <3>2, <4>1
    <3> QED
      BY <1>2, <3>1, <3>2
  <2> QED
    BY <1>2, <2>2, <2>3
<1>20. ASSUME NEW s1 \in DOMAIN d.uncommitted, NEW s2 \in s1..d.log.slot
       PROVE  s2 \in DOMAIN d.uncommitted
  <2>1. s1 \in Nat /\ s2 \in Int
    BY <1>2, <1>5, <1>7
  <2>2. high > c.committed => s2 > high
    <3>1. high > c.committed => s1 > high
      BY <1>2
    <3>2. s2 >= s1
      BY <2>1
    <3> QED
      BY <1>4, <2>1, <3>1, <3>2
  <2>3. CASE p = q
    <3>1. d.log = c.log /\ s1 \in DOMAIN c.uncommitted
      BY <1>1, <1>2, <2>3
    <3>2. s2 \in DOMAIN c.uncommitted
      BY <1>10, <3>1
    <3> QED
      BY <1>2, <2>2, <3>2
  <2>4. CASE p < q
    <3>1. d.log.slot = q /\ s2 <= q /\ s2 \in Nat /\ s2 >= s1
      BY <1>1, <2>1, <2>4
    <3>2. CASE s2 > p
      <4>1. s2 \in DOMAIN r.entries
        BY <1>1, <3>1, <3>2
      <4> QED
        BY <1>2, <2>2, <4>1
    <3>3. CASE ~ (s2 > p)
      <4>1. s1 \notin DOMAIN r.entries
        BY <1>1, <2>1, <3>1, <3>3
      <4>2. s1 \in DOMAIN c.uncommitted
        BY <1>2, <4>1
      <4>3. s2 \in s1..c.log.slot
        BY <1>1, <1>3, <2>1, <3>1, <3>3
      <4>4. s2 \in DOMAIN c.uncommitted
        BY <1>10, <4>2, <4>3
      <4> QED
        BY <1>2, <2>2, <4>4
    <3> QED
      BY <3>2, <3>3
  <2> QED
    BY <1>1, <2>3, <2>4
<1>21. ASSUME NEW x \in DOMAIN d.uncommitted
       PROVE  \E s \in DOMAIN d.uncommitted : s >= d.log.slot
  <2>1. x \in Nat
    BY <1>2, <1>5, <1>7
  <2>2. CASE p = q
    <3>1. d.log = c.log /\ x \in DOMAIN c.uncommitted
      BY <1>1, <1>2, <2>2
    <3>2. PICK s \in DOMAIN c.uncommitted : s >= c.log.slot
      BY <1>10, <3>1
    <3>3. s \in Nat
      BY <1>7
    <3>4. CASE s \in DOMAIN d.uncommitted
      BY <3>1, <3>2, <3>4
    <3>5. CASE s \notin DOMAIN d.uncommitted
      <4>1. high > c.committed /\ ~ (s > high)
        BY <1>2, <3>5
      <4>2. x > high
        BY <1>2, <4>1
      <4>3. x >= c.log.slot
        BY <1>3, <1>4, <2>1, <3>2, <3>3, <4>1, <4>2
      <4> QED
        BY <3>1, <4>3
    <3> QED
      BY <3>4, <3>5
  <2>3. CASE p < q
    <3>1. q \in DOMAIN r.entries /\ d.log.slot = q
      BY <1>1, <2>3
    <3>2. CASE q \in DOMAIN d.uncommitted
      BY <1>1, <3>1, <3>2
    <3>3. CASE q \notin DOMAIN d.uncommitted
      <4>1. high > c.committed /\ ~ (q > high)
        BY <1>2, <3>1, <3>3
      <4>2. x > high
        BY <1>2, <4>1
      <4>3. x >= q
        BY <1>1, <1>4, <2>1, <4>1, <4>2
      <4> QED
        BY <3>1, <4>3
    <3> QED
      BY <3>2, <3>3
  <2> QED
    BY <1>1, <2>2, <2>3
<1>22. PendingShape(d)
  BY <1>16, <1>18, <1>19, <1>20, <1>21 DEF PendingShape
<1> QED
  BY <1>15, <1>22 DEF d

\* f has put d in the place of its context after a request r that n sent it.
Overwrites(n, f, r, d) ==
  /\ f # n /\ role[f] = "Follower"
  /\ r \in InFlight(n, f) /\ r.term >= ctx[f].term
  /\ LET c == Adopted(ctx[f], r.term)
     IN ~ Missing(c, r) /\ ~ Differs(c, r) /\ d = Written(c, r)
  /\ \A m \in Node : /\ ctx'[m] = IF m = f THEN d ELSE ctx[m]
                     /\ role'[m] = role[m] /\ office'[m] = office[m]
  /\ \A m, g \in Node : InFlight(m, g)' \subseteq InFlight(m, g)
  /\ chosen' = chosen

\* What f has then: its old entries up to the anchor, and those of the request.
LEMMA OverwrittenIs ==
  ASSUME TypeInv, TermInv, DurabilityInv, NEW n \in Node, NEW f \in Node, NEW r, NEW d,
         Overwrites(n, f, r, d)
  PROVE  LET p == r.prev.slot
             q == LastWritten(r)
         IN /\ r \in Requests /\ d \in Contexts /\ d.term = r.term
            /\ RequestedOf(n, f, r) /\ RequestShape(r)
            /\ p \in Nat /\ q \in Nat /\ p <= q /\ q <= MaxSlot
            /\ DOMAIN r.entries = (p + 1)..q /\ DOMAIN d.wal = 1..q
            /\ \A s \in 1..p : s \in DOMAIN ctx[f].wal /\ d.wal[s] = ctx[f].wal[s]
            /\ \A s \in DOMAIN r.entries : d.wal[s] = r.entries[s]
            /\ p = q => d.log = ctx[f].log
            /\ p < q => /\ q \in DOMAIN r.entries /\ d.log.slot = q
                        /\ d.log.term = r.entries[q].term
<1> DEFINE c == Adopted(ctx[f], r.term)
<1>1. /\ r \in InFlight(n, f) /\ ~ Missing(c, r) /\ ~ Differs(c, r) /\ d = Written(c, r)
      /\ r.term >= ctx[f].term
  BY DEF Overwrites
<1>2. r \in Requests
  BY <1>1, FlightElim DEF TypeInv, TypeOK, CallsOK
<1>3. RequestedOf(n, f, r) /\ RequestShape(r)
  BY <1>1 DEF DurabilityInv, Requested, RequestedOf
<1>4. /\ ctx[f] \in Contexts /\ ctx[f].term \in Nat /\ r.term \in Terms /\ r.term \in Nat
      /\ LastWritten(r) \in 0..MaxSlot
  BY <1>2, TermsAreNumbers, RequestElim
<1>5. /\ c \in Contexts /\ c.log = ctx[f].log /\ c.wal = ctx[f].wal
      /\ c.term = IF ctx[f].term >= r.term THEN ctx[f].term ELSE r.term
  BY <1>4, AdoptedIs
<1>6. c.term = r.term
  BY <1>1, <1>4, <1>5
<1>7. WalShape(ctx[f])
  BY DEF DurabilityInv, LogsWellFormed
<1>8. WalShape(c)
  BY <1>5, <1>7, AdoptedIs, <1>4 DEF WalShape
<1> HIDE DEF c
<1>9. d \in Contexts /\ d.term = r.term
  BY <1>1, <1>2, <1>5, <1>6, WrittenIs
<1>10. LET p == r.prev.slot
           q == LastWritten(r)
       IN /\ p \in Nat /\ q \in Nat /\ p <= q
          /\ DOMAIN r.entries = (p + 1)..q /\ DOMAIN d.wal = 1..q
          /\ \A s \in 1..p : s \in DOMAIN c.wal /\ d.wal[s] = c.wal[s]
          /\ \A s \in DOMAIN r.entries : d.wal[s] = r.entries[s]
          /\ p = q => d.log = c.log
          /\ p < q => /\ q \in DOMAIN r.entries /\ d.log.slot = q
                      /\ d.log.term = r.entries[q].term
  BY <1>1, <1>2, <1>3, <1>5, <1>8, InPlaceIs
<1>11. LastWritten(r) <= MaxSlot
  BY <1>4, BoundsAssumption
<1> QED
  BY <1>2, <1>3, <1>5, <1>9, <1>10, <1>11

\* What f reaches, and is agreed, r covers: f does not fall behind.
LEMMA ReachedIsCovered ==
  ASSUME TypeInv, TermInv, DurabilityInv, NEW n \in Node, NEW f \in Node, NEW r, NEW d,
         Overwrites(n, f, r, d), NEW t \in Terms, NEW s \in Slots, NEW v,
         Agreed(t, s, v), Reach(f, t, s)
  PROVE  Covers(r, t, s)
<1>1. /\ r \in InFlight(n, f) /\ r.term >= ctx[f].term
  BY DEF Overwrites
<1>2. r \in Requests /\ RequestedOf(n, f, r)
  BY OverwrittenIs
<1>3. ctx[f].log.term >= t /\ ctx[f].log.slot >= s /\ ctx[f].log.term <= ctx[f].term
  BY DEF Reach, TermInv, TermsOpened
<1>4. /\ ctx[f].term \in Nat /\ ctx[f].log.term \in Nat /\ ctx[f].log.slot \in Nat
      /\ r.term \in Nat /\ LastWritten(r) \in Nat /\ t \in Nat /\ s \in Nat
  BY <1>2, TermsAreNumbers, ContextElim, RequestElim, BoundsAssumption DEF Terms, Slots
<1>5. CASE r.term > t
  BY <1>1, <1>5 DEF Agreed
<1>6. CASE r.term = t
  <2>1. r.term = ctx[f].term /\ r.term = ctx[f].log.term
    BY <1>1, <1>3, <1>4, <1>6
  <2>2. LastWritten(r) >= ctx[f].log.slot
    BY <1>2, <2>1 DEF RequestedOf
  <2>3. LastWritten(r) >= s
    BY <1>3, <1>4, <2>2
  <2> QED
    BY <1>1, <1>6, <2>3 DEF Agreed
<1> QED
  BY <1>1, <1>3, <1>4, <1>5, <1>6

\* What is agreed and r covers, f has afterwards.
LEMMA CoveredIsWritten ==
  ASSUME TypeInv, TermInv, DurabilityInv, NEW n \in Node, NEW f \in Node, NEW r, NEW d,
         Overwrites(n, f, r, d), NEW t \in Terms, NEW s \in Slots, NEW v,
         Agreed(t, s, v), Covers(r, t, s)
  PROVE  /\ s \in DOMAIN d.wal /\ d.wal[s].term >= t
         /\ d.log.term >= t /\ d.log.slot >= s
<1> DEFINE p == r.prev.slot
           q == LastWritten(r)
           c == Adopted(ctx[f], r.term)
<1>1. /\ r \in Requests /\ RequestShape(r)
      /\ p \in Nat /\ q \in Nat /\ p <= q
      /\ DOMAIN r.entries = (p + 1)..q /\ DOMAIN d.wal = 1..q
      /\ \A x \in 1..p : x \in DOMAIN ctx[f].wal /\ d.wal[x] = ctx[f].wal[x]
      /\ \A x \in DOMAIN r.entries : d.wal[x] = r.entries[x]
  BY OverwrittenIs
<1>2. s \in Nat /\ s >= 1 /\ r.term \in Terms /\ ctx[f] \in Contexts
  BY <1>1, RequestElim, TermsAreNumbers, BoundsAssumption DEF Slots
<1>3. c \in Contexts /\ c.log = ctx[f].log /\ c.wal = ctx[f].wal
  BY <1>2, AdoptedIs
<1>4. ~ Missing(c, r) /\ ~ Differs(c, r) /\ d = Written(c, r)
  BY DEF Overwrites
<1>5. WalShape(c)
  <2>1. WalShape(ctx[f])
    BY DEF DurabilityInv, LogsWellFormed
  <2> QED
    BY <1>2, <1>3, <2>1, AdoptedIs DEF WalShape
<1> HIDE DEF c
<1>6. /\ d.log.term >= t /\ d.log.slot >= s
      /\ s <= r.prev.slot => c.log.term >= t /\ c.log.slot >= s
  BY <1>1, <1>3, <1>4, <1>5, WrittenReaches
<1>7. CASE s <= p
  <2>1. Reach(f, t, s)
    BY <1>3, <1>6, <1>7 DEF Reach
  <2>2. ctx[f].wal[s].term >= t
    BY <2>1 DEF Agreed
  <2>3. s \in 1..p /\ s \in 1..q
    BY <1>1, <1>2, <1>7
  <2> QED
    BY <1>1, <1>6, <2>2, <2>3
<1>8. CASE ~ (s <= p)
  <2>1. s \in DOMAIN r.entries /\ r.entries[s].term >= t
    BY <1>8 DEF Covers
  <2>2. s \in 1..q
    BY <1>1, <1>2, <2>1
  <2> QED
    BY <1>1, <1>6, <2>1, <2>2
<1> QED
  BY <1>7, <1>8

LEMMA OverwriteShape ==
  ASSUME TypeInv, TermInv, DurabilityInv, NEW n \in Node, NEW f \in Node, NEW r, NEW d,
         Overwrites(n, f, r, d)
  PROVE  LogsWellFormed'
<1> DEFINE c == Adopted(ctx[f], r.term)
           q == LastWritten(r)
<1>1. /\ r \in Requests /\ RequestShape(r) /\ q \in Nat /\ r.prev.slot <= q
      /\ r.prev.slot \in Nat /\ DOMAIN r.entries = (r.prev.slot + 1)..q
  BY OverwrittenIs
<1>2. /\ r.term \in Terms /\ ctx[f] \in Contexts /\ ctx[f].committed \in Nat
      /\ ctx[f].committed <= MaxSlot
  BY <1>1, RequestElim, TermsAreNumbers, ContextElim, BoundsAssumption
<1>3. /\ c \in Contexts /\ c.log = ctx[f].log /\ c.wal = ctx[f].wal
      /\ c.committed = ctx[f].committed /\ c.uncommitted = ctx[f].uncommitted
  BY <1>2, AdoptedIs
<1>4. /\ ~ Missing(c, r) /\ ~ Differs(c, r) /\ d = Written(c, r)
      /\ \A m \in Node : ctx'[m] = IF m = f THEN d ELSE ctx[m]
  BY DEF Overwrites
<1>5. \A m \in Node : WalShape(ctx[m]) /\ PendingShape(ctx[m])
  BY DEF DurabilityInv, LogsWellFormed
<1>6. WalShape(c) /\ PendingShape(c)
  <2>1. WalShape(ctx[f]) /\ PendingShape(ctx[f])
    BY <1>5
  <2> HIDE DEF c
  <2>2. WalShape(c)
    BY <1>3, <2>1 DEF WalShape
  <2>3. PendingShape(c)
    BY <1>3, <2>1 DEF PendingShape
  <2> QED
    BY <2>2, <2>3
<1> HIDE DEF c
<1>7. c.committed <= q
  <2>1. CASE ctx[f].committed = 0
    BY <1>1, <1>3, <2>1
  <2>2. CASE ctx[f].committed # 0
    <3> DEFINE s == ctx[f].committed
    <3>1. s \in 1..ctx[f].committed /\ s \in Slots /\ s \in Nat
      BY <1>2, <2>2, BoundsAssumption DEF Slots
    <3>2. PICK v \in Values : Backed(f, s, v)
      BY <3>1 DEF DurabilityInv, CommittedBacked
    <3>3. PICK t \in Terms : Agreed(t, s, v) /\ Reach(f, t, s)
      BY <3>2 DEF Backed, Grounded
    <3>4. Covers(r, t, s)
      BY <3>1, <3>3, ReachedIsCovered
    <3>5. s <= q
      BY <1>1, <3>1, <3>4 DEF Covers
    <3> QED
      BY <1>3, <3>5
  <2> QED
    BY <2>1, <2>2
<1>8. WalShape(d) /\ PendingShape(d)
  BY <1>1, <1>3, <1>4, <1>6, <1>7, WrittenShape
<1> QED
  BY <1>4, <1>5, <1>8 DEF LogsWellFormed

LEMMA OverwriteAgreed ==
  ASSUME TypeInv, TypeInv', TermInv, TermInv', DurabilityInv,
         NEW n \in Node, NEW f \in Node, NEW r, NEW d, Overwrites(n, f, r, d),
         \A s, e : Appears(s, e)' => Appears(s, e),
         NEW t \in Terms, NEW s \in Slots, NEW v \in Values, Agreed(t, s, v)
  PROVE  Agreed(t, s, v)' /\ \A m \in Node : Reach(m, t, s) => Reach(m, t, s)'
<1> DEFINE p == r.prev.slot
           q == LastWritten(r)
<1>1. /\ \A m \in Node : /\ ctx'[m] = IF m = f THEN d ELSE ctx[m]
                         /\ role'[m] = role[m]
      /\ \A m, g \in Node : InFlight(m, g)' \subseteq InFlight(m, g)
      /\ r \in InFlight(n, f) /\ role[f] = "Follower"
  BY DEF Overwrites
<1>2. /\ r \in Requests /\ d.term = r.term /\ d \in Contexts
      /\ p \in Nat /\ q \in Nat /\ p <= q
      /\ p = q => d.log = ctx[f].log
      /\ p < q => q \in DOMAIN r.entries /\ d.log.slot = q /\ d.log.term = r.entries[q].term
  BY OverwrittenIs
<1>3. /\ t \in Nat /\ s \in Nat /\ r.term \in Nat /\ d.log.term \in Nat /\ d.log.slot \in Nat
      /\ d.log.term <= d.term
  <2>1. d.log.term <= d.term
    BY <1>1 DEF TermInv, TermsOpened
  <2> QED
    BY <1>2, <2>1, RequestElim, ContextElim, BoundsAssumption DEF Terms, Slots
<1>4. Covers(r, t, s) => /\ s \in DOMAIN d.wal /\ d.wal[s].term >= t
                         /\ d.log.term >= t /\ d.log.slot >= s
  BY CoveredIsWritten
<1>5. Reach(f, t, s) => Covers(r, t, s)
  BY ReachedIsCovered
<1>6. d.log.term >= t /\ d.log.slot >= s => Covers(r, t, s)
  <2>1. CASE p = q
    BY <1>2, <1>5, <2>1 DEF Reach
  <2>2. ASSUME p < q, d.log.term >= t, d.log.slot >= s
        PROVE  Covers(r, t, s)
    <3>1. r.term > t \/ (r.term = t /\ q >= s)
      BY <1>2, <1>3, <2>2
    <3> QED
      BY <1>1, <3>1 DEF Agreed
  <2> QED
    BY <1>2, <2>1, <2>2
<1>7. \A m \in Node : ctx'[m].log.term >= t /\ ctx'[m].log.slot >= s
        => s \in DOMAIN ctx'[m].wal /\ ctx'[m].wal[s].term >= t
  <2> SUFFICES ASSUME NEW m \in Node, ctx'[m].log.term >= t, ctx'[m].log.slot >= s
               PROVE  s \in DOMAIN ctx'[m].wal /\ ctx'[m].wal[s].term >= t
    OBVIOUS
  <2>1. CASE m = f
    BY <1>1, <1>4, <1>6, <2>1
  <2>2. CASE m # f
    BY <1>1, <2>2 DEF Agreed, Reach
  <2> QED
    BY <2>1, <2>2
<1>8. \A m \in Node : Reach(m, t, s) => ctx'[m].log.term >= t /\ ctx'[m].log.slot >= s
  BY <1>1, <1>4, <1>5 DEF Reach
<1>9. \A m \in Node : role'[m] = "Leader" /\ ctx'[m].term >= t
        => ctx'[m].log.term >= t /\ ctx'[m].log.slot >= s
  <2> SUFFICES ASSUME NEW m \in Node, role'[m] = "Leader", ctx'[m].term >= t
               PROVE  Reach(m, t, s)
    BY <1>8
  <2>1. m # f /\ role[m] = "Leader" /\ ctx[m].term >= t
    BY <1>1
  <2> QED
    BY <2>1 DEF Agreed
<1>10. LogsWellFormed'
  BY OverwriteShape
<1>11. Sending
  BY <1>1 DEF Sending
<1>12. \A e \in Entries : Appears(s, e)' /\ e.term >= t => Appears(s, e) \/ e.value = v
  OBVIOUS
<1>13. Agreed(t, s, v)'
  BY <1>7, <1>9, <1>10, <1>11, <1>12, AgreedAfter DEF TermInv
<1> QED
  BY <1>8, <1>13 DEF Reach

\* Everything up to the end of the request is backed by f afterwards.
LEMMA OverwriteBacked ==
  ASSUME TypeInv, TypeInv', TermInv, TermInv', DurabilityInv,
         NEW n \in Node, NEW f \in Node, NEW r, NEW d, Overwrites(n, f, r, d),
         \A s, e : Appears(s, e)' => Appears(s, e),
         NEW s \in 1..LastWritten(r)
  PROVE  \E v \in Values, t \in Terms :
           /\ Grounded(t, s, v)' /\ Reach(f, t, s)' /\ t <= r.term /\ t <= d.log.term
           /\ Agreed(t, s, v)
           /\ \A m \in Node : Reach(m, t, s) => Reach(m, t, s)'
<1>1. /\ r \in Requests /\ RequestedOf(n, f, r) /\ RequestShape(r) /\ r.term >= ctx[f].term
      /\ LastWritten(r) \in Nat /\ LastWritten(r) <= MaxSlot /\ d \in Contexts
      /\ r \in InFlight(n, f) /\ \A m \in Node : ctx'[m] = IF m = f THEN d ELSE ctx[m]
  BY OverwrittenIs DEF Overwrites
<1>2. s \in Slots /\ s \in Nat
  BY <1>1, BoundsAssumption DEF Slots
<1>3. PICK v \in Values, t \in Terms :
        Agreed(t, s, v) /\ Covers(r, t, s) /\ \E k \in Node \ {f} : Reach(k, t, s)
  BY <1>1 DEF RequestedOf
<1>4. PICK k \in Node : k # f /\ Reach(k, t, s)
  BY <1>3
<1>5. Agreed(t, s, v)' /\ \A m \in Node : Reach(m, t, s) => Reach(m, t, s)'
  BY <1>2, <1>3, OverwriteAgreed
<1>6. d.log.term >= t /\ d.log.slot >= s
  BY <1>2, <1>3, CoveredIsWritten
<1>7. Reach(f, t, s)'
  BY <1>1, <1>6 DEF Reach
<1>8. Grounded(t, s, v)'
  BY <1>4, <1>5, <1>7 DEF Grounded
<1>9. t <= r.term
  <2>1. t \in Nat /\ r.term \in Nat /\ r.prev.term \in Nat
    BY <1>1, RequestElim, BoundsAssumption DEF Terms
  <2>2. CASE s <= r.prev.slot
    BY <1>3, <2>1, <2>2, <1>1 DEF Covers, RequestShape
  <2>3. CASE ~ (s <= r.prev.slot)
    <3>1. s \in DOMAIN r.entries /\ r.entries[s].term >= t /\ r.entries \in Logs
      BY <1>1, <1>3, <2>3, RequestElim DEF Covers
    <3>2. r.entries[s].term \in Terms
      BY <3>1, LogElim
    <3>3. r.entries[s].term <= r.term
      BY <1>1, <3>1 DEF TermInv, TermsOpened
    <3>4. r.entries[s].term \in Nat
      BY <3>2, BoundsAssumption DEF Terms
    <3> QED
      BY <2>1, <3>1, <3>3, <3>4
  <2> QED
    BY <2>2, <2>3
<1>10. t <= d.log.term
  <2>1. t \in Nat /\ d.log.term \in Nat
    BY <1>1, ContextElim, BoundsAssumption DEF Terms
  <2> QED
    BY <1>6, <2>1
<1> QED
  BY <1>3, <1>5, <1>7, <1>8, <1>9, <1>10

LEMMA OverwriteCommitted ==
  ASSUME TypeInv, TypeInv', TermInv, TermInv', DurabilityInv, Stays,
         NEW n \in Node, NEW f \in Node, NEW r, NEW d, Overwrites(n, f, r, d)
  PROVE  /\ CommittedBacked'
         /\ \A m \in Node : ctx'[m].committed >= ctx[m].committed
<1> DEFINE c == Adopted(ctx[f], r.term)
           q == LastWritten(r)
<1>1. /\ \A m \in Node : ctx'[m] = IF m = f THEN d ELSE ctx[m]
      /\ d = Written(c, r) /\ chosen' = chosen /\ r \in InFlight(n, f)
  BY DEF Overwrites
<1>2. r \in Requests /\ RequestedOf(n, f, r) /\ d \in Contexts
  BY OverwrittenIs
<1>3. /\ r.term \in Terms /\ r.term \in Nat /\ q \in Nat /\ r.commit \in Nat /\ q <= MaxSlot
      /\ \A m \in Node : ctx[m].committed \in Nat /\ ctx[m].committed <= MaxSlot
  BY <1>2, RequestElim, TermsAreNumbers, ContextElim, BoundsAssumption
<1>4. c \in Contexts /\ c.committed = ctx[f].committed
  BY <1>3, TermsAreNumbers, AdoptedIs
<1>5. d.committed = CommittedBy(c, r)
  BY <1>1, <1>2, <1>4, WrittenIs
<1> HIDE DEF c
<1>6. /\ d.committed \in Nat /\ d.committed >= ctx[f].committed
      /\ d.committed > ctx[f].committed => d.committed <= r.commit /\ d.committed <= q
  BY <1>3, <1>4, <1>5 DEF CommittedBy
<1>7. \A m \in Node : ctx'[m].committed >= ctx[m].committed
  BY <1>1, <1>3, <1>6
<1>8. ASSUME NEW m \in Node, NEW s \in 1..ctx'[m].committed
      PROVE  \E v \in Values : [slot |-> s, value |-> v] \in chosen' /\ Backed(m, s, v)'
  <2>1. CASE s \in 1..ctx[m].committed
    <3>1. chosen \subseteq chosen'
      BY <1>1
    <3> QED
      BY <2>1, <3>1, CommittedKept DEF DurabilityInv
  <2>2. CASE s \notin 1..ctx[m].committed
    <3>1. m = f /\ s \in 1..d.committed
      BY <1>1, <2>2
    <3>2. s \in Nat /\ s > ctx[f].committed /\ d.committed > ctx[f].committed
      BY <1>3, <1>6, <2>2, <3>1
    <3>3. s \in 1..r.commit /\ s \in Slots /\ s <= q
      BY <1>3, <1>6, <3>1, <3>2, BoundsAssumption DEF Slots
    <3>4. PICK v \in Values, t \in 0..r.term :
            [slot |-> s, value |-> v] \in chosen /\ Grounded(t, s, v)
      BY <1>2, <3>3 DEF RequestedOf
    <3>5. t \in Terms /\ t \in Nat /\ t <= r.term
      BY <1>3, BoundsAssumption DEF Terms
    <3>6. r.term > t \/ (r.term = t /\ q >= s)
      BY <1>3, <3>2, <3>3, <3>5
    <3>7. Agreed(t, s, v)
      BY <3>4 DEF Grounded
    <3>8. Covers(r, t, s)
      BY <1>1, <3>6, <3>7 DEF Agreed
    <3>9. d.log.term >= t /\ d.log.slot >= s
      BY <3>3, <3>5, <3>7, <3>8, CoveredIsWritten
    <3>10. Reach(f, t, s)'
      BY <1>1, <3>9 DEF Reach
    <3>11. Grounded(t, s, v)'
      BY <3>3, <3>4, <3>5 DEF Stays
    <3>12. Backed(f, s, v)'
      BY <3>5, <3>10, <3>11 DEF Backed
    <3> QED
      BY <1>1, <3>1, <3>4, <3>12
  <2> QED
    BY <2>1, <2>2
<1> QED
  BY <1>7, <1>8 DEF CommittedBacked

LEMMA OverwriteLeaderLog ==
  ASSUME TypeInv, TypeInv', TermInv, TermInv', DurabilityInv,
         NEW n \in Node, NEW f \in Node, NEW r, NEW d, Overwrites(n, f, r, d),
         \A s, e : Appears(s, e)' => Appears(s, e)
  PROVE  LeaderLog'
<1> DEFINE p == r.prev.slot
           q == LastWritten(r)
<1>1. /\ \A m \in Node : /\ ctx'[m] = IF m = f THEN d ELSE ctx[m]
                         /\ role'[m] = role[m]
      /\ \A m, g \in Node : InFlight(m, g)' \subseteq InFlight(m, g)
      /\ r \in InFlight(n, f) /\ role[f] = "Follower" /\ r.term >= ctx[f].term
  BY DEF Overwrites
<1>2. /\ r \in Requests /\ d.term = r.term /\ p \in Nat /\ q \in Nat /\ p <= q
      /\ p = q => d.log = ctx[f].log
      /\ p < q => q \in DOMAIN r.entries /\ d.log.slot = q /\ d.log.term = r.entries[q].term
  BY OverwrittenIs
<1>3. \A m \in Node : ctx'[m].term >= ctx[m].term
  <2>1. \A m \in Node : ctx[m].term \in Nat
    BY TermsAreNumbers
  <2> QED
    BY <1>1, <1>2, <2>1
<1> SUFFICES ASSUME NEW k \in Node, role'[k] = "Leader"
             PROVE  /\ DOMAIN ctx'[k].wal = 1..ctx'[k].log.slot
                    /\ \A s \in DOMAIN ctx'[k].wal :
                         ctx'[k].wal[s].term < ctx'[k].term => s <= ctx'[k].committed
                    /\ \A m \in Node : ctx'[m].log.term = ctx'[k].term
                         => ctx'[m].log.slot <= ctx'[k].log.slot /\ ctx'[k].log.term = ctx'[k].term
                    /\ \A g \in Node : \A x \in InFlight(k, g)' :
                         x.term = ctx'[k].term => LastWritten(x) <= ctx'[k].log.slot
                    /\ Newest(k)' => \A t \in Terms, v \in Values : \A s \in DOMAIN ctx'[k].wal :
                         t = ctx'[k].term /\ t = ctx'[k].wal[s].term /\ v = ctx'[k].wal[s].value
                           => Agreed(t, s, v)'
  BY DEF LeaderLog
<1>4. k # f /\ ctx'[k] = ctx[k] /\ role[k] = "Leader"
  BY <1>1
<1>5. /\ DOMAIN ctx[k].wal = 1..ctx[k].log.slot
      /\ \A s \in DOMAIN ctx[k].wal : ctx[k].wal[s].term < ctx[k].term => s <= ctx[k].committed
      /\ \A m \in Node : ctx[m].log.term = ctx[k].term
           => ctx[m].log.slot <= ctx[k].log.slot /\ ctx[k].log.term = ctx[k].term
      /\ \A g \in Node : \A x \in InFlight(k, g) :
           x.term = ctx[k].term => LastWritten(x) <= ctx[k].log.slot
      /\ Newest(k) => \A t \in Terms, v \in Values : \A s \in DOMAIN ctx[k].wal :
           t = ctx[k].term /\ t = ctx[k].wal[s].term /\ v = ctx[k].wal[s].value => Agreed(t, s, v)
  BY <1>4 DEF DurabilityInv, LeaderLog
<1>6. \A m \in Node : ctx'[m].log.term = ctx[k].term
        => ctx'[m].log.slot <= ctx[k].log.slot /\ ctx[k].log.term = ctx[k].term
  <2> SUFFICES ASSUME NEW m \in Node, ctx'[m].log.term = ctx[k].term
               PROVE  ctx'[m].log.slot <= ctx[k].log.slot /\ ctx[k].log.term = ctx[k].term
    OBVIOUS
  <2>1. CASE m # f \/ p = q
    <3>1. ctx'[m].log = ctx[m].log
      BY <1>1, <1>2, <2>1
    <3> QED
      BY <1>5, <3>1
  <2>2. CASE m = f /\ p < q
    <3>1. q \in DOMAIN r.entries /\ ctx'[m].log.slot = q /\ r.entries[q].term = ctx[k].term
      BY <1>1, <1>2, <2>2
    <3>2. Appears(q, r.entries[q])
      BY <1>1, <3>1, AppearsIntro
    <3>3. q \in Slots /\ r.entries[q] \in Entries
      BY <3>2, AppearsTyped
    <3> QED
      BY <1>4, <3>1, <3>2, <3>3 DEF TermInv, LeaderAhead
  <2> QED
    BY <1>2, <2>1, <2>2
<1>7. Newest(k)' => Newest(k)
  BY <1>3, <1>4, NewestBefore
<1>8. ASSUME Newest(k)', NEW t \in Terms, NEW v \in Values, NEW s \in DOMAIN ctx[k].wal,
             t = ctx[k].term, t = ctx[k].wal[s].term, v = ctx[k].wal[s].value
      PROVE  Agreed(t, s, v)'
  <2>1. Agreed(t, s, v)
    BY <1>5, <1>7, <1>8
  <2>2. s \in Slots
    BY AppearsIntro, AppearsTyped
  <2> QED
    BY <2>1, <2>2, OverwriteAgreed
<1> QED
  BY <1>1, <1>4, <1>5, <1>6, <1>8

LEMMA OverwriteRequested ==
  ASSUME TypeInv, TypeInv', TermInv, TermInv', DurabilityInv,
         NEW n \in Node, NEW f \in Node, NEW r, NEW d, Overwrites(n, f, r, d),
         \A s, e : Appears(s, e)' => Appears(s, e), Stays,
         \A x \in InFlight(n, f)' : x.term = r.term => LastWritten(x) >= LastWritten(r)
  PROVE  Requested'
<1> DEFINE p == r.prev.slot
           q == LastWritten(r)
<1>1. /\ \A m \in Node : /\ ctx'[m] = IF m = f THEN d ELSE ctx[m]
                         /\ role'[m] = role[m]
      /\ \A m, g \in Node : InFlight(m, g)' \subseteq InFlight(m, g)
      /\ r \in InFlight(n, f) /\ r.term >= ctx[f].term /\ chosen' = chosen
  BY DEF Overwrites
<1>2. /\ r \in Requests /\ d.term = r.term /\ p \in Nat /\ q \in Nat /\ p <= q
      /\ p = q => d.log = ctx[f].log
      /\ p < q => d.log.slot = q
  BY OverwrittenIs
<1>3. \A m \in Node : ctx[m].term \in Nat /\ ctx[m].log.term \in Nat
  BY TermsAreNumbers, ContextElim
<1>4. \A m \in Node : ctx'[m].term \in Nat /\ ctx'[m].term >= ctx[m].term
  BY <1>1, <1>2, <1>3, RequestElim
<1> SUFFICES ASSUME NEW m \in Node, NEW g \in Node, NEW x \in InFlight(m, g)'
             PROVE  RequestedOf(m, g, x)'
  BY DEF Requested
<1>5. x \in InFlight(m, g) /\ RequestedOf(m, g, x)
  BY <1>1 DEF DurabilityInv, Requested
<1>6. /\ x \in Requests /\ x.term \in Nat /\ x.term \in Terms
      /\ LastWritten(x) \in Nat /\ LastWritten(x) <= MaxSlot
      /\ x.commit \in Nat /\ x.commit <= MaxSlot /\ r.term \in Nat
  BY <1>2, TypesAfter, RequestElim, BoundsAssumption
<1>7. RequestShape(x) /\ x.term <= ctx'[m].term
  BY <1>3, <1>4, <1>5, <1>6 DEF RequestedOf
<1>8. ASSUME NEW s \in 1..x.commit
      PROVE  \E v \in Values, t \in 0..x.term :
               [slot |-> s, value |-> v] \in chosen' /\ Grounded(t, s, v)'
  <2>1. PICK v \in Values, t \in 0..x.term :
          [slot |-> s, value |-> v] \in chosen /\ Grounded(t, s, v)
    BY <1>5 DEF RequestedOf
  <2>2. t \in Terms /\ s \in Slots
    BY <1>6, BoundsAssumption DEF Terms, Slots
  <2> QED
    BY <1>1, <2>1, <2>2 DEF Stays
<1>9. x.term = ctx'[g].term /\ x.term = ctx'[g].log.term => LastWritten(x) >= ctx'[g].log.slot
  <2>1. CASE g # f
    BY <1>1, <1>5, <2>1 DEF RequestedOf
  <2>2. CASE g = f
    <3> SUFFICES ASSUME x.term = r.term, x.term = d.log.term
                 PROVE  LastWritten(x) >= d.log.slot
      BY <1>1, <1>2, <2>2
    <3>1. CASE p = q
      <4>1. d.log = ctx[f].log /\ ctx[f].log.term <= ctx[f].term
        BY <1>2, <3>1 DEF TermInv, TermsOpened
      <4>2. x.term = ctx[f].term /\ x.term = ctx[f].log.term
        BY <1>1, <1>3, <1>6, <4>1
      <4> QED
        BY <1>5, <2>2, <4>1, <4>2 DEF RequestedOf
    <3>2. CASE p < q
      <4>1. OneSender
        BY DEF DurabilityInv
      <4>2. x \in InFlight(m, g) /\ r \in InFlight(n, f)
        BY <1>1, <1>5
      <4>3. m = n
        BY <4>1, <4>2 DEF OneSender
      <4> QED
        BY <1>2, <2>2, <3>2, <4>3
    <3> QED
      BY <1>2, <3>1, <3>2
  <2> QED
    BY <2>1, <2>2
<1>10. ASSUME x.term >= ctx'[g].term, NEW s \in 1..LastWritten(x)
       PROVE  \E v \in Values, t \in Terms :
                Agreed(t, s, v)' /\ Covers(x, t, s) /\ \E k \in Node \ {g} : Reach(k, t, s)'
  <2>1. x.term >= ctx[g].term
    BY <1>3, <1>4, <1>6, <1>10
  <2>2. PICK v \in Values, t \in Terms :
          Agreed(t, s, v) /\ Covers(x, t, s) /\ \E k \in Node \ {g} : Reach(k, t, s)
    BY <1>5, <2>1 DEF RequestedOf
  <2>3. s \in Slots
    BY <1>6, BoundsAssumption DEF Slots
  <2>4. Agreed(t, s, v)' /\ \A k \in Node : Reach(k, t, s) => Reach(k, t, s)'
    BY <2>2, <2>3, OverwriteAgreed
  <2> QED
    BY <2>2, <2>4
<1> QED
  BY <1>7, <1>8, <1>9, <1>10 DEF RequestedOf

LEMMA OverwriteLogsMatch ==
  ASSUME TypeInv, TypeInv', TermInv, TermInv', DurabilityInv, Stays,
         NEW n \in Node, NEW f \in Node, NEW r, NEW d, Overwrites(n, f, r, d),
         \A s, e : Appears(s, e)' => Appears(s, e)
  PROVE  LogsMatch'
<1> DEFINE p == r.prev.slot
           q == LastWritten(r)
<1>1. \A m \in Node : ctx'[m] = IF m = f THEN d ELSE ctx[m]
  BY DEF Overwrites
<1>2. /\ d \in Contexts /\ p \in Nat /\ q \in Nat /\ p <= q /\ q <= MaxSlot
      /\ p = q => d.log = ctx[f].log
      /\ p < q => d.log.slot = q
  BY OverwrittenIs
<1>3. /\ \A m \in Node : /\ ctx[m].log.term \in Nat /\ ctx[m].log.slot \in Nat
                         /\ ctx[m].log.slot <= MaxSlot
      /\ d.log.term \in Nat /\ d.log.slot \in Nat
  BY <1>2, TermsAreNumbers, ContextElim
<1>4. ASSUME p < q, NEW m \in Node, m # f, ctx[m].log.term = d.log.term,
             NEW s \in 1..q, s <= ctx[m].log.slot
      PROVE  BackedAlike(f, m, s)' /\ BackedAlike(m, f, s)'
  <2>1. PICK v \in Values, t \in Terms :
          /\ Grounded(t, s, v)' /\ Reach(f, t, s)' /\ t <= d.log.term
          /\ \A k \in Node : Reach(k, t, s) => Reach(k, t, s)'
    BY OverwriteBacked
  <2>2. Reach(m, t, s)
    <3>1. t \in Nat
      BY BoundsAssumption DEF Terms
    <3> QED
      BY <1>3, <1>4, <2>1, <3>1 DEF Reach
  <2>3. Backed(f, s, v)' /\ Backed(m, s, v)'
    BY <2>1, <2>2 DEF Backed
  <2> QED
    BY <2>3 DEF BackedAlike
<1> SUFFICES ASSUME NEW m1 \in Node, NEW m2 \in Node, m1 # m2,
                    ctx'[m1].log.term = ctx'[m2].log.term,
                    NEW s \in 1..ctx'[m1].log.slot, s <= ctx'[m2].log.slot
             PROVE  BackedAlike(m1, m2, s)'
  BY DEF LogsMatch
<1>5. CASE p = q \/ (m1 # f /\ m2 # f)
  <2>1. ctx'[m1].log = ctx[m1].log /\ ctx'[m2].log = ctx[m2].log
    BY <1>1, <1>2, <1>5
  <2>2. BackedAlike(m1, m2, s)
    BY <2>1 DEF DurabilityInv, LogsMatch
  <2>3. s \in Slots
    BY <1>3, <2>1, BoundsAssumption DEF Slots
  <2> QED
    BY <2>2, <2>3, BackedAlikeStays
<1>6. CASE p < q /\ m1 = f
  <2>1. ctx'[m1] = d /\ ctx'[m2] = ctx[m2] /\ d.log.slot = q
    BY <1>1, <1>2, <1>6
  <2>2. s \in 1..q /\ s <= ctx[m2].log.slot /\ ctx[m2].log.term = d.log.term
    BY <2>1
  <2> QED
    BY <1>4, <1>6, <2>2
<1>7. CASE p < q /\ m2 = f
  <2>1. ctx'[m2] = d /\ ctx'[m1] = ctx[m1] /\ d.log.slot = q
    BY <1>1, <1>2, <1>7
  <2>2. s \in 1..q /\ s <= ctx[m1].log.slot /\ ctx[m1].log.term = d.log.term
    BY <1>2, <1>3, <2>1
  <2> QED
    BY <1>4, <1>7, <2>2
<1> QED
  BY <1>2, <1>5, <1>6, <1>7

\* What is answered is backed: by f, whose entries they are, and by a Leader of the
\* request's term.
LEMMA OverwriteReplies ==
  ASSUME TypeInv, TypeInv', TermInv, TermInv', DurabilityInv, Stays,
         NEW n \in Node, NEW f \in Node, NEW r, NEW d, Overwrites(n, f, r, d),
         \A s, e : Appears(s, e)' => Appears(s, e),
         \A x \in replies' :
           x \in replies \/ (x.from = f /\ x.to = n /\ x.term = r.term /\ x.slot = LastWritten(r))
  PROVE  RepliesBacked'
<1>1. \A m \in Node : /\ ctx'[m] = IF m = f THEN d ELSE ctx[m]
                      /\ role'[m] = role[m]
  BY DEF Overwrites
<1>2. r \in Requests /\ d.term = r.term /\ r.term \in Nat /\ f # n /\ role[f] = "Follower"
      /\ r.term >= ctx[f].term
  BY OverwrittenIs, RequestElim DEF Overwrites
<1> SUFFICES ASSUME NEW x \in replies'
             PROVE  /\ x.term <= ctx'[x.from].term
                    /\ role'[x.to] = "Leader" /\ x.term = ctx'[x.to].term /\ x.outcome = "written"
                         => \A s \in 1..x.slot : BackedAlike(x.to, x.from, s)'
  BY DEF RepliesBacked
<1>3. x.from \in Node /\ x.to \in Node /\ x.term \in Nat /\ x.slot \in 0..MaxSlot
  <2>1. x \in Replies
    BY DEF TypeInv, TypeOK
  <2> QED
    BY <2>1, BoundsAssumption DEF Replies, Terms
<1>4. CASE x \in replies
  <2>1. /\ x.term <= ctx[x.from].term
        /\ role[x.to] = "Leader" /\ x.term = ctx[x.to].term /\ x.outcome = "written"
             => \A s \in 1..x.slot : BackedAlike(x.to, x.from, s)
    BY <1>4 DEF DurabilityInv, RepliesBacked
  <2>2. ctx[x.from].term \in Nat
    BY <1>3, TermsAreNumbers
  <2>3. x.term <= ctx'[x.from].term
    BY <1>1, <1>2, <1>3, <2>1, <2>2
  <2>4. ASSUME role'[x.to] = "Leader", x.term = ctx'[x.to].term, x.outcome = "written",
               NEW s \in 1..x.slot
        PROVE  BackedAlike(x.to, x.from, s)'
    <3>1. role[x.to] = "Leader" /\ x.term = ctx[x.to].term
      BY <1>1, <1>2, <1>3, <2>4
    <3>2. BackedAlike(x.to, x.from, s)
      BY <2>1, <2>4, <3>1
    <3>3. s \in Slots
      BY <1>3, BoundsAssumption DEF Slots
    <3> QED
      BY <1>3, <3>2, <3>3, BackedAlikeStays
  <2> QED
    BY <2>3, <2>4
<1>5. CASE x \notin replies
  <2>1. x.from = f /\ x.to = n /\ x.term = r.term /\ x.slot = LastWritten(r)
    BY <1>5
  <2>2. x.term <= ctx'[x.from].term
    BY <1>1, <1>2, <2>1
  <2>3. ASSUME role'[x.to] = "Leader", x.term = ctx'[x.to].term, NEW s \in 1..x.slot
        PROVE  BackedAlike(x.to, x.from, s)'
    <3>1. role[n] = "Leader" /\ r.term = ctx[n].term /\ s \in 1..LastWritten(r)
      BY <1>1, <1>2, <2>1, <2>3
    <3>2. PICK v \in Values, t \in Terms :
            /\ Grounded(t, s, v)' /\ Reach(f, t, s)' /\ t <= r.term /\ Agreed(t, s, v)
            /\ \A m \in Node : Reach(m, t, s) => Reach(m, t, s)'
      BY <3>1, OverwriteBacked
    <3>3. ctx[n].term >= t
      <4>1. t \in Nat
        BY BoundsAssumption DEF Terms
      <4> QED
        BY <1>2, <3>1, <3>2, <4>1
    <3>4. Reach(n, t, s)'
      BY <3>1, <3>2, <3>3 DEF Agreed
    <3>5. Backed(f, s, v)' /\ Backed(n, s, v)'
      BY <3>2, <3>4 DEF Backed
    <3>6. BackedAlike(n, f, s)'
      BY <3>5 DEF BackedAlike
    <3> QED
      BY <2>1, <3>6
  <2> QED
    BY <2>2, <2>3
<1> QED
  BY <1>4, <1>5

LEMMA MovesAppears ==
  ASSUME Moves
  PROVE  \A s, e : Appears(s, e)' => Appears(s, e)
<1>1. \A m \in Node : \A s \in DOMAIN ctx'[m].wal : Appears(s, ctx'[m].wal[s])
  BY DEF Moves
<1>2. \A m \in Node : \A s \in DOMAIN ctx'[m].uncommitted : Appears(s, ctx'[m].uncommitted[s])
  BY DEF Moves
<1>3. \A m, f \in Node : \A r \in InFlight(m, f)' : \A x \in DOMAIN r.entries :
        Appears(x, r.entries[x])
  <2> SUFFICES ASSUME NEW m \in Node, NEW f \in Node, NEW r \in InFlight(m, f)',
                      NEW x \in DOMAIN r.entries
               PROVE  Appears(x, r.entries[x])
    OBVIOUS
  <2>1. CASE r \in InFlight(m, f)
    BY <2>1, AppearsIntro
  <2>2. CASE \A s \in DOMAIN r.entries : s \in DOMAIN ctx[m].wal /\ r.entries[s] = ctx[m].wal[s]
    BY <2>2, AppearsIntro
  <2> QED
    BY <2>1, <2>2 DEF Moves
<1> QED
  BY <1>1, <1>2, <1>3, AppearsStill

\* Of the requests that n sent f, the first is the shortest of its term.
LEMMA FirstIsShortest ==
  ASSUME InOrder, TypeInv, TypeInv', DurabilityInv, NEW n \in Node, NEW f \in Peers(n),
         NEW i \in 1..MaxCalls, Takes(n, f, i), NEW x \in InFlight(n, f)',
         x.term = calls[n][f][i].term
  PROVE  LastWritten(x) >= LastWritten(calls[n][f][i])
<1>1. f \in Node /\ i = 1 /\ 1 \in 1..Len(calls[n][f]) /\ calls'[n][f] = RemoveAt(calls[n][f], 1)
  <2>1. i \in 1..Len(calls[n][f]) /\ i = 1
    BY DEF Takes
  <2>2. f \in Node /\ calls'[n][f] = RemoveAt(calls[n][f], i)
    BY TakesIs DEF TypeInv
  <2> QED
    BY <2>1, <2>2
<1>2. calls[n][f] \in Seq(Requests)
  BY <1>1 DEF TypeInv, TypeOK
<1>3. /\ Len(calls[n][f]) \in Nat /\ Len(RemoveAt(calls[n][f], 1)) = Len(calls[n][f]) - 1
      /\ \A j \in 1..Len(RemoveAt(calls[n][f], 1)) :
           RemoveAt(calls[n][f], 1)[j] = IF j < 1 THEN calls[n][f][j] ELSE calls[n][f][j + 1]
  BY <1>1, <1>2, RemoveAtIs
<1>4. PICK j \in 1..Len(calls'[n][f]) : x = calls'[n][f][j]
  BY <1>1 DEF InFlight
<1>5. j + 1 \in 1..Len(calls[n][f]) /\ 1 <= j + 1 /\ x = calls[n][f][j + 1]
  BY <1>1, <1>3, <1>4
<1>6. \A a, b \in 1..Len(calls[n][f]) :
        a <= b /\ calls[n][f][a].term = calls[n][f][b].term
          => LastWritten(calls[n][f][a]) <= LastWritten(calls[n][f][b])
  BY <1>1 DEF DurabilityInv, QueuesSorted
<1>7. LastWritten(calls[n][f][1]) <= LastWritten(calls[n][f][j + 1])
  BY <1>1, <1>5, <1>6
<1>8. calls[n][f][1] \in Requests /\ x \in Requests
  BY <1>1, <1>2, <1>5, ElementOfSeq
<1>9. LastWritten(x) \in Nat /\ LastWritten(calls[n][f][i]) \in Nat
  BY <1>1, <1>8, RequestElim
<1> QED
  BY <1>1, <1>5, <1>7, <1>9

LEMMA AcceptsDurable ==
  ASSUME InOrder, TypeInv, TypeInv', TermInv, TermInv', DurabilityInv,
         NEW n \in Node, NEW f \in Peers(n), NEW i \in 1..MaxCalls, Accepts(n, f, i)
  PROVE  DurabilityInv'
<1>0. PICK r, d : /\ r = calls[n][f][i] /\ d = Written(Adopted(ctx[f], calls[n][f][i].term), r)
  OBVIOUS
<1>1. /\ f \in Node /\ f # n /\ role[f] = "Follower"
      /\ r \in Requests /\ r \in InFlight(n, f) /\ Adopted(ctx[f], r.term).term = r.term
      /\ r.term >= ctx[f].term
      /\ ~ Missing(Adopted(ctx[f], r.term), r) /\ ~ Differs(Adopted(ctx[f], r.term), r)
      /\ \A m \in Node : /\ ctx'[m] = IF m = f THEN d ELSE ctx[m]
                         /\ role'[m] = role[m]
                         /\ office'[m] = office[m]
      /\ \A m, g \in Node : InFlight(m, g)' \subseteq InFlight(m, g)
      /\ Answers(f, n, Adopted(ctx[f], r.term), "written", LastWritten(r))
      /\ UNCHANGED <<writes, chosen, acked>>
  BY <1>0, AcceptsIs
<1>2. Overwrites(n, f, r, d)
  BY <1>0, <1>1 DEF Overwrites
<1>3. /\ d.term = r.term /\ r.term \in Nat /\ ctx[n].term \in Nat /\ r.term <= ctx[n].term
      /\ \A m \in Node : ctx[m].term \in Nat
  BY <1>1, <1>2, OverwrittenIs, RequestElim, TermsAreNumbers DEF RequestedOf
<1>4. \A s, e : Appears(s, e)' => Appears(s, e)
  BY AcceptsMoves, MovesAppears
<1>5. Takes(n, f, i)
  BY DEF Accepts
<1>6. QueueMoves
  BY <1>5, TakesQueue
<1>7. Sending
  BY <1>1 DEF Sending
<1>8. TermsFollow
  BY <1>1, <1>3 DEF TermsFollow
<1>9. \A x \in InFlight(n, f)' : x.term = r.term => LastWritten(x) >= LastWritten(r)
  BY <1>0, <1>5, FirstIsShortest
<1>10. \A t \in Terms, s \in Slots, v \in Values : Agreed(t, s, v) =>
         Agreed(t, s, v)' /\ \A m \in Node : Reach(m, t, s) => Reach(m, t, s)'
  BY <1>1, <1>2, <1>4, OverwriteAgreed
<1>11. Stays
  BY <1>10, StaysIntro
<1>12. LogsWellFormed'
  BY <1>1, <1>2, OverwriteShape
<1>13. AllButOne'
  BY <1>8, AllButOneKept DEF DurabilityInv
<1>14. LeaderLog'
  BY <1>1, <1>2, <1>4, OverwriteLeaderLog
<1>15. Requested'
  BY <1>1, <1>2, <1>4, <1>9, <1>11, OverwriteRequested
<1>16. OneSender'
  BY <1>7, OneSenderAfter DEF DurabilityInv, TermInv
<1>17. QueuesSorted'
  <2>1. \A m \in Node : ctx'[m].term >= ctx[m].term
    BY <1>8 DEF TermsFollow
  <2> QED
    BY <1>6, <1>12, <1>14, <2>1, QueuesAfter DEF DurabilityInv, TermInv
<1>18. LogsMatch'
  BY <1>1, <1>2, <1>4, <1>11, OverwriteLogsMatch
<1>19. BoardsBacked'
  <2> SUFFICES ASSUME NEW m \in Node, role'[m] = "Leader", NEW g \in Peers(m),
                      NEW s \in 1..office'[m].pos[g].match
               PROVE  BackedAlike(m, g, s)'
    BY DEF BoardsBacked
  <2>1. role[m] = "Leader" /\ s \in 1..office[m].pos[g].match
    BY <1>1
  <2> QED
    BY <1>11, <2>1, BoardKept DEF DurabilityInv
<1>20. RepliesBacked'
  <2>1. PICK out \in Replies : /\ replies' \subseteq replies \union {out}
                               /\ out.from = f /\ out.to = n /\ out.term = r.term
                               /\ out.slot = LastWritten(r)
    BY <1>1 DEF Answers
  <2>2. \A x \in replies' :
          x \in replies \/ (x.from = f /\ x.to = n /\ x.term = r.term /\ x.slot = LastWritten(r))
    BY <2>1
  <2> QED
    BY <1>1, <1>2, <1>4, <1>11, <2>2, OverwriteReplies
<1>21. ChosenBacked'
  <2>1. \A x \in chosen' : Cardinality({m \in Node : Backed(m, x.slot, x.value)'}) >= QuorumSize
    BY <1>1, <1>11, ChosenStaysBacked DEF DurabilityInv
  <2> QED
    BY <2>1 DEF ChosenBacked
<1>22. CommittedBacked'
  BY <1>1, <1>2, <1>11, OverwriteCommitted
<1> QED
  BY <1>12, <1>13, <1>14, <1>15, <1>16, <1>17, <1>18, <1>19, <1>20, <1>21, <1>22
     DEF DurabilityInv

-----------------------------------------------------------------------------
(* A new Leader. *)

\* n has won the votes of V for term T, and goes on with context d, into which it has
\* written again what it collected.
Elects(n, V, T, col, d) ==
  /\ TakeOffice(n, V)
  /\ T = NewTerm(n, V) /\ col = Gathered(n, V) /\ d = Restored(n, V)
  /\ role'[n] = "Leader"

LEMMA ElectsIs ==
  ASSUME TypeInv, TermInv, NEW n \in Node, NEW V \in SUBSET Peers(n), NEW T, NEW col, NEW d,
         Elects(n, V, T, col, d)
  PROVE  /\ T \in Terms /\ T \in Nat /\ col \in Logs /\ d \in Contexts
         /\ role'[n] = "Leader" /\ ctx'[n] = d
         /\ \A f \in Peers(n) : office'[n].pos[f].match = SeedOf(n, V, f)
         /\ \A m \in V : /\ ctx[m].log.term <= ctx[n].log.term
                         /\ ctx[m].log.slot <= ctx[n].log.slot
         /\ Cardinality(V) + 1 = QuorumSize
         /\ Sending /\ QueueMoves
         /\ UNCHANGED <<replies, writes, chosen, acked>>
<1>1. /\ T \in Terms /\ col \in Logs /\ d \in Contexts
      /\ Cardinality(V) + 1 = QuorumSize
      /\ \A v \in V : Grants(v, n)
      /\ Sends(n, d)
      /\ \/ role'[n] = "Crashed"
         \/ /\ role'[n] = "Leader" /\ ctx'[n] = d
            /\ \A f \in Peers(n) : office'[n].pos[f].match = SeedOf(n, V, f)
      /\ UNCHANGED <<replies, writes, chosen, acked>>
  BY TakeOfficeIs DEF Elects, TypeInv
<1>2. role'[n] = "Leader" /\ ctx'[n] = d
      /\ \A f \in Peers(n) : office'[n].pos[f].match = SeedOf(n, V, f)
  BY <1>1 DEF Elects
<1>3. T \in Nat
  BY <1>1, BoundsAssumption DEF Terms
<1>5. Sending
  BY <1>1, <1>2, SendsIsSending
<1>6. QueueMoves
  BY <1>1, <1>2, SendsQueue
<1>7. \A m \in V : ctx[m].log.term <= ctx[n].log.term /\ ctx[m].log.slot <= ctx[n].log.slot
  BY <1>1 DEF Grants
<1> QED
  BY <1>1, <1>2, <1>3, <1>5, <1>6, <1>7

LEMMA ElectsOthers ==
  ASSUME TypeInv, NEW n \in Node, NEW V \in SUBSET Peers(n), NEW T, NEW col, NEW d,
         Elects(n, V, T, col, d), NEW m \in Node, m # n
  PROVE  /\ role'[m] = IF m \in V THEN "Follower" ELSE role[m]
         /\ office'[m] = IF m \in V THEN NoOffice ELSE office[m]
         /\ ctx'[m].term = IF m \in V THEN T ELSE ctx[m].term
         /\ ctx'[m].log = ctx[m].log /\ ctx'[m].committed = ctx[m].committed
         /\ ctx'[m].wal = ctx[m].wal /\ ctx'[m].uncommitted = ctx[m].uncommitted
<1>1. T \in Terms
  BY TakeOfficeIs DEF Elects, TypeInv
<1>2. /\ role'[m] = IF m \in V THEN "Follower" ELSE role[m]
      /\ ctx'[m] = IF m \in V THEN [ctx[m] EXCEPT !.term = T] ELSE ctx[m]
      /\ office'[m] = IF m \in V THEN NoOffice ELSE office[m]
  BY TakeOfficeIs DEF Elects, TypeInv
<1>3. CASE m \in V
  <2>1. ctx'[m] = [ctx[m] EXCEPT !.term = T] /\ ctx[m] \in Contexts
    BY <1>2, <1>3, TermsAreNumbers
  <2> QED
    BY <1>1, <1>2, <1>3, <2>1, WithTermIs
<1>4. CASE m \notin V
  BY <1>2, <1>4
<1> QED
  BY <1>3, <1>4

\* The new term is fresh.
LEMMA ElectsAfresh ==
  ASSUME TypeInv, TermInv, NEW n \in Node, NEW V \in SUBSET Peers(n), NEW T, NEW col, NEW d,
         Elects(n, V, T, col, d)
  PROVE  /\ \A m \in Node : ctx[m].term < T /\ ctx[m].log.term < T
         /\ \A m, f \in Node : \A r \in InFlight(m, f) : r.term < T
         /\ \A r \in replies : r.term < T
         /\ \A s, e : Appears(s, e) => e.term < T
<1>1. TakeOffice(n, V) /\ T = NewTerm(n, V)
  BY DEF Elects
<1>2. \A t \in Nat : Opened(t) => t < T
  BY <1>1, NotOpened DEF TermInv
<1>3. \A m \in Node : ctx[m].term \in Nat /\ ctx[m].log.term \in Nat
  BY TermsAreNumbers, ContextElim
<1>4. T \in Nat
  BY ElectsIs
<1>5. \A m \in Node : ctx[m].term < T /\ ctx[m].log.term < T
  <2>1. \A m \in Node : Opened(ctx[m].term) /\ ctx[m].log.term <= ctx[m].term
    BY DEF TermInv, TermsOpened
  <2> QED
    BY <1>2, <1>3, <1>4, <2>1
<1>6. ASSUME NEW m \in Node, NEW f \in Node, NEW r \in InFlight(m, f)
      PROVE  r.term < T
  <2>1. r.term \in Nat
    BY FlightElim, RequestElim DEF TypeInv, TypeOK, CallsOK
  <2> QED
    BY <1>2, <2>1 DEF TermInv, TermsOpened
<1>7. ASSUME NEW r \in replies
      PROVE  r.term < T
  <2>1. r.term \in Nat
    BY BoundsAssumption DEF TypeInv, TypeOK, Replies, Terms
  <2> QED
    BY <1>2, <2>1 DEF TermInv, TermsOpened
<1>8. ASSUME NEW s, NEW e, Appears(s, e)
      PROVE  e.term < T
  <2>1. PICK t \in Nat : Opened(t) /\ e.term <= t
    BY <1>8, AppearsOpened DEF TermInv
  <2>2. e.term \in Nat /\ t < T
    BY <1>2, <1>8, <2>1, AppearsTyped
  <2> QED
    BY <1>4, <2>1, <2>2
<1> QED
  BY <1>5, <1>6, <1>7, <1>8

\* What the new Leader has then, of its own and of its voters' uncommitted entries.
RestoredAs(n, T, col, d) ==
  /\ d.term = T /\ d.committed = ctx[n].committed
  /\ DOMAIN d.uncommitted = DOMAIN col
  /\ \A s \in DOMAIN col : d.uncommitted[s] = Stamped(col[s], T)
  /\ DOMAIN d.wal = DOMAIN col \union DOMAIN ctx[n].wal
  /\ \A s \in DOMAIN col : d.wal[s] = Stamped(col[s], T)
  /\ \A s \in DOMAIN ctx[n].wal : s \notin DOMAIN col => d.wal[s] = ctx[n].wal[s]
  /\ DOMAIN col = {} => d.log = ctx[n].log
  /\ DOMAIN col # {} => d.log.term = T /\ d.log.slot = LastSlot(col)

LEMMA ElectsWith ==
  ASSUME TypeInv, NEW n \in Node, NEW V \in SUBSET Peers(n), NEW T, NEW col, NEW d,
         Elects(n, V, T, col, d)
  PROVE  RestoredAs(n, T, col, d)
BY RestoredIs DEF RestoredAs, Elects

LEMMA ElectsFrom ==
  ASSUME TypeInv, NEW n \in Node, NEW V \in SUBSET Peers(n), NEW T, NEW col, NEW d,
         Elects(n, V, T, col, d)
  PROVE  /\ \A s \in DOMAIN ctx[n].uncommitted : s \in DOMAIN col
         /\ \A u \in V : \A s \in DOMAIN ctx[u].uncommitted :
              s > ctx[n].committed => s \in DOMAIN col
<1>1. col = Collected(ctx[n], Promised(V)) /\ V \in SUBSET Node /\ ctx[n] \in Contexts
  BY TermsAreNumbers DEF Elects, Gathered, Peers
<1>2. /\ Promised(V) \in Logs
      /\ \A v \in V : \A s \in DOMAIN ctx[v].uncommitted : s \in DOMAIN Promised(V)
  BY <1>1, PromisedIs DEF TypeInv
<1>3. \A s : s \in DOMAIN col <=>
        s \in DOMAIN ctx[n].uncommitted \/ (s \in DOMAIN Promised(V) /\ s > ctx[n].committed)
  BY <1>1, <1>2, CollectedIs
<1> QED
  BY <1>2, <1>3

LEMMA ElectsEntry ==
  ASSUME TypeInv, NEW n \in Node, NEW V \in SUBSET Peers(n), NEW T, NEW col, NEW d,
         Elects(n, V, T, col, d), NEW s \in DOMAIN col
  PROVE  \/ s \in DOMAIN ctx[n].uncommitted /\ col[s] = ctx[n].uncommitted[s]
         \/ /\ s > ctx[n].committed
            /\ s \in DOMAIN ctx[n].uncommitted => col[s].term > ctx[n].uncommitted[s].term
            /\ \E u \in V : s \in DOMAIN ctx[u].uncommitted /\ col[s] = ctx[u].uncommitted[s]
<1>1. col = Collected(ctx[n], Promised(V)) /\ V \in SUBSET Node /\ ctx[n] \in Contexts
  BY TermsAreNumbers DEF Elects, Gathered, Peers
<1>2. /\ Promised(V) \in Logs
      /\ \A x \in DOMAIN Promised(V) : \E v \in V :
           x \in DOMAIN ctx[v].uncommitted /\ Promised(V)[x] = ctx[v].uncommitted[x]
  BY <1>1, PromisedIs DEF TypeInv
<1>3. \/ s \in DOMAIN ctx[n].uncommitted /\ col[s] = ctx[n].uncommitted[s]
      \/ /\ s \in DOMAIN Promised(V) /\ s > ctx[n].committed /\ col[s] = Promised(V)[s]
         /\ s \in DOMAIN ctx[n].uncommitted => Promised(V)[s].term > ctx[n].uncommitted[s].term
  BY <1>1, <1>2, CollectedIs
<1> QED
  BY <1>2, <1>3

\* What is collected has no gaps above the commit slot, and does not end before the
\* log did: what n lacks of a voter's entries is past the end of both their logs.
LEMMA ElectsFills ==
  ASSUME TypeInv, TermInv, LogsWellFormed,
         NEW n \in Node, NEW V \in SUBSET Peers(n), NEW T, NEW col, NEW d,
         Elects(n, V, T, col, d)
  PROVE  /\ DOMAIN col = {} => ctx[n].log.slot <= ctx[n].committed
         /\ DOMAIN col # {} =>
              /\ LastSlot(col) \in Nat /\ LastSlot(col) \in DOMAIN col
              /\ ctx[n].log.slot <= LastSlot(col)
              /\ \A s \in DOMAIN col : s \in Nat /\ s <= LastSlot(col)
              /\ \A s \in (ctx[n].committed + 1)..LastSlot(col) : s \in DOMAIN col
         /\ \A s1 \in DOMAIN col : \A s2 \in s1..ctx[n].log.slot : s2 \in DOMAIN col
<1> DEFINE c == ctx[n]
           L == LastSlot(col)
<1>1. /\ \A s \in DOMAIN c.uncommitted : s \in DOMAIN col
      /\ \A u \in V : \A s \in DOMAIN ctx[u].uncommitted : s > c.committed => s \in DOMAIN col
      /\ \A s \in DOMAIN col :
           s \in DOMAIN c.uncommitted
             \/ (s > c.committed /\ \E u \in V : s \in DOMAIN ctx[u].uncommitted)
  <2>1. ASSUME NEW s \in DOMAIN col
        PROVE  s \in DOMAIN c.uncommitted
                 \/ (s > c.committed /\ \E u \in V : s \in DOMAIN ctx[u].uncommitted)
    BY ElectsEntry
  <2> QED
    BY <2>1, ElectsFrom
<1>2. /\ \A m \in Node : /\ ctx[m].log.slot \in Nat /\ ctx[m].committed \in Nat
                         /\ WalShape(ctx[m]) /\ PendingShape(ctx[m])
                         /\ \A s \in DOMAIN ctx[m].uncommitted : s \in Nat
  <2>1. \A m \in Node : /\ ctx[m].log.slot \in Nat /\ ctx[m].committed \in Nat
                        /\ ctx[m].uncommitted \in Logs
    BY TermsAreNumbers, ContextElim
  <2> QED
    BY <2>1, LogElim DEF LogsWellFormed
<1>3. \A m \in Node : ctx[m].committed <= ctx[m].log.slot
  BY <1>2 DEF WalShape
<1>4. /\ \A s \in (c.committed + 1)..c.log.slot : s \in DOMAIN c.uncommitted
      /\ \A s1 \in DOMAIN c.uncommitted : \A s2 \in (c.committed + 1)..s1 : s2 \in DOMAIN c.uncommitted
      /\ \A s1 \in DOMAIN c.uncommitted : \A s2 \in s1..c.log.slot : s2 \in DOMAIN c.uncommitted
      /\ DOMAIN c.uncommitted # {} => \E s \in DOMAIN c.uncommitted : s >= c.log.slot
  BY <1>2 DEF PendingShape
<1>5. /\ L \in Nat /\ (DOMAIN col # {} => L \in DOMAIN col)
      /\ \A s \in DOMAIN col : s \in Nat /\ s <= L
  <2>1. col \in Logs
    BY ElectsIs
  <2>2. L \in 0..MaxSlot
    BY <2>1, LastSlotIs
  <2> QED
    BY <2>1, <2>2, LastSlotIs, LogElim, BoundsAssumption
<1>6. \A u \in V : u \in Node /\ ctx[u].log.slot <= c.log.slot
  BY ElectsIs DEF Peers
<1>7. ASSUME DOMAIN c.uncommitted = {}
      PROVE  c.log.slot <= c.committed
  <2>1. c.log.slot > c.committed => c.log.slot \in (c.committed + 1)..c.log.slot
    BY <1>2
  <2> QED
    BY <1>2, <1>4, <1>7, <2>1
<1> HIDE DEF c, L
<1>8. DOMAIN col = {} => c.log.slot <= c.committed
  BY <1>1, <1>7
<1>9. ASSUME DOMAIN col # {}
      PROVE  c.log.slot <= L
  <2>1. CASE DOMAIN c.uncommitted = {}
    <3>1. L \in DOMAIN col
      BY <1>5, <1>9
    <3>2. L > c.committed
      BY <1>1, <2>1, <3>1
    <3> QED
      BY <1>2, <1>5, <1>7, <2>1, <3>2 DEF c
  <2>2. CASE DOMAIN c.uncommitted # {}
    <3>1. PICK s \in DOMAIN c.uncommitted : s >= c.log.slot
      BY <1>4, <2>2
    <3>2. s <= L /\ s \in Nat
      BY <1>1, <1>5
    <3> QED
      BY <1>2, <1>5, <3>1, <3>2 DEF c
  <2> QED
    BY <2>1, <2>2
<1>10. ASSUME DOMAIN col # {}, NEW s \in (c.committed + 1)..L
       PROVE  s \in DOMAIN col
  <2>1. /\ L \in DOMAIN col /\ c.committed \in Nat /\ c.log.slot \in Nat
        /\ s \in Nat /\ s > c.committed /\ s <= L
    BY <1>2, <1>5, <1>10 DEF c
  <2>2. CASE L \in DOMAIN c.uncommitted
    <3>1. s \in DOMAIN c.uncommitted
      BY <1>4, <1>10, <2>2
    <3> QED
      BY <1>1, <3>1
  <2>3. CASE s <= c.log.slot
    <3>1. s \in (c.committed + 1)..c.log.slot
      BY <2>1, <2>3
    <3> QED
      BY <1>1, <1>4, <3>1
  <2>4. CASE L \notin DOMAIN c.uncommitted /\ ~ (s <= c.log.slot)
    <3>1. PICK u \in V : L \in DOMAIN ctx[u].uncommitted
      BY <1>1, <2>1, <2>4
    <3>2. /\ u \in Node /\ ctx[u].log.slot <= c.log.slot /\ ctx[u].committed <= ctx[u].log.slot
          /\ ctx[u].committed \in Nat /\ ctx[u].log.slot \in Nat /\ PendingShape(ctx[u])
      BY <1>2, <1>3, <1>6
    <3>3. s \in (ctx[u].committed + 1)..L
      BY <1>5, <2>1, <2>4, <3>2
    <3>4. s \in DOMAIN ctx[u].uncommitted
      BY <3>1, <3>2, <3>3 DEF PendingShape
    <3> QED
      BY <1>1, <2>1, <3>4
  <2> QED
    BY <2>2, <2>3, <2>4
<1>11. ASSUME NEW s1 \in DOMAIN col, NEW s2 \in s1..c.log.slot
       PROVE  s2 \in DOMAIN col
  <2>1. /\ c.committed \in Nat /\ c.log.slot \in Nat /\ s1 \in Nat
        /\ s2 \in Nat /\ s1 <= s2 /\ s2 <= c.log.slot /\ c.log.slot <= L
    <3>1. c.committed \in Nat /\ c.log.slot \in Nat /\ s1 \in Nat /\ c.log.slot <= L
      BY <1>2, <1>5, <1>9 DEF c
    <3> QED
      BY <1>11, <3>1
  <2>2. CASE s2 > c.committed
    <3>1. s2 \in (c.committed + 1)..L
      BY <1>5, <2>1, <2>2
    <3> QED
      BY <1>10, <3>1
  <2>3. CASE ~ (s2 > c.committed)
    <3>1. ~ (s1 > c.committed)
      BY <2>1, <2>3
    <3>2. s1 \in DOMAIN c.uncommitted
      BY <1>1, <3>1
    <3>3. s2 \in DOMAIN c.uncommitted
      BY <1>4, <1>11, <3>2
    <3> QED
      BY <1>1, <3>3
  <2> QED
    BY <2>2, <2>3
<1> QED
  BY <1>5, <1>8, <1>9, <1>10, <1>11 DEF c, L

\* Its log ends where it says, what is not written again is committed, and it does not
\* fall back.
FullAs(n, T, col, d) ==
  /\ DOMAIN d.wal = 1..d.log.slot
  /\ \A s \in DOMAIN d.wal : d.wal[s].term # T => s \notin DOMAIN col /\ s <= d.committed
  /\ d.log.slot >= ctx[n].log.slot /\ d.log.term >= ctx[n].log.term

LEMMA ElectsShape ==
  ASSUME TypeInv, TermInv, LogsWellFormed,
         NEW n \in Node, NEW V \in SUBSET Peers(n), NEW T, NEW col, NEW d,
         Elects(n, V, T, col, d)
  PROVE  LogsWellFormed' /\ FullAs(n, T, col, d)
<1> DEFINE c == ctx[n]
           L == LastSlot(col)
<1>1. /\ d.term = T /\ d.committed = c.committed
      /\ DOMAIN d.uncommitted = DOMAIN col
      /\ \A s \in DOMAIN col : d.uncommitted[s] = Stamped(col[s], T)
      /\ DOMAIN d.wal = DOMAIN col \union DOMAIN c.wal
      /\ \A s \in DOMAIN col : d.wal[s] = Stamped(col[s], T)
      /\ \A s \in DOMAIN c.wal : s \notin DOMAIN col => d.wal[s] = c.wal[s]
      /\ DOMAIN col = {} => d.log = c.log
      /\ DOMAIN col # {} => d.log.term = T /\ d.log.slot = L
  <2>1. RestoredAs(n, T, col, d)
    BY ElectsWith
  <2> QED
    BY <2>1 DEF RestoredAs
<1>2. /\ DOMAIN col = {} => c.log.slot <= c.committed
      /\ DOMAIN col # {} =>
           /\ L \in Nat /\ L \in DOMAIN col /\ c.log.slot <= L
           /\ \A s \in DOMAIN col : s \in Nat /\ s <= L
           /\ \A s \in (c.committed + 1)..L : s \in DOMAIN col
      /\ \A s1 \in DOMAIN col : \A s2 \in s1..c.log.slot : s2 \in DOMAIN col
  BY ElectsFills
<1>3. T \in Nat /\ d \in Contexts /\ ctx'[n] = d
  BY ElectsIs
<1>4. /\ c.log.slot \in Nat /\ c.log.term \in Nat /\ c.committed \in Nat /\ c.wal \in Logs
      /\ c.log.term < T
  BY TermsAreNumbers, ContextElim, ElectsAfresh
<1>5. \A s \in DOMAIN c.wal : s \in Nat /\ s >= 1 /\ c.wal[s].term \in Nat /\ c.wal[s].term < T
  <2>1. \A s \in DOMAIN c.wal : s \in Nat /\ s >= 1 /\ c.wal[s].term \in Terms
    BY <1>4, LogElim
  <2>2. \A s \in DOMAIN c.wal : c.wal[s].term < T
    BY AppearsIntro, ElectsAfresh
  <2> QED
    BY <2>1, <2>2, BoundsAssumption DEF Terms
<1>6. col \in Logs /\ \A s \in DOMAIN col : s \in Nat /\ s >= 1 /\ Stamped(col[s], T).term = T
  BY ElectsIs, LogElim DEF Stamped
<1>7. WalShape(c) /\ PendingShape(c)
  BY DEF LogsWellFormed
<1>8. PICK k \in 0..c.log.slot : DOMAIN c.wal = 1..k /\ c.committed <= k
  BY <1>7 DEF WalShape
<1> HIDE DEF c, L
<1>9. k \in Nat /\ k <= c.log.slot /\ c.committed <= k
  BY <1>4, <1>8
<1>10. d.log.slot >= c.log.slot /\ d.log.term >= c.log.term /\ d.log.slot \in Nat
  <2>1. CASE DOMAIN col = {}
    BY <1>1, <1>4, <2>1
  <2>2. CASE DOMAIN col # {}
    <3>1. d.log.term = T /\ d.log.slot = L /\ L \in Nat /\ c.log.slot <= L
      BY <1>1, <1>2, <2>2
    <3> QED
      BY <1>3, <1>4, <3>1
  <2> QED
    BY <2>1, <2>2
<1>11. DOMAIN d.wal = 1..d.log.slot
  <2>1. CASE DOMAIN col = {}
    <3>1. k = c.log.slot
      BY <1>2, <1>4, <1>9, <2>1
    <3> QED
      BY <1>1, <1>8, <2>1, <3>1
  <2>2. CASE DOMAIN col # {}
    <3>1. \A s \in 1..L : s \in DOMAIN col \/ s \in 1..k
      BY <1>2, <1>4, <1>9, <2>2
    <3>2. \A s \in DOMAIN col : s \in 1..L
      BY <1>2, <1>6, <2>2
    <3>3. \A s \in 1..k : s \in 1..L
      BY <1>2, <1>4, <1>9, <2>2
    <3>4. DOMAIN col \union 1..k = 1..L
      BY <3>1, <3>2, <3>3
    <3> QED
      BY <1>1, <1>8, <2>2, <3>4
  <2> QED
    BY <2>1, <2>2
<1>12. ASSUME NEW s \in DOMAIN d.wal, s \notin DOMAIN col
       PROVE  s \in DOMAIN c.wal /\ d.wal[s] = c.wal[s] /\ s <= c.committed /\ s <= c.log.slot
  <2>1. s \in DOMAIN c.wal /\ d.wal[s] = c.wal[s]
    BY <1>1, <1>12
  <2>2. s \in Nat /\ s <= c.log.slot
    BY <1>4, <1>5, <1>8, <1>9, <2>1
  <2>3. CASE DOMAIN col = {}
    BY <1>2, <1>4, <2>1, <2>2, <2>3
  <2>4. CASE DOMAIN col # {}
    <3>1. L \in Nat /\ c.log.slot <= L
      BY <1>2, <2>4
    <3>2. s > c.committed => s \in (c.committed + 1)..L
      BY <1>4, <2>2, <3>1
    <3>3. ~ (s > c.committed)
      BY <1>2, <1>12, <2>4, <3>2
    <3> QED
      BY <1>4, <2>1, <2>2, <3>3
  <2> QED
    BY <2>3, <2>4
<1>13. \A s \in DOMAIN d.wal : d.wal[s].term # T => s \notin DOMAIN col /\ s <= d.committed
  BY <1>1, <1>6, <1>12
<1>14. ASSUME NEW s1 \in DOMAIN d.wal, NEW s2 \in DOMAIN d.wal, s1 <= s2
       PROVE  d.wal[s1].term <= d.wal[s2].term
  <2>1. CASE s1 \in DOMAIN col
    <3>1. s2 \in DOMAIN col
      <4>1. s2 \notin DOMAIN col => s2 \in s1..c.log.slot
        BY <1>4, <1>5, <1>6, <1>12, <1>14, <2>1
      <4> QED
        BY <1>2, <2>1, <4>1
    <3> QED
      BY <1>1, <1>3, <1>6, <2>1, <3>1
  <2>2. CASE s1 \notin DOMAIN col /\ s2 \in DOMAIN col
    BY <1>1, <1>3, <1>5, <1>6, <1>12, <2>2
  <2>3. CASE s1 \notin DOMAIN col /\ s2 \notin DOMAIN col
    <3>1. /\ s1 \in DOMAIN c.wal /\ d.wal[s1] = c.wal[s1]
          /\ s2 \in DOMAIN c.wal /\ d.wal[s2] = c.wal[s2]
      BY <1>12, <2>3
    <3> QED
      BY <1>7, <1>14, <3>1 DEF WalShape
  <2> QED
    BY <2>1, <2>2, <2>3
<1>15. ASSUME NEW s \in DOMAIN d.wal
       PROVE  d.wal[s].term <= d.log.term
  <2>1. CASE DOMAIN col = {}
    <3>1. s \in DOMAIN c.wal /\ d.wal[s] = c.wal[s] /\ d.log = c.log
      BY <1>1, <1>12, <2>1
    <3> QED
      BY <1>7, <3>1 DEF WalShape
  <2>2. CASE DOMAIN col # {}
    <3>1. d.log.term = T
      BY <1>1, <2>2
    <3>2. CASE s \in DOMAIN col
      BY <1>1, <1>3, <1>6, <3>1, <3>2
    <3>3. CASE s \notin DOMAIN col
      BY <1>3, <1>5, <1>12, <3>1, <3>3
    <3> QED
      BY <3>2, <3>3
  <2> QED
    BY <2>1, <2>2
<1>16. WalShape(d)
  <2>1. d.log.slot \in 0..d.log.slot /\ d.committed <= d.log.slot
    BY <1>1, <1>4, <1>9, <1>10
  <2> QED
    BY <1>11, <1>14, <1>15, <2>1 DEF WalShape
<1>17. ASSUME NEW s \in (d.committed + 1)..d.log.slot
       PROVE  s \in DOMAIN col
  <2>1. CASE DOMAIN col = {}
    BY <1>1, <1>2, <1>4, <2>1
  <2>2. CASE DOMAIN col # {}
    BY <1>1, <1>2, <2>2
  <2> QED
    BY <2>1, <2>2
<1>18. ASSUME NEW s1 \in DOMAIN col, NEW s2 \in (d.committed + 1)..s1
       PROVE  s2 \in DOMAIN col
  <2>1. s1 <= L /\ L \in Nat /\ s1 \in Nat
    BY <1>2, <1>18
  <2>2. s2 \in (c.committed + 1)..L
    BY <1>1, <1>4, <1>18, <2>1
  <2> QED
    BY <1>2, <1>18, <2>2
<1>19. ASSUME NEW s1 \in DOMAIN col, NEW s2 \in s1..d.log.slot
       PROVE  s2 \in DOMAIN col
  <2>1. s1 \in Nat /\ s2 \in Nat /\ s1 <= s2 /\ s2 <= d.log.slot
    BY <1>6, <1>10, <1>19
  <2>2. CASE s2 > c.committed
    <3>1. s2 \in (d.committed + 1)..d.log.slot
      BY <1>1, <1>4, <1>10, <2>1, <2>2
    <3> QED
      BY <1>17, <3>1
  <2>3. CASE ~ (s2 > c.committed)
    <3>1. s2 \in s1..c.log.slot
      BY <1>4, <1>9, <2>1, <2>3
    <3> QED
      BY <1>2, <1>19, <3>1
  <2> QED
    BY <2>2, <2>3
<1>20. PendingShape(d)
  <2>1. \A s \in DOMAIN d.wal \intersect DOMAIN d.uncommitted : d.wal[s] = d.uncommitted[s]
    BY <1>1
  <2>2. DOMAIN d.uncommitted # {} => \E s \in DOMAIN d.uncommitted : s >= d.log.slot
    BY <1>1, <1>2
  <2> QED
    BY <1>1, <1>17, <1>18, <1>19, <2>1, <2>2 DEF PendingShape
<1>21. LogsWellFormed'
  <2> SUFFICES ASSUME NEW m \in Node
               PROVE  WalShape(ctx'[m]) /\ PendingShape(ctx'[m])
    BY DEF LogsWellFormed, WalShape, PendingShape
  <2>1. CASE m = n
    BY <1>3, <1>16, <1>20, <2>1
  <2>2. CASE m # n
    <3>1. WalShape(ctx[m]) /\ PendingShape(ctx[m])
      BY DEF LogsWellFormed
    <3>2. /\ ctx'[m].log = ctx[m].log /\ ctx'[m].committed = ctx[m].committed
          /\ ctx'[m].wal = ctx[m].wal /\ ctx'[m].uncommitted = ctx[m].uncommitted
      BY <2>2, ElectsOthers
    <3>3. WalShape(ctx'[m])
      BY <3>1, <3>2 DEF WalShape
    <3>4. PendingShape(ctx'[m])
      BY <3>1, <3>2 DEF PendingShape
    <3> QED
      BY <3>3, <3>4
  <2> QED
    BY <2>1, <2>2
<1> QED
  BY <1>10, <1>11, <1>13, <1>21 DEF c, FullAs

\* Everything in a log, or on its way, is old or collected.
LEMMA ElectsAppears ==
  ASSUME TypeInv, TermInv, NEW n \in Node, NEW V \in SUBSET Peers(n), NEW T, NEW col, NEW d,
         Elects(n, V, T, col, d)
  PROVE  \A s, e : Appears(s, e)' => Appears(s, e) \/ (s \in DOMAIN col /\ e = Stamped(col[s], T))
<1> DEFINE new == d.uncommitted
           Known(s, e) == Appears(s, e) \/ (s \in DOMAIN new /\ e = new[s])
<1>1. RestoredAs(n, T, col, d)
  BY ElectsWith
<1>2. ctx'[n] = d /\ Sending
  BY ElectsIs
<1>3. \A s \in DOMAIN d.wal : Known(s, d.wal[s])
  BY <1>1, AppearsIntro DEF RestoredAs
<1>4. \A m \in Node : \A s \in DOMAIN ctx'[m].wal : Known(s, ctx'[m].wal[s])
  <2> TAKE m \in Node
  <2>1. CASE m = n
    BY <1>2, <1>3, <2>1
  <2>2. CASE m # n
    <3>1. ctx'[m].wal = ctx[m].wal
      BY <2>2, ElectsOthers
    <3> QED
      BY <3>1, AppearsIntro
  <2> QED
    BY <2>1, <2>2
<1>5. \A m \in Node : \A s \in DOMAIN ctx'[m].uncommitted : Known(s, ctx'[m].uncommitted[s])
  <2> TAKE m \in Node
  <2>1. CASE m = n
    BY <1>2, <2>1
  <2>2. CASE m # n
    <3>1. ctx'[m].uncommitted = ctx[m].uncommitted
      BY <2>2, ElectsOthers
    <3> QED
      BY <3>1, AppearsIntro
  <2> QED
    BY <2>1, <2>2
<1>6. \A m, f \in Node : \A r \in InFlight(m, f)' : \A s \in DOMAIN r.entries :
        Known(s, r.entries[s])
  <2> SUFFICES ASSUME NEW m \in Node, NEW f \in Node, NEW r \in InFlight(m, f)',
                      NEW s \in DOMAIN r.entries
               PROVE  Known(s, r.entries[s])
    OBVIOUS
  <2>1. CASE r \in InFlight(m, f)
    BY <2>1, AppearsIntro
  <2>2. CASE SentFrom(ctx'[m], r)
    <3>1. s \in DOMAIN ctx'[m].wal /\ r.entries[s] = ctx'[m].wal[s]
      BY <2>2 DEF SentFrom
    <3> HIDE DEF Known
    <3> QED
      BY <1>4, <3>1
  <2> QED
    BY <1>2, <2>1, <2>2 DEF Sending
<1>7. \A s, e : Appears(s, e)' => Appears(s, e) \/ (s \in DOMAIN new /\ e = new[s])
  BY <1>4, <1>5, <1>6, AppearsAfter
<1> QED
  BY <1>1, <1>7 DEF RestoredAs

\* A log that reaches a slot keeps reaching it, and the new Leader reaches what its
\* voters do.
LEMMA ElectsReach ==
  ASSUME TypeInv, TermInv, LogsWellFormed,
         NEW n \in Node, NEW V \in SUBSET Peers(n), NEW T, NEW col, NEW d,
         Elects(n, V, T, col, d), NEW t \in Terms, NEW s \in Slots, NEW m \in Node, Reach(m, t, s)
  PROVE  /\ Reach(m, t, s)'
         /\ m \in V => Reach(n, t, s)
<1>1. /\ t \in Nat /\ s \in Nat /\ d \in Contexts /\ ctx'[n] = d
      /\ \A k \in Node : ctx[k].log.term \in Nat /\ ctx[k].log.slot \in Nat
      /\ d.log.term \in Nat /\ d.log.slot \in Nat
  BY ElectsIs, TermsAreNumbers, ContextElim, BoundsAssumption DEF Terms, Slots
<1>2. m \in V => Reach(n, t, s)
  <2>1. m \in V => ctx[m].log.term <= ctx[n].log.term /\ ctx[m].log.slot <= ctx[n].log.slot
    BY ElectsIs
  <2> QED
    BY <1>1, <2>1 DEF Reach
<1>3. CASE m = n
  <2>1. d.log.slot >= ctx[n].log.slot /\ d.log.term >= ctx[n].log.term
    BY ElectsShape DEF FullAs
  <2> QED
    BY <1>1, <1>2, <1>3, <2>1 DEF Reach
<1>4. CASE m # n
  <2>1. ctx'[m].log = ctx[m].log
    BY <1>4, ElectsOthers
  <2> QED
    BY <1>2, <2>1 DEF Reach
<1> QED
  BY <1>3, <1>4

\* In a group of at most four, of any two members one has voted or has won.
LEMMA ElectsOne ==
  ASSUME Cardinality(Node) <= 4, TypeInv, TermInv,
         NEW n \in Node, NEW V \in SUBSET Peers(n), NEW T, NEW col, NEW d,
         Elects(n, V, T, col, d), NEW m1 \in Node, NEW m2 \in Node, m1 # m2
  PROVE  m1 \in V \union {n} \/ m2 \in V \union {n}
<1> SUFFICES ASSUME m1 \notin V \union {n}, m2 \notin V \union {n} PROVE FALSE
  OBVIOUS
<1> DEFINE W == V \union {n}
           R == (Node \ {m1}) \ {m2}
<1>1. Cardinality(V) + 1 = QuorumSize
  BY ElectsIs
<1>2. IsFiniteSet(Node) /\ n \notin V /\ V \subseteq Node /\ W \subseteq R
  BY NodeAssumption DEF Peers
<1>3. IsFiniteSet(V)
  BY <1>2, FS_Subset
<1>4. Cardinality(W) = Cardinality(V) + 1
  BY <1>2, <1>3, FS_AddElement
<1>5. IsFiniteSet(Node \ {m1}) /\ Cardinality(Node \ {m1}) = Cardinality(Node) - 1
  BY <1>2, FS_RemoveElement
<1>6. IsFiniteSet(R) /\ Cardinality(R) = Cardinality(Node \ {m1}) - 1
  BY <1>5, FS_RemoveElement
<1>7. Cardinality(W) <= Cardinality(R)
  BY <1>2, <1>6, FS_Subset
<1>8. /\ Cardinality(Node) \in Nat /\ QuorumSize \in Nat /\ QuorumSize >= 2
      /\ QuorumSize + QuorumSize > Cardinality(Node)
  BY PeersIs
<1> QED
  BY <1>1, <1>4, <1>5, <1>6, <1>7, <1>8

\* What is agreed and in reach of the new Leader stays agreed: what it collects for
\* the slot is its own entry or a later one.
LEMMA ElectsAgreed ==
  ASSUME TypeInv, TypeInv', TermInv, TermInv', LogsWellFormed,
         NEW n \in Node, NEW V \in SUBSET Peers(n), NEW T, NEW col, NEW d,
         Elects(n, V, T, col, d),
         NEW t \in Terms, NEW s \in Slots, NEW v \in Values, Agreed(t, s, v), Reach(n, t, s)
  PROVE  Agreed(t, s, v)'
<1> DEFINE c == ctx[n]
<1>1. /\ t \in Nat /\ s \in Nat /\ T \in Nat /\ col \in Logs /\ Sending
      /\ ctx'[n] = d /\ c \in Contexts
  <2>1. T \in Nat /\ col \in Logs /\ Sending /\ ctx'[n] = d
    BY ElectsIs
  <2> QED
    BY <2>1, TermsAreNumbers, BoundsAssumption DEF Terms, Slots
<1>2. /\ s \in DOMAIN c.wal /\ c.wal[s].term >= t /\ c.wal[s] \in Entries
      /\ c.wal[s].term \in Nat /\ c.wal[s].value = v
  <2>1. s \in DOMAIN c.wal /\ c.wal[s].term >= t
    BY DEF Agreed
  <2>2. Appears(s, c.wal[s])
    BY <2>1, AppearsIntro
  <2>3. c.wal[s] \in Entries /\ c.wal[s].term \in Nat
    BY <2>2, AppearsTyped
  <2> QED
    BY <2>1, <2>2, <2>3 DEF Agreed
<1>3. /\ c.log.term >= t /\ c.log.slot >= s /\ c.committed \in Nat /\ c.log.slot \in Nat
      /\ c.log.term \in Nat /\ c.log.term < T
  BY <1>1, ContextElim, ElectsAfresh DEF Reach
<1>4. PendingShape(c)
  BY DEF LogsWellFormed
<1>5. ASSUME s \in DOMAIN col
      PROVE  Stamped(col[s], T).value = v
  <2>1. CASE s \in DOMAIN c.uncommitted /\ col[s] = c.uncommitted[s]
    <3>1. c.wal[s] = c.uncommitted[s]
      BY <1>2, <1>4, <2>1 DEF PendingShape
    <3> QED
      BY <1>2, <2>1, <3>1 DEF Stamped
  <2>2. ASSUME s > c.committed,
               s \in DOMAIN c.uncommitted => col[s].term > c.uncommitted[s].term,
               NEW u \in V, s \in DOMAIN ctx[u].uncommitted, col[s] = ctx[u].uncommitted[s]
        PROVE  Stamped(col[s], T).value = v
    <3>1. s \in (c.committed + 1)..c.log.slot
      BY <1>1, <1>3, <2>2
    <3>2. s \in DOMAIN c.uncommitted /\ c.wal[s] = c.uncommitted[s]
      BY <1>2, <1>4, <3>1 DEF PendingShape
    <3>3. Appears(s, col[s])
      BY <2>2, AppearsIntro DEF Peers
    <3>4. col[s] \in Entries /\ col[s].term \in Nat
      BY <3>3, AppearsTyped
    <3>5. col[s].term >= t
      BY <1>1, <1>2, <2>2, <3>2, <3>4
    <3>6. col[s].value = v
      BY <3>3, <3>4, <3>5 DEF Agreed
    <3> QED
      BY <3>6 DEF Stamped
  <2> QED
    BY <1>5, <2>1, <2>2, ElectsEntry
<1>6. RestoredAs(n, T, col, d)
  BY ElectsWith
<1>7. \A e \in Entries : Appears(s, e)' /\ e.term >= t => Appears(s, e) \/ e.value = v
  BY <1>5, ElectsAppears
<1>8. s \in DOMAIN d.wal /\ d.wal[s].term >= t
  <2>1. s \in DOMAIN d.wal
    BY <1>2, <1>6 DEF RestoredAs
  <2>2. CASE s \in DOMAIN col
    <3>1. d.wal[s] = Stamped(col[s], T)
      BY <1>6, <2>2 DEF RestoredAs
    <3>2. d.wal[s].term = T
      BY <3>1 DEF Stamped
    <3> QED
      BY <1>1, <1>3, <2>1, <3>2
  <2>3. CASE s \notin DOMAIN col
    <3>1. d.wal[s] = c.wal[s]
      BY <1>2, <1>6, <2>3 DEF RestoredAs
    <3> QED
      BY <1>2, <2>1, <3>1
  <2> QED
    BY <2>2, <2>3
<1>9. \A m \in Node : ctx'[m].log.term >= t /\ ctx'[m].log.slot >= s
        => s \in DOMAIN ctx'[m].wal /\ ctx'[m].wal[s].term >= t
  <2> SUFFICES ASSUME NEW m \in Node, ctx'[m].log.term >= t, ctx'[m].log.slot >= s
               PROVE  s \in DOMAIN ctx'[m].wal /\ ctx'[m].wal[s].term >= t
    OBVIOUS
  <2>1. CASE m = n
    BY <1>1, <1>8, <2>1
  <2>2. CASE m # n
    <3>1. ctx'[m].wal = ctx[m].wal /\ ctx'[m].log = ctx[m].log
      BY <2>2, ElectsOthers
    <3> QED
      BY <3>1 DEF Agreed, Reach
  <2> QED
    BY <2>1, <2>2
<1>10. \A m \in Node : role'[m] = "Leader" /\ ctx'[m].term >= t
         => ctx'[m].log.term >= t /\ ctx'[m].log.slot >= s
  <2> SUFFICES ASSUME NEW m \in Node, role'[m] = "Leader", ctx'[m].term >= t
               PROVE  Reach(m, t, s)
    BY ElectsReach DEF Reach
  <2>1. CASE m # n
    <3>1. role[m] = "Leader" /\ ctx'[m].term = ctx[m].term
      BY <2>1, ElectsOthers
    <3> QED
      BY <3>1 DEF Agreed
  <2> QED
    BY <2>1
<1>11. LogsWellFormed' /\ TermsOpened'
  BY ElectsShape DEF TermInv
<1> QED
  BY <1>1, <1>7, <1>9, <1>10, <1>11, AgreedAfter

\* What the new Leader has written again is agreed.
LEMMA ElectsOwn ==
  ASSUME TypeInv, TypeInv', TermInv, TermInv', LogsWellFormed,
         NEW n \in Node, NEW V \in SUBSET Peers(n), NEW T, NEW col, NEW d,
         Elects(n, V, T, col, d),
         NEW s \in DOMAIN d.wal, d.wal[s].term = T, NEW v, v = d.wal[s].value
  PROVE  Agreed(T, s, v)'
<1>1. T \in Nat /\ T \in Terms /\ Sending /\ ctx'[n] = d /\ role'[n] = "Leader" /\ d \in Contexts
  BY ElectsIs
<1>2. RestoredAs(n, T, col, d)
  BY ElectsWith
<1>3. /\ \A m \in Node : ctx[m].term < T /\ ctx[m].log.term < T
      /\ \A m, f \in Node : \A r \in InFlight(m, f) : r.term < T
      /\ \A x, e : Appears(x, e) => e.term < T
  BY ElectsAfresh
<1>4. /\ \A m \in Node : ctx[m].term \in Nat /\ ctx[m].log.term \in Nat
      /\ d.log.slot \in Nat /\ d.log.term \in Nat
  BY <1>1, TermsAreNumbers, ContextElim
<1>5. WalShape(d) /\ d.term = T /\ d.log.term <= T
  <2>1. LogsWellFormed' /\ d.term = T
    BY <1>2, ElectsShape DEF RestoredAs
  <2>2. WalShape(ctx'[n]) /\ ctx'[n].log.term <= ctx'[n].term
    BY <2>1 DEF LogsWellFormed, TermInv, TermsOpened
  <2> QED
    BY <1>1, <2>1, <2>2
<1>6. s \in 1..d.log.slot /\ d.log.term >= T
  <2>1. FullAs(n, T, col, d)
    BY ElectsShape
  <2>2. d.wal[s].term <= d.log.term
    BY <1>5 DEF WalShape
  <2> QED
    BY <2>1, <2>2 DEF FullAs
<1>7. ASSUME NEW e \in Entries, Appears(s, e)', e.term >= T
      PROVE  e.value = v
  <2>1. ~ Appears(s, e)
    <3>1. e.term \in Nat
      BY <1>1, <1>3, BoundsAssumption DEF Entries, Terms
    <3> QED
      BY <1>1, <1>3, <1>7, <3>1
  <2>2. s \in DOMAIN col /\ e = Stamped(col[s], T)
    BY <1>7, <2>1, ElectsAppears
  <2>3. e = d.wal[s]
    BY <1>2, <2>2 DEF RestoredAs
  <2> QED
    BY <2>3
<1>8. ASSUME NEW m \in Node, ctx'[m].log.term >= T, ctx'[m].log.slot >= s
      PROVE  s \in DOMAIN ctx'[m].wal /\ ctx'[m].wal[s].term >= T
  <2>1. CASE m = n
    BY <1>1, <2>1
  <2>2. CASE m # n
    <3>1. ctx'[m].log = ctx[m].log
      BY <2>2, ElectsOthers
    <3> QED
      BY <1>1, <1>3, <1>4, <1>8, <3>1
  <2> QED
    BY <2>1, <2>2
<1>9. \A m \in Node : role'[m] = "Leader" /\ ctx'[m].term >= T => m = n
  <2> SUFFICES ASSUME NEW m \in Node, role'[m] = "Leader", ctx'[m].term >= T, m # n
               PROVE  FALSE
    OBVIOUS
  <2>1. ctx'[m].term = ctx[m].term
    BY ElectsOthers
  <2> QED
    BY <1>1, <1>3, <1>4, <2>1
<1>10. ASSUME NEW m \in Node, NEW f \in Node, NEW r \in InFlight(m, f)', r.term >= T
       PROVE  Covers(r, T, s)
  <2>1. r \in Requests /\ r.term \in Nat
    BY TypesAfter, RequestElim
  <2>2. r \notin InFlight(m, f)
    BY <1>1, <1>3, <1>10, <2>1
  <2>3. role'[m] = "Leader" /\ SentFrom(ctx'[m], r)
    BY <1>1, <2>2 DEF Sending
  <2>4. m = n
    BY <1>9, <1>10, <2>3 DEF SentFrom
  <2>5. SentFrom(d, r)
    BY <1>1, <2>3, <2>4
  <2>6. \A t \in Nat : d.wal[s].term >= t => Covers(r, t, s)
    BY <1>1, <1>5, <2>1, <2>5, SentFromIs
  <2> QED
    BY <1>1, <2>6
<1>11. ASSUME NEW m \in Node, role'[m] = "Leader", ctx'[m].term >= T
       PROVE  ctx'[m].log.term >= T /\ ctx'[m].log.slot >= s
  BY <1>1, <1>4, <1>6, <1>9, <1>11
<1>12. \A m, f \in Node : \A r \in InFlight(m, f)' :
         r.term > T \/ (r.term = T /\ LastWritten(r) >= s) => Covers(r, T, s)
  <2> SUFFICES ASSUME NEW m \in Node, NEW f \in Node, NEW r \in InFlight(m, f)',
                      r.term > T \/ (r.term = T /\ LastWritten(r) >= s)
               PROVE  r.term >= T
    BY <1>10
  <2>1. r.term \in Nat
    BY TypesAfter, RequestElim
  <2> QED
    BY <1>1, <2>1
<1> QED
  BY <1>7, <1>8, <1>11, <1>12 DEF Agreed, Reach

LEMMA ElectsStays ==
  ASSUME Cardinality(Node) <= 4, TypeInv, TypeInv', TermInv, TermInv', LogsWellFormed,
         NEW n \in Node, NEW V \in SUBSET Peers(n), NEW T, NEW col, NEW d,
         Elects(n, V, T, col, d)
  PROVE  Stays /\ AllButOne'
<1>1. ASSUME NEW t \in Terms, NEW s \in Slots, NEW v \in Values, Grounded(t, s, v)
      PROVE  Grounded(t, s, v)'
  <2>1. PICK m1, m2 \in Node : m1 # m2 /\ Reach(m1, t, s) /\ Reach(m2, t, s)
    BY <1>1 DEF Grounded
  <2>2. m1 \in V \union {n} \/ m2 \in V \union {n}
    BY <2>1, ElectsOne
  <2>3. Reach(n, t, s)
    BY <2>1, <2>2, ElectsReach
  <2>4. Agreed(t, s, v)'
    BY <1>1, <2>3, ElectsAgreed DEF Grounded
  <2>5. Reach(m1, t, s)' /\ Reach(m2, t, s)'
    BY <2>1, ElectsReach
  <2> QED
    BY <2>1, <2>4, <2>5 DEF Grounded
<1>2. \A t \in Terms, s \in Slots : \A m \in Node : Reach(m, t, s) => Reach(m, t, s)'
  BY ElectsReach
<1>3. Stays
  BY <1>1, <1>2 DEF Stays
<1>4. \A m \in Node : ctx'[m].term <= T /\ (m \in V \union {n} => ctx'[m].term = T)
  <2> TAKE m \in Node
  <2>1. T \in Nat /\ ctx[m].term < T /\ ctx[m].term \in Nat
    BY ElectsIs, ElectsAfresh, TermsAreNumbers
  <2>2. CASE m = n
    <3>1. RestoredAs(n, T, col, d) /\ ctx'[n] = d
      BY ElectsWith, ElectsIs
    <3>2. d.term = T
      BY <3>1 DEF RestoredAs
    <3> QED
      BY <2>1, <2>2, <3>1, <3>2
  <2>3. CASE m # n
    <3>1. ctx'[m].term = IF m \in V THEN T ELSE ctx[m].term
      BY <2>3, ElectsOthers
    <3> QED
      BY <2>1, <2>3, <3>1
  <2> QED
    BY <2>2, <2>3
<1>5. AllButOne'
  <2> SUFFICES ASSUME NEW m1 \in Node, NEW m2 \in Node, NEW k \in Node, m1 # m2
               PROVE  ctx'[m1].term >= ctx'[k].term \/ ctx'[m2].term >= ctx'[k].term
    BY DEF AllButOne
  <2>1. m1 \in V \union {n} \/ m2 \in V \union {n}
    BY ElectsOne
  <2>2. ctx'[k].term \in Nat /\ T \in Nat
    BY TypesAfter, ElectsIs
  <2> QED
    BY <1>4, <2>1, <2>2
<1> QED
  BY <1>3, <1>5

\* Who leads afterwards, and did not win, led before.
LEMMA ElectsLeaders ==
  ASSUME TypeInv, NEW n \in Node, NEW V \in SUBSET Peers(n), NEW T, NEW col, NEW d,
         Elects(n, V, T, col, d), NEW k \in Node, k # n, role'[k] = "Leader"
  PROVE  /\ k \notin V /\ role[k] = "Leader" /\ office'[k] = office[k]
         /\ ctx'[k].term = ctx[k].term /\ ctx'[k].log = ctx[k].log
         /\ ctx'[k].committed = ctx[k].committed /\ ctx'[k].wal = ctx[k].wal
<1>1. /\ role'[k] = IF k \in V THEN "Follower" ELSE role[k]
      /\ office'[k] = IF k \in V THEN NoOffice ELSE office[k]
      /\ ctx'[k].term = IF k \in V THEN T ELSE ctx[k].term
  BY ElectsOthers
<1>2. /\ ctx'[k].log = ctx[k].log /\ ctx'[k].committed = ctx[k].committed
      /\ ctx'[k].wal = ctx[k].wal
  BY ElectsOthers
<1> QED
  BY <1>1, <1>2

\* No log but the new Leader's moves, and that one into the new term.
LEMMA ElectsLogs ==
  ASSUME TypeInv, TermInv, NEW n \in Node, NEW V \in SUBSET Peers(n), NEW T, NEW col, NEW d,
         Elects(n, V, T, col, d), NEW m \in Node
  PROVE  ctx'[m].log = ctx[m].log \/ (m = n /\ ctx'[m].log.term = T)
<1>1. CASE m # n
  BY <1>1, ElectsOthers
<1>2. CASE m = n
  <2>1. RestoredAs(n, T, col, d) /\ ctx'[n] = d
    BY ElectsWith, ElectsIs
  <2> QED
    BY <1>2, <2>1 DEF RestoredAs
<1> QED
  BY <1>1, <1>2

LEMMA ElectsLeaderLog ==
  ASSUME Cardinality(Node) <= 4, TypeInv, TypeInv', TermInv, TermInv', DurabilityInv,
         NEW n \in Node, NEW V \in SUBSET Peers(n), NEW T, NEW col, NEW d,
         Elects(n, V, T, col, d)
  PROVE  LeaderLog'
<1>1. T \in Nat /\ T \in Terms /\ Sending /\ ctx'[n] = d /\ d \in Contexts
  BY ElectsIs
<1>2. d.term = T
  <2>1. RestoredAs(n, T, col, d)
    BY ElectsWith
  <2> QED
    BY <2>1 DEF RestoredAs
<1>3. LogsWellFormed
  BY DEF DurabilityInv
<1>4. FullAs(n, T, col, d) /\ LogsWellFormed'
  BY <1>3, ElectsShape
<1>5. /\ \A m \in Node : ctx[m].term < T /\ ctx[m].log.term < T
      /\ \A m, f \in Node : \A r \in InFlight(m, f) : r.term < T
  BY ElectsAfresh
<1>6. \A m \in Node : ctx[m].term \in Nat /\ ctx[m].log.term \in Nat
  BY TermsAreNumbers, ContextElim
<1>7. ASSUME NEW k \in Node, NEW f \in Node, NEW r \in InFlight(k, f)', r \notin InFlight(k, f)
      PROVE  LastWritten(r) <= ctx'[k].log.slot
  <2>1. r \in Requests /\ ctx'[k] \in Contexts
    BY TypesAfter
  <2>2. SentFrom(ctx'[k], r)
    BY <1>1, <1>7 DEF Sending
  <2>3. WalShape(ctx'[k]) /\ ctx'[k].log.term <= ctx'[k].term
    BY <1>4 DEF LogsWellFormed, TermInv, TermsOpened
  <2> QED
    BY <2>1, <2>2, <2>3, SentFromIs
<1>8. \A m \in Node : ctx'[m].log.term = T => m = n
  <2>1. \A m \in Node : ctx'[m].log = ctx[m].log \/ m = n
    BY ElectsLogs
  <2> QED
    BY <1>1, <1>5, <1>6, <2>1
<1> SUFFICES ASSUME NEW k \in Node, role'[k] = "Leader"
             PROVE  /\ DOMAIN ctx'[k].wal = 1..ctx'[k].log.slot
                    /\ \A s \in DOMAIN ctx'[k].wal :
                         ctx'[k].wal[s].term < ctx'[k].term => s <= ctx'[k].committed
                    /\ \A m \in Node : ctx'[m].log.term = ctx'[k].term
                         => ctx'[m].log.slot <= ctx'[k].log.slot /\ ctx'[k].log.term = ctx'[k].term
                    /\ \A g \in Node : \A x \in InFlight(k, g)' :
                         x.term = ctx'[k].term => LastWritten(x) <= ctx'[k].log.slot
                    /\ Newest(k)' => \A t \in Terms, v \in Values : \A s \in DOMAIN ctx'[k].wal :
                         t = ctx'[k].term /\ t = ctx'[k].wal[s].term /\ v = ctx'[k].wal[s].value
                           => Agreed(t, s, v)'
  BY DEF LeaderLog
<1>9. CASE k = n
  <2>1. DOMAIN d.wal = 1..d.log.slot
    BY <1>4 DEF FullAs
  <2>2. \A s \in DOMAIN d.wal : d.wal[s].term < d.term => s <= d.committed
    <3>1. \A s \in DOMAIN d.wal : d.wal[s].term < T => d.wal[s].term # T
      BY <1>1
    <3> QED
      BY <1>2, <1>4, <3>1 DEF FullAs
  <2>3. \A m \in Node : ctx'[m].log.term = d.term
          => ctx'[m].log.slot <= d.log.slot /\ d.log.term = d.term
    <3>1. d.log.slot \in Nat
      BY <1>1, ContextElim
    <3> QED
      BY <1>1, <1>2, <1>8, <3>1
  <2>4. \A g \in Node : \A x \in InFlight(n, g)' : x.term = d.term => LastWritten(x) <= d.log.slot
    <3> SUFFICES ASSUME NEW g \in Node, NEW x \in InFlight(n, g)', x.term = T
                 PROVE  LastWritten(x) <= d.log.slot
      BY <1>2
    <3>1. x \notin InFlight(n, g)
      BY <1>1, <1>5
    <3> QED
      BY <1>1, <1>7, <3>1
  <2>5. \A t \in Terms, v \in Values : \A s \in DOMAIN d.wal :
          t = d.term /\ t = d.wal[s].term /\ v = d.wal[s].value => Agreed(t, s, v)'
    BY <1>2, <1>3, ElectsOwn
  <2> QED
    BY <1>1, <1>9, <2>1, <2>2, <2>3, <2>4, <2>5
<1>10. CASE k # n
  <2>1. /\ role[k] = "Leader" /\ ctx'[k].term = ctx[k].term /\ ctx'[k].log = ctx[k].log
        /\ ctx'[k].committed = ctx[k].committed /\ ctx'[k].wal = ctx[k].wal
    BY <1>10, ElectsLeaders
  <2>2. /\ DOMAIN ctx[k].wal = 1..ctx[k].log.slot
        /\ \A s \in DOMAIN ctx[k].wal : ctx[k].wal[s].term < ctx[k].term => s <= ctx[k].committed
        /\ \A m \in Node : ctx[m].log.term = ctx[k].term
             => ctx[m].log.slot <= ctx[k].log.slot /\ ctx[k].log.term = ctx[k].term
        /\ \A g \in Node : \A x \in InFlight(k, g) :
             x.term = ctx[k].term => LastWritten(x) <= ctx[k].log.slot
    BY <2>1 DEF DurabilityInv, LeaderLog
  <2>3. \A m \in Node : ctx'[m].log.term = ctx[k].term => ctx'[m].log = ctx[m].log
    <3>1. ctx[k].term # T
      BY <1>1, <1>5, <1>6
    <3> QED
      BY <3>1, ElectsLogs
  <2>4. ~ Newest(k)'
    <3>1. ~ (ctx'[n].term <= ctx'[k].term)
      BY <1>1, <1>2, <1>5, <1>6, <2>1
    <3> QED
      BY <3>1 DEF Newest
  <2>5. \A g \in Node : \A x \in InFlight(k, g)' :
          x.term = ctx[k].term => LastWritten(x) <= ctx[k].log.slot
    BY <1>7, <2>1, <2>2
  <2> QED
    BY <2>1, <2>2, <2>3, <2>4, <2>5
<1> QED
  BY <1>9, <1>10

LEMMA ElectsRequested ==
  ASSUME Cardinality(Node) <= 4, TypeInv, TypeInv', TermInv, TermInv', DurabilityInv,
         NEW n \in Node, NEW V \in SUBSET Peers(n), NEW T, NEW col, NEW d,
         Elects(n, V, T, col, d), Stays, AllButOne', LogsWellFormed', LeaderLog', CommittedBacked'
  PROVE  Requested'
<1>1. T \in Nat /\ Sending /\ chosen' = chosen /\ ctx'[n] = d
  BY ElectsIs
<1>2. d.term = T
  <2>1. RestoredAs(n, T, col, d)
    BY ElectsWith
  <2> QED
    BY <2>1 DEF RestoredAs
<1>3. /\ \A m \in Node : ctx[m].term < T
      /\ \A m, f \in Node : \A r \in InFlight(m, f) : r.term < T
  BY ElectsAfresh
<1>4. \A m \in Node : ctx[m].term \in Nat /\ ctx'[m].term \in Nat
  BY TermsAreNumbers, TypesAfter
<1>5. \A m \in Node : m \notin V \union {n} =>
        ctx'[m].term = ctx[m].term /\ ctx'[m].log = ctx[m].log
  <2> SUFFICES ASSUME NEW m \in Node, m \notin V \union {n}
               PROVE  ctx'[m].term = ctx[m].term /\ ctx'[m].log = ctx[m].log
    OBVIOUS
  <2>1. ctx'[m].term = (IF m \in V THEN T ELSE ctx[m].term) /\ ctx'[m].log = ctx[m].log
    BY ElectsOthers
  <2> QED
    BY <2>1
<1>6. \A m \in Node : m \in V \union {n} => ctx'[m].term = T
  <2> SUFFICES ASSUME NEW m \in V, m # n, m \in Node
               PROVE  ctx'[m].term = T
    BY <1>1, <1>2 DEF Peers
  <2>1. ctx'[m].term = IF m \in V THEN T ELSE ctx[m].term
    BY ElectsOthers
  <2> QED
    BY <2>1
<1> SUFFICES ASSUME NEW m \in Node, NEW g \in Node, NEW x \in InFlight(m, g)'
             PROVE  RequestedOf(m, g, x)'
  BY DEF Requested
<1>7. CASE x \notin InFlight(m, g)
  <2>1. role'[m] = "Leader" /\ g # m /\ SentFrom(ctx'[m], x)
    BY <1>1, <1>7 DEF Sending
  <2> QED
    BY <2>1, SentRequested
<1>8. CASE x \in InFlight(m, g)
  <2>1. RequestedOf(m, g, x)
    BY <1>8 DEF DurabilityInv, Requested
  <2>2. /\ x \in Requests /\ x.term \in Nat /\ x.term \in Terms /\ x.term < T
        /\ LastWritten(x) \in Nat /\ LastWritten(x) <= MaxSlot
        /\ x.commit \in Nat /\ x.commit <= MaxSlot
    BY <1>3, <1>8, TypesAfter, RequestElim, BoundsAssumption
  <2>3. RequestShape(x) /\ x.term <= ctx'[m].term
    <3>1. ctx'[m].term = ctx[m].term \/ ctx'[m].term = T
      BY <1>5, <1>6
    <3>2. RequestShape(x) /\ x.term <= ctx[m].term
      BY <2>1 DEF RequestedOf
    <3> QED
      BY <1>1, <2>2, <3>1, <3>2
  <2>4. ASSUME NEW s \in 1..x.commit
        PROVE  \E v \in Values, t \in 0..x.term :
                 [slot |-> s, value |-> v] \in chosen' /\ Grounded(t, s, v)'
    <3>1. PICK v \in Values, t \in 0..x.term :
            [slot |-> s, value |-> v] \in chosen /\ Grounded(t, s, v)
      BY <2>1 DEF RequestedOf
    <3>2. t \in Terms /\ s \in Slots
      BY <2>2, BoundsAssumption DEF Terms, Slots
    <3> QED
      BY <1>1, <3>1, <3>2 DEF Stays
  <2>5. x.term >= ctx'[g].term => g \notin V \union {n}
    BY <1>1, <1>6, <2>2
  <2>6. x.term = ctx'[g].term /\ x.term = ctx'[g].log.term => LastWritten(x) >= ctx'[g].log.slot
    <3> SUFFICES ASSUME x.term = ctx'[g].term, x.term = ctx'[g].log.term
                 PROVE  LastWritten(x) >= ctx'[g].log.slot
      OBVIOUS
    <3>1. x.term >= ctx'[g].term
      BY <2>2
    <3>2. ctx'[g].term = ctx[g].term /\ ctx'[g].log = ctx[g].log
      BY <1>5, <2>5, <3>1
    <3> QED
      BY <2>1, <3>2 DEF RequestedOf
  <2>7. ASSUME x.term >= ctx'[g].term, NEW s \in 1..LastWritten(x)
        PROVE  \E v \in Values, t \in Terms :
                 Agreed(t, s, v)' /\ Covers(x, t, s) /\ \E k \in Node \ {g} : Reach(k, t, s)'
    <3>1. g \notin V \union {n} /\ ctx'[g].term = ctx[g].term
      BY <1>5, <2>5, <2>7
    <3>2. PICK v \in Values, t \in Terms :
            Agreed(t, s, v) /\ Covers(x, t, s) /\ \E k \in Node \ {g} : Reach(k, t, s)
      BY <2>1, <2>7, <3>1 DEF RequestedOf
    <3>3. s \in Slots
      BY <2>2, BoundsAssumption DEF Slots
    <3>4. PICK k \in Node : k # g /\ Reach(k, t, s)
      BY <3>2
    <3>5. k \in V \union {n}
      BY <3>1, <3>4, ElectsOne
    <3>6. LogsWellFormed
      BY DEF DurabilityInv
    <3>7. Reach(k, t, s)' /\ (k \in V => Reach(n, t, s))
      BY <3>3, <3>4, <3>6, ElectsReach
    <3>8. Reach(n, t, s)
      BY <3>4, <3>5, <3>7
    <3>9. Agreed(t, s, v)'
      BY <3>2, <3>3, <3>6, <3>8, ElectsAgreed
    <3> QED
      BY <3>2, <3>4, <3>7, <3>9
  <2> QED
    BY <2>3, <2>4, <2>6, <2>7 DEF RequestedOf
<1> QED
  BY <1>7, <1>8

LEMMA ElectsLogsMatch ==
  ASSUME TypeInv, TypeInv', TermInv, DurabilityInv,
         NEW n \in Node, NEW V \in SUBSET Peers(n), NEW T, NEW col, NEW d,
         Elects(n, V, T, col, d), Stays
  PROVE  LogsMatch'
<1> SUFFICES ASSUME NEW m1 \in Node, NEW m2 \in Node, m1 # m2,
                    ctx'[m1].log.term = ctx'[m2].log.term,
                    NEW s \in 1..ctx'[m1].log.slot, s <= ctx'[m2].log.slot
             PROVE  BackedAlike(m1, m2, s)'
  BY DEF LogsMatch
<1>1. \A m \in Node : /\ ctx[m].log.term \in Nat /\ ctx[m].log.term < T
                      /\ ctx[m].log.slot \in Nat /\ ctx[m].log.slot <= MaxSlot
  BY ElectsAfresh, TermsAreNumbers, ContextElim
<1>2. T \in Nat
  BY ElectsIs
<1>3. /\ ctx'[m1].log = ctx[m1].log \/ (m1 = n /\ ctx'[m1].log.term = T)
      /\ ctx'[m2].log = ctx[m2].log \/ (m2 = n /\ ctx'[m2].log.term = T)
  BY ElectsLogs
<1>4. ctx'[m1].log = ctx[m1].log /\ ctx'[m2].log = ctx[m2].log
  BY <1>1, <1>2, <1>3
<1>5. BackedAlike(m1, m2, s)
  BY <1>4 DEF DurabilityInv, LogsMatch
<1>6. s \in Slots
  BY <1>1, <1>4, BoundsAssumption DEF Slots
<1> QED
  BY <1>5, <1>6, BackedAlikeStays

\* The marks that the new Leader starts with come from the ends of two logs.
LEMMA ElectsBoards ==
  ASSUME TypeInv, TypeInv', TermInv, DurabilityInv,
         NEW n \in Node, NEW V \in SUBSET Peers(n), NEW T, NEW col, NEW d,
         Elects(n, V, T, col, d), Stays
  PROVE  BoardsBacked'
<1> SUFFICES ASSUME NEW m \in Node, role'[m] = "Leader", NEW g \in Peers(m),
                    NEW s \in 1..office'[m].pos[g].match
             PROVE  BackedAlike(m, g, s)'
  BY DEF BoardsBacked
<1>1. CASE m # n
  <2>1. role[m] = "Leader" /\ office'[m] = office[m]
    BY <1>1, ElectsLeaders
  <2>2. BoardsBacked
    BY DEF DurabilityInv
  <2> QED
    BY <2>1, <2>2, BoardKept
<1>2. CASE m = n
  <2>1. g \in Node /\ g # n /\ \A k \in Node : ctx[k].log.slot \in Nat /\ ctx[k].log.slot <= MaxSlot
    BY <1>2, TermsAreNumbers, ContextElim DEF Peers
  <2>2. s \in 1..SeedOf(n, V, g)
    BY <1>2, ElectsIs
  <2>3. /\ ctx[g].log.term = ctx[n].log.term
        /\ s \in 1..ctx[n].log.slot /\ s <= ctx[g].log.slot
    BY <2>1, <2>2 DEF SeedOf
  <2>4. LogsMatch
    BY DEF DurabilityInv
  <2>5. BackedAlike(n, g, s)
    BY <2>1, <2>3, <2>4 DEF LogsMatch
  <2>6. s \in Slots
    BY <2>1, <2>3, BoundsAssumption DEF Slots
  <2> QED
    BY <1>2, <2>1, <2>5, <2>6, BackedAlikeStays
<1> QED
  BY <1>1, <1>2

LEMMA ElectsUnlessPanics ==
  ASSUME AnchorsInLog', TypeInv, NEW n \in Node, NEW V \in SUBSET Peers(n), TakeOffice(n, V)
  PROVE  \E T, col, d : Elects(n, V, T, col, d)
<1>1. PICK T, col, d : T = NewTerm(n, V) /\ col = Gathered(n, V) /\ d = Restored(n, V)
  OBVIOUS
<1>2. role'[n] = "Crashed" \/ role'[n] = "Leader"
  BY TakeOfficeIs DEF TypeInv
<1>3. role'[n] # "Crashed"
  BY DEF AnchorsInLog
<1>4. Elects(n, V, T, col, d)
  BY <1>1, <1>2, <1>3 DEF Elects
<1> QED
  BY <1>4

LEMMA TakeOfficeDurable ==
  ASSUME Cardinality(Node) <= 4, AnchorsInLog', TypeInv, TypeInv', TermInv, TermInv',
         DurabilityInv, NEW n \in Node, NEW V \in SUBSET Peers(n), TakeOffice(n, V)
  PROVE  DurabilityInv'
<1>1. PICK T, col, d : Elects(n, V, T, col, d)
  BY ElectsUnlessPanics
<1>2. /\ T \in Nat /\ ctx'[n] = d /\ Sending /\ QueueMoves
      /\ UNCHANGED <<replies, writes, chosen, acked>>
  BY <1>1, ElectsIs
<1>3. RestoredAs(n, T, col, d)
  BY <1>1, ElectsWith
<1>4. LogsWellFormed /\ TermsOpened' /\ OneLeader'
  BY DEF DurabilityInv, TermInv
<1>5. LogsWellFormed'
  BY <1>1, <1>4, ElectsShape
<1>6. Stays /\ AllButOne'
  BY <1>1, <1>4, ElectsStays
<1>7. LeaderLog'
  BY <1>1, ElectsLeaderLog
<1>8. \A m \in Node : ctx[m].term \in Nat /\ ctx[m].term < T
  BY <1>1, TermsAreNumbers, ElectsAfresh
<1>9. \A m \in Node : ctx'[m].committed = ctx[m].committed
  <2> TAKE m \in Node
  <2>1. CASE m = n
    BY <1>2, <1>3, <2>1 DEF RestoredAs
  <2>2. CASE m # n
    BY <1>1, <2>2, ElectsOthers
  <2> QED
    BY <2>1, <2>2
<1>10. \A m \in Node : ctx'[m].term = ctx[m].term \/ ctx'[m].term = T
  <2> TAKE m \in Node
  <2>1. CASE m = n
    BY <1>2, <1>3, <2>1 DEF RestoredAs
  <2>2. CASE m # n
    <3>1. ctx'[m].term = IF m \in V THEN T ELSE ctx[m].term
      BY <1>1, <2>2, ElectsOthers
    <3> QED
      BY <3>1
  <2> QED
    BY <2>1, <2>2
<1>11. \A m \in Node : ctx'[m].term >= ctx[m].term
  BY <1>2, <1>8, <1>10
<1>12. CommittedBacked'
  <2> SUFFICES ASSUME NEW m \in Node, NEW s \in 1..ctx'[m].committed
               PROVE  \E v \in Values : [slot |-> s, value |-> v] \in chosen' /\ Backed(m, s, v)'
    BY DEF CommittedBacked
  <2>1. CommittedBacked /\ chosen \subseteq chosen' /\ s \in 1..ctx[m].committed
    BY <1>2, <1>9 DEF DurabilityInv
  <2> QED
    BY <1>6, <2>1, CommittedKept
<1>13. Requested'
  BY <1>1, <1>5, <1>6, <1>7, <1>12, ElectsRequested
<1>14. OneSender'
  BY <1>2, <1>4, OneSenderAfter DEF DurabilityInv
<1>15. QueuesSorted'
  BY <1>2, <1>4, <1>5, <1>7, <1>11, QueuesAfter DEF DurabilityInv
<1>16. LogsMatch'
  BY <1>1, <1>6, ElectsLogsMatch
<1>17. BoardsBacked'
  BY <1>1, <1>6, ElectsBoards
<1>18. RepliesBacked'
  <2> SUFFICES ASSUME NEW r \in replies
               PROVE  /\ r.term <= ctx'[r.from].term
                      /\ role'[r.to] = "Leader" /\ r.term = ctx'[r.to].term /\ r.outcome = "written"
                           => \A s \in 1..r.slot : BackedAlike(r.to, r.from, s)'
    BY <1>2 DEF RepliesBacked
  <2>1. r.from \in Node /\ r.to \in Node /\ r.term \in Nat /\ r.slot \in 0..MaxSlot
    <3>1. r \in Replies
      BY DEF TypeInv, TypeOK
    <3> QED
      BY <3>1, BoundsAssumption DEF Replies, Terms
  <2>2. r.term < T
    BY <1>1, ElectsAfresh
  <2>3. r.term <= ctx[r.from].term
    BY DEF DurabilityInv, RepliesBacked
  <2>4. r.term <= ctx'[r.from].term
    BY <1>2, <1>8, <1>10, <2>1, <2>2, <2>3
  <2>5. ASSUME role'[r.to] = "Leader", r.term = ctx'[r.to].term, r.outcome = "written",
               NEW s \in 1..r.slot
        PROVE  BackedAlike(r.to, r.from, s)'
    <3>1. r.to # n
      BY <1>2, <1>3, <2>1, <2>2, <2>5 DEF RestoredAs
    <3>2. role[r.to] = "Leader" /\ ctx'[r.to].term = ctx[r.to].term
      BY <1>1, <2>1, <2>5, <3>1, ElectsLeaders
    <3>3. BackedAlike(r.to, r.from, s)
      BY <2>5, <3>2 DEF DurabilityInv, RepliesBacked
    <3>4. s \in Slots
      BY <2>1, BoundsAssumption DEF Slots
    <3> QED
      BY <1>6, <2>1, <3>3, <3>4, BackedAlikeStays
  <2> QED
    BY <2>4, <2>5
<1>19. ChosenBacked'
  <2>1. \A x \in chosen : Cardinality({m \in Node : Backed(m, x.slot, x.value)'}) >= QuorumSize
    BY <1>6, ChosenStaysBacked DEF DurabilityInv
  <2> QED
    BY <1>2, <2>1 DEF ChosenBacked
<1> QED
  BY <1>5, <1>6, <1>7, <1>12, <1>13, <1>14, <1>15, <1>16, <1>17, <1>18, <1>19 DEF DurabilityInv

-----------------------------------------------------------------------------
(* Durability. *)

LEMMA InitDurable == Init => DurabilityInv
<1> SUFFICES ASSUME Init PROVE DurabilityInv
  OBVIOUS
<1>1. \A m \in Node : role[m] = "Follower" /\ ctx[m] = NewContext
  BY DEF Init
<1>2. \A m, f \in Node : Len(calls[m][f]) = 0 /\ InFlight(m, f) = {}
  <2>1. \A m, f \in Node : calls[m][f] = <<>> /\ Len(<<>>) = 0
    BY EmptySeq DEF Init
  <2> QED
    BY <2>1 DEF InFlight
<1>3. /\ DOMAIN NewContext.wal = {} /\ DOMAIN NewContext.uncommitted = {}
      /\ NewContext.term = 0 /\ NewContext.committed = 0
      /\ NewContext.log.slot = 0 /\ NewContext.log.term = 0
  BY NewContextIs DEF NewContext
<1>4. 1..0 = {} /\ 0 \in 0..0
  OBVIOUS
<1>5. AllButOne /\ LeaderLog /\ BoardsBacked
  BY <1>1, <1>3 DEF AllButOne, LeaderLog, BoardsBacked
<1>6. LogsWellFormed
  <2>1. WalShape(NewContext)
    <3>1. DOMAIN NewContext.wal = 1..0 /\ NewContext.committed <= 0 /\ 0 \in 0..NewContext.log.slot
      BY <1>3, <1>4
    <3>2. /\ \A s1, s2 \in DOMAIN NewContext.wal :
               s1 <= s2 => NewContext.wal[s1].term <= NewContext.wal[s2].term
          /\ \A s \in DOMAIN NewContext.wal : NewContext.wal[s].term <= NewContext.log.term
      BY <1>3
    <3> QED
      BY <3>1, <3>2 DEF WalShape
  <2>2. PendingShape(NewContext)
    <3>1. (NewContext.committed + 1)..NewContext.log.slot = {}
      BY <1>3
    <3> QED
      BY <1>3, <3>1 DEF PendingShape
  <2> QED
    BY <1>1, <2>1, <2>2 DEF LogsWellFormed
<1>7. Requested /\ OneSender
  BY <1>2 DEF Requested, OneSender
<1>8. QueuesSorted
  BY <1>2, <1>4 DEF QueuesSorted
<1>9. LogsMatch /\ CommittedBacked
  BY <1>1, <1>3, <1>4 DEF LogsMatch, CommittedBacked
<1>10. RepliesBacked /\ ChosenBacked
  BY DEF Init, RepliesBacked, ChosenBacked
<1> QED
  BY <1>5, <1>6, <1>7, <1>8, <1>9, <1>10 DEF DurabilityInv

\* Who has panicked is down for good.
LEMMA NoneRises ==
  ASSUME TypeInv, TermInv, [Next]_vars, AnchorsInLog'
  PROVE  AnchorsInLog
<1> SUFFICES \A m \in Node : role[m] = "Crashed" => role'[m] = "Crashed"
  BY DEF AnchorsInLog
<1>1. ASSUME NEW n \in Node, NEW V \in SUBSET Peers(n), TakeOffice(n, V), NEW m \in Node,
             role[m] = "Crashed"
      PROVE  role'[m] = "Crashed"
  <2>1. m # n /\ m \notin V
    BY <1>1 DEF TakeOffice, Grants
  <2>2. PICK T, col, d : Elects(n, V, T, col, d)
    BY <1>1, ElectsUnlessPanics
  <2>3. role'[m] = IF m \in V THEN "Follower" ELSE role[m]
    BY <2>1, <2>2, ElectsOthers
  <2> QED
    BY <1>1, <2>1, <2>3
<1>2. ASSUME NEW n \in Node, ClientWrite(n)
      PROVE  role' = role
  BY <1>2 DEF ClientWrite
<1>3. Moves => \A m \in Node : role[m] = "Crashed" => role'[m] = "Crashed"
  BY DEF Moves, TermsGrow
<1>4. TypeOK /\ Shapes
  BY DEF TypeInv
<1> QED
  BY <1>1, <1>2, <1>3, <1>4, NextIs, ResendsMoves, AcknowledgesMoves, AcceptsMoves, RejectsMoves,
     HigherTermMoves, QuietMoves

LEMMA StepDurable ==
  ASSUME InOrder, Cardinality(Node) <= 4, TypeInv, TermInv, Durable, [Next]_vars
  PROVE  Durable'
<1> SUFFICES ASSUME AnchorsInLog' PROVE DurabilityInv'
  BY DEF Durable, AnchorsInLog
<1>1. DurabilityInv
  BY NoneRises DEF Durable
<1>2. TypeInv' /\ TermInv'
  BY StepTypes, StepTerms
<1>3. TypeOK /\ Shapes
  BY DEF TypeInv
<1> QED
  BY <1>1, <1>2, <1>3, NextIs, TakeOfficeDurable, ClientWriteDurable, ResendsDurable,
     AcknowledgesDurable, AcceptsDurable, RejectsDurable, HigherTermDurable, QuietDurable

LEMMA DurabilityIsInvariant ==
  ASSUME InOrder, Cardinality(Node) <= 4
  PROVE  Spec => [](TypeInv /\ TermInv /\ Durable)
<1>1. Init => Durable
  BY InitDurable DEF Durable
<1>2. TypeInv /\ TermInv /\ Durable /\ [Next]_vars => Durable'
  BY StepDurable
<1> QED
  BY <1>1, <1>2, TermsAreInvariant, PTL DEF Spec

\* What a Leader has committed, and may have answered its client for, is in the logs of
\* a quorum and stays there, whatever followers truncate (handle_accept_request) and
\* new Leaders restamp (process_uncommitted_logs): in groups of at most four, as long
\* as requests are handled in the order they were sent and no Leader has panicked.
THEOREM ChosenWritesStay ==
  ASSUME InOrder, Cardinality(Node) <= 4
  PROVE  Spec => [](AnchorsInLog => ChosenStays)
<1>1. ASSUME TypeInv, DurabilityInv
      PROVE  ChosenStays
  <2> SUFFICES ASSUME NEW e \in chosen
               PROVE  Cardinality({m \in Node : Holds(m, e)}) >= QuorumSize
    BY DEF ChosenStays
  <2> DEFINE Q == {m \in Node : Backed(m, e.slot, e.value)}
             R == {m \in Node : Holds(m, e)}
  <2>1. e.slot \in Slots /\ e.value \in Values
    BY <1>1 DEF TypeInv, TypeOK
  <2>2. Q \subseteq R /\ R \subseteq Node
    BY <1>1, <2>1, BackedIs DEF Holds
  <2>3. Cardinality(Q) >= QuorumSize
    BY <1>1 DEF DurabilityInv, ChosenBacked
  <2> HIDE DEF Q, R
  <2>4. IsFiniteSet(R)
    BY <2>2, NodeAssumption, FS_Subset
  <2>5. IsFiniteSet(Q) /\ Cardinality(Q) <= Cardinality(R)
    BY <2>2, <2>4, FS_Subset
  <2>6. Cardinality(R) \in Nat /\ Cardinality(Q) \in Nat
    BY <2>4, <2>5, FS_CardinalityType
  <2>7. PICK n \in Node : TRUE
    BY NodeAssumption, FS_EmptySet
  <2>8. QuorumSize \in Nat
    BY <2>7, PeersIs
  <2>9. Cardinality(R) >= QuorumSize
    BY <2>3, <2>5, <2>6, <2>8
  <2> QED
    BY <2>9 DEF R
<1>2. TypeInv /\ TermInv /\ Durable => (AnchorsInLog => ChosenStays)
  BY <1>1 DEF Durable
<1> QED
  BY <1>2, DurabilityIsInvariant, PTL

\* Under the same conditions, a Leader that no later one has replaced has every
\* committed entry, although flush_uncommitted_logs collects from its voters only what
\* they have not committed themselves.
THEOREM LeadersAreComplete ==
  ASSUME InOrder, Cardinality(Node) <= 4
  PROVE  Spec => [](AnchorsInLog => LeaderComplete)
<1>1. ASSUME TypeInv, TermInv, DurabilityInv
      PROVE  LeaderComplete
  <2> SUFFICES ASSUME NEW n \in Node, Newest(n), NEW e \in chosen
               PROVE  Holds(n, e)
    BY DEF LeaderComplete
  <2>1. e.slot \in Slots /\ e.value \in Values
    BY <1>1 DEF TypeInv, TypeOK
  <2>2. PICK m \in Node : Backed(m, e.slot, e.value)
    <3> DEFINE Q == {m \in Node : Backed(m, e.slot, e.value)}
    <3>1. Cardinality(Q) >= QuorumSize
      BY <1>1 DEF DurabilityInv, ChosenBacked
    <3>2. QuorumSize \in Nat /\ QuorumSize >= 2
      BY PeersIs
    <3>3. Q # {}
      <4>1. Q = {} => Cardinality(Q) = 0
        BY FS_EmptySet
      <4> HIDE DEF Q
      <4> QED
        BY <3>1, <3>2, <4>1
    <3> QED
      BY <3>3
  <2>3. PICK t \in Terms : Grounded(t, e.slot, e.value) /\ Reach(m, t, e.slot)
    BY <2>2 DEF Backed
  <2>4. ctx[n].term >= t
    <3>1. ctx[m].log.term >= t /\ ctx[m].log.term <= ctx[m].term /\ ctx[m].term <= ctx[n].term
      BY <1>1, <2>3 DEF Reach, TermInv, TermsOpened, Newest
    <3>2. /\ ctx[m].term \in Nat /\ ctx[n].term \in Nat /\ ctx[m].log.term \in Nat /\ t \in Nat
      BY <1>1, TermsAreNumbers, ContextElim, BoundsAssumption DEF Terms
    <3> QED
      BY <3>1, <3>2
  <2>5. Reach(n, t, e.slot)
    BY <2>3, <2>4 DEF Grounded, Agreed, Newest
  <2>6. Backed(n, e.slot, e.value)
    BY <2>3, <2>5 DEF Backed
  <2> QED
    BY <1>1, <2>1, <2>6, BackedIs DEF Holds
<1>2. TypeInv /\ TermInv /\ Durable => (AnchorsInLog => LeaderComplete)
  BY <1>1 DEF Durable
<1> QED
  BY <1>2, DurabilityIsInvariant, PTL

LEMMA CommitsAreChosen ==
  ASSUME TypeInv, DurabilityInv
  PROVE  CommittedIsChosen
<1> SUFFICES ASSUME NEW n \in Node, NEW s \in 1..ctx[n].committed
             PROVE  s \in DOMAIN ctx[n].wal /\ [slot |-> s, value |-> ctx[n].wal[s].value] \in chosen
  BY DEF CommittedIsChosen
<1>1. PICK v \in Values : [slot |-> s, value |-> v] \in chosen /\ Backed(n, s, v)
  BY DEF DurabilityInv, CommittedBacked
<1>2. ctx[n].committed \in 0..MaxSlot
  BY TermsAreNumbers, ContextElim
<1>3. s \in Slots
  BY <1>2, BoundsAssumption DEF Slots
<1> QED
  BY <1>1, <1>3, BackedIs

\* Under the same conditions, what any member counts as committed is what some Leader
\* has committed for the slot: advance_commit_slot takes the Leader's commit slot on
\* trust, with the entries that the member itself has.
THEOREM OnlyChosenIsCommitted ==
  ASSUME InOrder, Cardinality(Node) <= 4
  PROVE  Spec => [](AnchorsInLog => CommittedIsChosen)
<1>1. TypeInv /\ TermInv /\ Durable => (AnchorsInLog => CommittedIsChosen)
  BY CommitsAreChosen DEF Durable
<1> QED
  BY <1>1, DurabilityIsInvariant, PTL

\* Under the same conditions, a follower has what its Leader's score board says it
\* matches, up to the end of the Leader's log: what the promises of an election seed
\* (candidate.rs, handle_vote_response) and what the responses add to it.
THEOREM MarksAreReal ==
  ASSUME InOrder, Cardinality(Node) <= 4
  PROVE  Spec => [](AnchorsInLog => MatchIsReal)
<1>1. ASSUME TypeInv, DurabilityInv
      PROVE  MatchIsReal
  <2> SUFFICES ASSUME NEW n \in Node, role[n] = "Leader", NEW f \in Peers(n),
                      NEW s \in 1..office[n].pos[f].match
               PROVE  Holds(f, [slot |-> s, value |-> ctx[n].wal[s].value])
    BY DEF MatchIsReal, Newest
  <2>1. PICK v \in Values : Backed(n, s, v) /\ Backed(f, s, v)
    BY <1>1 DEF DurabilityInv, BoardsBacked, BackedAlike
  <2>2. f \in Node /\ office[n] \in Offices(n)
    BY <1>1 DEF TypeInv, TypeOK, Peers
  <2>3. office[n].pos[f].match \in 0..MaxSlot
    BY <2>2, OfficeElim, PositionElim
  <2>4. s \in Slots
    BY <2>3, BoundsAssumption DEF Slots
  <2>5. ctx[n].wal[s].value = v /\ s \in DOMAIN ctx[f].wal /\ ctx[f].wal[s].value = v
    BY <1>1, <2>1, <2>2, <2>4, BackedIs
  <2> QED
    BY <2>5 DEF Holds
<1>2. TypeInv /\ TermInv /\ Durable => (AnchorsInLog => MatchIsReal)
  BY <1>1 DEF Durable
<1> QED
  BY <1>2, DurabilityIsInvariant, PTL

-----------------------------------------------------------------------------
(* The log of the group. *)

\* A slot has one value at most.
OneValueChosen == \A d, e \in chosen : d.slot = e.slot => d = e

LEMMA ChosenElim ==
  ASSUME TypeInv, NEW e \in chosen
  PROVE  /\ e = [slot |-> e.slot, value |-> e.value]
         /\ e.slot \in Slots /\ e.value \in Values /\ e.slot \in Nat /\ e.slot >= 1
<1>1. e \in [slot : Slots, value : Values]
  BY DEF TypeInv, TypeOK
<1> QED
  BY <1>1, BoundsAssumption DEF Slots

LEMMA ValuesAreOne ==
  ASSUME TypeInv, DurabilityInv
  PROVE  OneValueChosen
<1> SUFFICES ASSUME NEW d \in chosen, NEW e \in chosen, d.slot = e.slot
             PROVE  d.value = e.value
  BY ChosenElim DEF OneValueChosen
<1> DEFINE Q == {m \in Node : Backed(m, d.slot, d.value)}
           R == {m \in Node : Backed(m, e.slot, e.value)}
<1>1. Cardinality(Q) >= QuorumSize /\ Cardinality(R) >= QuorumSize
  BY DEF DurabilityInv, ChosenBacked
<1>2. Q \in SUBSET Node /\ R \in SUBSET Node
  OBVIOUS
<1>3. \A m \in Q : m \in Node /\ Backed(m, d.slot, d.value)
  OBVIOUS
<1>4. \A m \in R : m \in Node /\ Backed(m, e.slot, e.value)
  OBVIOUS
<1> HIDE DEF Q, R
<1>5. PICK n \in Node : TRUE
  BY NodeAssumption, FS_EmptySet
<1>6. QuorumSize + QuorumSize > Cardinality(Node) /\ QuorumSize \in Nat
      /\ Cardinality(Node) \in Nat /\ Cardinality(Q) \in Nat /\ Cardinality(R) \in Nat
  BY <1>2, <1>5, NodeAssumption, PeersIs, FS_Subset, FS_CardinalityType
<1>7. Cardinality(Q) + Cardinality(R) > Cardinality(Node)
  BY <1>1, <1>6
<1>8. Q \intersect R # {}
  BY <1>2, <1>7, NodeAssumption, FS_MajoritiesIntersect
<1>9. PICK m \in Node : Backed(m, d.slot, d.value) /\ Backed(m, e.slot, e.value)
  BY <1>3, <1>4, <1>8
<1>10. /\ d.slot \in Slots /\ d.value \in Values
       /\ e.slot \in Slots /\ e.value \in Values
  BY ChosenElim
<1>11. ctx[m].wal[d.slot].value = d.value
  BY <1>9, <1>10, BackedIs
<1>12. ctx[m].wal[e.slot].value = e.value
  BY <1>9, <1>10, BackedIs
<1> QED
  BY <1>11, <1>12

\* No slot is left out.
SlotsFilled == \E k \in Nat : {e.slot : e \in chosen} = 1..k

\* The abstract module counts as this one does.
LEMMA SameCardinality == \A S : Abstract!Cardinality(S) = Cardinality(S)
BY DEF Cardinality, Abstract!Cardinality

\* One value for each slot and no gap: a log as long as it has entries.
LEMMA ChosenIsLog ==
  ASSUME OneValueChosen, SlotsFilled
  PROVE  Abstract!IsLog(chosen)
<1>1. PICK k \in Nat : {e.slot : e \in chosen} = 1..k
  BY DEF SlotsFilled
<1> DEFINE f == [s \in 1..k |-> CHOOSE e \in chosen : e.slot = s]
<1>2. \A s \in 1..k : f[s] \in chosen /\ f[s].slot = s
  <2> SUFFICES ASSUME NEW s \in 1..k PROVE f[s] \in chosen /\ f[s].slot = s
    OBVIOUS
  <2>1. \E e \in chosen : e.slot = s
    BY <1>1
  <2> QED
    BY <2>1
<1>3. f \in [1..k -> chosen]
  BY <1>2
<1>4. \A e \in chosen : e.slot \in 1..k
  BY <1>1
<1> HIDE DEF f
<1>5. \A a, b \in 1..k : f[a] = f[b] => a = b
  BY <1>2
<1>6. \A e \in chosen : \E s \in 1..k : f[s] = e
  BY <1>2, <1>4 DEF OneValueChosen
<1>7. f \in Bijection(1..k, chosen)
  BY <1>3, <1>5, <1>6 DEF Bijection, Injection, Surjection, IsInjective
<1>8. ExistsBijection(1..k, chosen)
  BY <1>7 DEF ExistsBijection
<1>9. IsFiniteSet(1..k) /\ Cardinality(1..k) = k
  BY FS_Interval
<1>10. Cardinality(chosen) = k
  BY <1>8, <1>9, FS_Bijection
<1> QED
  BY <1>1, <1>10, SameCardinality DEF Abstract!IsLog

\* f learns of what is committed, and nobody else does.
Learns(f) ==
  /\ chosen \subseteq chosen' /\ acked \subseteq acked'
  /\ \A m \in Node : m # f => ctx'[m].committed = ctx[m].committed
  /\ ctx'[f].committed >= ctx[f].committed
  /\ \A v \in acked' \ acked : \E s \in 1..ctx'[f].committed :
       s \in DOMAIN ctx'[f].wal /\ ctx'[f].wal[s].value = v

\* No entry is committed but those that an acknowledgement lets a Leader commit.
Commits(n) ==
  \E slot \in 0..ctx[n].log.slot :
    chosen' = chosen \union {[slot |-> s, value |-> ctx[n].wal[s].value] :
                  s \in (ctx[n].committed + 1)..slot \intersect DOMAIN ctx[n].wal}

LEMMA AcknowledgesLearns ==
  ASSUME TypeInv, NEW n \in Node, NEW r \in replies, Acknowledges(n, r)
  PROVE  Learns(n) /\ (chosen' = chosen \/ Commits(n)) /\ role[n] = "Leader"
<1> DEFINE slot == QuorumSlot(Board(n, r), ctx[n].log.slot)
<1>1. r.to = n /\ role[n] = "Leader" /\ HandleWritten(n, r) /\ r \in Replies /\ r.from # n
  BY DEF Acknowledges, TypeInv, TypeOK, Shapes
<1>2. /\ ctx \in [Node -> Contexts] /\ ctx[n] \in Contexts /\ office[n] \in Offices(n)
      /\ office[n].waiting \subseteq DOMAIN ctx[n].wal
  BY <1>1 DEF TypeInv, TypeOK, Shapes
<1>3. \A m \in Node : ctx[m].committed \in Nat
  BY TermsAreNumbers, ContextElim
<1>4. ctx[n].wal \in Logs
  BY <1>2, ContextElim
<1>5. \A s \in DOMAIN ctx[n].wal : s \in Nat /\ s >= 1
  BY <1>4, LogElim, BoundsAssumption DEF Slots
<1>6. \/ UNCHANGED <<ctx, office, chosen, acked>>
      \/ /\ office' = [office EXCEPT ![n].pos = Board(n, r)]
         /\ UNCHANGED <<ctx, chosen, acked>>
      \/ /\ slot > ctx[n].committed /\ slot \in 0..ctx[n].log.slot /\ slot \in 0..MaxSlot
         /\ ctx' = [ctx EXCEPT ![n] = Committed(ctx[n], slot)]
         /\ office' = [office EXCEPT ![n] = [pos |-> Board(n, r),
                waiting |-> office[n].waiting \ Answered(office[n].waiting, slot)]]
         /\ chosen' = chosen \union {[slot |-> s, value |-> ctx[n].wal[s].value] :
               s \in (ctx[n].committed + 1)..slot \intersect DOMAIN ctx[n].wal}
         /\ acked' = acked \union {ctx[n].wal[s].value :
                                    s \in Answered(office[n].waiting, slot)}
  BY <1>1, HandleWrittenIs DEF TypeInv
<1> HIDE DEF slot
<1>7. CASE UNCHANGED <<ctx, chosen, acked>>
  BY <1>1, <1>3, <1>7 DEF Learns
<1>8. CASE /\ slot > ctx[n].committed /\ slot \in 0..ctx[n].log.slot /\ slot \in 0..MaxSlot
           /\ ctx' = [ctx EXCEPT ![n] = Committed(ctx[n], slot)]
           /\ chosen' = chosen \union {[slot |-> s, value |-> ctx[n].wal[s].value] :
                 s \in (ctx[n].committed + 1)..slot \intersect DOMAIN ctx[n].wal}
           /\ acked' = acked \union {ctx[n].wal[s].value :
                                      s \in Answered(office[n].waiting, slot)}
  <2>1. Committed(ctx[n], slot).committed = slot /\ Committed(ctx[n], slot).wal = ctx[n].wal
    BY <1>2, <1>8, CommittedIs
  <2>2. /\ ctx'[n].committed = slot /\ ctx'[n].wal = ctx[n].wal
        /\ \A m \in Node : m # n => ctx'[m].committed = ctx[m].committed
    BY <1>2, <1>8, <2>1
  <2>3. ASSUME NEW v \in acked' \ acked
        PROVE  \E s \in 1..slot : s \in DOMAIN ctx[n].wal /\ ctx[n].wal[s].value = v
    <3>1. PICK s \in Answered(office[n].waiting, slot) : v = ctx[n].wal[s].value
      BY <1>8
    <3>2. s \in DOMAIN ctx[n].wal /\ s <= slot
      BY <1>2 DEF Answered
    <3>3. s \in 1..slot
      BY <1>5, <1>8, <3>2, BoundsAssumption
    <3> QED
      BY <3>1, <3>2, <3>3
  <2>4. Commits(n)
    BY <1>8 DEF Commits
  <2>5. ctx'[n].committed >= ctx[n].committed
    BY <1>3, <1>8, <2>2, BoundsAssumption
  <2>6. chosen \subseteq chosen' /\ acked \subseteq acked'
    BY <1>8
  <2> QED
    BY <1>1, <2>2, <2>3, <2>4, <2>5, <2>6 DEF Learns
<1> QED
  BY <1>6, <1>7, <1>8

\* Every step of the group is one member learning something, or nobody.
LEMMA StepLearns ==
  ASSUME TypeInv, TypeInv', TermInv, TermInv', DurabilityInv, DurabilityInv', AnchorsInLog',
         InOrder, [Next]_vars
  PROVE  \E n \in Node : Learns(n) /\ (chosen' = chosen \/ (Commits(n) /\ role[n] = "Leader"))
<1>1. \A m \in Node : ctx[m].committed \in Nat
  BY TermsAreNumbers, ContextElim
<1>2. ASSUME NEW n \in Node, UNCHANGED <<chosen, acked>>,
             \A m \in Node : ctx'[m].committed >= ctx[m].committed,
             \A m \in Node : m # n => ctx'[m].committed = ctx[m].committed
      PROVE  Learns(n) /\ chosen' = chosen
  BY <1>2 DEF Learns
<1>3. ASSUME NEW n \in Node, UNCHANGED <<chosen, acked>>,
             \A m \in Node : ctx'[m].committed = ctx[m].committed
      PROVE  Learns(n) /\ chosen' = chosen
  BY <1>1, <1>2, <1>3
<1>4. ASSUME NEW n \in Node, NEW V \in SUBSET Peers(n), TakeOffice(n, V)
      PROVE  Learns(n) /\ chosen' = chosen
  <2>1. PICK T, col, d : Elects(n, V, T, col, d)
    BY <1>4, ElectsUnlessPanics
  <2>2. ctx'[n] = d /\ UNCHANGED <<chosen, acked>>
    BY <2>1, ElectsIs
  <2>3. RestoredAs(n, T, col, d)
    BY <2>1, ElectsWith
  <2>4. \A m \in Node : m # n => ctx'[m].committed = ctx[m].committed
    BY <2>1, ElectsOthers
  <2>5. \A m \in Node : ctx'[m].committed = ctx[m].committed
    BY <2>2, <2>3, <2>4 DEF RestoredAs
  <2> QED
    BY <1>3, <2>2, <2>5
<1>5. ASSUME NEW n \in Node, ClientWrite(n)
      PROVE  Learns(n) /\ chosen' = chosen
  <2>1. /\ ctx' = [ctx EXCEPT ![n] = Extended(ctx[n], writes + 1)]
        /\ UNCHANGED <<chosen, acked>>
    BY <1>5, ClientWriteIs DEF TypeInv
  <2>2. ctx \in [Node -> Contexts]
    BY DEF TypeInv, TypeOK
  <2>3. Extended(ctx[n], writes + 1).committed = ctx[n].committed
    BY <2>2 DEF Extended, Contexts
  <2>4. \A m \in Node : ctx'[m].committed = ctx[m].committed
    BY <2>1, <2>2, <2>3
  <2> QED
    BY <1>3, <2>1, <2>4
<1>6. ASSUME NEW n \in Node, Resends(n)
      PROVE  Learns(n) /\ chosen' = chosen
  <2>1. ~ Panics(n)
    BY PanicsIs DEF AnchorsInLog
  <2>2. ctx' = ctx /\ UNCHANGED <<chosen, acked>>
    BY <1>6, <2>1 DEF Resends
  <2> QED
    BY <1>3, <2>2
<1>7. ASSUME NEW n \in Node, NEW f \in Peers(n), NEW i \in 1..MaxCalls, Accepts(n, f, i)
      PROVE  Learns(f) /\ chosen' = chosen /\ f \in Node
  <2>1. PICK r, d : /\ r = calls[n][f][i] /\ d = Written(Adopted(ctx[f], r.term), r)
    OBVIOUS
  <2>2. /\ f \in Node /\ r \in Requests /\ Adopted(ctx[f], r.term) \in Contexts
        /\ Adopted(ctx[f], r.term).committed = ctx[f].committed
        /\ \A m \in Node : ctx'[m] = IF m = f THEN d ELSE ctx[m]
        /\ UNCHANGED <<chosen, acked>>
    BY <1>7, <2>1, AcceptsIs
  <2>3. d.committed = CommittedBy(Adopted(ctx[f], r.term), r)
    BY <2>1, <2>2, WrittenIs
  <2>4. LastWritten(r) \in Nat /\ r.commit \in Nat
    BY <2>2, RequestElim
  <2>5. d.committed >= ctx[f].committed
    BY <1>1, <2>2, <2>3, <2>4 DEF CommittedBy
  <2>6. \A m \in Node : ctx'[m].committed >= ctx[m].committed
    BY <1>1, <2>2, <2>5
  <2> QED
    BY <1>2, <2>2, <2>6
<1>8. ASSUME NEW n \in Node, NEW f \in Peers(n), NEW i \in 1..MaxCalls, Rejects(n, f, i)
      PROVE  Learns(n) /\ chosen' = chosen
  <2>1. PICK c : c = Adopted(ctx[f], calls[n][f][i].term)
    OBVIOUS
  <2>2. /\ f \in Node /\ c.committed = ctx[f].committed
        /\ \A m \in Node : ctx'[m] = IF m = f THEN c ELSE ctx[m]
        /\ UNCHANGED <<chosen, acked>>
    BY <1>8, <2>1, RejectsIs
  <2> QED
    BY <1>3, <2>2
<1>9. ASSUME NEW n \in Node, NEW r \in replies, ReceiveHigherTerm(n, r)
      PROVE  Learns(n) /\ chosen' = chosen
  <2>1. PICK c : c = [ctx[n] EXCEPT !.term = r.term]
    OBVIOUS
  <2>2. /\ c.committed = ctx[n].committed
        /\ \A m \in Node : ctx'[m] = IF m = n THEN c ELSE ctx[m]
        /\ UNCHANGED <<chosen, acked>>
    BY <1>9, <2>1, HigherTermIs
  <2> QED
    BY <1>3, <2>2
<1>10. ASSUME Quiet, NEW n \in Node
       PROVE  Learns(n) /\ chosen' = chosen
  <2>1. UNCHANGED <<ctx, chosen, acked>>
    BY <1>10 DEF Quiet
  <2> QED
    BY <1>3, <2>1
<1>11. PICK n \in Node : TRUE
  BY NodeAssumption, FS_EmptySet
<1>12. TypeOK /\ Shapes
  BY DEF TypeInv
<1> QED
  BY <1>4, <1>5, <1>6, <1>7, <1>8, <1>9, <1>10, <1>11, <1>12, NextIs, AcknowledgesLearns

\* A Leader commits the next slots of its log, which has no gap.
LEMMA SlotsStayFilled ==
  ASSUME TypeInv, DurabilityInv, SlotsFilled, NEW n \in Node, role[n] = "Leader", Commits(n)
  PROVE  SlotsFilled'
<1>1. PICK slot \in 0..ctx[n].log.slot :
        chosen' = chosen \union {[slot |-> s, value |-> ctx[n].wal[s].value] :
                    s \in (ctx[n].committed + 1)..slot \intersect DOMAIN ctx[n].wal}
  BY DEF Commits
<1>2. ctx[n].log.slot \in Nat /\ ctx[n].committed \in Nat
  BY TermsAreNumbers, ContextElim
<1>3. DOMAIN ctx[n].wal = 1..ctx[n].log.slot
  BY DEF DurabilityInv, LeaderLog
<1>4. PICK k \in Nat : {e.slot : e \in chosen} = 1..k
  BY DEF SlotsFilled
<1>5. \A s \in 1..ctx[n].committed : s \in 1..k
  <2> SUFFICES ASSUME NEW s \in 1..ctx[n].committed PROVE s \in {e.slot : e \in chosen}
    BY <1>4
  <2>1. PICK v \in Values : [slot |-> s, value |-> v] \in chosen
    BY DEF DurabilityInv, CommittedBacked
  <2> QED
    BY <2>1
<1>6. {e.slot : e \in chosen'} = 1..k \union ((ctx[n].committed + 1)..slot)
  <2> DEFINE news == {[slot |-> s, value |-> ctx[n].wal[s].value] :
                        s \in (ctx[n].committed + 1)..slot \intersect DOMAIN ctx[n].wal}
  <2>1. (ctx[n].committed + 1)..slot \intersect DOMAIN ctx[n].wal = (ctx[n].committed + 1)..slot
    BY <1>2, <1>3
  <2>2. {e.slot : e \in news} = (ctx[n].committed + 1)..slot
    <3>1. \A e \in news : e.slot \in (ctx[n].committed + 1)..slot
      BY <2>1
    <3>2. \A s \in (ctx[n].committed + 1)..slot : \E e \in news : e.slot = s
      <4> TAKE s \in (ctx[n].committed + 1)..slot
      <4>1. [slot |-> s, value |-> ctx[n].wal[s].value] \in news
        BY <2>1
      <4> QED
        BY <4>1
    <3> HIDE DEF news
    <3> QED
      BY <3>1, <3>2
  <2>3. chosen' = chosen \union news
    BY <1>1
  <2> HIDE DEF news
  <2> QED
    BY <1>4, <2>2, <2>3
<1>7. PICK j \in Nat : j = IF slot <= k THEN k ELSE slot
  BY <1>2
<1>8. ctx[n].committed <= k
  <2>1. CASE ctx[n].committed = 0
    BY <2>1
  <2>2. CASE ctx[n].committed # 0
    <3>1. ctx[n].committed \in 1..k
      BY <1>2, <1>5, <2>2
    <3> QED
      BY <3>1
  <2> QED
    BY <2>1, <2>2
<1>9. 1..k \union ((ctx[n].committed + 1)..slot) = 1..j
  BY <1>2, <1>7, <1>8
<1> QED
  BY <1>6, <1>7, <1>9 DEF SlotsFilled

LEMMA FiniteEntries ==
  ASSUME NEW S, NEW T, IsFiniteSet(S), IsFiniteSet(T)
  PROVE  IsFiniteSet([slot : S, value : T])
<1> DEFINE f == [p \in S \X T |-> [slot |-> p[1], value |-> p[2]]]
<1>1. IsFiniteSet(S \X T)
  BY FS_Product
<1>2. f \in [S \X T -> [slot : S, value : T]]
  OBVIOUS
<1>3. ASSUME NEW e \in [slot : S, value : T]
      PROVE  \E p \in S \X T : f[p] = e
  <2>1. <<e.slot, e.value>> \in S \X T
    OBVIOUS
  <2>2. f[<<e.slot, e.value>>] = e
    BY <2>1
  <2> QED
    BY <2>1, <2>2
<1> HIDE DEF f
<1>4. f \in Surjection(S \X T, [slot : S, value : T])
  BY <1>2, <1>3 DEF Surjection
<1> QED
  BY <1>1, <1>4, FS_Surjection

LEMMA LearnsAdvances ==
  ASSUME TypeInv, TypeInv', Abstract!IsLog(chosen)', CommittedIsChosen',
         NEW f \in Node, Learns(f)
  PROVE  Abstract!Advance(f)
<1> DEFINE known == [n \in Node |-> ctx[n].committed]
           k == ctx'[f].committed
<1>1. \A m \in Node : ctx[m].committed \in Nat /\ ctx'[m] \in Contexts
  BY TermsAreNumbers, TypesAfter, ContextElim
<1>2. k \in Nat
  BY <1>1, ContextElim
<1>3. {e.slot : e \in chosen'} = 1..Cardinality(chosen')
  BY SameCardinality DEF Abstract!IsLog
<1>4. ASSUME NEW s \in 1..k
      PROVE  s \in DOMAIN ctx'[f].wal /\ [slot |-> s, value |-> ctx'[f].wal[s].value] \in chosen'
  BY <1>4 DEF CommittedIsChosen
<1>5. Cardinality(chosen') \in Nat
  <2>1. IsFiniteSet(chosen')
    <3>1. chosen' \subseteq [slot : Slots, value : Values]
      BY DEF TypeInv, TypeOK
    <3>2. IsFiniteSet(Slots) /\ IsFiniteSet(Values)
      BY BoundsAssumption, FS_Interval DEF Slots, Values
    <3>3. IsFiniteSet([slot : Slots, value : Values])
      BY <3>2, FiniteEntries
    <3> QED
      BY <3>1, <3>3, FS_Subset
  <2> QED
    BY <2>1, FS_CardinalityType
<1>6. k <= Cardinality(chosen')
  <2>1. CASE k = 0
    BY <1>5, <2>1
  <2>2. CASE k # 0
    <3>1. k \in 1..k
      BY <1>2, <2>2
    <3>2. [slot |-> k, value |-> ctx'[f].wal[k].value] \in chosen'
      BY <1>4, <3>1
    <3>3. PICK e \in chosen' : e.slot = k
      BY <3>2
    <3>4. e.slot \in 1..Cardinality(chosen')
      BY <1>3
    <3>5. k \in 1..Cardinality(chosen')
      BY <3>3, <3>4
    <3> QED
      BY <1>2, <1>5, <3>5
  <2> QED
    BY <2>1, <2>2
<1>7. k \in known[f]..Cardinality(chosen')
  BY <1>1, <1>2, <1>5, <1>6 DEF Learns
<1>8. known' = [known EXCEPT ![f] = k]
  BY DEF Learns
<1>9. \A v \in acked' \ acked : \E e \in chosen' : e.value = v /\ e.slot <= known'[f]
  <2> SUFFICES ASSUME NEW v \in acked' \ acked
               PROVE  \E e \in chosen' : e.value = v /\ e.slot <= k
    OBVIOUS
  <2>1. PICK s \in 1..k : s \in DOMAIN ctx'[f].wal /\ ctx'[f].wal[s].value = v
    BY DEF Learns
  <2>2. [slot |-> s, value |-> v] \in chosen'
    BY <1>4, <2>1
  <2> QED
    BY <1>2, <2>1, <2>2
<1>10. chosen \subseteq chosen' /\ acked \subseteq acked'
  BY DEF Learns
<1>11. Abstract!IsLog(chosen')
  BY <1>3, SameCardinality DEF Abstract!IsLog
<1>12. k \in known[f]..Abstract!Cardinality(chosen')
  BY <1>7, SameCardinality
<1> QED
  BY <1>8, <1>9, <1>10, <1>11, <1>12 DEF Abstract!Advance

\* The group implements one log that only grows (ChosenLog): a slot has one value and
\* none is left out, every member's commit slot counts a prefix of it that never gets
\* shorter, and a client is told of success once its write is in it.  In groups of at
\* most four, whose requests are handled in the order they were sent, as long as no
\* Leader panics.
THEOREM GroupIsOneLog ==
  ASSUME InOrder, Cardinality(Node) <= 4
  PROVE  Spec /\ []AnchorsInLog => ImplementsChosenLog
<1> DEFINE Inv == TypeInv /\ TermInv /\ Durable
           known == [n \in Node |-> ctx[n].committed]
<1>1. Inv /\ AnchorsInLog => OneValueChosen /\ CommittedIsChosen
  BY ValuesAreOne, CommitsAreChosen DEF Durable
<1>2. Init => SlotsFilled
  <2> SUFFICES ASSUME Init PROVE {e.slot : e \in chosen} = 1..0
    BY DEF SlotsFilled
  <2>1. chosen = {}
    BY DEF Init
  <2> QED
    BY <2>1
<1>3. /\ Inv /\ Inv' /\ AnchorsInLog /\ AnchorsInLog' /\ SlotsFilled /\ [Next]_vars
      => SlotsFilled'
  <2> SUFFICES ASSUME Inv, Inv', AnchorsInLog, AnchorsInLog', SlotsFilled, [Next]_vars
               PROVE  SlotsFilled'
    OBVIOUS
  <2>1. DurabilityInv /\ DurabilityInv'
    BY DEF Durable
  <2>2. PICK n \in Node :
          Learns(n) /\ (chosen' = chosen \/ (Commits(n) /\ role[n] = "Leader"))
    BY <2>1, StepLearns
  <2>3. CASE chosen' = chosen
    BY <2>3 DEF SlotsFilled
  <2>4. CASE Commits(n) /\ role[n] = "Leader"
    BY <2>1, <2>4, SlotsStayFilled
  <2> QED
    BY <2>2, <2>3, <2>4
<1>4. OneValueChosen /\ SlotsFilled => Abstract!IsLog(chosen)
  BY ChosenIsLog
<1>5. Init => Abstract!Init
  <2> SUFFICES ASSUME Init PROVE Abstract!Init
    OBVIOUS
  <2>1. chosen = {} /\ acked = {}
    BY DEF Init
  <2>2. \A n \in Node : ctx[n].committed = 0
    BY DEF Init, NewContext
  <2> QED
    BY <2>1, <2>2 DEF Abstract!Init
<1>6. /\ Inv /\ Inv' /\ AnchorsInLog /\ AnchorsInLog' /\ [Next]_vars
      /\ Abstract!IsLog(chosen)' /\ CommittedIsChosen'
      => Abstract!Next
  <2> SUFFICES ASSUME Inv, Inv', AnchorsInLog, AnchorsInLog', [Next]_vars,
                      Abstract!IsLog(chosen)', CommittedIsChosen'
               PROVE  Abstract!Next
    OBVIOUS
  <2>1. DurabilityInv /\ DurabilityInv'
    BY DEF Durable
  <2>2. PICK n \in Node : Learns(n)
    BY <2>1, StepLearns
  <2>3. Abstract!Advance(n)
    BY <2>2, LearnsAdvances
  <2> QED
    BY <2>3 DEF Abstract!Next
<1>7. Spec => []Inv
  BY DurabilityIsInvariant
<1> HIDE DEF Inv
<1> QED
  BY <1>1, <1>2, <1>3, <1>4, <1>5, <1>6, <1>7, PTL DEF Spec, ImplementsChosenLog, Abstract!Spec
=============================================================================
