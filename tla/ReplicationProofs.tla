------------------------- MODULE ReplicationProofs -------------------------
(***************************************************************************)
(* What the helpers of Replication return; type correctness: every action  *)
(* keeps terms, slots and marks within the log; and the terms: each has    *)
(* one Leader, so that the term of an entry identifies it.                 *)
(***************************************************************************)
EXTENDS Durability, TLAPS, FiniteSetTheorems, SequenceTheorems

-----------------------------------------------------------------------------
(* The least and the greatest element of a set of numbers. *)

LEMMA MinIs ==
  ASSUME NEW S \in SUBSET Nat, S # {}
  PROVE  Min(S) \in S /\ \A x \in S : Min(S) <= x
<1> DEFINE T == {0..x : x \in S}
<1>1. T \subseteq FiniteSubsetsOf(Nat) /\ T # {}
  <2>1. ASSUME NEW x \in S PROVE 0..x \in FiniteSubsetsOf(Nat)
    <3>1. IsFiniteSet(0..x)
      BY FS_Interval
    <3>2. 0..x \in SUBSET Nat
      OBVIOUS
    <3> QED
      BY <3>1, <3>2 DEF FiniteSubsetsOf
  <2> QED
    BY <2>1
<1>2. PICK I \in T : \A J \in T : ~ (<<J, I>> \in StrictSubsetOrdering(Nat))
  BY <1>1, FS_StrictSubsetOrderingWellFounded, WFMin
<1>3. PICK x \in S : I = 0..x
  BY <1>2
<1>4. \A y \in S : x <= y
  <2> SUFFICES ASSUME NEW y \in S, y < x PROVE FALSE
    OBVIOUS
  <2>1. 0..y \in T /\ 0..x \in T /\ 0..y \subseteq 0..x /\ x \in 0..x /\ x \notin 0..y
    OBVIOUS
  <2> QED
    <3> HIDE DEF T
    <3>1. ~ (<<0..y, 0..x>> \in StrictSubsetOrdering(Nat))
      BY <1>2, <1>3, <2>1
    <3>2. 0..y \in SUBSET Nat /\ 0..x \in SUBSET Nat
      OBVIOUS
    <3>3. 0..y # 0..x
      BY <2>1
    <3> QED
      BY <3>1, <3>2, <3>3, <2>1, Zenon DEF StrictSubsetOrdering
<1> QED
  BY <1>4 DEF Min

LEMMA MaxIs ==
  ASSUME NEW S \in SUBSET Nat, S # {}, NEW b \in Nat, \A x \in S : x <= b
  PROVE  Max(S) \in S /\ \A x \in S : x <= Max(S)
<1> DEFINE R == {b - x : x \in S}
<1>1. R \in SUBSET Nat /\ R # {}
  <2>1. \A x \in S : b - x \in Nat
    OBVIOUS
  <2> QED
    BY <2>1
<1>2. Min(R) \in R /\ \A y \in R : Min(R) <= y
  BY <1>1, MinIs
<1>3. PICK x \in S : Min(R) = b - x
  BY <1>2
<1>4. \A y \in S : y <= x
  <2> TAKE y \in S
  <2>1. b - x <= b - y
    BY <1>2, <1>3
  <2> QED
    BY <2>1
<1> QED
  BY <1>4 DEF Max

LEMMA TwoNumbers ==
  ASSUME NEW a \in Nat, NEW b \in Nat
  PROVE  /\ Max({a, b}) = IF a >= b THEN a ELSE b
         /\ Min({a, b}) = IF a <= b THEN a ELSE b
<1>1. Max({a, b}) \in {a, b} /\ \A x \in {a, b} : x <= Max({a, b})
  BY MaxIs, a + b \in Nat, \A x \in {a, b} : x <= a + b
<1>2. Min({a, b}) \in {a, b} /\ \A x \in {a, b} : Min({a, b}) <= x
  BY MinIs
<1> QED
  BY <1>1, <1>2

-----------------------------------------------------------------------------
(* Logs: functions from some slots to entries. *)

LEMMA LogElim ==
  ASSUME NEW log \in Logs
  PROVE  /\ DOMAIN log \in SUBSET Slots
         /\ log \in [DOMAIN log -> Entries]
         /\ \A s \in DOMAIN log : s \in Slots /\ s \in Nat /\ s >= 1 /\ s <= MaxSlot
                                  /\ log[s] \in Entries /\ log[s].term \in Terms
                                  /\ log[s].value \in Values
<1>1. PICK S \in SUBSET Slots : log \in [S -> Entries]
  BY DEF Logs
<1> QED
  BY <1>1, BoundsAssumption DEF Slots, Entries

LEMMA LogIntro ==
  ASSUME NEW S \in SUBSET Slots, NEW log \in [S -> Entries]
  PROVE  log \in Logs
BY DEF Logs

LEMMA EmptyLogIs ==
  /\ EmptyLog \in Logs
  /\ DOMAIN EmptyLog = {}
  /\ \A log \in Logs : log = EmptyLog <=> DOMAIN log = {}
<1>1. DOMAIN EmptyLog = {} /\ EmptyLog \in [{} -> Entries]
  BY DEF EmptyLog
<1>2. EmptyLog \in Logs
  BY <1>1, LogIntro
<1>3. ASSUME NEW log \in Logs, DOMAIN log = {}
      PROVE  log = EmptyLog
  BY <1>3, LogElim DEF EmptyLog
<1> QED
  BY <1>1, <1>2, <1>3

LEMMA FromIs ==
  ASSUME NEW wal \in Logs, NEW slot \in Nat
  PROVE  /\ From(wal, slot) \in Logs
         /\ DOMAIN From(wal, slot) = {s \in DOMAIN wal : s >= slot}
         /\ \A s \in DOMAIN From(wal, slot) : From(wal, slot)[s] = wal[s]
<1> DEFINE S == {s \in DOMAIN wal : s >= slot}
<1>1. S \in SUBSET Slots /\ From(wal, slot) \in [S -> Entries]
  BY LogElim DEF From
<1>2. From(wal, slot) \in Logs
  BY <1>1, LogIntro
<1> QED
  BY <1>2 DEF From

LEMMA TruncateFromIs ==
  ASSUME NEW wal \in Logs, NEW slot \in Nat
  PROVE  /\ TruncateFrom(wal, slot) \in Logs
         /\ DOMAIN TruncateFrom(wal, slot) = {s \in DOMAIN wal : s < slot}
         /\ \A s \in DOMAIN TruncateFrom(wal, slot) : TruncateFrom(wal, slot)[s] = wal[s]
<1> DEFINE S == {s \in DOMAIN wal : s < slot}
<1>1. S \in SUBSET Slots /\ TruncateFrom(wal, slot) \in [S -> Entries]
  BY LogElim DEF TruncateFrom
<1>2. TruncateFrom(wal, slot) \in Logs
  BY <1>1, LogIntro
<1> QED
  BY <1>2 DEF TruncateFrom

LEMMA OverIs ==
  ASSUME NEW new \in Logs, NEW old \in Logs
  PROVE  /\ Over(new, old) \in Logs
         /\ DOMAIN Over(new, old) = DOMAIN new \union DOMAIN old
         /\ \A s \in DOMAIN new : Over(new, old)[s] = new[s]
         /\ \A s \in DOMAIN old : s \notin DOMAIN new => Over(new, old)[s] = old[s]
<1> DEFINE S == DOMAIN new \union DOMAIN old
<1>1. S \in SUBSET Slots /\ Over(new, old) \in [S -> Entries]
  BY LogElim DEF Over
<1>2. Over(new, old) \in Logs
  BY <1>1, LogIntro
<1> QED
  BY <1>2 DEF Over

LEMMA LastSlotIs ==
  ASSUME NEW log \in Logs
  PROVE  /\ LastSlot(log) \in 0..MaxSlot
         /\ LastSlot(log) \in DOMAIN log \union {0}
         /\ \A s \in DOMAIN log : s <= LastSlot(log)
         /\ LastSlot(log) = 0 <=> DOMAIN log = {}
         /\ DOMAIN log # {} => LastSlot(log) \in DOMAIN log
<1> DEFINE S == DOMAIN log \union {0}
<1>1. S \in SUBSET Nat /\ S # {} /\ \A x \in S : x <= MaxSlot
  BY LogElim, BoundsAssumption
<1>2. LastSlot(log) \in S /\ \A x \in S : x <= LastSlot(log)
  BY <1>1, MaxIs, BoundsAssumption DEF LastSlot
<1>3. LastSlot(log) \in 0..MaxSlot
  BY <1>1, <1>2, BoundsAssumption
<1>4. \A s \in DOMAIN log : s >= 1
  BY LogElim
<1> QED
  BY <1>2, <1>3, <1>4

-----------------------------------------------------------------------------
(* Contexts, requests and the Leader's marks. *)

LEMMA ContextElim ==
  ASSUME NEW c \in Contexts
  PROVE  /\ c.term \in Terms /\ c.term \in Nat
         /\ c.log \in LogPositions
         /\ c.log.term \in Terms /\ c.log.term \in Nat
         /\ c.log.slot \in 0..MaxSlot /\ c.log.slot \in Nat /\ c.log.slot <= MaxSlot
         /\ c.committed \in 0..MaxSlot /\ c.committed \in Nat
         /\ c.uncommitted \in Logs /\ c.wal \in Logs
BY BoundsAssumption DEF Contexts, LogPositions, Terms

LEMMA PositionElim ==
  ASSUME NEW pos \in Positions
  PROVE  /\ pos.match \in 0..MaxSlot /\ pos.match \in Nat
         /\ pos.next \in 0..(MaxSlot + 1) /\ pos.next \in Nat
         /\ pos.sent \in 0..MaxSlot /\ pos.sent \in Nat
         /\ pos.batch \in 0..MaxSlot /\ pos.batch \in Nat
BY BoundsAssumption DEF Positions

LEMMA AnchorIs ==
  ASSUME NEW pos \in Positions
  PROVE  Anchor(pos) \in 0..MaxSlot /\ Anchor(pos) \in Nat
BY PositionElim, BoundsAssumption DEF Anchor

LEMMA RequestElim ==
  ASSUME NEW r \in Requests
  PROVE  /\ r.term \in Terms /\ r.term \in Nat
         /\ r.prev.term \in Terms /\ r.prev.term \in Nat
         /\ r.prev.slot \in 0..MaxSlot /\ r.prev.slot \in Nat
         /\ r.entries \in Logs
         /\ r.commit \in 0..MaxSlot /\ r.commit \in Nat
         /\ LastWritten(r) \in 0..MaxSlot /\ LastWritten(r) \in Nat
         /\ r.entries = EmptyLog => LastWritten(r) = r.prev.slot
         /\ r.entries # EmptyLog => LastWritten(r) \in DOMAIN r.entries
         /\ \A s \in DOMAIN r.entries : s <= LastWritten(r)
<1>1. /\ r.term \in Terms /\ r.prev.term \in Terms /\ r.prev.slot \in 0..MaxSlot
      /\ r.entries \in Logs /\ r.commit \in 0..MaxSlot
  BY DEF Requests, LogPositions
<1>2. r.term \in Nat /\ r.prev.term \in Nat /\ r.prev.slot \in Nat /\ r.commit \in Nat
  BY <1>1, BoundsAssumption DEF Terms
<1>3. r.entries = EmptyLog <=> DOMAIN r.entries = {}
  BY <1>1, EmptyLogIs
<1>4. /\ LastWritten(r) \in 0..MaxSlot
      /\ r.entries = EmptyLog => LastWritten(r) = r.prev.slot
      /\ r.entries # EmptyLog => LastWritten(r) \in DOMAIN r.entries
      /\ \A s \in DOMAIN r.entries : s <= LastWritten(r)
  BY <1>1, <1>3, LastSlotIs DEF LastWritten
<1> QED
  BY <1>1, <1>2, <1>4, BoundsAssumption

\* What a Leader with context c sends from the mark pos.
LEMMA RequestIs ==
  ASSUME NEW c \in Contexts, NEW pos \in Positions, CanAnchor(c, pos)
  PROVE  /\ Request(c, pos) \in Requests
         /\ Request(c, pos).term = c.term
         /\ Request(c, pos).commit = c.committed
         /\ Request(c, pos).prev.slot = Anchor(pos)
         /\ Request(c, pos).prev.term = TermAt(c.wal, Anchor(pos))
         /\ Anchor(pos) = 0 \/ Anchor(pos) \in DOMAIN c.wal
         /\ DOMAIN Request(c, pos).entries = {s \in DOMAIN c.wal : s > Anchor(pos)}
         /\ \A s \in DOMAIN Request(c, pos).entries : Request(c, pos).entries[s] = c.wal[s]
<1>1. Anchor(pos) \in 0..MaxSlot /\ Anchor(pos) \in Nat
  BY AnchorIs
<1>2. Anchor(pos) = 0 \/ Anchor(pos) \in DOMAIN c.wal
  BY DEF CanAnchor
<1>3. TermAt(c.wal, Anchor(pos)) \in Terms
  BY <1>2, ContextElim, LogElim, BoundsAssumption DEF TermAt, Terms
<1>4. /\ From(c.wal, Anchor(pos) + 1) \in Logs
      /\ DOMAIN From(c.wal, Anchor(pos) + 1) = {s \in DOMAIN c.wal : s >= Anchor(pos) + 1}
      /\ \A s \in DOMAIN From(c.wal, Anchor(pos) + 1) :
           From(c.wal, Anchor(pos) + 1)[s] = c.wal[s]
  BY <1>1, FromIs, ContextElim, Anchor(pos) + 1 \in Nat
<1>5. {s \in DOMAIN c.wal : s >= Anchor(pos) + 1} = {s \in DOMAIN c.wal : s > Anchor(pos)}
  BY <1>1, ContextElim, LogElim
<1>6. Request(c, pos) \in Requests
  BY <1>1, <1>3, <1>4, ContextElim DEF Request, Requests, LogPositions
<1> QED
  BY <1>2, <1>4, <1>5, <1>6 DEF Request

LEMMA SentIs ==
  ASSUME NEW c \in Contexts, NEW pos \in Positions
  PROVE  Sent(c, pos) \in Positions /\ Sent(c, pos).match = pos.match
<1> DEFINE last == LastSlot(From(c.wal, Anchor(pos) + 1))
<1>1. last \in 0..MaxSlot
  BY AnchorIs, FromIs, ContextElim, LastSlotIs, Anchor(pos) + 1 \in Nat
<1> QED
  BY <1>1 DEF Sent, Positions

LEMMA ClearInFlightIs ==
  ASSUME NEW pos \in Positions
  PROVE  ClearInFlight(pos) \in Positions /\ ClearInFlight(pos).match = pos.match
<1> DEFINE back == IF pos.next = 0 THEN 0 ELSE pos.next - 1
<1>1. back \in 0..MaxSlot
  BY PositionElim, BoundsAssumption
<1>2. ClearInFlight(pos) = [pos EXCEPT !.batch = 0, !.sent = back]
  BY DEF ClearInFlight
<1> HIDE DEF back
<1>3. 0 \in 0..MaxSlot
  BY BoundsAssumption
<1> QED
  BY <1>1, <1>2, <1>3 DEF Positions

LEMMA AcknowledgedIs ==
  ASSUME NEW pos \in Positions, NEW slot \in 0..MaxSlot
  PROVE  Acknowledged(pos, slot) \in Positions /\ Acknowledged(pos, slot).match = slot
<1>1. Max({pos.sent, slot}) \in 0..MaxSlot
  BY PositionElim, TwoNumbers, BoundsAssumption
<1>2. slot + 1 \in 0..(MaxSlot + 1)
  BY BoundsAssumption
<1> DEFINE sent == Max({pos.sent, slot})
           batch == IF pos.batch > slot THEN pos.batch ELSE 0
<1>3. batch \in 0..MaxSlot
  BY PositionElim, BoundsAssumption
<1>4. Acknowledged(pos, slot)
        = [pos EXCEPT !.match = slot, !.next = slot + 1, !.sent = sent, !.batch = batch]
  BY DEF Acknowledged
<1> HIDE DEF sent, batch
<1>5. sent \in 0..MaxSlot
  BY <1>1 DEF sent
<1> QED
  BY <1>2, <1>3, <1>4, <1>5 DEF Positions

-----------------------------------------------------------------------------
(* Queues of requests. *)

LEMMA AppendIs ==
  ASSUME NEW S, NEW q \in Seq(S), NEW r \in S
  PROVE  /\ Append(q, r) \in Seq(S)
         /\ Len(q) \in Nat /\ Len(Append(q, r)) = Len(q) + 1
         /\ \A i \in 1..Len(q) : Append(q, r)[i] = q[i]
         /\ Append(q, r)[Len(q) + 1] = r
BY AppendProperties, LenProperties

LEMMA RemoveAtIs ==
  ASSUME NEW S, NEW q \in Seq(S), NEW i \in 1..Len(q)
  PROVE  /\ RemoveAt(q, i) \in Seq(S)
         /\ Len(q) \in Nat /\ Len(RemoveAt(q, i)) = Len(q) - 1
         /\ \A j \in 1..Len(RemoveAt(q, i)) :
              RemoveAt(q, i)[j] = IF j < i THEN q[j] ELSE q[j + 1]
<1> DEFINE a == SubSeq(q, 1, i - 1)
           b == SubSeq(q, i + 1, Len(q))
<1>1. Len(q) \in Nat /\ i \in Int /\ \A j \in 1..Len(q) : q[j] \in S
  BY LenProperties, ElementOfSeq
<1>2. /\ a \in Seq(S)
      /\ Len(a) = i - 1
      /\ \A j \in 1..(i - 1) : a[j] = q[j]
  <2>1. \A j \in 1..(i - 1) : q[j] \in S
    BY <1>1
  <2>2. /\ a \in Seq(S)
        /\ Len(a) = IF 1 <= i - 1 THEN (i - 1) - 1 + 1 ELSE 0
        /\ \A j \in 1..((i - 1) - 1 + 1) : a[j] = q[1 + j - 1]
    BY <1>1, <2>1, SubSeqProperties, i - 1 \in Int
  <2> QED
    BY <1>1, <2>2
<1>3. /\ b \in Seq(S)
      /\ Len(b) = Len(q) - i
      /\ \A j \in 1..(Len(q) - i) : b[j] = q[i + j]
  <2>1. \A j \in (i + 1)..Len(q) : q[j] \in S
    BY <1>1
  <2>2. /\ b \in Seq(S)
        /\ Len(b) = IF i + 1 <= Len(q) THEN Len(q) - (i + 1) + 1 ELSE 0
        /\ \A j \in 1..(Len(q) - (i + 1) + 1) : b[j] = q[(i + 1) + j - 1]
    BY <1>1, <2>1, SubSeqProperties, i + 1 \in Int
  <2> QED
    BY <1>1, <2>2
<1> HIDE DEF a, b
<1>4. /\ a \o b \in Seq(S)
      /\ Len(a \o b) = Len(a) + Len(b)
      /\ \A j \in 1..(Len(a) + Len(b)) :
           (a \o b)[j] = IF j <= Len(a) THEN a[j] ELSE b[j - Len(a)]
  BY <1>2, <1>3, ConcatProperties
<1>5. RemoveAt(q, i) = a \o b
  BY DEF RemoveAt, a, b
<1>6. Len(a) + Len(b) = Len(q) - 1
  BY <1>1, <1>2, <1>3
<1>7. ASSUME NEW j \in 1..(Len(q) - 1)
      PROVE  (a \o b)[j] = IF j < i THEN q[j] ELSE q[j + 1]
  <2>1. (a \o b)[j] = IF j <= i - 1 THEN a[j] ELSE b[j - (i - 1)]
    BY <1>2, <1>4, <1>6
  <2>2. CASE j < i
    BY <2>1, <2>2, <1>1, <1>2
  <2>3. CASE ~(j < i)
    <3>1. j - (i - 1) \in 1..(Len(q) - i) /\ i + (j - (i - 1)) = j + 1
      BY <2>3, <1>1
    <3>2. b[j - (i - 1)] = q[j + 1]
      BY <3>1, <1>3
    <3> QED
      BY <2>1, <2>3, <3>2, <1>1
  <2> QED
    BY <2>2, <2>3
<1> QED
  BY <1>1, <1>4, <1>5, <1>6, <1>7

-----------------------------------------------------------------------------
(* What a new Leader collects and restamps. *)

LEMMA PromisedIs ==
  ASSUME TypeOK, NEW V \in SUBSET Node
  PROVE  /\ Promised(V) \in Logs
         /\ \A s \in DOMAIN Promised(V) : \E v \in V :
              s \in DOMAIN ctx[v].uncommitted /\ Promised(V)[s] = ctx[v].uncommitted[s]
         /\ \A v \in V : \A s \in DOMAIN ctx[v].uncommitted : s \in DOMAIN Promised(V)
<1> DEFINE S == UNION {DOMAIN ctx[v].uncommitted : v \in V}
           Offers(s) == {ctx[v].uncommitted[s] : v \in {u \in V : s \in DOMAIN ctx[u].uncommitted}}
<1>1. \A v \in V : ctx[v].uncommitted \in Logs
  BY ContextElim DEF TypeOK
<1>2. S \in SUBSET Slots
  BY <1>1, LogElim
<1>3. ASSUME NEW s \in S
      PROVE  /\ Promised(V)[s] \in Entries
             /\ \E v \in V : /\ s \in DOMAIN ctx[v].uncommitted
                            /\ Promised(V)[s] = ctx[v].uncommitted[s]
  <2> DEFINE T == {d.term : d \in Offers(s)}
  <2>1. Offers(s) # {} /\ Offers(s) \subseteq Entries
    BY <1>1, LogElim
  <2> HIDE DEF Offers
  <2>2. T \in SUBSET Nat /\ T # {} /\ \A x \in T : x <= MaxTerm
    BY <2>1, BoundsAssumption DEF Entries, Terms
  <2>3. Max(T) \in T /\ \A x \in T : x <= Max(T)
    BY <2>2, MaxIs, BoundsAssumption
  <2>4. \E e \in Offers(s) : \A d \in Offers(s) : d.term <= e.term
    BY <2>3
  <2>5. Promised(V)[s] = CHOOSE e \in Offers(s) : \A d \in Offers(s) : d.term <= e.term
    BY DEF Promised, Offers
  <2>6. Promised(V)[s] \in Offers(s)
    BY <2>4, <2>5
  <2>7. PICK v \in V : s \in DOMAIN ctx[v].uncommitted /\ Promised(V)[s] = ctx[v].uncommitted[s]
    BY <2>6 DEF Offers
  <2> QED
    BY <2>1, <2>6, <2>7
<1>4. DOMAIN Promised(V) = S
  BY DEF Promised
<1> HIDE DEF S
<1>6. Promised(V) \in [S -> Entries]
  <2> DEFINE G(s) == CHOOSE e \in Offers(s) : \A d \in Offers(s) : d.term <= e.term
  <2>1. Promised(V) = [s \in S |-> G(s)]
    BY DEF Promised, S
  <2> HIDE DEF G
  <2>2. \A s \in S : G(s) \in Entries
    BY <1>3, <2>1
  <2> QED
    BY <2>1, <2>2
<1>7. Promised(V) \in Logs
  BY <1>2, <1>6, LogIntro
<1>8. \A v \in V : \A s \in DOMAIN ctx[v].uncommitted : s \in S
  BY DEF S
<1> QED
  BY <1>3, <1>4, <1>7, <1>8

LEMMA CollectedIs ==
  ASSUME NEW c \in Contexts, NEW p \in Logs
  PROVE  /\ Collected(c, p) \in Logs
         /\ \A s : s \in DOMAIN Collected(c, p)
                     <=> s \in DOMAIN c.uncommitted \/ (s \in DOMAIN p /\ s > c.committed)
         /\ \A s \in DOMAIN Collected(c, p) :
              \/ s \in DOMAIN c.uncommitted /\ Collected(c, p)[s] = c.uncommitted[s]
              \/ /\ s \in DOMAIN p /\ s > c.committed /\ Collected(c, p)[s] = p[s]
                 /\ s \in DOMAIN c.uncommitted => p[s].term > c.uncommitted[s].term
<1> DEFINE taken == {s \in DOMAIN p :
                       /\ s > c.committed
                       /\ s \in DOMAIN c.uncommitted => p[s].term > c.uncommitted[s].term}
           new == [s \in taken |-> p[s]]
<1>1. c.uncommitted \in Logs
  BY ContextElim
<1>2. taken \in SUBSET Slots /\ new \in [taken -> Entries]
  BY LogElim
<1>3. new \in Logs
  BY <1>2, LogIntro
<1>4. Collected(c, p) = Over(new, c.uncommitted)
  BY DEF Collected
<1>5. /\ Collected(c, p) \in Logs
      /\ DOMAIN Collected(c, p) = taken \union DOMAIN c.uncommitted
      /\ \A s \in taken : Collected(c, p)[s] = p[s]
      /\ \A s \in DOMAIN c.uncommitted : s \notin taken => Collected(c, p)[s] = c.uncommitted[s]
  <2>1. DOMAIN new = taken /\ \A s \in taken : new[s] = p[s]
    OBVIOUS
  <2> HIDE DEF new, taken
  <2>2. /\ Over(new, c.uncommitted) \in Logs
        /\ DOMAIN Over(new, c.uncommitted) = DOMAIN new \union DOMAIN c.uncommitted
        /\ \A s \in DOMAIN new : Over(new, c.uncommitted)[s] = new[s]
        /\ \A s \in DOMAIN c.uncommitted : s \notin DOMAIN new
             => Over(new, c.uncommitted)[s] = c.uncommitted[s]
    BY <1>1, <1>3, OverIs, Zenon
  <2> QED
    BY <1>4, <2>1, <2>2
<1> QED
  BY <1>5

Stamped(e, term) == [term |-> term, value |-> e.value]

LEMMA RestampedIs ==
  ASSUME NEW c \in Contexts, NEW term \in Terms, NEW col \in Logs
  PROVE  /\ Restamped(c, term, col) \in Contexts
         /\ Restamped(c, term, col).term = term
         /\ Restamped(c, term, col).committed = c.committed
         /\ DOMAIN Restamped(c, term, col).uncommitted = DOMAIN col
         /\ \A s \in DOMAIN col : Restamped(c, term, col).uncommitted[s] = Stamped(col[s], term)
         /\ DOMAIN Restamped(c, term, col).wal = DOMAIN col \union DOMAIN c.wal
         /\ \A s \in DOMAIN col : Restamped(c, term, col).wal[s] = Stamped(col[s], term)
         /\ \A s \in DOMAIN c.wal : s \notin DOMAIN col
              => Restamped(c, term, col).wal[s] = c.wal[s]
         /\ DOMAIN col = {} => Restamped(c, term, col).log = c.log
         /\ DOMAIN col # {} => /\ Restamped(c, term, col).log.term = term
                               /\ Restamped(c, term, col).log.slot = LastSlot(col)
<1> DEFINE new == [s \in DOMAIN col |-> [col[s] EXCEPT !.term = term]]
           pos == IF new = EmptyLog THEN c.log ELSE [term |-> term, slot |-> LastSlot(new)]
<1>1. \A s \in DOMAIN col : new[s] = Stamped(col[s], term) /\ new[s] \in Entries
  BY LogElim DEF Stamped, Entries
<1>2. DOMAIN new = DOMAIN col /\ new \in [DOMAIN col -> Entries]
  BY <1>1
<1>3. new \in Logs
  BY <1>2, LogElim, LogIntro
<1>4. c.wal \in Logs /\ c.log \in LogPositions
  BY ContextElim
<1>5. Restamped(c, term, col) = [c EXCEPT !.term = term, !.uncommitted = new,
                                          !.wal = Over(new, c.wal), !.log = pos]
  BY DEF Restamped
<1> HIDE DEF new
<1>6. /\ Over(new, c.wal) \in Logs
      /\ DOMAIN Over(new, c.wal) = DOMAIN col \union DOMAIN c.wal
      /\ \A s \in DOMAIN col : Over(new, c.wal)[s] = new[s]
      /\ \A s \in DOMAIN c.wal : s \notin DOMAIN col => Over(new, c.wal)[s] = c.wal[s]
  <2>1. /\ Over(new, c.wal) \in Logs
        /\ DOMAIN Over(new, c.wal) = DOMAIN new \union DOMAIN c.wal
        /\ \A s \in DOMAIN new : Over(new, c.wal)[s] = new[s]
        /\ \A s \in DOMAIN c.wal : s \notin DOMAIN new => Over(new, c.wal)[s] = c.wal[s]
    BY <1>3, <1>4, OverIs, Zenon
  <2> QED
    BY <1>2, <2>1
<1>7. LastSlot(new) = LastSlot(col)
  BY <1>2 DEF LastSlot
<1>8. LastSlot(col) \in 0..MaxSlot
  BY LastSlotIs
<1>9. new = EmptyLog <=> DOMAIN col = {}
  BY <1>2, <1>3, EmptyLogIs
<1>10. pos \in LogPositions
  BY <1>4, <1>7, <1>8 DEF LogPositions
<1>11. DOMAIN col = {} => pos = c.log
  BY <1>9
<1>12. DOMAIN col # {} => pos.term = term /\ pos.slot = LastSlot(col)
  BY <1>7, <1>9
<1> HIDE DEF pos
<1>13. Restamped(c, term, col) \in Contexts
  BY <1>3, <1>5, <1>6, <1>10 DEF Contexts
<1>14. /\ Restamped(c, term, col).term = term
       /\ Restamped(c, term, col).committed = c.committed
       /\ Restamped(c, term, col).uncommitted = new
       /\ Restamped(c, term, col).wal = Over(new, c.wal)
       /\ Restamped(c, term, col).log = pos
  BY <1>5 DEF Contexts
<1> QED
  BY <1>1, <1>2, <1>6, <1>11, <1>12, <1>13, <1>14

-----------------------------------------------------------------------------
(* What a follower makes of a request. *)

LEMMA AdoptedIs ==
  ASSUME NEW c \in Contexts, NEW term \in Terms
  PROVE  /\ Adopted(c, term) \in Contexts
         /\ Adopted(c, term).term = IF c.term >= term THEN c.term ELSE term
         /\ Adopted(c, term).log = c.log
         /\ Adopted(c, term).committed = c.committed
         /\ Adopted(c, term).uncommitted = c.uncommitted
         /\ Adopted(c, term).wal = c.wal
<1> DEFINE high == Max({c.term, term})
<1>1. high = IF c.term >= term THEN c.term ELSE term
  BY ContextElim, TwoNumbers, BoundsAssumption DEF Terms
<1>2. Adopted(c, term) = [c EXCEPT !.term = high]
  BY DEF Adopted
<1>3. high \in Terms
  BY <1>1, ContextElim
<1> HIDE DEF high
<1> QED
  BY <1>1, <1>2, <1>3 DEF Contexts

\* The commit slot of a follower that has written r.
CommittedBy(c, r) ==
  LET known == IF r.commit <= LastWritten(r) THEN r.commit ELSE LastWritten(r)
  IN IF c.committed >= known THEN c.committed ELSE known

LEMMA WrittenIs ==
  ASSUME NEW c \in Contexts, NEW r \in Requests
  PROVE  /\ Written(c, r) \in Contexts
         /\ Written(c, r).term = c.term
         /\ Written(c, r).committed = CommittedBy(c, r)
         /\ CommittedBy(c, r) \in 0..MaxSlot
         /\ DOMAIN Written(c, r).wal
              = DOMAIN r.entries \union {s \in DOMAIN c.wal : s <= r.prev.slot}
         /\ \A s \in DOMAIN r.entries : Written(c, r).wal[s] = r.entries[s]
         /\ \A s \in DOMAIN c.wal : s <= r.prev.slot /\ s \notin DOMAIN r.entries
              => Written(c, r).wal[s] = c.wal[s]
         /\ \A s : s \in DOMAIN Written(c, r).uncommitted
              <=> /\ s \in DOMAIN r.entries \/ s \in DOMAIN c.uncommitted
                  /\ CommittedBy(c, r) > c.committed => s > CommittedBy(c, r)
         /\ \A s \in DOMAIN Written(c, r).uncommitted : Written(c, r).uncommitted[s]
              = IF s \in DOMAIN r.entries THEN r.entries[s] ELSE c.uncommitted[s]
         /\ DOMAIN r.entries = {} => Written(c, r).log = c.log
         /\ DOMAIN r.entries # {} =>
              /\ LastWritten(r) \in DOMAIN r.entries
              /\ Written(c, r).log.term = r.entries[LastWritten(r)].term
              /\ Written(c, r).log.slot = LastWritten(r)
<1> DEFINE wal == Over(r.entries, TruncateFrom(c.wal, r.prev.slot + 1))
           both == Over(r.entries, c.uncommitted)
           k == CommittedBy(c, r)
           unc == IF k > c.committed THEN From(both, k + 1) ELSE both
           pos == IF r.entries = EmptyLog THEN c.log
                  ELSE [term |-> r.entries[LastWritten(r)].term, slot |-> LastWritten(r)]
<1>1. /\ r.entries \in Logs /\ r.prev.slot \in Nat /\ r.prev.slot + 1 \in Nat
      /\ r.commit \in 0..MaxSlot /\ LastWritten(r) \in 0..MaxSlot
      /\ r.entries # EmptyLog => LastWritten(r) \in DOMAIN r.entries
  BY RequestElim
<1>2. /\ c.wal \in Logs /\ c.uncommitted \in Logs /\ c.committed \in 0..MaxSlot
      /\ c.log \in LogPositions
  BY ContextElim
<1>3. r.entries = EmptyLog <=> DOMAIN r.entries = {}
  BY <1>1, EmptyLogIs
<1>4. k \in 0..MaxSlot /\ k \in Nat
  BY <1>1, <1>2, BoundsAssumption DEF CommittedBy
<1>5. Max({c.committed, Min({r.commit, LastWritten(r)})}) = k
  <2>1. Min({r.commit, LastWritten(r)}) = IF r.commit <= LastWritten(r) THEN r.commit
                                          ELSE LastWritten(r)
    <3>1. r.commit \in Nat /\ LastWritten(r) \in Nat
      BY RequestElim
    <3> QED
      BY <3>1, TwoNumbers
  <2>2. Min({r.commit, LastWritten(r)}) \in Nat /\ c.committed \in Nat
    BY <1>1, <1>2, <2>1, BoundsAssumption
  <2> QED
    <3>1. Max({c.committed, Min({r.commit, LastWritten(r)})})
            = IF c.committed >= Min({r.commit, LastWritten(r)}) THEN c.committed
              ELSE Min({r.commit, LastWritten(r)})
      BY <2>2, TwoNumbers
    <3> QED
      BY <2>1, <3>1 DEF CommittedBy
<1>6. /\ wal \in Logs
      /\ DOMAIN wal = DOMAIN r.entries \union {s \in DOMAIN c.wal : s <= r.prev.slot}
      /\ \A s \in DOMAIN r.entries : wal[s] = r.entries[s]
      /\ \A s \in DOMAIN c.wal : s <= r.prev.slot /\ s \notin DOMAIN r.entries => wal[s] = c.wal[s]
  <2> DEFINE old == TruncateFrom(c.wal, r.prev.slot + 1)
  <2>1. /\ old \in Logs
        /\ DOMAIN old = {s \in DOMAIN c.wal : s < r.prev.slot + 1}
        /\ \A s \in DOMAIN old : old[s] = c.wal[s]
    BY <1>1, <1>2, TruncateFromIs
  <2>2. {s \in DOMAIN c.wal : s < r.prev.slot + 1} = {s \in DOMAIN c.wal : s <= r.prev.slot}
    BY <1>1, <1>2, LogElim
  <2> HIDE DEF old
  <2>3. /\ Over(r.entries, old) \in Logs
        /\ DOMAIN Over(r.entries, old) = DOMAIN r.entries \union DOMAIN old
        /\ \A s \in DOMAIN r.entries : Over(r.entries, old)[s] = r.entries[s]
        /\ \A s \in DOMAIN old : s \notin DOMAIN r.entries => Over(r.entries, old)[s] = old[s]
    BY <1>1, <2>1, OverIs, Zenon
  <2>4. wal = Over(r.entries, old)
    BY DEF old
  <2> HIDE DEF wal
  <2> QED
    BY <2>1, <2>2, <2>3, <2>4
<1>7. /\ both \in Logs
      /\ DOMAIN both = DOMAIN r.entries \union DOMAIN c.uncommitted
      /\ \A s \in DOMAIN r.entries : both[s] = r.entries[s]
      /\ \A s \in DOMAIN c.uncommitted : s \notin DOMAIN r.entries => both[s] = c.uncommitted[s]
  BY <1>1, <1>2, OverIs, Zenon
<1> HIDE DEF wal, both
<1>8. /\ From(both, k + 1) \in Logs
      /\ DOMAIN From(both, k + 1) = {s \in DOMAIN both : s >= k + 1}
      /\ \A s \in DOMAIN From(both, k + 1) : From(both, k + 1)[s] = both[s]
  BY <1>4, <1>7, FromIs, k + 1 \in Nat
<1>9. \A s \in DOMAIN both : s \in Nat
  BY <1>7, LogElim
<1>10. /\ unc \in Logs
       /\ \A s : s \in DOMAIN unc <=> s \in DOMAIN both /\ (k > c.committed => s > k)
       /\ \A s \in DOMAIN unc : unc[s] = both[s]
  BY <1>4, <1>7, <1>8, <1>9
<1>11. pos \in LogPositions
  BY <1>1, <1>2, LogElim DEF LogPositions
<1>12. Written(c, r) = [c EXCEPT !.wal = wal, !.uncommitted = unc, !.committed = k, !.log = pos]
  BY <1>5 DEF Written, wal, both
<1>13. DOMAIN r.entries = {} => pos = c.log
  BY <1>3
<1>14. DOMAIN r.entries # {} => /\ LastWritten(r) \in DOMAIN r.entries
                                /\ pos.term = r.entries[LastWritten(r)].term
                                /\ pos.slot = LastWritten(r)
  BY <1>1, <1>3
<1> HIDE DEF unc, pos, k
<1>15. Written(c, r) \in Contexts
  BY <1>4, <1>6, <1>10, <1>11, <1>12 DEF Contexts
<1>16. /\ Written(c, r).wal = wal /\ Written(c, r).uncommitted = unc
       /\ Written(c, r).committed = k /\ Written(c, r).log = pos /\ Written(c, r).term = c.term
  BY <1>12 DEF Contexts
<1>17. \A s \in DOMAIN unc : unc[s] = IF s \in DOMAIN r.entries THEN r.entries[s]
                                      ELSE c.uncommitted[s]
  BY <1>7, <1>10
<1>18. \A s : s \in DOMAIN unc <=> /\ s \in DOMAIN r.entries \/ s \in DOMAIN c.uncommitted
                                   /\ k > c.committed => s > k
  BY <1>7, <1>10
<1> QED
  BY <1>4, <1>6, <1>13, <1>14, <1>15, <1>16, <1>17, <1>18 DEF k

-----------------------------------------------------------------------------
(* What the actions change. *)

\* n, whose context is c, sends at most one request to each of its peers.
Sends(n, c) ==
  \A m, f \in Node :
    \/ calls'[m][f] = calls[m][f]
    \/ /\ m = n /\ f # n
       /\ \E pos \in Positions : /\ CanAnchor(c, pos)
                                 /\ calls'[m][f] = Append(calls[m][f], Request(c, pos))

CallsOK == calls \in [Node -> [Node -> Seq(Requests)]]

LEMMA OfficeElim ==
  ASSUME NEW n \in Node, NEW o \in Offices(n)
  PROVE  /\ DOMAIN o.pos = Peers(n)
         /\ \A f \in Peers(n) : o.pos[f] \in Positions
         /\ o.waiting \in SUBSET Slots
         /\ o.pos \in [Peers(n) -> Positions]
BY DEF Offices

LEMMA SendAllIs ==
  ASSUME CallsOK, NEW n \in Node, NEW c \in Contexts, NEW o \in Offices(n),
         NEW F \in SUBSET Peers(n), SendAll(n, c, o, F)
  PROVE  CallsOK' /\ Sends(n, c)
<1>1. PICK D \in Delivered({f \in F : CanAnchor(c, o.pos[f])}) : Send(n, c, o.pos, D)
  BY DEF SendAll
<1>2. D \subseteq {f \in F : CanAnchor(c, o.pos[f])}
  BY DEF Delivered
<1>3. \A f \in D : /\ f \in Node /\ f # n /\ o.pos[f] \in Positions /\ CanAnchor(c, o.pos[f])
  BY <1>2, OfficeElim DEF Peers
<1>4. \A f \in D : Request(c, o.pos[f]) \in Requests
  BY <1>3, RequestIs
<1> DEFINE q == [f \in Node |-> IF f \in D THEN Append(calls[n][f], Request(c, o.pos[f]))
                               ELSE calls[n][f]]
<1>5. calls' = [calls EXCEPT ![n] = q]
  BY <1>1 DEF Send
<1>6. \A f \in Node : q[f] \in Seq(Requests)
  <2> TAKE f \in Node
  <2>1. calls[n][f] \in Seq(Requests)
    BY DEF CallsOK
  <2>2. f \in D => Append(calls[n][f], Request(c, o.pos[f])) \in Seq(Requests)
    BY <1>4, <2>1, AppendIs
  <2> QED
    BY <2>1, <2>2
<1>7. DOMAIN q = Node
  OBVIOUS
<1>8. \A f \in Node : q[f] = IF f \in D THEN Append(calls[n][f], Request(c, o.pos[f]))
                             ELSE calls[n][f]
  OBVIOUS
<1>9. q \in [Node -> Seq(Requests)]
  BY <1>6
<1> HIDE DEF q
<1>10. CallsOK'
  BY <1>5, <1>9 DEF CallsOK
<1>11. \A m, f \in Node : calls'[m][f] = IF m = n THEN q[f] ELSE calls[m][f]
  BY <1>5 DEF CallsOK
<1> QED
  BY <1>3, <1>8, <1>10, <1>11 DEF Sends

LEMMA SeatIs ==
  ASSUME NEW n \in Node, NEW c \in Contexts, NEW o \in Offices(n), NEW F \in SUBSET Peers(n)
  PROVE  \/ /\ Seat(c, o, F).role = "Leader"
            /\ Seat(c, o, F).ctx = c
            /\ Seat(c, o, F).office \in Offices(n)
            /\ Seat(c, o, F).office.waiting = o.waiting
            /\ \A f \in Peers(n) : Seat(c, o, F).office.pos[f].match = o.pos[f].match
         \/ /\ Seat(c, o, F).role = "Crashed"
            /\ Seat(c, o, F).ctx = NewContext
            /\ Seat(c, o, F).office = NoOffice
<1> DEFINE pos == SentTo(c, o.pos, F)
<1>1. DOMAIN o.pos = Peers(n) /\ \A f \in Peers(n) : o.pos[f] \in Positions
  BY OfficeElim
<1>2. \A f \in Peers(n) : /\ pos[f] = IF f \in F THEN Sent(c, o.pos[f]) ELSE o.pos[f]
                          /\ pos[f] \in Positions /\ pos[f].match = o.pos[f].match
  BY <1>1, SentIs DEF SentTo
<1>3. pos \in [Peers(n) -> Positions]
  BY <1>1, <1>2 DEF SentTo
<1> HIDE DEF pos
<1>4. CASE \A f \in F : CanAnchor(c, o.pos[f])
  <2> DEFINE new == [o EXCEPT !.pos = pos]
  <2>1. Seat(c, o, F) = [role |-> "Leader", ctx |-> c, office |-> new]
    BY <1>4 DEF Seat, pos
  <2>2. new \in Offices(n) /\ new.pos = pos /\ new.waiting = o.waiting
    BY <1>3 DEF Offices
  <2> HIDE DEF new
  <2>3. Seat(c, o, F).role = "Leader" /\ Seat(c, o, F).ctx = c /\ Seat(c, o, F).office = new
    BY <2>1
  <2> QED
    BY <1>2, <2>2, <2>3
<1>5. CASE ~ \A f \in F : CanAnchor(c, o.pos[f])
  BY <1>5, Zenon DEF Seat
<1> QED
  BY <1>4, <1>5

\* n panics, and everybody else goes on.
Panics(n) == /\ role' = [role EXCEPT ![n] = "Crashed"]
             /\ ctx' = [ctx EXCEPT ![n] = NewContext]
             /\ office' = [office EXCEPT ![n] = NoOffice]

LEMMA DispatchIs ==
  ASSUME TypeOK, NEW n \in Node, role[n] = "Leader", NEW o \in Offices(n),
         NEW F \in SUBSET Peers(n), Dispatch(n, ctx[n], o, F)
  PROVE  /\ CallsOK' /\ Sends(n, ctx[n])
         /\ \/ Panics(n)
            \/ /\ role' = role /\ ctx' = ctx
               /\ \E p \in Offices(n) :
                    /\ office' = [office EXCEPT ![n] = p]
                    /\ p.waiting = o.waiting
                    /\ \A f \in Peers(n) : p.pos[f].match = o.pos[f].match
<1>1. ctx[n] \in Contexts
  BY DEF TypeOK
<1>2. CallsOK' /\ Sends(n, ctx[n])
  BY <1>1, SendAllIs DEF Dispatch, TypeOK, CallsOK
<1> DEFINE seat == Seat(ctx[n], o, F)
<1>3. /\ role' = [role EXCEPT ![n] = seat.role]
      /\ ctx' = [ctx EXCEPT ![n] = seat.ctx]
      /\ office' = [office EXCEPT ![n] = seat.office]
  BY DEF Dispatch
<1>4. \/ /\ seat.role = "Leader" /\ seat.ctx = ctx[n] /\ seat.office \in Offices(n)
         /\ seat.office.waiting = o.waiting
         /\ \A f \in Peers(n) : seat.office.pos[f].match = o.pos[f].match
      \/ seat.role = "Crashed" /\ seat.ctx = NewContext /\ seat.office = NoOffice
  BY <1>1, SeatIs
<1> HIDE DEF seat
<1>5. CASE seat.role = "Crashed" /\ seat.ctx = NewContext /\ seat.office = NoOffice
  BY <1>2, <1>3, <1>5 DEF Panics
<1>6. CASE /\ seat.role = "Leader" /\ seat.ctx = ctx[n] /\ seat.office \in Offices(n)
           /\ seat.office.waiting = o.waiting
           /\ \A f \in Peers(n) : seat.office.pos[f].match = o.pos[f].match
  <2>1. role' = role /\ ctx' = ctx
    BY <1>3, <1>6 DEF TypeOK
  <2> QED
    BY <1>2, <1>3, <1>6, <2>1
<1> QED
  BY <1>4, <1>5, <1>6

LEMMA NewTermIs ==
  ASSUME TypeOK, NEW n \in Node, NEW V \in SUBSET Peers(n)
  PROVE  /\ NewTerm(n, V) \in Nat
         /\ \A m \in V \union {n} : ctx[m].term < NewTerm(n, V)
         /\ \E m \in V \union {n} : NewTerm(n, V) = ctx[m].term + 1
<1> DEFINE T == {ctx[m].term : m \in V \union {n}}
<1>1. \A m \in V \union {n} : ctx[m].term \in Nat /\ ctx[m].term <= MaxTerm
  BY BoundsAssumption DEF TypeOK, Contexts, Terms, Peers
<1>2. T \in SUBSET Nat /\ T # {} /\ \A x \in T : x <= MaxTerm
  BY <1>1
<1>3. Max(T) \in T /\ \A x \in T : x <= Max(T)
  BY <1>2, MaxIs, BoundsAssumption
<1>4. NewTerm(n, V) = Max(T) + 1
  BY DEF NewTerm
<1>5. PICK m \in V \union {n} : Max(T) = ctx[m].term
  BY <1>3
<1>6. \A k \in V \union {n} : ctx[k].term <= Max(T)
  BY <1>3
<1> HIDE DEF T
<1> QED
  BY <1>1, <1>4, <1>5, <1>6

\* The mark that a new Leader sets for f.
SeedOf(n, V, f) == IF f \in V /\ ctx[f].log.term = ctx[n].log.term
                   THEN IF ctx[f].log.slot <= ctx[n].log.slot THEN ctx[f].log.slot
                        ELSE ctx[n].log.slot
                   ELSE 0

LEMMA NewOfficeIs ==
  ASSUME TypeOK, NEW n \in Node, NEW V \in SUBSET Peers(n), NEW col \in Logs
  PROVE  /\ NewOffice(n, V, col) \in Offices(n)
         /\ NewOffice(n, V, col).waiting = {}
         /\ \A f \in Peers(n) : NewOffice(n, V, col).pos[f].match = SeedOf(n, V, f)
<1> DEFINE pos == IF col = EmptyLog THEN Seeded(n, V)
                  ELSE [f \in Peers(n) |-> [Seeded(n, V)[f] EXCEPT !.next = LastSlot(col) + 1]]
<1>1. \A m \in Node : ctx[m].log.slot \in 0..MaxSlot /\ ctx[m].log.slot \in Nat
  BY ContextElim DEF TypeOK
<1>2. ASSUME NEW f \in Peers(n)
      PROVE  Seeded(n, V)[f] \in Positions /\ Seeded(n, V)[f].match = SeedOf(n, V, f)
  <2>1. f \in Node
    BY DEF Peers
  <2>2. Min({ctx[f].log.slot, ctx[n].log.slot})
          = IF ctx[f].log.slot <= ctx[n].log.slot THEN ctx[f].log.slot ELSE ctx[n].log.slot
    BY <1>1, <2>1, TwoNumbers
  <2>3. SeedOf(n, V, f) \in 0..MaxSlot /\ ctx[n].log.slot + 1 \in 0..(MaxSlot + 1)
    BY <1>1, <2>1, BoundsAssumption DEF SeedOf
  <2>4. Seeded(n, V)[f] = [match |-> SeedOf(n, V, f), next |-> ctx[n].log.slot + 1,
                           sent |-> 0, batch |-> 0]
    BY <2>2, Zenon DEF Seeded, SeedOf
  <2> QED
    BY <2>3, <2>4, BoundsAssumption DEF Positions
<1>3. LastSlot(col) + 1 \in 0..(MaxSlot + 1)
  BY LastSlotIs, BoundsAssumption
<1>4. ASSUME NEW f \in Peers(n)
      PROVE  pos[f] \in Positions /\ pos[f].match = SeedOf(n, V, f)
  <2> DEFINE p == Seeded(n, V)[f]
  <2>1. p \in Positions /\ p.match = SeedOf(n, V, f)
    BY <1>2
  <2>2. pos[f] = p \/ pos[f] = [p EXCEPT !.next = LastSlot(col) + 1]
    OBVIOUS
  <2> HIDE DEF p, pos
  <2> QED
    BY <1>3, <2>1, <2>2 DEF Positions
<1>5. DOMAIN pos = Peers(n)
  BY DEF Seeded
<1>6. pos = [f \in Peers(n) |-> pos[f]]
  BY <1>5 DEF Seeded
<1>7. NewOffice(n, V, col) = [NoOffice EXCEPT !.pos = pos]
  BY DEF NewOffice
<1> HIDE DEF pos
<1>8. pos \in [Peers(n) -> Positions]
  BY <1>4, <1>6
<1>9. NewOffice(n, V, col) = [pos |-> pos, waiting |-> {}]
  BY <1>7 DEF NoOffice
<1> QED
  BY <1>4, <1>8, <1>9 DEF Offices

Gathered(n, V) == Collected(ctx[n], Promised(V))
\* The context that a new Leader starts with.
Restored(n, V) == Restamped(ctx[n], NewTerm(n, V), Gathered(n, V))

LEMMA TakeOfficeIs ==
  ASSUME TypeOK, NEW n \in Node, NEW V \in SUBSET Peers(n), TakeOffice(n, V)
  PROVE  /\ NewTerm(n, V) \in Terms
         /\ Gathered(n, V) \in Logs
         /\ Restored(n, V) \in Contexts
         /\ role[n] # "Crashed" /\ Cardinality(V) + 1 = QuorumSize
         /\ \A v \in V : Grants(v, n)
         /\ CallsOK' /\ Sends(n, Restored(n, V))
         /\ \/ role'[n] = "Crashed" /\ ctx'[n] = NewContext /\ office'[n] = NoOffice
            \/ /\ role'[n] = "Leader" /\ ctx'[n] = Restored(n, V)
               /\ office'[n] \in Offices(n) /\ office'[n].waiting = {}
               /\ \A f \in Peers(n) : office'[n].pos[f].match = SeedOf(n, V, f)
         /\ \A m \in Node \ {n} :
              /\ role'[m] = IF m \in V THEN "Follower" ELSE role[m]
              /\ ctx'[m] = IF m \in V THEN [ctx[m] EXCEPT !.term = NewTerm(n, V)] ELSE ctx[m]
              /\ office'[m] = IF m \in V THEN NoOffice ELSE office[m]
         /\ role' = [m \in Node |-> role'[m]] /\ ctx' = [m \in Node |-> ctx'[m]]
         /\ DOMAIN office' = Node
         /\ UNCHANGED <<replies, writes, chosen, acked>>
<1> DEFINE T == NewTerm(n, V)
           c == Restored(n, V)
           o == NewOffice(n, V, Gathered(n, V))
           seat == Seat(c, o, Peers(n))
<1>1. /\ T <= MaxTerm
      /\ SendAll(n, c, o, Peers(n))
      /\ role' = [m \in Node |-> IF m = n THEN seat.role
                                 ELSE IF m \in V THEN "Follower" ELSE role[m]]
      /\ ctx' = [m \in Node |-> IF m = n THEN seat.ctx
                                ELSE IF m \in V THEN [ctx[m] EXCEPT !.term = T] ELSE ctx[m]]
      /\ office' = [m \in Node |-> IF m = n THEN seat.office
                                   ELSE IF m \in V THEN NoOffice ELSE office[m]]
  BY DEF TakeOffice, Restored, Gathered
<1>2. /\ role[n] # "Crashed" /\ Cardinality(V) + 1 = QuorumSize
      /\ \A v \in V : Grants(v, n)
      /\ UNCHANGED <<replies, writes, chosen, acked>>
  BY DEF TakeOffice
<1>3. T \in Terms
  BY <1>1, NewTermIs, BoundsAssumption DEF Terms
<1>4. ctx[n] \in Contexts /\ V \in SUBSET Node
  BY DEF TypeOK, Peers
<1>5. Gathered(n, V) \in Logs
  BY <1>4, PromisedIs, CollectedIs DEF Gathered
<1>6. c \in Contexts
  BY <1>3, <1>4, <1>5, RestampedIs DEF Restored
<1>7. /\ o \in Offices(n) /\ o.waiting = {}
      /\ \A f \in Peers(n) : o.pos[f].match = SeedOf(n, V, f)
  BY <1>5, NewOfficeIs
<1> HIDE DEF c, o, T
<1>8. CallsOK' /\ Sends(n, c)
  BY <1>1, <1>6, <1>7, SendAllIs DEF TypeOK, CallsOK
<1>9. \/ /\ seat.role = "Leader" /\ seat.ctx = c /\ seat.office \in Offices(n)
         /\ seat.office.waiting = o.waiting
         /\ \A f \in Peers(n) : seat.office.pos[f].match = o.pos[f].match
      \/ seat.role = "Crashed" /\ seat.ctx = NewContext /\ seat.office = NoOffice
  BY <1>6, <1>7, SeatIs
<1> HIDE DEF seat
<1>10. role'[n] = seat.role /\ ctx'[n] = seat.ctx /\ office'[n] = seat.office
  BY <1>1
<1>11. \/ role'[n] = "Crashed" /\ ctx'[n] = NewContext /\ office'[n] = NoOffice
       \/ /\ role'[n] = "Leader" /\ ctx'[n] = c
          /\ office'[n] \in Offices(n) /\ office'[n].waiting = {}
          /\ \A f \in Peers(n) : office'[n].pos[f].match = SeedOf(n, V, f)
  BY <1>7, <1>9, <1>10
<1>12. \A m \in Node \ {n} :
         /\ role'[m] = IF m \in V THEN "Follower" ELSE role[m]
         /\ ctx'[m] = IF m \in V THEN [ctx[m] EXCEPT !.term = T] ELSE ctx[m]
         /\ office'[m] = IF m \in V THEN NoOffice ELSE office[m]
  BY <1>1
<1>13. /\ role' = [m \in Node |-> role'[m]] /\ ctx' = [m \in Node |-> ctx'[m]]
       /\ DOMAIN office' = Node
  BY <1>1
<1> QED
  BY <1>2, <1>3, <1>5, <1>6, <1>8, <1>11, <1>12, <1>13 DEF c, T

\* The context of a Leader that has appended one client write.
Extended(c, v) ==
  LET slot == c.log.slot + 1
      e == [s \in {slot} |-> [term |-> c.term, value |-> v]]
  IN [c EXCEPT !.wal = Over(e, @), !.uncommitted = Over(e, @),
               !.log = [term |-> c.term, slot |-> slot]]

LEMMA ExtendedIs ==
  ASSUME NEW c \in Contexts, NEW v \in Values, c.log.slot < MaxSlot
  PROVE  LET slot == c.log.slot + 1
             e == [term |-> c.term, value |-> v]
         IN /\ Extended(c, v) \in Contexts
            /\ slot \in Slots /\ e \in Entries
            /\ Extended(c, v).term = c.term /\ Extended(c, v).committed = c.committed
            /\ Extended(c, v).log.term = c.term /\ Extended(c, v).log.slot = slot
            /\ DOMAIN Extended(c, v).wal = {slot} \union DOMAIN c.wal
            /\ Extended(c, v).wal[slot] = e
            /\ \A s \in DOMAIN c.wal : s # slot => Extended(c, v).wal[s] = c.wal[s]
            /\ DOMAIN Extended(c, v).uncommitted = {slot} \union DOMAIN c.uncommitted
            /\ Extended(c, v).uncommitted[slot] = e
            /\ \A s \in DOMAIN c.uncommitted : s # slot
                 => Extended(c, v).uncommitted[s] = c.uncommitted[s]
<1> DEFINE slot == c.log.slot + 1
           e == [term |-> c.term, value |-> v]
           new == [s \in {slot} |-> e]
<1>1. c.wal \in Logs /\ c.uncommitted \in Logs /\ c.term \in Terms
  BY ContextElim
<1>2. slot \in Slots
  BY ContextElim, BoundsAssumption DEF Slots
<1>3. e \in Entries
  BY <1>1 DEF Entries
<1>4. DOMAIN new = {slot} /\ new[slot] = e /\ new \in [{slot} -> Entries]
  BY <1>3
<1>5. new \in Logs
  BY <1>2, <1>4, LogIntro
<1>6. Extended(c, v) = [c EXCEPT !.wal = Over(new, c.wal), !.uncommitted = Over(new, c.uncommitted),
                                 !.log = [term |-> c.term, slot |-> slot]]
  BY DEF Extended
<1>7. [term |-> c.term, slot |-> slot] \in LogPositions
  BY <1>1, <1>2, BoundsAssumption DEF LogPositions, Slots
<1> HIDE DEF new, e, slot
<1>8. ASSUME NEW old \in Logs
      PROVE  /\ Over(new, old) \in Logs
             /\ DOMAIN Over(new, old) = {slot} \union DOMAIN old
             /\ Over(new, old)[slot] = e
             /\ \A s \in DOMAIN old : s # slot => Over(new, old)[s] = old[s]
  <2>1. /\ Over(new, old) \in Logs
        /\ DOMAIN Over(new, old) = DOMAIN new \union DOMAIN old
        /\ \A s \in DOMAIN new : Over(new, old)[s] = new[s]
        /\ \A s \in DOMAIN old : s \notin DOMAIN new => Over(new, old)[s] = old[s]
    BY <1>5, OverIs, Zenon
  <2> QED
    BY <1>4, <2>1
<1>9. Extended(c, v) \in Contexts
  <2>1. Over(new, c.wal) \in Logs /\ Over(new, c.uncommitted) \in Logs
    BY <1>1, <1>8
  <2> QED
    BY <1>6, <1>7, <2>1 DEF Contexts
<1>10. /\ Extended(c, v).wal = Over(new, c.wal)
       /\ Extended(c, v).uncommitted = Over(new, c.uncommitted)
       /\ Extended(c, v).log = [term |-> c.term, slot |-> slot]
       /\ Extended(c, v).term = c.term /\ Extended(c, v).committed = c.committed
  BY <1>6 DEF Contexts
<1>11. Extended(c, v).log.term = c.term /\ Extended(c, v).log.slot = slot
  BY <1>10
<1>12. /\ DOMAIN Extended(c, v).wal = {slot} \union DOMAIN c.wal
       /\ Extended(c, v).wal[slot] = e
       /\ \A s \in DOMAIN c.wal : s # slot => Extended(c, v).wal[s] = c.wal[s]
  BY <1>1, <1>8, <1>10
<1>13. /\ DOMAIN Extended(c, v).uncommitted = {slot} \union DOMAIN c.uncommitted
       /\ Extended(c, v).uncommitted[slot] = e
       /\ \A s \in DOMAIN c.uncommitted : s # slot
            => Extended(c, v).uncommitted[s] = c.uncommitted[s]
  BY <1>1, <1>8, <1>10
<1> QED
  BY <1>2, <1>3, <1>9, <1>10, <1>11, <1>12, <1>13 DEF e, slot

LEMMA ClientWriteIs ==
  ASSUME TypeOK, NEW n \in Node, ClientWrite(n)
  PROVE  /\ role[n] = "Leader" /\ ctx[n].log.slot < MaxSlot
         /\ writes + 1 \in Values
         /\ ctx' = [ctx EXCEPT ![n] = Extended(ctx[n], writes + 1)]
         /\ office' = [office EXCEPT ![n].waiting = @ \union {ctx[n].log.slot + 1}]
         /\ writes' = writes + 1
         /\ UNCHANGED <<role, calls, replies, chosen, acked>>
<1> DEFINE slot == ctx[n].log.slot + 1
           e == [s \in {slot} |-> [term |-> ctx[n].term, value |-> writes + 1]]
<1>1. /\ role[n] = "Leader" /\ ctx[n].log.slot < MaxSlot /\ writes < MaxWrites
      /\ ctx' = [ctx EXCEPT ![n].wal = Over(e, @), ![n].uncommitted = Over(e, @),
                           ![n].log = [term |-> ctx[n].term, slot |-> slot]]
      /\ office' = [office EXCEPT ![n].waiting = @ \union {slot}]
      /\ writes' = writes + 1
      /\ UNCHANGED <<role, calls, replies, chosen, acked>>
  BY DEF ClientWrite
<1>2. Extended(ctx[n], writes + 1)
        = [ctx[n] EXCEPT !.wal = Over(e, @), !.uncommitted = Over(e, @),
                         !.log = [term |-> ctx[n].term, slot |-> slot]]
  BY DEF Extended
<1>3. writes + 1 \in Values
  BY <1>1, BoundsAssumption DEF TypeOK, Values
<1>4. ctx \in [Node -> Contexts]
  BY DEF TypeOK
<1> HIDE DEF e
<1>5. ctx' = [ctx EXCEPT ![n] = Extended(ctx[n], writes + 1)]
  BY <1>1, <1>2, <1>4
<1> QED
  BY <1>1, <1>3, <1>5

LEMMA PeersIs ==
  ASSUME NEW n \in Node
  PROVE  /\ IsFiniteSet(Peers(n)) /\ Cardinality(Peers(n)) = Cardinality(Node) - 1
         /\ Cardinality(Node) \in Nat /\ QuorumSize \in Nat
         /\ QuorumSize >= 2 /\ QuorumSize <= Cardinality(Node)
         /\ QuorumSize + QuorumSize > Cardinality(Node)
<1>1. IsFiniteSet(Node) /\ Cardinality(Node) >= 2 /\ Cardinality(Node) \in Nat
  BY NodeAssumption, FS_CardinalityType
<1>2. IsFiniteSet(Peers(n)) /\ Cardinality(Peers(n)) = Cardinality(Node) - 1
  BY <1>1, FS_RemoveElement DEF Peers
<1> QED
  BY <1>1, <1>2 DEF QuorumSize

LEMMA QuorumSlotIs ==
  ASSUME NEW n \in Node, NEW pos \in [Peers(n) -> Positions], NEW last \in Nat
  PROVE  /\ QuorumSlot(pos, last) \in 0..last
         /\ Cardinality({f \in Peers(n) : pos[f].match >= QuorumSlot(pos, last)}) >= QuorumSize - 1
<1> DEFINE S == {s \in 0..last :
                   Cardinality({f \in DOMAIN pos : pos[f].match >= s}) >= QuorumSize - 1}
<1>1. \A f \in Peers(n) : pos[f].match \in Nat
  BY PositionElim
<1>2. {f \in DOMAIN pos : pos[f].match >= 0} = Peers(n) /\ DOMAIN pos = Peers(n)
  BY <1>1
<1>3. 0 \in S
  <2>1. Cardinality(Peers(n)) >= QuorumSize - 1
    BY PeersIs
  <2>2. Cardinality({f \in DOMAIN pos : pos[f].match >= 0}) >= QuorumSize - 1
    BY <1>2, <2>1
  <2> QED
    BY <2>2
<1>4. S \in SUBSET Nat /\ \A s \in S : s <= last
  OBVIOUS
<1>5. Max(S) \in S
  BY <1>3, <1>4, MaxIs, Zenon
<1>6. QuorumSlot(pos, last) \in S
  BY <1>5 DEF QuorumSlot
<1> QED
  BY <1>2, <1>6

\* The context of a Leader that has committed up to slot.
Committed(c, slot) == [c EXCEPT !.committed = slot, !.uncommitted = From(@, slot + 1)]

LEMMA CommittedIs ==
  ASSUME NEW c \in Contexts, NEW slot \in 0..MaxSlot
  PROVE  /\ Committed(c, slot) \in Contexts
         /\ Committed(c, slot).term = c.term /\ Committed(c, slot).log = c.log
         /\ Committed(c, slot).wal = c.wal /\ Committed(c, slot).committed = slot
         /\ DOMAIN Committed(c, slot).uncommitted = {s \in DOMAIN c.uncommitted : s > slot}
         /\ \A s \in DOMAIN Committed(c, slot).uncommitted :
              Committed(c, slot).uncommitted[s] = c.uncommitted[s]
<1> DEFINE unc == From(c.uncommitted, slot + 1)
<1>1. c.uncommitted \in Logs /\ slot + 1 \in Nat
  BY ContextElim
<1>2. /\ unc \in Logs /\ DOMAIN unc = {s \in DOMAIN c.uncommitted : s >= slot + 1}
      /\ \A s \in DOMAIN unc : unc[s] = c.uncommitted[s]
  BY <1>1, FromIs
<1>3. {s \in DOMAIN c.uncommitted : s >= slot + 1} = {s \in DOMAIN c.uncommitted : s > slot}
  BY <1>1, LogElim
<1>4. Committed(c, slot) = [c EXCEPT !.committed = slot, !.uncommitted = unc]
  BY DEF Committed
<1> HIDE DEF unc
<1>5. Committed(c, slot) \in Contexts
  BY <1>2, <1>4 DEF Contexts
<1>6. /\ Committed(c, slot).term = c.term /\ Committed(c, slot).log = c.log
      /\ Committed(c, slot).wal = c.wal /\ Committed(c, slot).committed = slot
      /\ Committed(c, slot).uncommitted = unc
  BY <1>4 DEF Contexts
<1> QED
  BY <1>2, <1>3, <1>5, <1>6

\* The score board of n once it has taken r in.
Board(n, r) == [office[n].pos EXCEPT ![r.from] = Acknowledged(@, r.slot)]

LEMMA BoardIs ==
  ASSUME TypeOK, NEW n \in Node, role[n] = "Leader", NEW r \in Replies, r.from # n
  PROVE  /\ Board(n, r) \in [Peers(n) -> Positions]
         /\ \A f \in Peers(n) : Board(n, r)[f].match
              = IF f = r.from THEN r.slot ELSE office[n].pos[f].match
<1>1. office[n] \in Offices(n)
  BY DEF TypeOK
<1>2. office[n].pos \in [Peers(n) -> Positions] /\ r.from \in Peers(n) /\ r.slot \in 0..MaxSlot
  BY <1>1, OfficeElim DEF Replies, Peers
<1>3. /\ Acknowledged(office[n].pos[r.from], r.slot) \in Positions
      /\ Acknowledged(office[n].pos[r.from], r.slot).match = r.slot
  BY <1>2, AcknowledgedIs
<1> QED
  BY <1>2, <1>3 DEF Board

LEMMA HandleWrittenIs ==
  ASSUME TypeOK, NEW n \in Node, role[n] = "Leader", NEW r \in Replies, r.from # n,
         HandleWritten(n, r)
  PROVE  LET slot == QuorumSlot(Board(n, r), ctx[n].log.slot)
         IN \/ UNCHANGED <<ctx, office, chosen, acked>>
            \/ /\ office' = [office EXCEPT ![n].pos = Board(n, r)]
               /\ UNCHANGED <<ctx, chosen, acked>>
            \/ /\ slot > ctx[n].committed /\ slot \in 0..ctx[n].log.slot /\ slot \in 0..MaxSlot
               /\ ctx' = [ctx EXCEPT ![n] = Committed(ctx[n], slot)]
               /\ office' = [office EXCEPT ![n] = [pos |-> Board(n, r),
                      waiting |-> office[n].waiting \ Answered(office[n].waiting, slot)]]
               /\ chosen' = chosen \union {[slot |-> s, value |-> ctx[n].wal[s].value] :
                     s \in (ctx[n].committed + 1)..slot \intersect DOMAIN ctx[n].wal}
               /\ acked' = acked \union {ctx[n].wal[s].value :
                                          s \in Answered(office[n].waiting, slot)}
<1> DEFINE slot == QuorumSlot(Board(n, r), ctx[n].log.slot)
<1>1. ctx[n].log.slot \in Nat /\ ctx[n].log.slot <= MaxSlot /\ ctx \in [Node -> Contexts]
  BY ContextElim DEF TypeOK
<1>2. slot \in 0..ctx[n].log.slot
  BY <1>1, BoardIs, QuorumSlotIs
<1>3. slot \in 0..MaxSlot
  BY <1>1, <1>2, BoundsAssumption
<1>4. \/ UNCHANGED <<ctx, office, chosen, acked>>
      \/ /\ office' = [office EXCEPT ![n].pos = Board(n, r)]
         /\ UNCHANGED <<ctx, chosen, acked>>
      \/ slot > ctx[n].committed /\ Commit(n, Board(n, r), slot)
  BY DEF HandleWritten, Board
<1> HIDE DEF slot
<1>5. ASSUME Commit(n, Board(n, r), slot)
      PROVE  /\ ctx' = [ctx EXCEPT ![n] = Committed(ctx[n], slot)]
             /\ office' = [office EXCEPT ![n] = [pos |-> Board(n, r),
                    waiting |-> office[n].waiting \ Answered(office[n].waiting, slot)]]
             /\ chosen' = chosen \union {[slot |-> s, value |-> ctx[n].wal[s].value] :
                   s \in (ctx[n].committed + 1)..slot \intersect DOMAIN ctx[n].wal}
             /\ acked' = acked \union {ctx[n].wal[s].value :
                                        s \in Answered(office[n].waiting, slot)}
  <2>1. ctx' = [ctx EXCEPT ![n] = Committed(ctx[n], slot)]
    BY <1>1, <1>5 DEF Commit, Committed
  <2> QED
    BY <1>5, <2>1, Zenon DEF Commit
<1> QED
  BY <1>2, <1>3, <1>4, <1>5 DEF slot

\* What is left of the other actions when the record of what they answer is left out.
LEMMA RespondIs ==
  ASSUME TypeOK, NEW out \in Replies, Respond(out)
  PROVE  replies' \subseteq replies \union {out} /\ replies' \subseteq Replies
BY DEF Respond, TypeOK

\* f takes the request r of n out of its queue and answers it.
Takes(n, f, i) ==
  /\ i \in 1..Len(calls[n][f]) /\ (InOrder => i = 1)
  /\ role[f] # "Crashed"
  /\ calls' = [calls EXCEPT ![n][f] = RemoveAt(@, i)]
  /\ role' = [role EXCEPT ![f] = "Follower"]
  /\ office' = [office EXCEPT ![f] = NoOffice]

LEMMA TakesIs ==
  ASSUME TypeOK, NEW n \in Node, NEW f \in Peers(n), NEW i \in 1..MaxCalls,
         Takes(n, f, i)
  PROVE  /\ CallsOK'
         /\ calls[n][f][i] \in Requests /\ calls[n][f][i] \in InFlight(n, f)
         /\ f \in Node /\ f # n /\ ctx[f] \in Contexts
         /\ calls'[n][f] = RemoveAt(calls[n][f], i)
         /\ \A m, g \in Node : m # n \/ g # f => calls'[m][g] = calls[m][g]
<1>1. f \in Node /\ f # n /\ ctx[f] \in Contexts
  BY DEF Peers, TypeOK
<1>2. calls[n][f] \in Seq(Requests) /\ calls \in [Node -> [Node -> Seq(Requests)]]
  BY <1>1 DEF TypeOK
<1>3. i \in 1..Len(calls[n][f]) /\ calls' = [calls EXCEPT ![n][f] = RemoveAt(@, i)]
  BY DEF Takes
<1>4. RemoveAt(calls[n][f], i) \in Seq(Requests)
  BY <1>2, <1>3, RemoveAtIs
<1>5. calls[n][f][i] \in Requests
  BY <1>2, <1>3, ElementOfSeq
<1>6. /\ calls'[n][f] = RemoveAt(calls[n][f], i)
      /\ \A m, g \in Node : m # n \/ g # f => calls'[m][g] = calls[m][g]
  BY <1>1, <1>2, <1>3
<1>7. calls' \in [Node -> [Node -> Seq(Requests)]]
  BY <1>1, <1>2, <1>3, <1>4
<1> QED
  BY <1>1, <1>3, <1>5, <1>6, <1>7 DEF CallsOK, InFlight

LEMMA AdmitIs ==
  ASSUME TypeOK, Shapes, NEW n \in Node, NEW f \in Peers(n), NEW i \in 1..MaxCalls,
         Admit(n, f, i)
  PROVE  LET r == calls[n][f][i]
             c == Adopted(ctx[f], r.term)
         IN /\ Takes(n, f, i) /\ role[f] = "Follower" /\ r.term >= ctx[f].term
            /\ \E out \in Replies :
                 /\ replies' \subseteq replies \union {out}
                 /\ out.from = f /\ out.to = n /\ out.term = c.term
                 /\ \/ out.outcome = "conflict" /\ ctx' = [ctx EXCEPT ![f] = c]
                    \/ /\ out.outcome = "written" /\ out.slot = LastWritten(r)
                       /\ ~Missing(c, r) /\ ~Differs(c, r)
                       /\ ctx' = [ctx EXCEPT ![f] = Written(c, r)]
            /\ UNCHANGED <<writes, chosen, acked>>
<1> DEFINE r == calls[n][f][i]
           c == Adopted(ctx[f], r.term)
           local == c.wal[r.prev.slot].term
<1>1. Takes(n, f, i) /\ role[f] = "Follower"
  BY DEF Admit, Take, Takes
<1>2. f \in Node /\ f # n /\ ctx[f] \in Contexts /\ r \in Requests /\ r \in InFlight(n, f)
  BY <1>1, TakesIs
<1>3. c \in Contexts
  BY <1>2, AdoptedIs, RequestElim
<1>4. r.term >= ctx[f].term /\ UNCHANGED <<writes, chosen, acked>>
  BY DEF Admit
<1>5. c.term \in Terms /\ c.log.slot \in 0..MaxSlot /\ c.wal \in Logs
      /\ LastWritten(r) \in 0..MaxSlot /\ r.prev.slot \in Nat
  BY <1>2, <1>3, ContextElim, RequestElim
<1>6. NoHint \in Hints /\ [term |-> 0, first |-> c.log.slot + 1] \in Hints
  BY <1>5, BoundsAssumption DEF NoHint, Hints, Terms
<1>7. CASE /\ Missing(c, r) /\ ctx' = [ctx EXCEPT ![f] = c]
           /\ Respond(Reply(f, n, c, "conflict", 0, [term |-> 0, first |-> c.log.slot + 1]))
  <2> DEFINE out == Reply(f, n, c, "conflict", 0, [term |-> 0, first |-> c.log.slot + 1])
  <2>1. /\ out \in Replies /\ out.from = f /\ out.to = n /\ out.term = c.term
        /\ out.outcome = "conflict"
    BY <1>2, <1>5, <1>6, BoundsAssumption DEF Reply, Replies
  <2> HIDE DEF out, c, r
  <2> QED
    BY <1>1, <1>4, <1>7, <2>1, RespondIs DEF c, r, out
<1>8. CASE /\ Differs(c, r) /\ ctx' = [ctx EXCEPT ![f] = c]
           /\ Respond(Reply(f, n, c, "conflict", 0,
                        [term |-> local, first |-> Min(SlotsOfTerm(c.wal, local))]))
  <2> DEFINE hint == [term |-> local, first |-> Min(SlotsOfTerm(c.wal, local))]
             out == Reply(f, n, c, "conflict", 0, hint)
  <2> HIDE DEF c, r
  <2>1. r.prev.slot \in DOMAIN c.wal
    <3>1. r.prev.slot # 0
      BY <1>2, <1>8 DEF Differs, TermAt, Shapes
    <3>2. r.prev.slot > 0
      BY <1>5, <3>1
    <3> QED
      BY <1>8, <3>2 DEF Differs, Missing
  <2>2. local \in Terms /\ SlotsOfTerm(c.wal, local) # {}
        /\ SlotsOfTerm(c.wal, local) \subseteq Slots
    BY <1>5, <2>1, LogElim DEF SlotsOfTerm
  <2> HIDE DEF local
  <2>3. Min(SlotsOfTerm(c.wal, local)) \in Slots
    <3>1. SlotsOfTerm(c.wal, local) \in SUBSET Nat
      BY <2>2 DEF Slots
    <3>2. Min(SlotsOfTerm(c.wal, local)) \in SlotsOfTerm(c.wal, local)
      BY <2>2, <3>1, MinIs
    <3> QED
      BY <2>2, <3>2
  <2>4. hint \in Hints
    BY <2>2, <2>3, BoundsAssumption DEF Hints, Slots
  <2> HIDE DEF hint
  <2>5. /\ out \in Replies /\ out.from = f /\ out.to = n /\ out.term = c.term
        /\ out.outcome = "conflict"
    BY <1>2, <1>5, <2>4, BoundsAssumption DEF Reply, Replies
  <2> HIDE DEF out, c, r
  <2> QED
    BY <1>1, <1>4, <1>8, <2>5, RespondIs DEF c, r, out, hint, local
<1>9. CASE /\ ~Missing(c, r) /\ ~Differs(c, r) /\ ctx' = [ctx EXCEPT ![f] = Written(c, r)]
           /\ Respond(Reply(f, n, c, "written", LastWritten(r), NoHint))
  <2> DEFINE out == Reply(f, n, c, "written", LastWritten(r), NoHint)
  <2>1. /\ out \in Replies /\ out.from = f /\ out.to = n /\ out.term = c.term
        /\ out.outcome = "written" /\ out.slot = LastWritten(r)
    BY <1>2, <1>5, <1>6 DEF Reply, Replies
  <2> HIDE DEF out, c, r
  <2> QED
    BY <1>1, <1>4, <1>9, <2>1, RespondIs DEF c, r, out
<1> QED
  BY <1>7, <1>8, <1>9 DEF Admit

LEMMA RefuseIs ==
  ASSUME TypeOK, NEW n \in Node, NEW f \in Peers(n), NEW i \in 1..MaxCalls,
         Refuse(n, f, i)
  PROVE  LET r == calls[n][f][i]
             c == Adopted(ctx[f], r.term)
         IN /\ Takes(n, f, i) /\ r.term # ctx[f].term
            /\ \E out \in Replies :
                 /\ replies' \subseteq replies \union {out}
                 /\ out.from = f /\ out.to = n /\ out.term = c.term /\ out.outcome = "refused"
            /\ ctx' = [ctx EXCEPT ![f] = c]
            /\ UNCHANGED <<writes, chosen, acked>>
<1> DEFINE r == calls[n][f][i]
           c == Adopted(ctx[f], r.term)
           out == Reply(f, n, c, "refused", 0, NoHint)
<1>1. /\ Takes(n, f, i) /\ r.term # ctx[f].term
      /\ Respond(out)
      /\ ctx' = [ctx EXCEPT ![f] = c]
      /\ UNCHANGED <<writes, chosen, acked>>
  BY DEF Refuse, Take, Takes
<1>2. f \in Node /\ f # n /\ ctx[f] \in Contexts /\ r \in Requests
  BY <1>1, TakesIs
<1>3. c.term \in Terms
  BY <1>2, AdoptedIs, RequestElim, ContextElim
<1>4. NoHint \in Hints
  BY BoundsAssumption DEF NoHint, Hints, Terms
<1>5. /\ out \in Replies /\ out.from = f /\ out.to = n /\ out.term = c.term
      /\ out.outcome = "refused"
  BY <1>2, <1>3, <1>4, BoundsAssumption DEF Reply, Replies
<1> HIDE DEF out, c, r
<1>6. replies' \subseteq replies \union {out}
  BY <1>1, <1>5, RespondIs
<1> QED
  BY <1>1, <1>5, <1>6 DEF c, r

LEMMA HandleConflictIs ==
  ASSUME TypeOK, NEW n \in Node, role[n] = "Leader", NEW r \in Replies, r.from # n,
         HandleConflict(n, r)
  PROVE  /\ CallsOK' /\ Sends(n, ctx[n])
         /\ \/ Panics(n)
            \/ /\ role' = role /\ ctx' = ctx
               /\ \E p \in Offices(n) :
                    /\ office' = [office EXCEPT ![n] = p]
                    /\ p.waiting = office[n].waiting
                    /\ \A f \in Peers(n) : p.pos[f].match = office[n].pos[f].match
         /\ UNCHANGED <<chosen, acked>>
<1> DEFINE known == SlotsOfTerm(ctx[n].wal, r.hint.term)
           next == IF r.hint.term = 0 \/ known = {} THEN r.hint.first ELSE Max(known) + 1
           old == office[n].pos[r.from]
           pos == [ClearInFlight(old) EXCEPT !.next = next]
           o == [office[n] EXCEPT !.pos[r.from] = pos]
<1>1. office[n] \in Offices(n) /\ ctx[n].wal \in Logs /\ r.from \in Peers(n)
  BY ContextElim DEF TypeOK, Replies, Peers
<1>2. old \in Positions
  BY <1>1, OfficeElim
<1>3. r.hint.first \in 0..(MaxSlot + 1)
  BY DEF Replies, Hints
<1>4. known \subseteq Slots
  BY <1>1, LogElim DEF SlotsOfTerm
<1>5. next \in 0..(MaxSlot + 1)
  <2>1. CASE r.hint.term = 0 \/ known = {}
    BY <1>3, <2>1
  <2>2. CASE ~(r.hint.term = 0 \/ known = {})
    <3> HIDE DEF known
    <3>1. known \in SUBSET Nat /\ known # {} /\ \A x \in known : x <= MaxSlot
      BY <1>4, <2>2, BoundsAssumption DEF Slots
    <3>2. Max(known) \in known
      BY <3>1, MaxIs, BoundsAssumption
    <3>3. Max(known) \in Nat /\ Max(known) <= MaxSlot
      BY <3>1, <3>2
    <3>4. Max(known) + 1 \in 0..(MaxSlot + 1)
      BY <3>3, BoundsAssumption
    <3> QED
      BY <2>2, <3>4 DEF known
  <2> QED
    BY <2>1, <2>2
<1> HIDE DEF next
<1>6. ClearInFlight(old) \in Positions /\ ClearInFlight(old).match = old.match
  BY <1>2, ClearInFlightIs
<1>7. pos \in Positions /\ pos.match = old.match
  BY <1>5, <1>6 DEF Positions
<1> HIDE DEF pos
<1>8. o \in Offices(n) /\ o.waiting = office[n].waiting
      /\ \A f \in Peers(n) : o.pos[f].match = office[n].pos[f].match
  BY <1>1, <1>7 DEF Offices
<1>9. Dispatch(n, ctx[n], o, {r.from}) /\ UNCHANGED <<chosen, acked>>
  BY DEF HandleConflict, pos, next
<1> HIDE DEF o
<1>10. /\ CallsOK' /\ Sends(n, ctx[n])
       /\ \/ Panics(n)
          \/ /\ role' = role /\ ctx' = ctx
             /\ \E p \in Offices(n) :
                  /\ office' = [office EXCEPT ![n] = p]
                  /\ p.waiting = o.waiting
                  /\ \A f \in Peers(n) : p.pos[f].match = o.pos[f].match
  <2>1. {r.from} \in SUBSET Peers(n) /\ Dispatch(n, ctx[n], o, {r.from})
    BY <1>1, <1>9
  <2>2. o \in Offices(n)
    BY <1>8
  <2> QED
    BY <2>1, <2>2, DispatchIs, Zenon
<1> QED
  BY <1>8, <1>9, <1>10

LEMMA AcceptTimeoutCheckIs ==
  ASSUME TypeOK, NEW n \in Node, NEW F \in SUBSET Peers(n), AcceptTimeoutCheck(n, F)
  PROVE  /\ role[n] = "Leader"
         /\ \E p \in Offices(n) :
              /\ office' = [office EXCEPT ![n] = p]
              /\ p.waiting = office[n].waiting
              /\ \A f \in Peers(n) : p.pos[f].match = office[n].pos[f].match
         /\ UNCHANGED <<role, ctx, calls, replies, writes, chosen, acked>>
<1> DEFINE pos == [f \in Peers(n) |-> IF f \in F THEN ClearInFlight(office[n].pos[f])
                                     ELSE office[n].pos[f]]
           p == [office[n] EXCEPT !.pos = pos]
<1>1. /\ role[n] = "Leader"
      /\ office' = [office EXCEPT ![n].pos = pos]
      /\ UNCHANGED <<role, ctx, calls, replies, writes, chosen, acked>>
  BY DEF AcceptTimeoutCheck
<1>2. office[n] \in Offices(n) /\ DOMAIN office = Node
  BY <1>1 DEF TypeOK
<1>3. \A f \in Peers(n) : pos[f] \in Positions /\ pos[f].match = office[n].pos[f].match
  BY <1>2, OfficeElim, ClearInFlightIs
<1>4. pos \in [Peers(n) -> Positions]
  BY <1>3
<1> HIDE DEF pos
<1>5. p \in Offices(n) /\ p.waiting = office[n].waiting /\ p.pos = pos
  BY <1>2, <1>4 DEF Offices
<1>6. office' = [office EXCEPT ![n] = p]
  BY <1>1, <1>2
<1> HIDE DEF p
<1> QED
  BY <1>1, <1>3, <1>5, <1>6

-----------------------------------------------------------------------------
(* The shapes of a step. *)

\* The score board of n may move its marks of what is sent, not of what is written.
SameMarks(n) ==
  \E p \in Offices(n) : /\ office' = [office EXCEPT ![n] = p]
                        /\ p.waiting = office[n].waiting
                        /\ \A f \in Peers(n) : p.pos[f].match = office[n].pos[f].match

\* Broadcast, and a response that makes n probe a follower again.
Resends(n) == /\ role[n] = "Leader" /\ CallsOK' /\ Sends(n, ctx[n])
              /\ Panics(n) \/ (role' = role /\ ctx' = ctx /\ SameMarks(n))
              /\ replies' \subseteq replies /\ UNCHANGED <<writes, chosen, acked>>

Acknowledges(n, r) ==
  /\ r \in replies /\ r.to = n /\ role[n] = "Leader" /\ r.term = ctx[n].term
  /\ r.outcome = "written" /\ HandleWritten(n, r)
  /\ replies' = replies \ {r} /\ UNCHANGED <<role, calls, writes>>

\* f answers n from context c.
Answers(f, n, c, outcome, slot) ==
  \E out \in Replies : /\ replies' \subseteq replies \union {out}
                       /\ out.from = f /\ out.to = n /\ out.term = c.term
                       /\ out.outcome = outcome /\ out.slot = slot

Accepts(n, f, i) ==
  LET r == calls[n][f][i]
      c == Adopted(ctx[f], r.term)
  IN /\ Takes(n, f, i) /\ role[f] = "Follower" /\ r.term >= ctx[f].term
     /\ ~Missing(c, r) /\ ~Differs(c, r)
     /\ ctx' = [ctx EXCEPT ![f] = Written(c, r)]
     /\ Answers(f, n, c, "written", LastWritten(r))
     /\ UNCHANGED <<writes, chosen, acked>>

Rejects(n, f, i) ==
  LET c == Adopted(ctx[f], calls[n][f][i].term)
  IN /\ Takes(n, f, i)
     /\ ctx' = [ctx EXCEPT ![f] = c]
     /\ \E outcome \in {"conflict", "refused"} : \E slot \in 0..MaxSlot :
          Answers(f, n, c, outcome, slot)
     /\ UNCHANGED <<writes, chosen, acked>>

Quiet == /\ UNCHANGED <<role, ctx, calls, writes, chosen, acked>> /\ replies' \subseteq replies
         /\ office' = office \/ \E n \in Node : role[n] = "Leader" /\ SameMarks(n)

LEMMA AdmitShape ==
  ASSUME TypeOK, Shapes, NEW n \in Node, NEW f \in Peers(n), NEW i \in 1..MaxCalls,
         Admit(n, f, i)
  PROVE  Accepts(n, f, i) \/ Rejects(n, f, i)
<1> DEFINE r == calls[n][f][i]
           c == Adopted(ctx[f], r.term)
<1>1. /\ Takes(n, f, i) /\ role[f] = "Follower" /\ r.term >= ctx[f].term
      /\ UNCHANGED <<writes, chosen, acked>>
  BY AdmitIs
<1>2. PICK out \in Replies :
        /\ replies' \subseteq replies \union {out}
        /\ out.from = f /\ out.to = n /\ out.term = c.term
        /\ \/ out.outcome = "conflict" /\ ctx' = [ctx EXCEPT ![f] = c]
           \/ /\ out.outcome = "written" /\ out.slot = LastWritten(r)
              /\ ~Missing(c, r) /\ ~Differs(c, r)
              /\ ctx' = [ctx EXCEPT ![f] = Written(c, r)]
  BY AdmitIs
<1>3. out.slot \in 0..MaxSlot
  BY DEF Replies
<1>4. CASE out.outcome = "conflict" /\ ctx' = [ctx EXCEPT ![f] = c]
  <2>1. Answers(f, n, c, "conflict", out.slot)
    BY <1>2, <1>4 DEF Answers
  <2> QED
    BY <1>1, <1>3, <1>4, <2>1 DEF Rejects
<1>5. CASE /\ out.outcome = "written" /\ out.slot = LastWritten(r)
           /\ ~Missing(c, r) /\ ~Differs(c, r)
           /\ ctx' = [ctx EXCEPT ![f] = Written(c, r)]
  <2>1. Answers(f, n, c, "written", LastWritten(r))
    BY <1>2, <1>5 DEF Answers
  <2> QED
    BY <1>1, <1>5, <2>1 DEF Accepts
<1> QED
  BY <1>2, <1>4, <1>5

LEMMA RefuseShape ==
  ASSUME TypeOK, NEW n \in Node, NEW f \in Peers(n), NEW i \in 1..MaxCalls,
         Refuse(n, f, i)
  PROVE  Rejects(n, f, i)
<1> DEFINE c == Adopted(ctx[f], calls[n][f][i].term)
<1>1. /\ Takes(n, f, i) /\ ctx' = [ctx EXCEPT ![f] = c]
      /\ UNCHANGED <<writes, chosen, acked>>
  BY RefuseIs
<1>2. PICK out \in Replies :
        /\ replies' \subseteq replies \union {out}
        /\ out.from = f /\ out.to = n /\ out.term = c.term /\ out.outcome = "refused"
  BY RefuseIs
<1>3. out.slot \in 0..MaxSlot
  BY DEF Replies
<1>4. Answers(f, n, c, "refused", out.slot)
  BY <1>2 DEF Answers
<1> QED
  BY <1>1, <1>3, <1>4 DEF Rejects

LEMMA ResponseShape ==
  ASSUME TypeOK, Shapes, NEW n \in Node, NEW r \in replies, ReceiveResponse(n, r)
  PROVE  Acknowledges(n, r) \/ Resends(n)
<1>1. /\ r.to = n /\ role[n] = "Leader" /\ r.term = ctx[n].term
      /\ replies' = replies \ {r} /\ UNCHANGED writes
  BY DEF ReceiveResponse
<1>2. r \in Replies /\ r.from # n
  BY <1>1 DEF TypeOK, Shapes
<1>3. CASE r.outcome = "written" /\ HandleWritten(n, r) /\ UNCHANGED <<role, calls>>
  BY <1>1, <1>3 DEF Acknowledges
<1>4. CASE r.outcome = "conflict" /\ HandleConflict(n, r)
  <2>1. /\ CallsOK' /\ Sends(n, ctx[n]) /\ UNCHANGED <<chosen, acked>>
        /\ Panics(n) \/ (role' = role /\ ctx' = ctx /\ SameMarks(n))
    BY <1>1, <1>2, <1>4, HandleConflictIs DEF SameMarks
  <2> QED
    BY <1>1, <2>1 DEF Resends
<1> QED
  BY <1>3, <1>4 DEF ReceiveResponse

LEMMA BroadcastShape ==
  ASSUME TypeOK, NEW n \in Node, Broadcast(n)
  PROVE  Resends(n)
<1>1. /\ role[n] = "Leader" /\ Dispatch(n, ctx[n], office[n], Peers(n))
      /\ UNCHANGED <<replies, writes, chosen, acked>>
  BY DEF Broadcast
<1>2. office[n] \in Offices(n)
  BY <1>1 DEF TypeOK
<1>3. /\ CallsOK' /\ Sends(n, ctx[n])
      /\ Panics(n) \/ (role' = role /\ ctx' = ctx /\ SameMarks(n))
  BY <1>1, <1>2, DispatchIs DEF SameMarks
<1> QED
  BY <1>1, <1>3 DEF Resends

\* Every step of the group has one of these shapes.
LEMMA NextIs ==
  ASSUME TypeOK, Shapes, [Next]_vars
  PROVE  \/ \E n \in Node : \E V \in SUBSET Peers(n) : TakeOffice(n, V)
         \/ \E n \in Node : ClientWrite(n)
         \/ \E n \in Node : Resends(n)
         \/ \E n \in Node, r \in replies : Acknowledges(n, r)
         \/ \E n \in Node : \E f \in Peers(n), i \in 1..MaxCalls : Accepts(n, f, i)
         \/ \E n \in Node : \E f \in Peers(n), i \in 1..MaxCalls : Rejects(n, f, i)
         \/ \E n \in Node, r \in replies : ReceiveHigherTerm(n, r)
         \/ Quiet
<1>1. CASE UNCHANGED vars
  BY <1>1 DEF vars, Quiet
<1>2. ASSUME NEW n \in Node, Broadcast(n)
      PROVE  Resends(n)
  BY <1>2, BroadcastShape
<1>3. ASSUME NEW n \in Node, NEW F \in SUBSET Peers(n), AcceptTimeoutCheck(n, F)
      PROVE  Quiet
  <2>1. role[n] = "Leader" /\ SameMarks(n)
        /\ UNCHANGED <<role, ctx, calls, replies, writes, chosen, acked>>
    BY <1>3, AcceptTimeoutCheckIs DEF SameMarks
  <2> QED
    BY <2>1 DEF Quiet
<1>4. ASSUME NEW n \in Node, NEW r \in replies, ReceiveResponse(n, r)
      PROVE  Acknowledges(n, r) \/ Resends(n)
  BY <1>4, ResponseShape
<1>5. ASSUME NEW n \in Node, NEW r \in replies, IgnoreResponse(n, r)
      PROVE  Quiet
  BY <1>5 DEF IgnoreResponse, Quiet
<1>6. ASSUME NEW n \in Node, NEW f \in Peers(n), NEW i \in 1..MaxCalls, Admit(n, f, i)
      PROVE  Accepts(n, f, i) \/ Rejects(n, f, i)
  BY <1>6, AdmitShape
<1>7. ASSUME NEW n \in Node, NEW f \in Peers(n), NEW i \in 1..MaxCalls, Refuse(n, f, i)
      PROVE  Rejects(n, f, i)
  BY <1>7, RefuseShape
<1>8. CASE Next
  <2>1. PICK n \in Node :
          \/ \E V \in SUBSET Peers(n) : TakeOffice(n, V)
          \/ ClientWrite(n)
          \/ Broadcast(n)
          \/ \E F \in SUBSET {f \in Peers(n) : Waiting(n, f)} \ {{}} : AcceptTimeoutCheck(n, F)
          \/ \E r \in replies :
               ReceiveResponse(n, r) \/ ReceiveHigherTerm(n, r) \/ IgnoreResponse(n, r)
          \/ \E f \in Peers(n), i \in 1..MaxCalls : Admit(n, f, i) \/ Refuse(n, f, i)
    BY <1>8, Zenon DEF Next
  <2>2. ASSUME NEW F \in SUBSET {f \in Peers(n) : Waiting(n, f)} \ {{}}, AcceptTimeoutCheck(n, F)
        PROVE  Quiet
    <3>1. F \in SUBSET Peers(n)
      OBVIOUS
    <3> QED
      BY <1>3, <2>2, <3>1
  <2> QED
    BY <1>2, <1>4, <1>5, <1>6, <1>7, <2>1, <2>2
<1> QED
  BY <1>1, <1>8

-----------------------------------------------------------------------------
(* The requests in flight after a step. *)

LEMMA FlightElim ==
  ASSUME CallsOK, NEW m \in Node, NEW f \in Node, NEW r \in InFlight(m, f)
  PROVE  r \in Requests /\ \E i \in 1..Len(calls[m][f]) : r = calls[m][f][i]
<1>1. calls[m][f] \in Seq(Requests)
  BY DEF CallsOK
<1>2. PICK i \in 1..Len(calls[m][f]) : r = calls[m][f][i]
  BY DEF InFlight
<1>3. calls[m][f][i] \in Requests
  BY <1>1, ElementOfSeq
<1> QED
  BY <1>2, <1>3

LEMMA FlightSent ==
  ASSUME CallsOK, NEW n \in Node, NEW c \in Contexts, Sends(n, c),
         NEW m \in Node, NEW f \in Node, NEW r \in InFlight(m, f)'
  PROVE  \/ r \in InFlight(m, f)
         \/ m = n /\ f # n /\ \E pos \in Positions : CanAnchor(c, pos) /\ r = Request(c, pos)
<1>1. PICK i \in 1..Len(calls'[m][f]) : r = calls'[m][f][i]
  BY DEF InFlight
<1>2. CASE calls'[m][f] = calls[m][f]
  BY <1>1, <1>2 DEF InFlight
<1>3. CASE /\ m = n /\ f # n
           /\ \E pos \in Positions : /\ CanAnchor(c, pos)
                                     /\ calls'[m][f] = Append(calls[m][f], Request(c, pos))
  <2>1. PICK pos \in Positions :
          CanAnchor(c, pos) /\ calls'[m][f] = Append(calls[m][f], Request(c, pos))
    BY <1>3
  <2>2. Request(c, pos) \in Requests /\ calls[m][f] \in Seq(Requests)
    BY <2>1, RequestIs DEF CallsOK
  <2>3. /\ Len(calls[m][f]) \in Nat
        /\ Len(calls'[m][f]) = Len(calls[m][f]) + 1
        /\ \A j \in 1..Len(calls[m][f]) : calls'[m][f][j] = calls[m][f][j]
        /\ calls'[m][f][Len(calls[m][f]) + 1] = Request(c, pos)
    BY <2>1, <2>2, AppendIs
  <2>4. CASE i = Len(calls[m][f]) + 1
    BY <1>1, <1>3, <2>1, <2>3, <2>4
  <2>5. CASE i # Len(calls[m][f]) + 1
    <3>1. i \in 1..Len(calls[m][f])
      BY <1>1, <2>3, <2>5
    <3>2. r = calls[m][f][i]
      BY <1>1, <2>3, <3>1
    <3> QED
      BY <3>1, <3>2 DEF InFlight
  <2> QED
    BY <2>4, <2>5
<1> QED
  BY <1>2, <1>3 DEF Sends

LEMMA FlightTaken ==
  ASSUME TypeOK, NEW n \in Node, NEW f \in Peers(n), NEW i \in 1..MaxCalls, Takes(n, f, i),
         NEW m \in Node, NEW g \in Node, NEW r \in InFlight(m, g)'
  PROVE  r \in InFlight(m, g)
<1>1. PICK j \in 1..Len(calls'[m][g]) : r = calls'[m][g][j]
  BY DEF InFlight
<1>2. /\ calls'[n][f] = RemoveAt(calls[n][f], i) /\ f \in Node
      /\ m # n \/ g # f => calls'[m][g] = calls[m][g]
  BY TakesIs
<1>3. CASE m # n \/ g # f
  BY <1>1, <1>2, <1>3 DEF InFlight
<1>4. CASE m = n /\ g = f
  <2>1. calls[n][f] \in Seq(Requests) /\ i \in 1..Len(calls[n][f])
    BY <1>2 DEF TypeOK, Takes
  <2> DEFINE rest == RemoveAt(calls[n][f], i)
  <2>5. calls'[n][f] = rest
    BY <1>2
  <2>6. /\ Len(calls[n][f]) \in Nat /\ Len(rest) = Len(calls[n][f]) - 1
        /\ \A k \in 1..Len(rest) :
             rest[k] = IF k < i THEN calls[n][f][k] ELSE calls[n][f][k + 1]
    BY <2>1, RemoveAtIs, Zenon
  <2> HIDE DEF rest
  <2>2. /\ Len(calls[n][f]) \in Nat /\ Len(rest) = Len(calls[n][f]) - 1
        /\ r = IF j < i THEN calls[n][f][j] ELSE calls[n][f][j + 1]
        /\ j \in 1..Len(rest)
    BY <1>1, <1>4, <2>5, <2>6
  <2>3. CASE j < i
    BY <1>1, <1>4, <2>2, <2>3 DEF InFlight
  <2>4. CASE ~(j < i)
    <3>1. j + 1 \in 1..Len(calls[n][f])
      BY <1>1, <1>4, <2>2
    <3> QED
      BY <1>1, <1>4, <2>2, <2>4, <3>1 DEF InFlight
  <2> QED
    BY <2>3, <2>4
<1> QED
  BY <1>3, <1>4

-----------------------------------------------------------------------------
(* Type correctness, step by step. *)

TypeInv == TypeOK /\ Shapes

\* Shapes is about the parts of a state, one by one.
LEMMA ShapesIntro ==
  ASSUME \A n, f \in Node : \A r \in InFlight(n, f) : n # f /\ (r.prev.slot = 0 => r.prev.term = 0),
         \A n \in Node : office[n].waiting \subseteq DOMAIN ctx[n].wal,
         \A r \in replies : r.from # r.to
  PROVE  Shapes
BY DEF Shapes

LEMMA SentShapes ==
  ASSUME TypeInv, NEW n \in Node, NEW c \in Contexts, Sends(n, c),
         NEW m \in Node, NEW f \in Node, NEW r \in InFlight(m, f)'
  PROVE  m # f /\ (r.prev.slot = 0 => r.prev.term = 0)
<1>1. CallsOK
  BY DEF TypeInv, TypeOK, CallsOK
<1>2. CASE r \in InFlight(m, f)
  BY <1>2 DEF TypeInv, Shapes
<1>3. CASE m = n /\ f # n /\ \E pos \in Positions : CanAnchor(c, pos) /\ r = Request(c, pos)
  <2>1. PICK pos \in Positions : CanAnchor(c, pos) /\ r = Request(c, pos)
    BY <1>3
  <2>2. r.prev.slot = Anchor(pos) /\ r.prev.term = TermAt(c.wal, Anchor(pos))
    BY <2>1, RequestIs
  <2> QED
    BY <1>3, <2>2 DEF TermAt
<1> QED
  BY <1>1, <1>2, <1>3, FlightSent

LEMMA TakenShapes ==
  ASSUME TypeInv, NEW n \in Node, NEW f \in Peers(n), NEW i \in 1..MaxCalls, Takes(n, f, i),
         NEW m \in Node, NEW g \in Node, NEW r \in InFlight(m, g)'
  PROVE  m # g /\ (r.prev.slot = 0 => r.prev.term = 0)
BY FlightTaken DEF TypeInv, Shapes

LEMMA WithTermIs ==
  ASSUME NEW c \in Contexts, NEW term \in Terms
  PROVE  LET d == [c EXCEPT !.term = term]
         IN d \in Contexts /\ d.term = term /\ d.log = c.log /\ d.committed = c.committed
            /\ d.uncommitted = c.uncommitted /\ d.wal = c.wal
BY DEF Contexts

LEMMA NewContextIs ==
  /\ NewContext \in Contexts
  /\ NewContext.term = 0 /\ NewContext.log.term = 0 /\ NewContext.log.slot = 0
  /\ NewContext.committed = 0
  /\ DOMAIN NewContext.wal = {} /\ DOMAIN NewContext.uncommitted = {}
BY EmptyLogIs, BoundsAssumption DEF NewContext, Contexts, Terms, LogPositions

LEMMA InitTypes == Init => TypeInv
<1> SUFFICES ASSUME Init PROVE TypeInv
  OBVIOUS
<1>1. /\ role = [n \in Node |-> "Follower"] /\ ctx = [n \in Node |-> NewContext]
      /\ office = [n \in Node |-> NoOffice]
      /\ calls = [n \in Node |-> [f \in Node |-> <<>>]]
      /\ replies = {} /\ writes = 0 /\ chosen = {} /\ acked = {}
  BY DEF Init
<1>2. ctx \in [Node -> Contexts]
  BY <1>1, NewContextIs
<1>3. calls \in [Node -> [Node -> Seq(Requests)]]
  <2>1. <<>> \in Seq(Requests)
    BY EmptySeq
  <2> QED
    BY <1>1, <2>1
<1>4. TypeOK
  BY <1>1, <1>2, <1>3, BoundsAssumption DEF TypeOK
<1>5. \A n, f \in Node : InFlight(n, f) = {}
  <2>1. \A n, f \in Node : calls[n][f] = <<>> /\ Len(<<>>) = 0
    BY <1>1, EmptySeq
  <2> QED
    BY <2>1 DEF InFlight
<1>6. \A n \in Node : office[n].waiting = {}
  BY <1>1 DEF NoOffice
<1> QED
  BY <1>1, <1>4, <1>5, <1>6, ShapesIntro DEF TypeInv

LEMMA TakeOfficeTypes ==
  ASSUME TypeInv, NEW n \in Node, NEW V \in SUBSET Peers(n), TakeOffice(n, V)
  PROVE  TypeInv'
<1> USE DEF TypeInv
<1>1. /\ NewTerm(n, V) \in Terms /\ Restored(n, V) \in Contexts
      /\ CallsOK' /\ Sends(n, Restored(n, V))
      /\ \/ role'[n] = "Crashed" /\ ctx'[n] = NewContext /\ office'[n] = NoOffice
         \/ /\ role'[n] = "Leader" /\ ctx'[n] = Restored(n, V)
            /\ office'[n] \in Offices(n) /\ office'[n].waiting = {}
      /\ \A m \in Node \ {n} :
           /\ role'[m] = IF m \in V THEN "Follower" ELSE role[m]
           /\ ctx'[m] = IF m \in V THEN [ctx[m] EXCEPT !.term = NewTerm(n, V)] ELSE ctx[m]
           /\ office'[m] = IF m \in V THEN NoOffice ELSE office[m]
      /\ role' = [m \in Node |-> role'[m]] /\ ctx' = [m \in Node |-> ctx'[m]]
      /\ DOMAIN office' = Node
      /\ UNCHANGED <<replies, writes, chosen, acked>>
  BY TakeOfficeIs
<1>2. \A m \in Node : ctx'[m] \in Contexts
  <2> TAKE m \in Node
  <2>1. ctx[m] \in Contexts
    BY DEF TypeOK
  <2>2. CASE m = n
    BY <1>1, <2>2, NewContextIs
  <2>3. CASE m # n
    BY <1>1, <2>1, <2>3, WithTermIs
  <2> QED
    BY <2>2, <2>3
<1>3. \A m \in Node : /\ role'[m] \in {"Follower", "Leader", "Crashed"}
                      /\ office'[m] \in IF role'[m] = "Leader" THEN Offices(m) ELSE {NoOffice}
  BY <1>1 DEF TypeOK
<1>4. ctx' \in [Node -> Contexts] /\ role' \in [Node -> {"Follower", "Leader", "Crashed"}]
  BY <1>1, <1>2, <1>3
<1>5. TypeOK'
  BY <1>1, <1>3, <1>4 DEF TypeOK, CallsOK
<1>6. \A m \in Node : office'[m].waiting \subseteq DOMAIN ctx'[m].wal
  <2> TAKE m \in Node
  <2>1. CASE m = n
    BY <1>1, <2>1 DEF NoOffice
  <2>2. CASE m # n /\ m \in V
    BY <1>1, <2>2 DEF NoOffice
  <2>3. CASE m # n /\ m \notin V
    BY <1>1, <2>3 DEF Shapes
  <2> QED
    BY <2>1, <2>2, <2>3
<1>7. \A m, f \in Node : \A r \in InFlight(m, f)' :
        m # f /\ (r.prev.slot = 0 => r.prev.term = 0)
  BY <1>1, SentShapes
<1>8. Shapes'
  BY <1>1, <1>6, <1>7 DEF Shapes
<1> QED
  BY <1>5, <1>8

LEMMA ClientWriteTypes ==
  ASSUME TypeInv, NEW n \in Node, ClientWrite(n)
  PROVE  TypeInv'
<1> USE DEF TypeInv
<1> DEFINE c == Extended(ctx[n], writes + 1)
           slot == ctx[n].log.slot + 1
<1>1. /\ role[n] = "Leader" /\ ctx[n].log.slot < MaxSlot
      /\ writes + 1 \in Values
      /\ ctx' = [ctx EXCEPT ![n] = c]
      /\ office' = [office EXCEPT ![n].waiting = @ \union {slot}]
      /\ writes' = writes + 1
      /\ UNCHANGED <<role, calls, replies, chosen, acked>>
  BY ClientWriteIs
<1>2. ctx[n] \in Contexts
  BY DEF TypeOK
<1>3. c \in Contexts /\ slot \in Slots /\ DOMAIN c.wal = {slot} \union DOMAIN ctx[n].wal
  BY <1>1, <1>2, ExtendedIs
<1> HIDE DEF c, slot
<1>4. office[n] \in Offices(n) /\ DOMAIN office = Node
  BY <1>1 DEF TypeOK
<1> DEFINE o == [office[n] EXCEPT !.waiting = @ \union {slot}]
<1>5. office' = [office EXCEPT ![n] = o]
  BY <1>1, <1>4
<1>6. o \in Offices(n) /\ o.waiting = office[n].waiting \union {slot}
  BY <1>3, <1>4 DEF Offices
<1> HIDE DEF o
<1>7. \A m \in Node : /\ ctx'[m] = IF m = n THEN c ELSE ctx[m]
                      /\ office'[m] = IF m = n THEN o ELSE office[m]
  BY <1>1, <1>4, <1>5 DEF TypeOK
<1>8. writes' \in 0..MaxWrites
  BY <1>1, BoundsAssumption DEF Values
<1>9. TypeOK'
  <2>1. ctx' \in [Node -> Contexts]
    BY <1>1, <1>3 DEF TypeOK
  <2>2. \A m \in Node : office'[m] \in IF role'[m] = "Leader" THEN Offices(m) ELSE {NoOffice}
    BY <1>1, <1>6, <1>7 DEF TypeOK
  <2>3. DOMAIN office' = Node
    BY <1>4, <1>5
  <2> QED
    BY <1>1, <1>8, <2>1, <2>2, <2>3 DEF TypeOK
<1>10. \A m \in Node : office'[m].waiting \subseteq DOMAIN ctx'[m].wal
  BY <1>3, <1>6, <1>7 DEF Shapes
<1>11. \A m, f \in Node : InFlight(m, f)' = InFlight(m, f)
  BY <1>1 DEF InFlight
<1>12. Shapes'
  BY <1>1, <1>10, <1>11 DEF Shapes
<1> QED
  BY <1>9, <1>12

\* A step that moves only marks of n.
LEMMA SameMarksTypes ==
  ASSUME TypeInv, NEW n \in Node, role[n] = "Leader", SameMarks(n), role' = role
  PROVE  /\ DOMAIN office' = Node
         /\ \A m \in Node : /\ office'[m].waiting = office[m].waiting
                            /\ office'[m] \in IF role'[m] = "Leader" THEN Offices(m)
                                               ELSE {NoOffice}
BY DEF SameMarks, TypeInv, TypeOK

LEMMA PanicsTypes ==
  ASSUME TypeInv, NEW n \in Node, Panics(n)
  PROVE  /\ role' \in [Node -> {"Follower", "Leader", "Crashed"}]
         /\ ctx' \in [Node -> Contexts]
         /\ DOMAIN office' = Node
         /\ \A m \in Node : office'[m] \in IF role'[m] = "Leader" THEN Offices(m) ELSE {NoOffice}
         /\ \A m \in Node : office'[m].waiting \subseteq DOMAIN ctx'[m].wal
<1> USE DEF TypeInv
<1>1. \A m \in Node : /\ role'[m] = IF m = n THEN "Crashed" ELSE role[m]
                      /\ ctx'[m] = IF m = n THEN NewContext ELSE ctx[m]
                      /\ office'[m] = IF m = n THEN NoOffice ELSE office[m]
  BY DEF Panics, TypeOK
<1>2. NoOffice.waiting = {}
  BY DEF NoOffice
<1>3. role' \in [Node -> {"Follower", "Leader", "Crashed"}] /\ ctx' \in [Node -> Contexts]
      /\ DOMAIN office' = Node
  BY NewContextIs DEF Panics, TypeOK
<1>4. \A m \in Node : office'[m] \in IF role'[m] = "Leader" THEN Offices(m) ELSE {NoOffice}
  BY <1>1 DEF TypeOK
<1> QED
  BY <1>1, <1>2, <1>3, <1>4 DEF Shapes

LEMMA ResendsTypes ==
  ASSUME TypeInv, NEW n \in Node, Resends(n)
  PROVE  TypeInv'
<1> USE DEF TypeInv
<1>1. /\ role[n] = "Leader" /\ CallsOK' /\ Sends(n, ctx[n])
      /\ replies' \subseteq replies /\ UNCHANGED <<writes, chosen, acked>>
  BY DEF Resends
<1>2. ctx[n] \in Contexts
  BY DEF TypeOK
<1>3. \A m, f \in Node : \A r \in InFlight(m, f)' :
        m # f /\ (r.prev.slot = 0 => r.prev.term = 0)
  BY <1>1, <1>2, SentShapes
<1>4. /\ role' \in [Node -> {"Follower", "Leader", "Crashed"}]
      /\ ctx' \in [Node -> Contexts]
      /\ DOMAIN office' = Node
      /\ \A m \in Node : office'[m] \in IF role'[m] = "Leader" THEN Offices(m) ELSE {NoOffice}
      /\ \A m \in Node : office'[m].waiting \subseteq DOMAIN ctx'[m].wal
  <2>1. CASE Panics(n)
    BY <2>1, PanicsTypes
  <2>2. CASE role' = role /\ ctx' = ctx /\ SameMarks(n)
    <3>1. /\ DOMAIN office' = Node
          /\ \A m \in Node : /\ office'[m].waiting = office[m].waiting
                             /\ office'[m] \in IF role'[m] = "Leader" THEN Offices(m)
                                                ELSE {NoOffice}
      BY <1>1, <2>2, SameMarksTypes
    <3> QED
      BY <2>2, <3>1 DEF TypeOK, Shapes
  <2> QED
    BY <2>1, <2>2 DEF Resends
<1>5. TypeOK'
  BY <1>1, <1>4 DEF TypeOK, CallsOK
<1>6. Shapes'
  BY <1>1, <1>3, <1>4 DEF Shapes
<1> QED
  BY <1>5, <1>6

LEMMA AcknowledgesTypes ==
  ASSUME TypeInv, NEW n \in Node, NEW r \in replies, Acknowledges(n, r)
  PROVE  TypeInv'
<1> USE DEF TypeInv
<1> DEFINE slot == QuorumSlot(Board(n, r), ctx[n].log.slot)
           waiting == office[n].waiting
<1>1. /\ r.to = n /\ role[n] = "Leader" /\ HandleWritten(n, r)
      /\ replies' = replies \ {r} /\ UNCHANGED <<role, calls, writes>>
  BY DEF Acknowledges
<1>2. r \in Replies /\ r.from # n /\ office[n] \in Offices(n) /\ DOMAIN office = Node
      /\ ctx[n] \in Contexts /\ ctx[n].wal \in Logs
  BY <1>1, ContextElim DEF TypeOK, Shapes
<1>3. Board(n, r) \in [Peers(n) -> Positions]
  BY <1>1, <1>2, BoardIs
<1>4. waiting \in SUBSET Slots /\ waiting \subseteq DOMAIN ctx[n].wal
  BY <1>2, OfficeElim DEF Shapes
<1>5. \/ UNCHANGED <<ctx, office, chosen, acked>>
      \/ /\ office' = [office EXCEPT ![n].pos = Board(n, r)]
         /\ UNCHANGED <<ctx, chosen, acked>>
      \/ /\ slot \in 0..MaxSlot
         /\ ctx' = [ctx EXCEPT ![n] = Committed(ctx[n], slot)]
         /\ office' = [office EXCEPT ![n] = [pos |-> Board(n, r),
                waiting |-> waiting \ Answered(waiting, slot)]]
         /\ chosen' = chosen \union {[slot |-> s, value |-> ctx[n].wal[s].value] :
               s \in (ctx[n].committed + 1)..slot \intersect DOMAIN ctx[n].wal}
         /\ acked' = acked \union {ctx[n].wal[s].value : s \in Answered(waiting, slot)}
  BY <1>1, <1>2, HandleWrittenIs
<1> HIDE DEF slot, waiting
<1>6. \A m, f \in Node : InFlight(m, f)' = InFlight(m, f)
  BY <1>1 DEF InFlight
<1>7. ASSUME /\ ctx' \in [Node -> Contexts] /\ DOMAIN office' = Node
             /\ \A m \in Node : ctx'[m].wal = ctx[m].wal
             /\ chosen' \subseteq [slot : Slots, value : Values] /\ acked' \subseteq Values,
             NEW o \in Offices(n), o.waiting \subseteq waiting,
             \A m \in Node : office'[m] = IF m = n THEN o ELSE office[m]
      PROVE  TypeInv'
  <2>1. \A m \in Node : office'[m] \in IF role'[m] = "Leader" THEN Offices(m) ELSE {NoOffice}
    BY <1>1, <1>7 DEF TypeOK
  <2>2. TypeOK'
    BY <1>1, <1>7, <2>1 DEF TypeOK
  <2>3. \A m \in Node : office'[m].waiting \subseteq DOMAIN ctx'[m].wal
    BY <1>4, <1>7 DEF Shapes
  <2>4. Shapes'
    BY <1>1, <1>6, <2>3 DEF Shapes
  <2> QED
    BY <2>2, <2>4
<1>8. CASE UNCHANGED <<ctx, office, chosen, acked>>
  <2>1. office[n].waiting \subseteq waiting
    BY DEF waiting
  <2> QED
    BY <1>2, <1>7, <1>8, <2>1 DEF TypeOK
<1>9. CASE office' = [office EXCEPT ![n].pos = Board(n, r)] /\ UNCHANGED <<ctx, chosen, acked>>
  <2> DEFINE o == [office[n] EXCEPT !.pos = Board(n, r)]
  <2>1. o \in Offices(n) /\ o.waiting \subseteq waiting
    BY <1>2, <1>3 DEF Offices, waiting
  <2>2. \A m \in Node : office'[m] = IF m = n THEN o ELSE office[m]
    BY <1>2, <1>9
  <2>3. DOMAIN office' = Node
    BY <1>2, <1>9
  <2> HIDE DEF o
  <2> QED
    BY <1>7, <1>9, <2>1, <2>2, <2>3 DEF TypeOK
<1>10. CASE /\ slot \in 0..MaxSlot
            /\ ctx' = [ctx EXCEPT ![n] = Committed(ctx[n], slot)]
            /\ office' = [office EXCEPT ![n] = [pos |-> Board(n, r),
                   waiting |-> waiting \ Answered(waiting, slot)]]
            /\ chosen' = chosen \union {[slot |-> s, value |-> ctx[n].wal[s].value] :
                  s \in (ctx[n].committed + 1)..slot \intersect DOMAIN ctx[n].wal}
            /\ acked' = acked \union {ctx[n].wal[s].value : s \in Answered(waiting, slot)}
  <2> DEFINE o == [pos |-> Board(n, r), waiting |-> waiting \ Answered(waiting, slot)]
  <2>1. o \in Offices(n) /\ o.waiting \subseteq waiting
    BY <1>3, <1>4 DEF Offices
  <2>2. (\A m \in Node : office'[m] = IF m = n THEN o ELSE office[m]) /\ DOMAIN office' = Node
    BY <1>2, <1>10
  <2> HIDE DEF o
  <2>3. Committed(ctx[n], slot) \in Contexts /\ Committed(ctx[n], slot).wal = ctx[n].wal
    BY <1>2, <1>10, CommittedIs
  <2>4. ctx' \in [Node -> Contexts] /\ \A m \in Node : ctx'[m].wal = ctx[m].wal
    BY <1>10, <2>3 DEF TypeOK
  <2>5. \A s \in DOMAIN ctx[n].wal : s \in Slots /\ ctx[n].wal[s].value \in Values
    BY <1>2, LogElim
  <2>6. chosen' \subseteq [slot : Slots, value : Values]
    BY <1>10, <2>5 DEF TypeOK
  <2>7. acked' \subseteq Values
    BY <1>4, <1>10, <2>5 DEF TypeOK, Answered
  <2> QED
    BY <1>7, <2>1, <2>2, <2>4, <2>6, <2>7
<1> QED
  BY <1>5, <1>8, <1>9, <1>10

\* f answers a request of n, from the context c it then has.
LEMMA AnsweredTypes ==
  ASSUME TypeInv, NEW n \in Node, NEW f \in Peers(n), NEW i \in 1..MaxCalls, Takes(n, f, i),
         NEW c \in Contexts, ctx' = [ctx EXCEPT ![f] = c],
         NEW d, NEW outcome, NEW slot, Answers(f, n, d, outcome, slot),
         UNCHANGED <<writes, chosen, acked>>
  PROVE  TypeInv'
<1> USE DEF TypeInv
<1>1. CallsOK' /\ f \in Node /\ f # n
  BY TakesIs
<1>2. role' = [role EXCEPT ![f] = "Follower"] /\ office' = [office EXCEPT ![f] = NoOffice]
  BY DEF Takes
<1>3. \A m \in Node : /\ role'[m] = IF m = f THEN "Follower" ELSE role[m]
                      /\ office'[m] = IF m = f THEN NoOffice ELSE office[m]
                      /\ ctx'[m] = IF m = f THEN c ELSE ctx[m]
  BY <1>2 DEF TypeOK
<1>4. \A m \in Node : office'[m] \in IF role'[m] = "Leader" THEN Offices(m) ELSE {NoOffice}
  BY <1>3 DEF TypeOK
<1>5. PICK out \in Replies : replies' \subseteq replies \union {out} /\ out.from = f /\ out.to = n
  BY DEF Answers
<1>6. replies' \subseteq Replies
  BY <1>5 DEF TypeOK
<1>7. TypeOK'
  BY <1>1, <1>2, <1>4, <1>6 DEF TypeOK, CallsOK
<1>8. \A m \in Node : office'[m].waiting \subseteq DOMAIN ctx'[m].wal
  <2>1. NoOffice.waiting = {}
    BY DEF NoOffice
  <2> QED
    BY <1>3, <2>1 DEF Shapes
<1>9. \A m, g \in Node : \A r \in InFlight(m, g)' :
        m # g /\ (r.prev.slot = 0 => r.prev.term = 0)
  BY TakenShapes
<1>10. \A r \in replies' : r.from # r.to
  BY <1>1, <1>5 DEF Shapes
<1>11. Shapes'
  BY <1>8, <1>9, <1>10 DEF Shapes
<1> QED
  BY <1>7, <1>11

LEMMA AcceptsTypes ==
  ASSUME TypeInv, NEW n \in Node, NEW f \in Peers(n), NEW i \in 1..MaxCalls, Accepts(n, f, i)
  PROVE  TypeInv'
<1> DEFINE r == calls[n][f][i]
           c == Adopted(ctx[f], r.term)
<1>1. /\ Takes(n, f, i) /\ ctx' = [ctx EXCEPT ![f] = Written(c, r)]
      /\ Answers(f, n, c, "written", LastWritten(r)) /\ UNCHANGED <<writes, chosen, acked>>
  BY DEF Accepts
<1>2. ctx[f] \in Contexts /\ r \in Requests
  BY <1>1, TakesIs DEF TypeInv
<1>3. c \in Contexts
  BY <1>2, AdoptedIs, RequestElim
<1> HIDE DEF c, r
<1>4. Written(c, r) \in Contexts
  BY <1>2, <1>3, WrittenIs
<1> QED
  BY <1>1, <1>4, AnsweredTypes

LEMMA RejectsTypes ==
  ASSUME TypeInv, NEW n \in Node, NEW f \in Peers(n), NEW i \in 1..MaxCalls, Rejects(n, f, i)
  PROVE  TypeInv'
<1> DEFINE r == calls[n][f][i]
           c == Adopted(ctx[f], r.term)
<1>1. /\ Takes(n, f, i) /\ ctx' = [ctx EXCEPT ![f] = c] /\ UNCHANGED <<writes, chosen, acked>>
      /\ \E outcome \in {"conflict", "refused"} : \E slot \in 0..MaxSlot :
           Answers(f, n, c, outcome, slot)
  BY DEF Rejects
<1>2. ctx[f] \in Contexts /\ r \in Requests
  BY <1>1, TakesIs DEF TypeInv
<1>3. c \in Contexts
  BY <1>2, AdoptedIs, RequestElim
<1> HIDE DEF c
<1> QED
  BY <1>1, <1>3, AnsweredTypes

LEMMA HigherTermTypes ==
  ASSUME TypeInv, NEW n \in Node, NEW r \in replies, ReceiveHigherTerm(n, r)
  PROVE  TypeInv'
<1> USE DEF TypeInv
<1>1. /\ ctx' = [ctx EXCEPT ![n].term = r.term]
      /\ role' = [role EXCEPT ![n] = "Follower"]
      /\ office' = [office EXCEPT ![n] = NoOffice]
      /\ replies' = replies \ {r}
      /\ UNCHANGED <<calls, writes, chosen, acked>>
  BY DEF ReceiveHigherTerm
<1> DEFINE c == [ctx[n] EXCEPT !.term = r.term]
<1>2. c \in Contexts /\ c.wal = ctx[n].wal
  <2>1. ctx[n] \in Contexts /\ r.term \in Terms
    BY DEF TypeOK, Replies
  <2> QED
    BY <2>1, WithTermIs
<1>3. ctx' = [ctx EXCEPT ![n] = c]
  BY <1>1
<1> HIDE DEF c
<1>4. \A m \in Node : /\ role'[m] = IF m = n THEN "Follower" ELSE role[m]
                      /\ office'[m] = IF m = n THEN NoOffice ELSE office[m]
                      /\ ctx'[m] = IF m = n THEN c ELSE ctx[m]
  BY <1>1, <1>3 DEF TypeOK
<1>5. \A m \in Node : office'[m] \in IF role'[m] = "Leader" THEN Offices(m) ELSE {NoOffice}
  BY <1>4 DEF TypeOK
<1>6. TypeOK'
  BY <1>1, <1>2, <1>3, <1>5 DEF TypeOK
<1>7. \A m \in Node : office'[m].waiting \subseteq DOMAIN ctx'[m].wal
  <2>1. NoOffice.waiting = {}
    BY DEF NoOffice
  <2> QED
    BY <1>4, <2>1 DEF Shapes
<1>8. \A m, f \in Node : InFlight(m, f)' = InFlight(m, f)
  BY <1>1 DEF InFlight
<1>9. Shapes'
  BY <1>1, <1>7, <1>8 DEF Shapes
<1> QED
  BY <1>6, <1>9

LEMMA QuietTypes ==
  ASSUME TypeInv, Quiet
  PROVE  TypeInv'
<1> USE DEF TypeInv
<1>1. UNCHANGED <<role, ctx, calls, writes, chosen, acked>> /\ replies' \subseteq replies
  BY DEF Quiet
<1>2. /\ DOMAIN office' = Node
      /\ \A m \in Node : /\ office'[m].waiting = office[m].waiting
                         /\ office'[m] \in IF role'[m] = "Leader" THEN Offices(m)
                                           ELSE {NoOffice}
  <2>1. CASE office' = office
    BY <1>1, <2>1 DEF TypeOK
  <2>2. CASE \E n \in Node : role[n] = "Leader" /\ SameMarks(n)
    BY <1>1, <2>2, SameMarksTypes
  <2> QED
    BY <2>1, <2>2 DEF Quiet
<1>3. TypeOK'
  BY <1>1, <1>2 DEF TypeOK
<1>4. \A m, f \in Node : InFlight(m, f)' = InFlight(m, f)
  BY <1>1 DEF InFlight
<1>5. Shapes'
  BY <1>1, <1>2, <1>4 DEF Shapes
<1> QED
  BY <1>3, <1>5

LEMMA StepTypes ==
  ASSUME TypeInv, [Next]_vars
  PROVE  TypeInv'
<1>1. /\ TypeOK /\ Shapes
  BY DEF TypeInv
<1> QED
  BY <1>1, NextIs, TakeOfficeTypes, ClientWriteTypes, ResendsTypes, AcknowledgesTypes,
     AcceptsTypes, RejectsTypes, HigherTermTypes, QuietTypes

LEMMA TypesAreInvariant == Spec => []TypeInv
<1>1. Init => TypeInv
  BY InitTypes
<1>2. TypeInv /\ [Next]_vars => TypeInv'
  BY StepTypes
<1> QED
  BY <1>1, <1>2, PTL DEF Spec

\* Whatever is lost, delayed or overtaken, and whoever panics: terms, slots and the
\* marks of every score board stay within the log, requests and responses are well
\* formed, and only a Leader owns an office.
THEOREM ReplicationTypeCorrect == Spec => []TypeOK
<1>1. TypeInv => TypeOK
  BY DEF TypeInv
<1> QED
  BY <1>1, TypesAreInvariant, PTL

-----------------------------------------------------------------------------
(* The members after a step, one by one. *)

LEMMA PanicsIs ==
  ASSUME TypeInv, NEW n \in Node, Panics(n)
  PROVE  \A m \in Node : /\ role'[m] = IF m = n THEN "Crashed" ELSE role[m]
                         /\ ctx'[m] = IF m = n THEN NewContext ELSE ctx[m]
                         /\ office'[m] = IF m = n THEN NoOffice ELSE office[m]
BY DEF Panics, TypeInv, TypeOK

LEMMA AcceptsIs ==
  ASSUME TypeInv, NEW n \in Node, NEW f \in Peers(n), NEW i \in 1..MaxCalls, Accepts(n, f, i)
  PROVE  LET r == calls[n][f][i]
             c == Adopted(ctx[f], r.term)
         IN /\ f \in Node /\ f # n /\ role[f] = "Follower"
            /\ r \in Requests /\ r \in InFlight(n, f) /\ c \in Contexts
            /\ r.term >= ctx[f].term /\ c.term = r.term
            /\ c.log = ctx[f].log /\ c.committed = ctx[f].committed
            /\ c.wal = ctx[f].wal /\ c.uncommitted = ctx[f].uncommitted
            /\ ~Missing(c, r) /\ ~Differs(c, r)
            /\ \A m \in Node : /\ ctx'[m] = IF m = f THEN Written(c, r) ELSE ctx[m]
                               /\ role'[m] = role[m]
                               /\ office'[m] = office[m]
            /\ \A m, g \in Node : InFlight(m, g)' \subseteq InFlight(m, g)
            /\ Answers(f, n, c, "written", LastWritten(r))
            /\ UNCHANGED <<writes, chosen, acked>>
<1> USE DEF TypeInv
<1> DEFINE r == calls[n][f][i]
           c == Adopted(ctx[f], r.term)
<1>1. /\ Takes(n, f, i) /\ role[f] = "Follower" /\ r.term >= ctx[f].term
      /\ ~Missing(c, r) /\ ~Differs(c, r)
      /\ ctx' = [ctx EXCEPT ![f] = Written(c, r)]
      /\ Answers(f, n, c, "written", LastWritten(r))
      /\ UNCHANGED <<writes, chosen, acked>>
  BY DEF Accepts
<1>2. /\ f \in Node /\ f # n /\ ctx[f] \in Contexts /\ r \in Requests /\ r \in InFlight(n, f)
  BY <1>1, TakesIs
<1>3. r.term \in Terms /\ r.term \in Nat /\ ctx[f].term \in Nat
  BY <1>2, RequestElim, ContextElim
<1>4. /\ c \in Contexts /\ c.term = IF ctx[f].term >= r.term THEN ctx[f].term ELSE r.term
      /\ c.log = ctx[f].log /\ c.committed = ctx[f].committed
      /\ c.wal = ctx[f].wal /\ c.uncommitted = ctx[f].uncommitted
  BY <1>2, <1>3, AdoptedIs
<1> HIDE DEF c, r
<1>5. c.term = r.term
  BY <1>1, <1>3, <1>4
<1>6. \A m \in Node : /\ ctx'[m] = IF m = f THEN Written(c, r) ELSE ctx[m]
                      /\ role'[m] = role[m]
                      /\ office'[m] = office[m]
  <2>1. office[f] = NoOffice
    BY <1>1, <1>2 DEF TypeOK
  <2>2. role' = [role EXCEPT ![f] = "Follower"] /\ office' = [office EXCEPT ![f] = NoOffice]
    BY <1>1 DEF Takes
  <2> QED
    BY <1>1, <1>2, <2>1, <2>2 DEF TypeOK
<1>7. \A m, g \in Node : InFlight(m, g)' \subseteq InFlight(m, g)
  BY <1>1, FlightTaken
<1> QED
  BY <1>1, <1>2, <1>4, <1>5, <1>6, <1>7 DEF c, r

LEMMA RejectsIs ==
  ASSUME TypeInv, NEW n \in Node, NEW f \in Peers(n), NEW i \in 1..MaxCalls, Rejects(n, f, i)
  PROVE  LET r == calls[n][f][i]
             c == Adopted(ctx[f], r.term)
         IN /\ f \in Node /\ f # n /\ role[f] # "Crashed"
            /\ r \in Requests /\ r \in InFlight(n, f) /\ c \in Contexts
            /\ c.term = IF ctx[f].term >= r.term THEN ctx[f].term ELSE r.term
            /\ c.log = ctx[f].log /\ c.committed = ctx[f].committed
            /\ c.wal = ctx[f].wal /\ c.uncommitted = ctx[f].uncommitted
            /\ \A m \in Node : /\ ctx'[m] = IF m = f THEN c ELSE ctx[m]
                               /\ role'[m] = IF m = f THEN "Follower" ELSE role[m]
                               /\ office'[m] = IF m = f THEN NoOffice ELSE office[m]
            /\ \A m, g \in Node : InFlight(m, g)' \subseteq InFlight(m, g)
            /\ \E outcome \in {"conflict", "refused"} : \E slot \in 0..MaxSlot :
                 Answers(f, n, c, outcome, slot)
            /\ UNCHANGED <<writes, chosen, acked>>
<1> USE DEF TypeInv
<1> DEFINE r == calls[n][f][i]
           c == Adopted(ctx[f], r.term)
<1>1. /\ Takes(n, f, i)
      /\ ctx' = [ctx EXCEPT ![f] = c]
      /\ \E outcome \in {"conflict", "refused"} : \E slot \in 0..MaxSlot :
           Answers(f, n, c, outcome, slot)
      /\ UNCHANGED <<writes, chosen, acked>>
  BY DEF Rejects
<1>2. /\ f \in Node /\ f # n /\ ctx[f] \in Contexts /\ r \in Requests /\ r \in InFlight(n, f)
  BY <1>1, TakesIs
<1>3. r.term \in Terms /\ r.term \in Nat /\ ctx[f].term \in Nat
  BY <1>2, RequestElim, ContextElim
<1>4. /\ c \in Contexts /\ c.term = IF ctx[f].term >= r.term THEN ctx[f].term ELSE r.term
      /\ c.log = ctx[f].log /\ c.committed = ctx[f].committed
      /\ c.wal = ctx[f].wal /\ c.uncommitted = ctx[f].uncommitted
  BY <1>2, <1>3, AdoptedIs
<1> HIDE DEF c, r
<1>5. role[f] # "Crashed" /\ role' = [role EXCEPT ![f] = "Follower"]
      /\ office' = [office EXCEPT ![f] = NoOffice]
  BY <1>1 DEF Takes
<1>6. \A m \in Node : /\ ctx'[m] = IF m = f THEN c ELSE ctx[m]
                      /\ role'[m] = IF m = f THEN "Follower" ELSE role[m]
                      /\ office'[m] = IF m = f THEN NoOffice ELSE office[m]
  BY <1>1, <1>2, <1>5 DEF TypeOK
<1>7. \A m, g \in Node : InFlight(m, g)' \subseteq InFlight(m, g)
  BY <1>1, FlightTaken
<1> QED
  BY <1>1, <1>2, <1>4, <1>5, <1>6, <1>7 DEF c, r

LEMMA HigherTermIs ==
  ASSUME TypeInv, NEW n \in Node, NEW r \in replies, ReceiveHigherTerm(n, r)
  PROVE  LET c == [ctx[n] EXCEPT !.term = r.term]
         IN /\ role[n] # "Crashed" /\ r.term > ctx[n].term /\ r.term \in Terms /\ r.term \in Nat
            /\ c \in Contexts /\ c.term = r.term
            /\ c.log = ctx[n].log /\ c.committed = ctx[n].committed
            /\ c.wal = ctx[n].wal /\ c.uncommitted = ctx[n].uncommitted
            /\ \A m \in Node : /\ ctx'[m] = IF m = n THEN c ELSE ctx[m]
                               /\ role'[m] = IF m = n THEN "Follower" ELSE role[m]
                               /\ office'[m] = IF m = n THEN NoOffice ELSE office[m]
            /\ \A m, g \in Node : InFlight(m, g)' = InFlight(m, g)
            /\ replies' \subseteq replies
            /\ UNCHANGED <<calls, writes, chosen, acked>>
<1> USE DEF TypeInv
<1> DEFINE c == [ctx[n] EXCEPT !.term = r.term]
<1>1. /\ role[n] # "Crashed" /\ r.term > ctx[n].term
      /\ ctx' = [ctx EXCEPT ![n].term = r.term]
      /\ role' = [role EXCEPT ![n] = "Follower"]
      /\ office' = [office EXCEPT ![n] = NoOffice]
      /\ replies' = replies \ {r}
      /\ UNCHANGED <<calls, writes, chosen, acked>>
  BY DEF ReceiveHigherTerm
<1>2. ctx[n] \in Contexts /\ r.term \in Terms
  BY DEF TypeOK, Replies
<1>3. /\ c \in Contexts /\ c.term = r.term
      /\ c.log = ctx[n].log /\ c.committed = ctx[n].committed
      /\ c.wal = ctx[n].wal /\ c.uncommitted = ctx[n].uncommitted
  BY <1>2, WithTermIs
<1>4. ctx' = [ctx EXCEPT ![n] = c]
  BY <1>1
<1> HIDE DEF c
<1>5. \A m \in Node : /\ role'[m] = IF m = n THEN "Follower" ELSE role[m]
                      /\ office'[m] = IF m = n THEN NoOffice ELSE office[m]
                      /\ ctx'[m] = IF m = n THEN c ELSE ctx[m]
  BY <1>1, <1>4 DEF TypeOK
<1>6. \A m, g \in Node : InFlight(m, g)' = InFlight(m, g)
  BY <1>1 DEF InFlight
<1>7. r.term \in Nat
  BY <1>2, BoundsAssumption DEF Terms
<1> QED
  BY <1>1, <1>2, <1>3, <1>5, <1>6, <1>7 DEF c

\* What an acknowledgement may change of the log is what counts as committed.
LEMMA AcknowledgesKeeps ==
  ASSUME TypeInv, NEW n \in Node, NEW r \in replies, Acknowledges(n, r)
  PROVE  /\ role[n] = "Leader" /\ role' = role
         /\ \A m \in Node :
              /\ ctx'[m].term = ctx[m].term /\ ctx'[m].log = ctx[m].log
              /\ ctx'[m].wal = ctx[m].wal
              /\ m # n => ctx'[m] = ctx[m]
              /\ \A s \in DOMAIN ctx'[m].uncommitted : s \in DOMAIN ctx[m].uncommitted
                   /\ ctx'[m].uncommitted[s] = ctx[m].uncommitted[s]
         /\ \A m, g \in Node : InFlight(m, g)' = InFlight(m, g)
         /\ replies' \subseteq replies
<1> USE DEF TypeInv
<1> DEFINE slot == QuorumSlot(Board(n, r), ctx[n].log.slot)
<1>1. /\ r.to = n /\ role[n] = "Leader" /\ HandleWritten(n, r)
      /\ replies' = replies \ {r} /\ UNCHANGED <<role, calls, writes>>
  BY DEF Acknowledges
<1>2. r \in Replies /\ r.from # n /\ ctx[n] \in Contexts
  BY <1>1 DEF TypeOK, Shapes
<1>3. \/ ctx' = ctx
      \/ slot \in 0..MaxSlot /\ ctx' = [ctx EXCEPT ![n] = Committed(ctx[n], slot)]
  BY <1>1, <1>2, HandleWrittenIs
<1> HIDE DEF slot
<1>4. \A m, g \in Node : InFlight(m, g)' = InFlight(m, g)
  BY <1>1 DEF InFlight
<1>5. CASE ctx' = ctx
  BY <1>1, <1>4, <1>5
<1>6. CASE slot \in 0..MaxSlot /\ ctx' = [ctx EXCEPT ![n] = Committed(ctx[n], slot)]
  <2> DEFINE d == Committed(ctx[n], slot)
  <2>1. /\ d.term = ctx[n].term /\ d.log = ctx[n].log /\ d.wal = ctx[n].wal
        /\ DOMAIN d.uncommitted = {s \in DOMAIN ctx[n].uncommitted : s > slot}
        /\ \A s \in DOMAIN d.uncommitted : d.uncommitted[s] = ctx[n].uncommitted[s]
    BY <1>2, <1>6, CommittedIs
  <2> HIDE DEF d
  <2>2. \A m \in Node : ctx'[m] = IF m = n THEN d ELSE ctx[m]
    BY <1>6 DEF TypeOK, d
  <2> QED
    BY <1>1, <1>4, <2>1, <2>2
<1> QED
  BY <1>3, <1>5, <1>6

-----------------------------------------------------------------------------
(* A term that is open stays open, and a new one was not. *)

TermsGrow == \A m \in Node : /\ role[m] = "Crashed" => role'[m] = "Crashed"
                             /\ role'[m] = "Crashed" \/ ctx'[m].term >= ctx[m].term

LEMMA TermsAreNumbers ==
  ASSUME TypeInv
  PROVE  \A m \in Node : ctx[m].term \in Nat /\ ctx[m].term \in Terms /\ ctx[m] \in Contexts
BY ContextElim DEF TypeInv, TypeOK

LEMMA OpenedStable ==
  ASSUME TypeInv, TypeInv', TermsGrow, NEW t \in Nat, Opened(t)
  PROVE  Opened(t)'
<1>1. PICK Q \in SUBSET Node :
        Cardinality(Q) >= QuorumSize /\ \A m \in Q : role[m] = "Crashed" \/ ctx[m].term >= t
  BY DEF Opened
<1>2. \A m \in Node : ctx[m].term \in Nat /\ ctx'[m].term \in Nat
  <2>1. \A m \in Node : ctx[m] \in Contexts /\ ctx'[m] \in Contexts
    BY DEF TypeInv, TypeOK
  <2> QED
    BY <2>1, ContextElim
<1>3. \A m \in Q : role'[m] = "Crashed" \/ ctx'[m].term >= t
  BY <1>1, <1>2 DEF TermsGrow
<1> QED
  BY <1>1, <1>3 DEF Opened

LEMMA ZeroOpened == TypeInv => Opened(0)
<1> SUFFICES ASSUME TypeInv PROVE Opened(0)
  OBVIOUS
<1>1. \A m \in Node : ctx[m].term >= 0
  BY TermsAreNumbers
<1>2. Cardinality(Node) >= QuorumSize
  <2>1. PICK n \in Node : TRUE
    <3>1. Node # {}
      BY NodeAssumption, FS_EmptySet
    <3> QED
      BY <3>1
  <2> QED
    BY <2>1, PeersIs
<1> QED
  BY <1>1, <1>2 DEF Opened

\* n and the voters of V are a quorum, so that no later term is open.
LEMMA NotOpened ==
  ASSUME TypeInv, NEW n \in Node, NEW V \in SUBSET Peers(n), TakeOffice(n, V),
         NEW t \in Nat, Opened(t)
  PROVE  t < NewTerm(n, V)
<1> USE DEF TypeInv
<1>1. PICK Q \in SUBSET Node :
        Cardinality(Q) >= QuorumSize /\ \A m \in Q : role[m] = "Crashed" \/ ctx[m].term >= t
  BY DEF Opened
<1>2. /\ role[n] # "Crashed" /\ Cardinality(V) + 1 = QuorumSize /\ \A v \in V : Grants(v, n)
  BY DEF TakeOffice
<1>3. V \union {n} \in SUBSET Node /\ n \notin V /\ IsFiniteSet(Node)
  BY NodeAssumption DEF Peers
<1>4. Cardinality(V \union {n}) = QuorumSize
  BY <1>2, <1>3, FS_AddElement, FS_Subset
<1>5. \E m \in Q : m \in V \union {n}
  <2>1. QuorumSize + QuorumSize > Cardinality(Node) /\ QuorumSize \in Nat
        /\ Cardinality(Node) \in Nat /\ Cardinality(Q) \in Nat
    BY <1>3, PeersIs, FS_Subset, FS_CardinalityType
  <2>2. Cardinality(Q) + Cardinality(V \union {n}) > Cardinality(Node)
    BY <1>1, <1>4, <2>1
  <2>3. Q \intersect (V \union {n}) # {}
    BY <1>3, <2>2, FS_MajoritiesIntersect
  <2> QED
    BY <2>3
<1>6. PICK m \in Q : m \in V \union {n}
  BY <1>5
<1>7. role[m] # "Crashed"
  BY <1>2, <1>6 DEF Grants
<1>8. ctx[m].term >= t /\ ctx[m].term < NewTerm(n, V)
  BY <1>1, <1>6, <1>7, NewTermIs
<1> QED
  BY <1>8, NewTermIs, TermsAreNumbers

-----------------------------------------------------------------------------
(* Where entries come from. *)

LEMMA AppearsIntro ==
  ASSUME NEW m \in Node, NEW s
  PROVE  /\ s \in DOMAIN ctx[m].wal => Appears(s, ctx[m].wal[s])
         /\ s \in DOMAIN ctx[m].uncommitted => Appears(s, ctx[m].uncommitted[s])
         /\ \A f \in Node : \A r \in InFlight(m, f) :
              s \in DOMAIN r.entries => Appears(s, r.entries[s])
BY DEF Appears

\* new are the entries that the step makes.
LEMMA AppearsAfter ==
  ASSUME NEW new,
         \A m \in Node : \A s \in DOMAIN ctx'[m].wal :
           Appears(s, ctx'[m].wal[s]) \/ (s \in DOMAIN new /\ ctx'[m].wal[s] = new[s]),
         \A m \in Node : \A s \in DOMAIN ctx'[m].uncommitted :
           Appears(s, ctx'[m].uncommitted[s]) \/ (s \in DOMAIN new /\ ctx'[m].uncommitted[s] = new[s]),
         \A m, f \in Node : \A r \in InFlight(m, f)' : \A s \in DOMAIN r.entries :
           Appears(s, r.entries[s]) \/ (s \in DOMAIN new /\ r.entries[s] = new[s]),
         NEW s, NEW e, Appears(s, e)'
  PROVE  Appears(s, e) \/ (s \in DOMAIN new /\ e = new[s])
<1>1. CASE \E m \in Node : s \in DOMAIN ctx'[m].wal /\ ctx'[m].wal[s] = e
  BY <1>1
<1>2. CASE \E m \in Node : s \in DOMAIN ctx'[m].uncommitted /\ ctx'[m].uncommitted[s] = e
  BY <1>2
<1>3. CASE \E m, f \in Node : \E r \in InFlight(m, f)' : s \in DOMAIN r.entries /\ r.entries[s] = e
  BY <1>3
<1> QED
  BY <1>1, <1>2, <1>3 DEF Appears

LEMMA AppearsStill ==
  ASSUME \A m \in Node : \A s \in DOMAIN ctx'[m].wal : Appears(s, ctx'[m].wal[s]),
         \A m \in Node : \A s \in DOMAIN ctx'[m].uncommitted : Appears(s, ctx'[m].uncommitted[s]),
         \A m, f \in Node : \A r \in InFlight(m, f)' : \A s \in DOMAIN r.entries :
           Appears(s, r.entries[s])
  PROVE  \A s, e : Appears(s, e)' => Appears(s, e)
<1> TAKE s, e
<1>1. CASE \E m \in Node : s \in DOMAIN ctx'[m].wal /\ ctx'[m].wal[s] = e
  BY <1>1
<1>2. CASE \E m \in Node : s \in DOMAIN ctx'[m].uncommitted /\ ctx'[m].uncommitted[s] = e
  BY <1>2
<1>3. CASE \E m, f \in Node : \E r \in InFlight(m, f)' : s \in DOMAIN r.entries /\ r.entries[s] = e
  BY <1>3
<1> QED
  BY <1>1, <1>2, <1>3 DEF Appears

LEMMA AppearsTyped ==
  ASSUME TypeInv, NEW s, NEW e, Appears(s, e)
  PROVE  s \in Slots /\ s \in Nat /\ e \in Entries /\ e.term \in Nat /\ e.value \in Values
<1>1. \A m \in Node : ctx[m].wal \in Logs /\ ctx[m].uncommitted \in Logs
  BY ContextElim DEF TypeInv, TypeOK
<1>2. \A m, f \in Node : \A r \in InFlight(m, f) : r.entries \in Logs
  BY FlightElim, RequestElim DEF TypeInv, TypeOK, CallsOK
<1>3. PICK log \in Logs : s \in DOMAIN log /\ log[s] = e
  BY <1>1, <1>2 DEF Appears
<1> QED
  BY <1>3, LogElim, BoundsAssumption DEF Terms, Entries

LEMMA AppearsOpened ==
  ASSUME TypeInv, TermsOpened, NEW s, NEW e, Appears(s, e)
  PROVE  \E t \in Nat : Opened(t) /\ e.term <= t
<1>1. \A m \in Node : ctx[m].term \in Nat /\ Opened(ctx[m].term)
  BY TermsAreNumbers DEF TermsOpened
<1>2. \A m, f \in Node : \A r \in InFlight(m, f) : r.term \in Nat /\ Opened(r.term)
  BY FlightElim, RequestElim DEF TypeInv, TypeOK, CallsOK, TermsOpened
<1>3. CASE \E m \in Node : s \in DOMAIN ctx[m].wal /\ ctx[m].wal[s] = e
  BY <1>1, <1>3 DEF TermsOpened
<1>4. CASE \E m \in Node : s \in DOMAIN ctx[m].uncommitted /\ ctx[m].uncommitted[s] = e
  BY <1>1, <1>4 DEF TermsOpened
<1>5. CASE \E m, f \in Node : \E r \in InFlight(m, f) : s \in DOMAIN r.entries /\ r.entries[s] = e
  BY <1>2, <1>5 DEF TermsOpened
<1> QED
  BY <1>3, <1>4, <1>5 DEF Appears

-----------------------------------------------------------------------------
(* The steps that open no term and make no entry. *)

\* The steps that only move what there is: offices end or stay as they are, and what
\* is sent, taken over or answered was there before.
Moves ==
  /\ TermsGrow
  /\ \A m \in Node : role'[m] = "Leader" =>
       role[m] = "Leader" /\ ctx'[m].term = ctx[m].term /\ ctx'[m].log = ctx[m].log
  /\ \A m, f \in Node : \A r \in InFlight(m, f)' :
       \/ r \in InFlight(m, f)
       \/ /\ role[m] = "Leader" /\ r.term = ctx[m].term
          /\ \A s \in DOMAIN r.entries : s \in DOMAIN ctx[m].wal /\ r.entries[s] = ctx[m].wal[s]
  /\ \A m \in Node :
       /\ Opened(ctx'[m].term)
       /\ ctx'[m].log.term <= ctx'[m].term
       /\ \A s \in DOMAIN ctx'[m].wal :
            Appears(s, ctx'[m].wal[s]) /\ ctx'[m].wal[s].term <= ctx'[m].term
       /\ \A s \in DOMAIN ctx'[m].uncommitted :
            Appears(s, ctx'[m].uncommitted[s]) /\ ctx'[m].uncommitted[s].term <= ctx'[m].term
  /\ \A r \in replies' : Opened(r.term)

LEMMA MovesKeepTerms ==
  ASSUME TypeInv, TypeInv', TermInv, Moves
  PROVE  TermInv'
<1> USE DEF TermInv
<1>1. \A s, e : Appears(s, e)' => Appears(s, e)
  <2>1. \A m \in Node : \A s \in DOMAIN ctx'[m].wal : Appears(s, ctx'[m].wal[s])
    BY DEF Moves
  <2>2. \A m \in Node : \A s \in DOMAIN ctx'[m].uncommitted : Appears(s, ctx'[m].uncommitted[s])
    BY DEF Moves
  <2>3. \A m, f \in Node : \A r \in InFlight(m, f)' : \A x \in DOMAIN r.entries :
          Appears(x, r.entries[x])
    <3> SUFFICES ASSUME NEW m \in Node, NEW f \in Node, NEW r \in InFlight(m, f)',
                        NEW x \in DOMAIN r.entries
                 PROVE  Appears(x, r.entries[x])
      OBVIOUS
    <3>1. CASE r \in InFlight(m, f)
      BY <3>1, AppearsIntro
    <3>2. CASE \A s \in DOMAIN r.entries : s \in DOMAIN ctx[m].wal /\ r.entries[s] = ctx[m].wal[s]
      BY <3>2, AppearsIntro
    <3> QED
      BY <3>1, <3>2 DEF Moves
  <2> QED
    BY <2>1, <2>2, <2>3, AppearsStill
<1>2. ASSUME NEW t \in Nat, Opened(t)
      PROVE  Opened(t)'
  BY <1>2, OpenedStable DEF Moves
<1>3. \A m \in Node : ctx[m].term \in Nat /\ ctx'[m].term \in Nat
  <2>1. \A m \in Node : ctx[m] \in Contexts /\ ctx'[m] \in Contexts
    BY DEF TypeInv, TypeOK
  <2> QED
    BY <2>1, ContextElim
<1>4. \A m, f \in Node : \A r \in InFlight(m, f) : r \in Requests /\ r.term \in Nat
  BY FlightElim, RequestElim DEF TypeInv, TypeOK, CallsOK
<1>5. \A m \in Node : Opened(ctx[m].term)'
  <2>1. \A m \in Node : Opened(ctx'[m].term)
    BY DEF Moves
  <2> QED
    BY <1>2, <1>3, <2>1 DEF Opened
<1>6. \A m, f \in Node : \A r \in InFlight(m, f)' :
        Opened(r.term)' /\ \A s \in DOMAIN r.entries : r.entries[s].term <= r.term
  BY <1>2, <1>3, <1>4 DEF Moves, TermsOpened
<1>7. \A r \in replies' : Opened(r.term)'
  <2>1. \A r \in replies' : r.term \in Nat
    BY BoundsAssumption DEF TypeInv, TypeOK, Replies, Terms
  <2> QED
    BY <1>2, <2>1 DEF Moves
<1>8. TermsOpened'
  <2>1. \A m \in Node :
         /\ ctx'[m].log.term <= ctx'[m].term
         /\ \A s \in DOMAIN ctx'[m].wal : ctx'[m].wal[s].term <= ctx'[m].term
         /\ \A s \in DOMAIN ctx'[m].uncommitted : ctx'[m].uncommitted[s].term <= ctx'[m].term
    BY DEF Moves
  <2> QED
    BY <1>5, <1>6, <1>7, <2>1 DEF TermsOpened
<1>9. OneLeader'
  BY DEF OneLeader, Moves
<1>10. LeaderAhead'
  BY <1>1 DEF LeaderAhead, Moves
<1>11. OneEntryPerTerm'
  BY <1>1 DEF OneEntryPerTerm
<1> QED
  BY <1>8, <1>9, <1>10, <1>11

\* What a Leader with context c sends is in its log.
LEMMA SentIsInLog ==
  ASSUME TypeInv, NEW n \in Node, NEW c \in Contexts, Sends(n, c),
         NEW m \in Node, NEW f \in Node, NEW r \in InFlight(m, f)', r \notin InFlight(m, f)
  PROVE  /\ m = n /\ f # n /\ r.term = c.term
         /\ \A s \in DOMAIN r.entries : s \in DOMAIN c.wal /\ r.entries[s] = c.wal[s]
         /\ \E pos \in Positions : CanAnchor(c, pos) /\ r = Request(c, pos)
<1>1. CallsOK
  BY DEF TypeInv, TypeOK, CallsOK
<1>2. m = n /\ f # n /\ \E pos \in Positions : CanAnchor(c, pos) /\ r = Request(c, pos)
  BY <1>1, FlightSent
<1>3. PICK pos \in Positions : CanAnchor(c, pos) /\ r = Request(c, pos)
  BY <1>2
<1>4. r.term = c.term /\ DOMAIN r.entries = {s \in DOMAIN c.wal : s > Anchor(pos)}
      /\ \A s \in DOMAIN r.entries : r.entries[s] = c.wal[s]
  BY <1>3, RequestIs
<1> QED
  BY <1>2, <1>4

LEMMA ResendsMoves ==
  ASSUME TypeInv, TermInv, NEW n \in Node, Resends(n)
  PROVE  Moves
<1>1. /\ role[n] = "Leader" /\ Sends(n, ctx[n]) /\ replies' \subseteq replies
      /\ Panics(n) \/ (role' = role /\ ctx' = ctx)
  BY DEF Resends
<1>2. \A m \in Node : ctx[m] \in Contexts /\ ctx[m].term \in Nat
  BY TermsAreNumbers
<1>3. \A m, f \in Node : \A r \in InFlight(m, f)' :
        \/ r \in InFlight(m, f)
        \/ /\ role[m] = "Leader" /\ r.term = ctx[m].term
           /\ \A s \in DOMAIN r.entries : s \in DOMAIN ctx[m].wal /\ r.entries[s] = ctx[m].wal[s]
  BY <1>1, <1>2, SentIsInLog
<1>4. \A m \in Node : \/ role'[m] = role[m] /\ ctx'[m] = ctx[m]
                      \/ role'[m] = "Crashed" /\ ctx'[m] = NewContext
  BY <1>1, PanicsIs
<1>5. TermsGrow
  BY <1>2, <1>4 DEF TermsGrow
<1>6. \A m \in Node :
       /\ Opened(ctx'[m].term)
       /\ ctx'[m].log.term <= ctx'[m].term
       /\ \A s \in DOMAIN ctx'[m].wal :
            Appears(s, ctx'[m].wal[s]) /\ ctx'[m].wal[s].term <= ctx'[m].term
       /\ \A s \in DOMAIN ctx'[m].uncommitted :
            Appears(s, ctx'[m].uncommitted[s]) /\ ctx'[m].uncommitted[s].term <= ctx'[m].term
  BY <1>4, NewContextIs, ZeroOpened, AppearsIntro DEF TermInv, TermsOpened
<1> QED
  BY <1>1, <1>3, <1>4, <1>5, <1>6 DEF Moves, TermInv, TermsOpened

LEMMA AcknowledgesMoves ==
  ASSUME TypeInv, TermInv, NEW n \in Node, NEW r \in replies, Acknowledges(n, r)
  PROVE  Moves
<1>1. /\ role' = role
      /\ \A m \in Node :
           /\ ctx'[m].term = ctx[m].term /\ ctx'[m].log = ctx[m].log
           /\ ctx'[m].wal = ctx[m].wal
           /\ \A s \in DOMAIN ctx'[m].uncommitted : s \in DOMAIN ctx[m].uncommitted
                /\ ctx'[m].uncommitted[s] = ctx[m].uncommitted[s]
      /\ \A m, g \in Node : InFlight(m, g)' = InFlight(m, g)
      /\ replies' \subseteq replies
  BY AcknowledgesKeeps
<1>2. \A m \in Node : ctx[m].term \in Nat
  BY TermsAreNumbers
<1>3. TermsGrow
  BY <1>1, <1>2 DEF TermsGrow
<1>4. \A m \in Node :
       /\ Opened(ctx'[m].term)
       /\ ctx'[m].log.term <= ctx'[m].term
       /\ \A s \in DOMAIN ctx'[m].wal :
            Appears(s, ctx'[m].wal[s]) /\ ctx'[m].wal[s].term <= ctx'[m].term
       /\ \A s \in DOMAIN ctx'[m].uncommitted :
            Appears(s, ctx'[m].uncommitted[s]) /\ ctx'[m].uncommitted[s].term <= ctx'[m].term
  BY <1>1, AppearsIntro DEF TermInv, TermsOpened
<1> QED
  BY <1>1, <1>3, <1>4 DEF Moves, TermInv, TermsOpened

LEMMA AcceptsMoves ==
  ASSUME TypeInv, TermInv, NEW n \in Node, NEW f \in Peers(n), NEW i \in 1..MaxCalls,
         Accepts(n, f, i)
  PROVE  Moves
<1> DEFINE r == calls[n][f][i]
           c == Adopted(ctx[f], r.term)
           d == Written(c, r)
<1>1. /\ f \in Node /\ f # n /\ role[f] = "Follower"
      /\ r \in Requests /\ r \in InFlight(n, f) /\ c \in Contexts
      /\ r.term >= ctx[f].term /\ c.term = r.term
      /\ c.log = ctx[f].log /\ c.committed = ctx[f].committed
      /\ c.wal = ctx[f].wal /\ c.uncommitted = ctx[f].uncommitted
      /\ \A m \in Node : ctx'[m] = (IF m = f THEN d ELSE ctx[m]) /\ role'[m] = role[m]
      /\ \A m, g \in Node : InFlight(m, g)' \subseteq InFlight(m, g)
      /\ Answers(f, n, c, "written", LastWritten(r))
  BY AcceptsIs
<1> HIDE DEF c, r
<1>2. /\ d.term = c.term
      /\ DOMAIN d.wal = DOMAIN r.entries \union {s \in DOMAIN c.wal : s <= r.prev.slot}
      /\ \A s \in DOMAIN r.entries : d.wal[s] = r.entries[s]
      /\ \A s \in DOMAIN c.wal : s <= r.prev.slot /\ s \notin DOMAIN r.entries
           => d.wal[s] = c.wal[s]
      /\ \A s : s \in DOMAIN d.uncommitted
           => s \in DOMAIN r.entries \/ s \in DOMAIN c.uncommitted
      /\ \A s \in DOMAIN d.uncommitted : d.uncommitted[s]
           = IF s \in DOMAIN r.entries THEN r.entries[s] ELSE c.uncommitted[s]
      /\ DOMAIN r.entries = {} => d.log = c.log
      /\ DOMAIN r.entries # {} => /\ LastWritten(r) \in DOMAIN r.entries
                                  /\ d.log.term = r.entries[LastWritten(r)].term
  BY <1>1, WrittenIs
<1> HIDE DEF d
<1>3. /\ \A m \in Node : ctx[m] \in Contexts /\ ctx[m].term \in Nat
      /\ r.term \in Nat
  BY <1>1, TermsAreNumbers, RequestElim
<1>4. /\ Opened(r.term) /\ \A s \in DOMAIN r.entries : r.entries[s].term <= r.term
  BY <1>1 DEF TermInv, TermsOpened
<1>5. \A s \in DOMAIN r.entries : Appears(s, r.entries[s]) /\ r.entries[s].term \in Nat
  <2>1. \A s \in DOMAIN r.entries : Appears(s, r.entries[s])
    BY <1>1, AppearsIntro
  <2> QED
    BY <2>1, AppearsTyped
<1>6. /\ ctx[f].log.term <= ctx[f].term
      /\ \A s \in DOMAIN ctx[f].wal : ctx[f].wal[s].term <= ctx[f].term
                                      /\ Appears(s, ctx[f].wal[s])
      /\ \A s \in DOMAIN ctx[f].uncommitted : ctx[f].uncommitted[s].term <= ctx[f].term
                                      /\ Appears(s, ctx[f].uncommitted[s])
  BY <1>1, AppearsIntro DEF TermInv, TermsOpened
<1>7. /\ ctx[f].log.term \in Nat
      /\ \A s \in DOMAIN ctx[f].wal : ctx[f].wal[s].term \in Nat
      /\ \A s \in DOMAIN ctx[f].uncommitted : ctx[f].uncommitted[s].term \in Nat
  <2>1. ctx[f] \in Contexts
    BY <1>1, <1>3
  <2> QED
    BY <1>6, <2>1, ContextElim, AppearsTyped
<1>8. /\ d.log.term <= r.term
      /\ \A s \in DOMAIN d.wal : Appears(s, d.wal[s]) /\ d.wal[s].term <= r.term
      /\ \A s \in DOMAIN d.uncommitted :
           Appears(s, d.uncommitted[s]) /\ d.uncommitted[s].term <= r.term
  <2>1. d.log.term <= r.term
    BY <1>1, <1>2, <1>3, <1>4, <1>6, <1>7
  <2>2. ASSUME NEW s \in DOMAIN d.wal
        PROVE  Appears(s, d.wal[s]) /\ d.wal[s].term <= r.term
    <3>1. CASE s \in DOMAIN r.entries
      BY <1>2, <1>4, <1>5, <3>1
    <3>2. CASE s \notin DOMAIN r.entries
      BY <1>1, <1>2, <1>3, <1>6, <1>7, <3>2
    <3> QED
      BY <3>1, <3>2
  <2>3. ASSUME NEW s \in DOMAIN d.uncommitted
        PROVE  Appears(s, d.uncommitted[s]) /\ d.uncommitted[s].term <= r.term
    <3>1. CASE s \in DOMAIN r.entries
      BY <1>2, <1>4, <1>5, <3>1
    <3>2. CASE s \notin DOMAIN r.entries
      BY <1>1, <1>2, <1>3, <1>6, <1>7, <3>2
    <3> QED
      BY <3>1, <3>2
  <2> QED
    BY <2>1, <2>2, <2>3
<1>9. TermsGrow
  BY <1>1, <1>2, <1>3 DEF TermsGrow
<1>10. \A m \in Node :
         /\ Opened(ctx'[m].term)
         /\ ctx'[m].log.term <= ctx'[m].term
         /\ \A s \in DOMAIN ctx'[m].wal :
              Appears(s, ctx'[m].wal[s]) /\ ctx'[m].wal[s].term <= ctx'[m].term
         /\ \A s \in DOMAIN ctx'[m].uncommitted :
              Appears(s, ctx'[m].uncommitted[s]) /\ ctx'[m].uncommitted[s].term <= ctx'[m].term
  <2> TAKE m \in Node
  <2>1. CASE m = f
    BY <1>1, <1>2, <1>4, <1>8, <2>1
  <2>2. CASE m # f
    BY <1>1, <2>2, AppearsIntro DEF TermInv, TermsOpened
  <2> QED
    BY <2>1, <2>2
<1>11. \A q \in replies' : Opened(q.term)
  BY <1>1, <1>4 DEF Answers, TermInv, TermsOpened
<1>12. \A m \in Node : role'[m] = "Leader" =>
         role[m] = "Leader" /\ ctx'[m].term = ctx[m].term /\ ctx'[m].log = ctx[m].log
  BY <1>1
<1> QED
  BY <1>1, <1>9, <1>10, <1>11, <1>12 DEF Moves

\* A member that takes over a term which is open, and keeps its log.
LEMMA AdoptsMoves ==
  ASSUME TypeInv, TermInv, NEW f \in Node, NEW c \in Contexts, role[f] # "Crashed",
         Opened(c.term), c.term >= ctx[f].term,
         c.log = ctx[f].log, c.wal = ctx[f].wal, c.uncommitted = ctx[f].uncommitted,
         \A m \in Node : /\ ctx'[m] = IF m = f THEN c ELSE ctx[m]
                         /\ role'[m] = IF m = f THEN "Follower" ELSE role[m],
         \A m, g \in Node : InFlight(m, g)' \subseteq InFlight(m, g),
         \A q \in replies' : q \in replies \/ q.term = c.term
  PROVE  Moves
<1>1. \A m \in Node : ctx[m] \in Contexts /\ ctx[m].term \in Nat
  BY TermsAreNumbers
<1>2. c.term \in Nat
  BY ContextElim
<1>3. TermsGrow
  BY <1>1, <1>2 DEF TermsGrow
<1>4. ctx[f].log.term <= c.term
  BY <1>1, <1>2, ContextElim DEF TermInv, TermsOpened
<1>5. \A s \in DOMAIN ctx[f].wal : Appears(s, ctx[f].wal[s]) /\ ctx[f].wal[s].term <= c.term
  <2> TAKE s \in DOMAIN ctx[f].wal
  <2>1. Appears(s, ctx[f].wal[s]) /\ ctx[f].wal[s].term <= ctx[f].term
    BY AppearsIntro DEF TermInv, TermsOpened
  <2>2. ctx[f].wal[s].term \in Nat
    BY <2>1, AppearsTyped
  <2> QED
    BY <1>1, <1>2, <2>1, <2>2
<1>6. \A s \in DOMAIN ctx[f].uncommitted :
        Appears(s, ctx[f].uncommitted[s]) /\ ctx[f].uncommitted[s].term <= c.term
  <2> TAKE s \in DOMAIN ctx[f].uncommitted
  <2>1. Appears(s, ctx[f].uncommitted[s]) /\ ctx[f].uncommitted[s].term <= ctx[f].term
    BY AppearsIntro DEF TermInv, TermsOpened
  <2>2. ctx[f].uncommitted[s].term \in Nat
    BY <2>1, AppearsTyped
  <2> QED
    BY <1>1, <1>2, <2>1, <2>2
<1>7. \A m \in Node :
        /\ Opened(ctx'[m].term)
        /\ ctx'[m].log.term <= ctx'[m].term
        /\ \A s \in DOMAIN ctx'[m].wal :
             Appears(s, ctx'[m].wal[s]) /\ ctx'[m].wal[s].term <= ctx'[m].term
        /\ \A s \in DOMAIN ctx'[m].uncommitted :
             Appears(s, ctx'[m].uncommitted[s]) /\ ctx'[m].uncommitted[s].term <= ctx'[m].term
  <2> TAKE m \in Node
  <2>1. CASE m = f
    BY <1>4, <1>5, <1>6, <2>1
  <2>2. CASE m # f
    BY <2>2, AppearsIntro DEF TermInv, TermsOpened
  <2> QED
    BY <2>1, <2>2
<1>8. \A q \in replies' : Opened(q.term)
  BY DEF TermInv, TermsOpened
<1>9. \A m \in Node : role'[m] = "Leader" =>
        role[m] = "Leader" /\ ctx'[m].term = ctx[m].term /\ ctx'[m].log = ctx[m].log
  OBVIOUS
<1>10. \A m, g \in Node : \A r \in InFlight(m, g)' : r \in InFlight(m, g)
  OBVIOUS
<1> QED
  BY <1>3, <1>7, <1>8, <1>9, <1>10 DEF Moves

LEMMA RejectsMoves ==
  ASSUME TypeInv, TermInv, NEW n \in Node, NEW f \in Peers(n), NEW i \in 1..MaxCalls,
         Rejects(n, f, i)
  PROVE  Moves
<1> DEFINE r == calls[n][f][i]
           c == Adopted(ctx[f], r.term)
<1>1. /\ f \in Node /\ role[f] # "Crashed"
      /\ r \in Requests /\ r \in InFlight(n, f) /\ c \in Contexts
      /\ c.term = IF ctx[f].term >= r.term THEN ctx[f].term ELSE r.term
      /\ c.log = ctx[f].log /\ c.wal = ctx[f].wal /\ c.uncommitted = ctx[f].uncommitted
      /\ \A m \in Node : /\ ctx'[m] = IF m = f THEN c ELSE ctx[m]
                         /\ role'[m] = IF m = f THEN "Follower" ELSE role[m]
      /\ \A m, g \in Node : InFlight(m, g)' \subseteq InFlight(m, g)
      /\ \E outcome \in {"conflict", "refused"} : \E slot \in 0..MaxSlot :
           Answers(f, n, c, outcome, slot)
  BY RejectsIs
<1> HIDE DEF c, r
<1>2. r.term \in Nat /\ ctx[f].term \in Nat
  BY <1>1, TermsAreNumbers, RequestElim
<1>3. Opened(r.term) /\ Opened(ctx[f].term)
  BY <1>1 DEF TermInv, TermsOpened
<1>4. Opened(c.term) /\ c.term >= ctx[f].term
  BY <1>1, <1>2, <1>3
<1>5. \A q \in replies' : q \in replies \/ q.term = c.term
  BY <1>1 DEF Answers
<1> QED
  BY <1>1, <1>4, <1>5, AdoptsMoves

LEMMA HigherTermMoves ==
  ASSUME TypeInv, TermInv, NEW n \in Node, NEW r \in replies, ReceiveHigherTerm(n, r)
  PROVE  Moves
<1> DEFINE c == [ctx[n] EXCEPT !.term = r.term]
<1>1. /\ role[n] # "Crashed" /\ r.term > ctx[n].term /\ r.term \in Nat
      /\ c \in Contexts /\ c.term = r.term
      /\ c.log = ctx[n].log /\ c.wal = ctx[n].wal /\ c.uncommitted = ctx[n].uncommitted
      /\ \A m \in Node : /\ ctx'[m] = IF m = n THEN c ELSE ctx[m]
                         /\ role'[m] = IF m = n THEN "Follower" ELSE role[m]
      /\ \A m, g \in Node : InFlight(m, g)' = InFlight(m, g)
      /\ replies' \subseteq replies
  BY HigherTermIs
<1> HIDE DEF c
<1>2. Opened(c.term) /\ c.term >= ctx[n].term
  BY <1>1, TermsAreNumbers DEF TermInv, TermsOpened
<1> QED
  BY <1>1, <1>2, AdoptsMoves

LEMMA QuietMoves ==
  ASSUME TypeInv, TermInv, Quiet
  PROVE  Moves
<1>1. role' = role /\ ctx' = ctx /\ calls' = calls /\ replies' \subseteq replies
  BY DEF Quiet
<1>2. \A m, g \in Node : InFlight(m, g)' = InFlight(m, g)
  BY <1>1 DEF InFlight
<1>3. TermsGrow
  BY <1>1, TermsAreNumbers DEF TermsGrow
<1>4. \A m \in Node :
        /\ Opened(ctx[m].term)
        /\ ctx[m].log.term <= ctx[m].term
        /\ \A s \in DOMAIN ctx[m].wal :
             Appears(s, ctx[m].wal[s]) /\ ctx[m].wal[s].term <= ctx[m].term
        /\ \A s \in DOMAIN ctx[m].uncommitted :
             Appears(s, ctx[m].uncommitted[s]) /\ ctx[m].uncommitted[s].term <= ctx[m].term
  BY AppearsIntro DEF TermInv, TermsOpened
<1>5. \A r \in replies' : Opened(r.term)
  BY <1>1 DEF TermInv, TermsOpened
<1> QED
  BY <1>1, <1>2, <1>3, <1>4, <1>5 DEF Moves

-----------------------------------------------------------------------------
(* The steps that make entries. *)

LEMMA ClientWriteTerms ==
  ASSUME TypeInv, TypeInv', TermInv, NEW n \in Node, ClientWrite(n)
  PROVE  TermInv'
<1> DEFINE d == Extended(ctx[n], writes + 1)
           slot == ctx[n].log.slot + 1
           e == [term |-> ctx[n].term, value |-> writes + 1]
           new == [s \in {slot} |-> e]
<1>1. /\ role[n] = "Leader" /\ ctx[n].log.slot < MaxSlot /\ writes + 1 \in Values
      /\ ctx' = [ctx EXCEPT ![n] = d]
      /\ UNCHANGED <<role, calls, replies>>
  BY ClientWriteIs DEF TypeInv
<1>2. \A m \in Node : ctx[m] \in Contexts /\ ctx[m].term \in Nat
  BY TermsAreNumbers
<1>3. /\ slot \in Slots /\ e \in Entries
      /\ d.term = ctx[n].term /\ d.log.term = ctx[n].term /\ d.log.slot = slot
      /\ DOMAIN d.wal = {slot} \union DOMAIN ctx[n].wal
      /\ d.wal[slot] = e
      /\ \A s \in DOMAIN ctx[n].wal : s # slot => d.wal[s] = ctx[n].wal[s]
      /\ DOMAIN d.uncommitted = {slot} \union DOMAIN ctx[n].uncommitted
      /\ d.uncommitted[slot] = e
      /\ \A s \in DOMAIN ctx[n].uncommitted : s # slot => d.uncommitted[s] = ctx[n].uncommitted[s]
  BY <1>1, <1>2, ExtendedIs
<1>4. slot = ctx[n].log.slot + 1 /\ e.term = ctx[n].term /\ ctx[n].log.slot \in Nat
  BY <1>2, ContextElim
<1>5. \A m \in Node : ctx'[m] = IF m = n THEN d ELSE ctx[m]
  BY <1>1 DEF TypeInv, TypeOK
<1> HIDE DEF d, e, slot
<1>6. \A m, g \in Node : InFlight(m, g)' = InFlight(m, g)
  BY <1>1 DEF InFlight
<1>7. \A s, x : Appears(s, x)' => Appears(s, x) \/ (s = slot /\ x = e)
  <2>1. \A m \in Node : \A s \in DOMAIN ctx'[m].wal :
          Appears(s, ctx'[m].wal[s]) \/ (s \in DOMAIN new /\ ctx'[m].wal[s] = new[s])
    BY <1>3, <1>5, AppearsIntro
  <2>2. \A m \in Node : \A s \in DOMAIN ctx'[m].uncommitted :
          Appears(s, ctx'[m].uncommitted[s]) \/ (s \in DOMAIN new /\ ctx'[m].uncommitted[s] = new[s])
    BY <1>3, <1>5, AppearsIntro
  <2>3. \A m, f \in Node : \A r \in InFlight(m, f)' : \A s \in DOMAIN r.entries :
          Appears(s, r.entries[s]) \/ (s \in DOMAIN new /\ r.entries[s] = new[s])
    BY <1>6, AppearsIntro
  <2>4. DOMAIN new = {slot} /\ new[slot] = e
    OBVIOUS
  <2> HIDE DEF new
  <2>5. \A s, x : Appears(s, x)' => Appears(s, x) \/ (s \in DOMAIN new /\ x = new[s])
    BY <2>1, <2>2, <2>3, AppearsAfter
  <2> QED
    BY <2>4, <2>5
<1>8. TermsGrow
  BY <1>1, <1>2, <1>3, <1>5 DEF TermsGrow
<1>9. \A t \in Nat : Opened(t) => Opened(t)'
  BY <1>8, OpenedStable
<1>10. TermsOpened'
  <2>1. \A m \in Node : Opened(ctx[m].term)'
    <3>1. \A m \in Node : ctx'[m].term = ctx[m].term /\ Opened(ctx[m].term)
      BY <1>3, <1>5 DEF TermInv, TermsOpened
    <3> QED
      BY <1>2, <1>9, <3>1 DEF Opened
  <2>2. \A r \in replies' : Opened(r.term)'
    <3>1. \A r \in replies : r.term \in Nat
      BY BoundsAssumption DEF TypeInv, TypeOK, Replies, Terms
    <3> QED
      BY <1>1, <1>9, <3>1 DEF TermInv, TermsOpened
  <2>3. \A m, f \in Node : \A r \in InFlight(m, f)' :
          Opened(r.term)' /\ \A s \in DOMAIN r.entries : r.entries[s].term <= r.term
    <3>1. \A m, f \in Node : \A r \in InFlight(m, f) : r.term \in Nat
      BY FlightElim, RequestElim DEF TypeInv, TypeOK, CallsOK
    <3> QED
      BY <1>6, <1>9, <3>1 DEF TermInv, TermsOpened
  <2>4. \A m \in Node :
          /\ ctx'[m].log.term <= ctx'[m].term
          /\ \A s \in DOMAIN ctx'[m].wal : ctx'[m].wal[s].term <= ctx'[m].term
          /\ \A s \in DOMAIN ctx'[m].uncommitted : ctx'[m].uncommitted[s].term <= ctx'[m].term
    <3> TAKE m \in Node
    <3>1. CASE m = n
      BY <1>2, <1>3, <1>4, <1>5, <3>1 DEF TermInv, TermsOpened
    <3>2. CASE m # n
      BY <1>5, <3>2 DEF TermInv, TermsOpened
    <3> QED
      BY <3>1, <3>2
  <2> QED
    BY <2>1, <2>2, <2>3, <2>4 DEF TermsOpened
<1>11. OneLeader'
  BY <1>1, <1>3, <1>5, <1>6 DEF TermInv, OneLeader
<1>12. LeaderAhead'
  <2> SUFFICES ASSUME NEW m \in Node, role'[m] = "Leader", NEW s \in Slots, NEW x \in Entries,
                      Appears(s, x)', x.term = ctx'[m].term
               PROVE  s <= ctx'[m].log.slot /\ ctx'[m].log.term = ctx'[m].term
    BY DEF LeaderAhead
  <2>1. role[m] = "Leader" /\ x.term = ctx[m].term
    BY <1>1, <1>3, <1>5
  <2>2. s \in Nat
    BY DEF Slots
  <2>3. CASE Appears(s, x)
    <3>1. s <= ctx[m].log.slot /\ ctx[m].log.term = ctx[m].term
      BY <2>1, <2>3 DEF TermInv, LeaderAhead
    <3> QED
      BY <1>3, <1>4, <1>5, <2>2, <3>1
  <2>4. CASE s = slot /\ x = e
    <3>1. m = n
      BY <1>1, <1>4, <2>1, <2>4 DEF TermInv, OneLeader
    <3> QED
      BY <1>3, <1>4, <1>5, <2>2, <2>4, <3>1
  <2> QED
    BY <1>7, <2>3, <2>4
<1>13. OneEntryPerTerm'
  <2>1. ASSUME NEW x \in Entries, Appears(slot, x), x.term = e.term
        PROVE  FALSE
    <3>1. slot <= ctx[n].log.slot
      BY <1>1, <1>3, <1>4, <2>1 DEF TermInv, LeaderAhead
    <3> QED
      BY <1>4, <3>1
  <2> QED
    BY <1>7, <2>1 DEF TermInv, OneEntryPerTerm
<1> QED
  BY <1>10, <1>11, <1>12, <1>13 DEF TermInv

\* The logs that a new Leader starts with, and the entries it makes.
LEMMA RestoredIs ==
  ASSUME TypeInv, NEW n \in Node, NEW V \in SUBSET Peers(n), TakeOffice(n, V)
  PROVE  LET T == NewTerm(n, V)
             col == Gathered(n, V)
             d == Restored(n, V)
         IN /\ T \in Terms /\ T \in Nat /\ col \in Logs /\ d \in Contexts
            /\ d.term = T /\ d.committed = ctx[n].committed
            /\ DOMAIN d.uncommitted = DOMAIN col
            /\ \A s \in DOMAIN col : d.uncommitted[s] = Stamped(col[s], T)
            /\ DOMAIN d.wal = DOMAIN col \union DOMAIN ctx[n].wal
            /\ \A s \in DOMAIN col : d.wal[s] = Stamped(col[s], T)
            /\ \A s \in DOMAIN ctx[n].wal : s \notin DOMAIN col => d.wal[s] = ctx[n].wal[s]
            /\ DOMAIN col = {} => d.log = ctx[n].log
            /\ DOMAIN col # {} => d.log.term = T /\ d.log.slot = LastSlot(col)
<1>1. NewTerm(n, V) \in Terms /\ Gathered(n, V) \in Logs /\ Restored(n, V) \in Contexts
  BY TakeOfficeIs DEF TypeInv
<1>2. NewTerm(n, V) \in Nat
  BY NewTermIs DEF TypeInv
<1>3. ctx[n] \in Contexts
  BY TermsAreNumbers
<1> QED
  BY <1>1, <1>2, <1>3, RestampedIs DEF Restored

LEMMA TakeOfficeTerms ==
  ASSUME TypeInv, TypeInv', TermInv, NEW n \in Node, NEW V \in SUBSET Peers(n),
         TakeOffice(n, V)
  PROVE  TermInv'
<1>0. PICK T \in Terms : T = NewTerm(n, V)
  BY TakeOfficeIs DEF TypeInv
<1> DEFINE col == Gathered(n, V)
           d == Restored(n, V)
           new == d.uncommitted
<1>1. /\ role[n] # "Crashed" /\ Cardinality(V) + 1 = QuorumSize
      /\ \A v \in V : Grants(v, n)
      /\ CallsOK' /\ Sends(n, d)
      /\ \/ role'[n] = "Crashed" /\ ctx'[n] = NewContext
         \/ role'[n] = "Leader" /\ ctx'[n] = d
      /\ \A m \in Node \ {n} :
           /\ role'[m] = IF m \in V THEN "Follower" ELSE role[m]
           /\ ctx'[m] = IF m \in V THEN [ctx[m] EXCEPT !.term = T] ELSE ctx[m]
      /\ UNCHANGED replies
  BY <1>0, TakeOfficeIs DEF TypeInv
<1>2. /\ T \in Terms /\ T \in Nat /\ col \in Logs /\ d \in Contexts
      /\ d.term = T
      /\ DOMAIN d.uncommitted = DOMAIN col
      /\ \A s \in DOMAIN col : d.uncommitted[s] = Stamped(col[s], T)
      /\ DOMAIN d.wal = DOMAIN col \union DOMAIN ctx[n].wal
      /\ \A s \in DOMAIN col : d.wal[s] = Stamped(col[s], T)
      /\ \A s \in DOMAIN ctx[n].wal : s \notin DOMAIN col => d.wal[s] = ctx[n].wal[s]
      /\ DOMAIN col = {} => d.log = ctx[n].log
      /\ DOMAIN col # {} => d.log.term = T /\ d.log.slot = LastSlot(col)
  BY <1>0, RestoredIs
<1>25. T \in Nat /\ d.term = T
  BY <1>2
<1>26. d.log = ctx[n].log \/ d.log.term = T
  BY <1>2
<1>3. \A m \in Node : ctx[m] \in Contexts /\ ctx[m].term \in Nat
  BY TermsAreNumbers
<1>4. \A t \in Nat : Opened(t) => t < T
  BY <1>0, NotOpened
<1>5. \A m \in Node : ctx[m].term < T
  BY <1>3, <1>4 DEF TermInv, TermsOpened
<1>6. \A m, f \in Node : \A r \in InFlight(m, f) : r.term \in Nat /\ r.term < T
  <2>1. \A m, f \in Node : \A r \in InFlight(m, f) : r.term \in Nat /\ Opened(r.term)
    BY FlightElim, RequestElim DEF TypeInv, TypeOK, CallsOK, TermInv, TermsOpened
  <2> QED
    BY <1>4, <2>1
<1>7. \A r \in replies : r.term \in Nat /\ r.term < T
  <2>1. \A r \in replies : r.term \in Nat /\ Opened(r.term)
    BY BoundsAssumption DEF TypeInv, TypeOK, Replies, Terms, TermInv, TermsOpened
  <2> QED
    BY <1>4, <2>1
<1>8. \A s, x : Appears(s, x) => x.term \in Nat /\ x.term < T
  <2> SUFFICES ASSUME NEW s, NEW x, Appears(s, x)
               PROVE  x.term \in Nat /\ x.term < T
    OBVIOUS
  <2>1. x.term \in Nat
    BY AppearsTyped
  <2>2. PICK t \in Nat : Opened(t) /\ x.term <= t
    BY AppearsOpened DEF TermInv
  <2> QED
    BY <1>2, <1>4, <2>1, <2>2
<1> HIDE DEF col, d
<1>9. \A m \in Node \ {n} :
        /\ ctx'[m].wal = ctx[m].wal /\ ctx'[m].uncommitted = ctx[m].uncommitted
        /\ ctx'[m].log = ctx[m].log
        /\ ctx'[m].term = IF m \in V THEN T ELSE ctx[m].term
  <2> TAKE m \in Node \ {n}
  <2>1. /\ [ctx[m] EXCEPT !.term = T].wal = ctx[m].wal
        /\ [ctx[m] EXCEPT !.term = T].uncommitted = ctx[m].uncommitted
        /\ [ctx[m] EXCEPT !.term = T].log = ctx[m].log
        /\ [ctx[m] EXCEPT !.term = T].term = T
    BY <1>3, WithTermIs
  <2> QED
    BY <1>1, <2>1
<1>10. \A m, f \in Node : \A r \in InFlight(m, f)' :
        \/ r \in InFlight(m, f)
        \/ /\ m = n /\ r.term = T
           /\ \A s \in DOMAIN r.entries : s \in DOMAIN d.wal /\ r.entries[s] = d.wal[s]
  BY <1>1, <1>2, SentIsInLog
<1>11. \A s \in DOMAIN d.wal : Appears(s, d.wal[s]) \/ (s \in DOMAIN new /\ d.wal[s] = new[s])
  BY <1>2, AppearsIntro
<1>12. \A s, x : (s \in DOMAIN new /\ x = new[s]) <=> s \in DOMAIN col /\ x = Stamped(col[s], T)
  BY <1>2
<1>27. d.uncommitted = new
  OBVIOUS
<1> HIDE DEF new
<1>13. \A s, x : Appears(s, x)' => Appears(s, x) \/ (s \in DOMAIN col /\ x = Stamped(col[s], T))
  <2>1. \A m \in Node : \A s \in DOMAIN ctx'[m].wal :
          Appears(s, ctx'[m].wal[s]) \/ (s \in DOMAIN new /\ ctx'[m].wal[s] = new[s])
    BY <1>1, <1>9, <1>11, NewContextIs, AppearsIntro
  <2>2. \A m \in Node : \A s \in DOMAIN ctx'[m].uncommitted :
          Appears(s, ctx'[m].uncommitted[s]) \/ (s \in DOMAIN new /\ ctx'[m].uncommitted[s] = new[s])
    <3>1. \A s \in DOMAIN ctx'[n].uncommitted :
            s \in DOMAIN new /\ ctx'[n].uncommitted[s] = new[s]
      <4>1. CASE ctx'[n] = NewContext
        BY <4>1, NewContextIs
      <4>2. CASE ctx'[n] = d
        BY <1>27, <4>2
      <4> QED
        BY <1>1, <4>1, <4>2
    <3>2. \A m \in Node \ {n} : \A s \in DOMAIN ctx'[m].uncommitted :
            Appears(s, ctx'[m].uncommitted[s])
      BY <1>9, AppearsIntro
    <3> QED
      BY <3>1, <3>2
  <2>3. \A m, f \in Node : \A r \in InFlight(m, f)' : \A x \in DOMAIN r.entries :
          Appears(x, r.entries[x]) \/ (x \in DOMAIN new /\ r.entries[x] = new[x])
    <3> SUFFICES ASSUME NEW m \in Node, NEW f \in Node, NEW r \in InFlight(m, f)',
                        NEW x \in DOMAIN r.entries
                 PROVE  Appears(x, r.entries[x]) \/ (x \in DOMAIN new /\ r.entries[x] = new[x])
      OBVIOUS
    <3>1. CASE r \in InFlight(m, f)
      BY <3>1, AppearsIntro
    <3>2. CASE x \in DOMAIN d.wal /\ r.entries[x] = d.wal[x]
      BY <1>11, <3>2
    <3>3. r \in InFlight(m, f) \/ (x \in DOMAIN d.wal /\ r.entries[x] = d.wal[x])
      BY <1>10
    <3> QED
      BY <3>1, <3>2, <3>3
  <2>4. \A s, x : Appears(s, x)' => Appears(s, x) \/ (s \in DOMAIN new /\ x = new[s])
    BY <2>1, <2>2, <2>3, AppearsAfter
  <2> QED
    BY <1>12, <2>4
<1>14. \A s \in DOMAIN col : Stamped(col[s], T).term = T
  BY DEF Stamped
<1>24. \A s \in DOMAIN d.wal : d.wal[s].term <= T
  <2> TAKE s \in DOMAIN d.wal
  <2>1. CASE s \in DOMAIN col
    BY <1>2, <1>14, <2>1
  <2>2. CASE s \notin DOMAIN col
    <3>1. Appears(s, d.wal[s])
      BY <1>2, <2>2, AppearsIntro
    <3> QED
      BY <1>2, <1>8, <3>1
  <2> QED
    BY <2>1, <2>2
<1>15. TermsGrow
  <2> SUFFICES ASSUME NEW m \in Node
               PROVE  /\ role[m] = "Crashed" => role'[m] = "Crashed"
                      /\ role'[m] = "Crashed" \/ ctx'[m].term >= ctx[m].term
    BY DEF TermsGrow
  <2>1. CASE m = n
    BY <1>1, <1>2, <1>3, <1>5, <2>1
  <2>2. CASE m # n
    <3>1. ctx'[m].term = T \/ ctx'[m].term = ctx[m].term
      BY <1>9, <2>2
    <3>2. ctx[m].term \in Nat /\ ctx[m].term < T
      BY <1>3, <1>5
    <3>3. ctx'[m].term >= ctx[m].term
      BY <1>25, <3>1, <3>2
    <3>4. role[m] = "Crashed" => m \notin V
      BY <1>1 DEF Grants
    <3> QED
      BY <1>1, <2>2, <3>3, <3>4
  <2> QED
    BY <2>1, <2>2
<1>16. Opened(T)'
  <2>1. V \union {n} \in SUBSET Node /\ n \notin V /\ IsFiniteSet(Node)
    BY NodeAssumption DEF Peers
  <2>2. Cardinality(V \union {n}) = QuorumSize /\ QuorumSize \in Nat
    BY <1>1, <2>1, FS_AddElement, FS_Subset, PeersIs
  <2>3. \A m \in V \union {n} : role'[m] = "Crashed" \/ ctx'[m].term >= T
    BY <1>1, <1>2, <1>9, <2>1
  <2> QED
    BY <2>1, <2>2, <2>3 DEF Opened
<1>17. \A t \in Nat : Opened(t) => Opened(t)'
  BY <1>15, OpenedStable
<1>18. Opened(0)'
  BY <1>17, ZeroOpened
<1>19. TermsOpened'
  <2>1. \A m \in Node : Opened(ctx[m].term)'
    <3> TAKE m \in Node
    <3>1. ctx'[m].term = 0 \/ ctx'[m].term = T \/ ctx'[m].term = ctx[m].term
      BY <1>1, <1>2, <1>9, NewContextIs
    <3>2. Opened(ctx[m].term)
      BY DEF TermInv, TermsOpened
    <3> QED
      BY <1>3, <1>16, <1>17, <1>18, <3>1, <3>2 DEF Opened
  <2>2. \A r \in replies' : Opened(r.term)'
    BY <1>1, <1>7, <1>17 DEF TermInv, TermsOpened
  <2>3. \A m, f \in Node : \A r \in InFlight(m, f)' :
          Opened(r.term)' /\ \A s \in DOMAIN r.entries : r.entries[s].term <= r.term
    <3> SUFFICES ASSUME NEW m \in Node, NEW f \in Node, NEW r \in InFlight(m, f)'
                 PROVE  Opened(r.term)' /\ \A s \in DOMAIN r.entries : r.entries[s].term <= r.term
      OBVIOUS
    <3>1. CASE r \in InFlight(m, f)
      BY <1>6, <1>17, <3>1 DEF TermInv, TermsOpened
    <3>2. CASE /\ r.term = T
               /\ \A s \in DOMAIN r.entries : s \in DOMAIN d.wal /\ r.entries[s] = d.wal[s]
      <4>2. Opened(r.term)'
        BY <1>16, <3>2 DEF Opened
      <4> QED
        BY <1>24, <3>2, <4>2
    <3> QED
      BY <1>10, <3>1, <3>2
  <2>4. \A m \in Node :
          /\ ctx'[m].log.term <= ctx'[m].term
          /\ \A s \in DOMAIN ctx'[m].wal : ctx'[m].wal[s].term <= ctx'[m].term
          /\ \A s \in DOMAIN ctx'[m].uncommitted : ctx'[m].uncommitted[s].term <= ctx'[m].term
    <3> TAKE m \in Node
    <3>1. /\ ctx[m].log.term \in Nat /\ ctx[m].log.term <= ctx[m].term
          /\ \A s \in DOMAIN ctx[m].wal : ctx[m].wal[s].term \in Nat
               /\ ctx[m].wal[s].term <= ctx[m].term /\ ctx[m].wal[s].term < T
          /\ \A s \in DOMAIN ctx[m].uncommitted : ctx[m].uncommitted[s].term \in Nat
               /\ ctx[m].uncommitted[s].term <= ctx[m].term /\ ctx[m].uncommitted[s].term < T
      BY <1>3, <1>8, ContextElim, AppearsIntro DEF TermInv, TermsOpened
    <3>2. CASE m # n
      BY <1>2, <1>3, <1>5, <1>9, <3>1, <3>2
    <3>3. CASE m = n /\ ctx'[n] = NewContext
      BY <3>3, NewContextIs
    <3>4. CASE m = n /\ ctx'[n] = d
      <4>1. d.log.term <= T
        BY <1>3, <1>5, <1>25, <1>26, <3>1, <3>4
      <4>3. \A s \in DOMAIN d.uncommitted : d.uncommitted[s].term <= T
        BY <1>2, <1>14
      <4> QED
        BY <1>2, <1>24, <3>4, <4>1, <4>3
    <3> QED
      BY <1>1, <3>2, <3>3, <3>4
  <2> QED
    BY <2>1, <2>2, <2>3, <2>4 DEF TermsOpened
<1>20. \A m \in Node : role'[m] = "Leader" =>
         \/ m = n /\ ctx'[m] = d
         \/ m # n /\ role[m] = "Leader" /\ ctx'[m] = ctx[m]
  BY <1>1
<1>21. OneLeader'
  <2>1. \A m, k \in Node : role'[m] = "Leader" /\ role'[k] = "Leader"
          /\ ctx'[m].term = ctx'[k].term => m = k
    BY <1>2, <1>3, <1>5, <1>20 DEF TermInv, OneLeader
  <2>2. \A m, k, f \in Node : \A r \in InFlight(m, f)' :
          role'[k] = "Leader" /\ r.term = ctx'[k].term => m = k
    <3> SUFFICES ASSUME NEW m \in Node, NEW k \in Node, NEW f \in Node, NEW r \in InFlight(m, f)',
                        role'[k] = "Leader", r.term = ctx'[k].term
                 PROVE  m = k
      OBVIOUS
    <3>1. CASE r \in InFlight(m, f)
      BY <1>2, <1>3, <1>6, <1>20, <3>1 DEF TermInv, OneLeader
    <3>2. CASE m = n /\ r.term = T
      <4>1. k # n => ctx'[k] = ctx[k]
        BY <1>20
      <4>2. ctx[k].term \in Nat /\ ctx[k].term < T
        BY <1>3, <1>5
      <4>3. ctx[k].term # T
        BY <1>25, <4>2
      <4> QED
        BY <3>2, <4>1, <4>3
    <3> QED
      BY <1>10, <3>1, <3>2
  <2> QED
    BY <2>1, <2>2 DEF OneLeader
<1>22. LeaderAhead'
  <2> SUFFICES ASSUME NEW m \in Node, role'[m] = "Leader", NEW s \in Slots, NEW x \in Entries,
                      Appears(s, x)', x.term = ctx'[m].term
               PROVE  s <= ctx'[m].log.slot /\ ctx'[m].log.term = ctx'[m].term
    BY DEF LeaderAhead
  <2>1. CASE Appears(s, x)
    BY <1>2, <1>8, <1>20, <2>1 DEF TermInv, LeaderAhead
  <2>2. CASE s \in DOMAIN col /\ x = Stamped(col[s], T)
    <3>1. m = n /\ ctx'[m] = d
      BY <1>2, <1>3, <1>5, <1>14, <1>20, <2>2
    <3>2. s <= LastSlot(col)
      BY <1>2, <2>2, LastSlotIs
    <3> QED
      BY <1>2, <2>2, <3>1, <3>2
  <2> QED
    BY <1>13, <2>1, <2>2
<1>23. OneEntryPerTerm'
  <2> SUFFICES ASSUME NEW s \in Slots, NEW x \in Entries, NEW y \in Entries,
                      Appears(s, x)', Appears(s, y)', x.term = y.term
               PROVE  x = y
    BY DEF OneEntryPerTerm
  <2>1. CASE Appears(s, x) /\ Appears(s, y)
    BY <2>1 DEF TermInv, OneEntryPerTerm
  <2>2. CASE ~ (Appears(s, x) /\ Appears(s, y))
    BY <1>2, <1>8, <1>13, <1>14, <2>2
  <2> QED
    BY <2>1, <2>2
<1> QED
  BY <1>19, <1>21, <1>22, <1>23 DEF TermInv

-----------------------------------------------------------------------------
LEMMA InitTerms == Init => TermInv
<1> SUFFICES ASSUME Init PROVE TermInv
  OBVIOUS
<1>1. TypeInv
  BY InitTypes
<1>2. \A m \in Node : role[m] = "Follower" /\ ctx[m] = NewContext
  BY DEF Init
<1>3. \A m, f \in Node : InFlight(m, f) = {}
  <2>1. \A m, f \in Node : calls[m][f] = <<>> /\ Len(<<>>) = 0
    BY EmptySeq DEF Init
  <2> QED
    BY <2>1 DEF InFlight
<1>4. \A s, x : ~ Appears(s, x)
  BY <1>2, <1>3, NewContextIs DEF Appears
<1>5. TermsOpened
  BY <1>1, <1>2, <1>3, NewContextIs, ZeroOpened DEF TermsOpened, Init
<1> QED
  BY <1>2, <1>3, <1>4, <1>5 DEF TermInv, OneLeader, LeaderAhead, OneEntryPerTerm

LEMMA StepTerms ==
  ASSUME TypeInv, TermInv, [Next]_vars
  PROVE  TermInv'
<1>1. TypeInv' /\ TypeOK /\ Shapes
  BY StepTypes DEF TypeInv
<1> QED
  BY <1>1, NextIs, TakeOfficeTerms, ClientWriteTerms, ResendsMoves, AcknowledgesMoves,
     AcceptsMoves, RejectsMoves, HigherTermMoves, QuietMoves, MovesKeepTerms

LEMMA TermsAreInvariant == Spec => [](TypeInv /\ TermInv)
<1>1. Init => TypeInv /\ TermInv
  BY InitTypes, InitTerms
<1>2. TypeInv /\ TermInv /\ [Next]_vars => (TypeInv /\ TermInv)'
  BY StepTypes, StepTerms
<1> QED
  BY <1>1, <1>2, PTL DEF Spec

\* The term of an entry identifies it, in a group of any size: whatever overtakes
\* what, two logs that have an entry of the same term in a slot have the same write
\* there, which is all that the anchor check of handle_accept_request relies on.
THEOREM EntriesIdentified == Spec => []OneValuePerTerm
<1>1. TypeInv /\ TermInv => OneValuePerTerm
  <2> SUFFICES ASSUME TypeInv, TermInv, NEW m \in Node, NEW n \in Node,
                      NEW s \in DOMAIN ctx[m].wal \intersect DOMAIN ctx[n].wal,
                      ctx[m].wal[s].term = ctx[n].wal[s].term
               PROVE  ctx[m].wal[s].value = ctx[n].wal[s].value
    BY DEF OneValuePerTerm
  <2>1. Appears(s, ctx[m].wal[s]) /\ Appears(s, ctx[n].wal[s])
    BY AppearsIntro
  <2>2. s \in Slots /\ ctx[m].wal[s] \in Entries /\ ctx[n].wal[s] \in Entries
    BY <2>1, AppearsTyped
  <2> QED
    BY <2>1, <2>2 DEF TermInv, OneEntryPerTerm
<1> QED
  BY <1>1, TermsAreInvariant, PTL
=============================================================================
