--------------------------- MODULE AgentPaneProofs ---------------------------
(***************************************************************************)
(* Proofs about one pane and its agents: the fields of the activity and    *)
(* the tables of the gate keep their types and bounds whatever events      *)
(* arrive, the numbers the gate remembers only grow, a batch is put in the *)
(* order of its numbers, between two command boundaries one agent speaks,  *)
(* the numbers of a bridge are applied in order, and the end of a turn is  *)
(* notified once.                                                          *)
(*                                                                         *)
(* The last two rest on one invariant, History, in three layers: the       *)
(* events on their way lie in the order they were sent (Lanes); a number   *)
(* heard is one the gate still refuses (Numbers); and so is an end that    *)
(* was notified, by its number or by its id (Ends).  The race of the       *)
(* notify program with the native hooks needs a fourth, Endings: while a   *)
(* report of a notified end is on its way, its stream keeps its id and has *)
(* taken only ids of near turns since, and the start of its conversation   *)
(* is not on its way as well (Doubles).                                    *)
(***************************************************************************)
EXTENDS AgentPane, FiniteSetTheorems, SequenceTheorems, WellFoundedInduction, TLAPS

-----------------------------------------------------------------------------
(* Finite sets of numbers.                                                 *)

LEMMA Least ==
    ASSUME NEW T \in SUBSET Nat, T # {}
    PROVE  \E x \in T : \A y \in T : x <= y
<1> DEFINE R == OpToRel(<, Nat)
<1>1. IsWellFoundedOn(R, Nat)
  BY NatLessThanWellFounded, Zenon
<1>2. \A x, y \in Nat : y < x => <<y, x>> \in R
  BY DEF OpToRel
<1> HIDE DEF R
<1>3. PICK x \in T : \A y \in T : ~(<<y, x>> \in R)
  BY <1>1, WFMin
<1>4. \A y \in T : x \in Nat /\ y \in Nat /\ ~(y < x)
  BY <1>2, <1>3
<1> QED
  BY <1>4

\* A counterexample of the least cardinality loses one element and is still one.
LEMMA Bounded ==
    ASSUME NEW S \in SUBSET Nat, IsFiniteSet(S)
    PROVE  \E b \in Nat : \A x \in S : x <= b
<1> DEFINE Unbounded(n) == \E T \in SUBSET Nat :
                /\ IsFiniteSet(T) /\ Cardinality(T) = n
                /\ \A b \in Nat : \E x \in T : ~(x <= b)
           Bad == {n \in Nat : Unbounded(n)}
<1>1. Bad = {}
  <2> SUFFICES ASSUME Bad # {} PROVE FALSE
    OBVIOUS
  <2>1. PICK n \in Bad : \A m \in Bad : n <= m
    <3>1. Bad \in SUBSET Nat
      OBVIOUS
    <3> HIDE DEF Bad
    <3> QED
      BY <3>1, Least
  <2>2. PICK T \in SUBSET Nat : /\ IsFiniteSet(T) /\ Cardinality(T) = n
                                /\ \A b \in Nat : \E x \in T : ~(x <= b)
    BY <2>1
  <2>3. PICK y \in T : ~(y <= 0)
    BY <2>2
  <2>4. /\ IsFiniteSet(T \ {y}) /\ Cardinality(T \ {y}) = n - 1
        /\ T \ {y} \in SUBSET Nat
    BY <2>2, <2>3, FS_RemoveElement
  <2>5. n \in Nat /\ n - 1 \in Nat
    <3>1. Cardinality(T \ {y}) \in Nat
      BY <2>4, FS_CardinalityType
    <3> QED
      BY <2>1, <2>4, <3>1
  <2>6. n - 1 \notin Bad
    <3>1. ~(n <= n - 1)
      BY <2>5
    <3> HIDE DEF Bad
    <3> QED
      BY <2>1, <3>1
  <2>7. PICK b \in Nat : \A x \in T \ {y} : x <= b
    BY <2>4, <2>5, <2>6
  <2>8. y \in Nat
    OBVIOUS
  <2>9. b + y \in Nat /\ \A x \in T : x <= b + y
    BY <2>7, <2>8
  <2> QED
    BY <2>2, <2>9
<1>2. Cardinality(S) \in Nat
  BY FS_CardinalityType
<1> QED
  BY <1>1, <1>2

LEMMA Greatest ==
    ASSUME NEW S \in SUBSET Nat, IsFiniteSet(S), S # {}
    PROVE  \E x \in S : \A y \in S : x >= y
<1> DEFINE T == {b \in Nat : \A x \in S : x <= b}
<1>1. T \in SUBSET Nat /\ T # {}
  BY Bounded
<1>2. PICK b \in T : \A c \in T : b <= c
  <2> HIDE DEF T
  <2> QED
    BY <1>1, Least
<1>3. b \in Nat /\ \A x \in S : x <= b /\ x \in Nat
  OBVIOUS
<1>4. PICK z \in S : TRUE
  OBVIOUS
<1>5. b \in S
  <2> SUFFICES ASSUME b \notin S PROVE FALSE
    OBVIOUS
  <2>1. \A x \in S : x < b
    BY <1>3
  <2>2. b - 1 \in Nat /\ ~(b <= b - 1)
    BY <1>3, <1>4, <2>1
  <2>3. \A x \in S : x <= b - 1
    BY <1>3, <2>1
  <2>4. b - 1 \in T
    BY <2>2, <2>3
  <2> HIDE DEF T
  <2> QED
    BY <1>2, <2>2, <2>4
<1> QED
  BY <1>3, <1>5

LEMMA MaxOfFinite ==
    ASSUME NEW S \in SUBSET Nat, IsFiniteSet(S), S # {}
    PROVE  Max(S) \in S /\ \A y \in S : Max(S) >= y
BY Greatest DEF Max

\* The values of a function on a finite set.
LEMMA FiniteImage ==
    ASSUME NEW S, IsFiniteSet(S), NEW f \in [S -> Nat]
    PROVE  /\ {f[k] : k \in S} \in SUBSET Nat
           /\ IsFiniteSet({f[k] : k \in S})
<1>1. f \in Surjection(S, {f[k] : k \in S})
  BY DEF Surjection
<1> QED
  BY <1>1, FS_Surjection

-----------------------------------------------------------------------------
(* The gate (HookGate).                                                    *)

\* What the gate reads of an event it was handed.
Stamped(e) ==
    /\ e.kind \in Kind /\ e.busy \in BOOLEAN
    /\ e.received \in Nat /\ e.seq \in Nat /\ e.at \in Nat
    /\ e.id \in Nat /\ e.body \in Nat

Prints == {<<>>} \union (Kind \X Nat \X BOOLEAN)
Ids == {q \in Seq(Nat) : Len(q) <= MaxIds}
Stream == [seq : Nat, at : Nat, received : Nat, life : Lifecycle, ids : Ids, print : Prints]

\* A table of streams within its bound.
Table(st) ==
    /\ IsFiniteSet(DOMAIN st) /\ Cardinality(DOMAIN st) <= MaxStreams
    /\ st \in [DOMAIN st -> Stream]

LEMMA IdsBounded ==
    ASSUME NEW s \in Stream, NEW e, Stamped(e)
    PROVE  IdsAfter(s, e) \in Ids
<1> DEFINE kept == IF e.kind = "SessionStart" THEN <<>> ELSE s.ids
           room == IF e.id # None /\ Len(kept) = MaxIds THEN Tail(kept) ELSE kept
<1>1. MaxIds \in Nat /\ MaxIds > 0 /\ e.id \in Nat
  BY GateConstants DEF Stamped
<1>2. kept \in Seq(Nat) /\ Len(kept) \in Nat /\ Len(kept) <= MaxIds
  BY <1>1 DEF Stream, Ids
<1> HIDE DEF kept
<1>3. CASE e.id = None
  BY <1>2, <1>3 DEF IdsAfter, Ids, kept
<1>4. CASE e.id # None
  <2>1. room \in Seq(Nat) /\ Len(room) \in Nat /\ Len(room) < MaxIds
    <3>1. CASE Len(kept) = MaxIds
      <4>1. kept # <<>>
        BY <1>1, <1>2, <3>1
      <4> QED
        BY <1>1, <1>2, <1>4, <3>1, <4>1, HeadTailProperties
    <3>2. CASE Len(kept) # MaxIds
      BY <1>1, <1>2, <3>2
    <3> QED
      BY <3>1, <3>2
  <2> HIDE DEF room
  <2>2. Append(room, e.id) \in Seq(Nat) /\ Len(Append(room, e.id)) = Len(room) + 1
    BY <1>1, <2>1, AppendProperties
  <2>3. IdsAfter(s, e) = Append(room, e.id)
    BY <1>4 DEF IdsAfter, room, kept
  <2> QED
    BY <1>1, <2>1, <2>2, <2>3 DEF Ids
<1> QED
  BY <1>3, <1>4

LEMMA RecordFits ==
    ASSUME NEW s \in Stream, NEW e, Stamped(e)
    PROVE  Record(s, e) \in Stream
<1>1. IdsAfter(s, e) \in Ids
  BY IdsBounded
<1>2. LifeAfter(e) \in Lifecycle
  BY DEF LifeAfter, Lifecycle, Stamped, Kind
<1>3. Fingerprint(e) \in Prints
  BY DEF Fingerprint, Prints, Stamped
<1> QED
  BY <1>1, <1>2, <1>3 DEF Record, Stream, Stamped, Prints

\* A table that is full loses exactly one stream, so a new one finds a place.
LEMMA TrackedFits ==
    ASSUME NEW st, Table(st), NEW e, Stamped(e)
    PROVE  /\ Table(Tracked(st, e))
           /\ StreamKey(e) \in DOMAIN Tracked(st, e)
           /\ \A k \in DOMAIN Tracked(st, e) :
                \/ k \in DOMAIN st /\ Tracked(st, e)[k] = st[k]
                \/ k = StreamKey(e) /\ k \notin DOMAIN st /\ Tracked(st, e)[k] = NewStream(e)
<1> DEFINE D == DOMAIN st
           key == StreamKey(e)
           oldest == CHOOSE k \in DOMAIN st :
                       \A other \in DOMAIN st : st[k].received <= st[other].received
           kept == IF Cardinality(D) >= MaxStreams THEN D \ {oldest} ELSE D
           new == [k \in kept \union {key} |-> IF k = key THEN NewStream(e) ELSE st[k]]
<1>1. CASE key \in D
  <2>1. Tracked(st, e) = st
    BY <1>1 DEF Tracked
  <2> QED
    BY <1>1, <2>1
<1>2. CASE key \notin D
  <2>1. Tracked(st, e) = new
    BY <1>2 DEF Tracked
  <2>2. MaxStreams \in Nat /\ MaxStreams > 0 /\ Cardinality(D) \in Nat
    BY GateConstants, FS_CardinalityType DEF Table
  <2>3. Cardinality(D) >= MaxStreams => oldest \in D
    <3> SUFFICES ASSUME Cardinality(D) >= MaxStreams PROVE oldest \in D
      OBVIOUS
    <3>1. D # {}
      BY <2>2, FS_EmptySet
    <3> DEFINE f == [k \in D |-> st[k].received]
               T == {f[k] : k \in D}
    <3>2. f \in [D -> Nat]
      BY DEF Table, Stream
    <3>3. T \in SUBSET Nat /\ T # {}
      BY <3>1, <3>2
    <3>4. PICK x \in T : \A y \in T : x <= y
      <4> HIDE DEF T
      <4> QED
        BY <3>3, Least
    <3>5. PICK k \in D : x = f[k]
      OBVIOUS
    <3>6. \A other \in D : st[k].received <= st[other].received
      BY <3>4, <3>5
    <3> QED
      BY <3>6
  <2> HIDE DEF oldest
  <2>4. /\ IsFiniteSet(kept) /\ Cardinality(kept) \in Nat
        /\ Cardinality(kept) < MaxStreams /\ kept \subseteq D
    <3>1. IsFiniteSet(D) /\ Cardinality(D) <= MaxStreams
      BY DEF Table
    <3>2. /\ IsFiniteSet(D \ {oldest})
          /\ oldest \in D => Cardinality(D \ {oldest}) = Cardinality(D) - 1
      BY <3>1, FS_RemoveElement
    <3>3. IsFiniteSet(kept)
      BY <3>1, <3>2
    <3>4. Cardinality(kept) \in Nat
      BY <3>3, FS_CardinalityType
    <3> QED
      BY <2>2, <2>3, <3>1, <3>2, <3>3, <3>4
  <2> HIDE DEF kept
  <2>5. key \notin kept
    BY <1>2, <2>4
  <2>6. IsFiniteSet(kept \union {key}) /\ Cardinality(kept \union {key}) = Cardinality(kept) + 1
    BY <2>4, <2>5, FS_AddElement
  <2>7. NewStream(e) \in Stream
    <3>1. <<>> \in Ids
      BY GateConstants DEF Ids
    <3> QED
      BY <3>1 DEF NewStream, Stream, Stamped, Prints, Lifecycle, None
  <2>8. DOMAIN new = kept \union {key} /\ new \in [kept \union {key} -> Stream]
    BY <2>4, <2>7 DEF Table
  <2>9. Table(new)
    BY <2>2, <2>4, <2>6, <2>8 DEF Table
  <2>10. \A k \in DOMAIN new : \/ k \in D /\ new[k] = st[k]
                               \/ k = key /\ k \notin D /\ new[k] = NewStream(e)
    BY <1>2, <2>4, <2>8
  <2> QED
    BY <2>1, <2>8, <2>9, <2>10
<1> QED
  BY <1>1, <1>2

LEMMA GateFits ==
    ASSUME NEW st, Table(st), NEW e, Stamped(e)
    PROVE  Table(GateAfter(st, e))
<1> DEFINE table == Tracked(st, e)
           key == StreamKey(e)
<1>1. Table(table) /\ key \in DOMAIN table
  BY TrackedFits
<1> HIDE DEF table, key
<1>2. Record(table[key], e) \in Stream
  BY <1>1, RecordFits DEF Table
<1>3. /\ DOMAIN [table EXCEPT ![key] = Record(@, e)] = DOMAIN table
      /\ [table EXCEPT ![key] = Record(@, e)] \in [DOMAIN table -> Stream]
  BY <1>1, <1>2 DEF Table
<1>4. GateAfter(st, e) \in {table, [table EXCEPT ![key] = Record(@, e)]}
  BY DEF GateAfter, table, key
<1> QED
  BY <1>1, <1>3, <1>4 DEF Table

-----------------------------------------------------------------------------
(* The numbers the gate remembers.                                         *)

\* An event that is accepted leaves a number of its stream no smaller.
LEMMA NumbersGrow ==
    ASSUME NEW st, Table(st), NEW e, Stamped(e),
           NEW k \in DOMAIN st \intersect DOMAIN GateAfter(st, e)
    PROVE  st[k].seq <= GateAfter(st, e)[k].seq
<1> DEFINE table == Tracked(st, e)
           key == StreamKey(e)
<1>1. /\ Table(table) /\ key \in DOMAIN table
      /\ k \in DOMAIN table => table[k] = st[k]
  BY TrackedFits
<1>2. \A s \in Stream : Verdict(s, e) = "Accepted" => s.seq <= Record(s, e).seq
  BY DEF Verdict, Record, Compared, Stream, Stamped, None
<1>3. st[k].seq \in Nat
  BY DEF Table, Stream
<1>4. GateAfter(st, e) = IF Verdict(table[key], e) = "Accepted"
                         THEN [table EXCEPT ![key] = Record(@, e)] ELSE table
  BY DEF GateAfter
<1> HIDE DEF table, key
<1>5. k \in DOMAIN table /\ table[k] = st[k] /\ table[key] \in Stream
  BY <1>1, <1>4 DEF Table
<1>6. CASE Verdict(table[key], e) = "Accepted" /\ k = key
  <2>1. GateAfter(st, e)[k] = Record(table[k], e)
    BY <1>4, <1>5, <1>6
  <2> QED
    BY <1>2, <1>5, <1>6, <2>1
<1>7. CASE Verdict(table[key], e) # "Accepted" \/ k # key
  <2>1. GateAfter(st, e)[k] = table[k]
    BY <1>4, <1>5, <1>7
  <2> QED
    BY <1>3, <1>5, <2>1
<1> QED
  BY <1>6, <1>7

\* An accepted id is among the ones its stream keeps.
LEMMA IdKept ==
    ASSUME NEW s \in Stream, NEW e, Stamped(e), e.id # None
    PROVE  Contains(Record(s, e).ids, e.id)
<1> DEFINE kept == IF e.kind = "SessionStart" THEN <<>> ELSE s.ids
           room == IF e.id # None /\ Len(kept) = MaxIds THEN Tail(kept) ELSE kept
           ids == Record(s, e).ids
<1>1. ids = Append(room, e.id)
  BY DEF Record, IdsAfter
<1>2. kept \in Seq(Nat) /\ e.id \in Nat
  BY DEF Stream, Ids, Stamped
<1> HIDE DEF kept, ids
<1>3. room \in Seq(Nat)
  <2>1. CASE Len(kept) = MaxIds
    <3>1. kept # <<>>
      BY <2>1, GateConstants
    <3> QED
      BY <1>2, <2>1, <3>1, HeadTailProperties
  <2>2. CASE Len(kept) # MaxIds
    BY <1>2, <2>2
  <2> QED
    BY <2>1, <2>2
<1> HIDE DEF room
<1>4. Len(room) \in Nat /\ Len(ids) = Len(room) + 1 /\ ids[Len(room) + 1] = e.id
  BY <1>1, <1>2, <1>3, AppendProperties, LenProperties
<1> QED
  BY <1>4 DEF Contains, ids

\* An event with an id or a number that the gate has taken is not taken again,
\* whatever it said of it the first time.
THEOREM RepeatIsRefused ==
    ASSUME NEW st, Table(st), NEW e, Stamped(e), e.id # None \/ e.seq # None
    PROVE  GateVerdict(GateAfter(st, e), e) # "Accepted"
<1> DEFINE table == Tracked(st, e)
           key == StreamKey(e)
           after == GateAfter(st, e)
<1>1. Table(table) /\ key \in DOMAIN table
  BY TrackedFits
<1>2. after = IF Verdict(table[key], e) = "Accepted"
              THEN [table EXCEPT ![key] = Record(@, e)] ELSE table
  BY DEF GateAfter
<1>3. GateVerdict(after, e) = Verdict(after[key], e) /\ key \in DOMAIN after
  <2>1. key \in DOMAIN after
    BY <1>1, <1>2
  <2>2. Tracked(after, e) = after
    BY <2>1 DEF Tracked
  <2> QED
    BY <2>1, <2>2 DEF GateVerdict
<1> HIDE DEF table, key, after
<1>4. table[key] \in Stream
  BY <1>1 DEF Table
<1>5. CASE Verdict(table[key], e) # "Accepted"
  BY <1>2, <1>3, <1>5 DEF after
<1>6. CASE Verdict(table[key], e) = "Accepted"
  <2> DEFINE s == Record(table[key], e)
  <2>1. after[key] = s
    BY <1>1, <1>2, <1>6
  <2>2. CASE e.seq # None
    <3>1. s.seq = e.seq /\ e.seq \in Nat
      BY <2>2 DEF Record, Stamped
    <3> HIDE DEF s
    <3>2. Compared(e.seq, s.seq) /\ e.seq <= s.seq
      BY <2>2, <3>1 DEF Compared
    <3> QED
      BY <1>3, <2>1, <3>2 DEF Verdict, after
  <2>3. CASE e.id # None
    <3>1. Contains(s.ids, e.id)
      BY <1>4, <2>3, IdKept
    <3> HIDE DEF s
    <3> QED
      BY <1>3, <2>1, <2>3, <3>1 DEF Verdict, after
  <2> QED
    BY <2>2, <2>3
<1> QED
  BY <1>5, <1>6

-----------------------------------------------------------------------------
(* The reordering of a batch (HookGate).                                   *)

\* A strict total order R of the elements of S.
TotalOrder(R, S) ==
    /\ \A x \in S : <<x, x>> \notin R
    /\ \A x, y \in S : x # y => <<x, y>> \in R \/ <<y, x>> \in R
    /\ \A x, y, z \in S : <<x, y>> \in R /\ <<y, z>> \in R => <<x, z>> \in R

Rank(R, S, x) == Cardinality({y \in S : <<y, x>> \in R})

\* Ranks number a finite set from 0, in its order.
LEMMA RankNumbers ==
    ASSUME NEW S, IsFiniteSet(S), NEW R, TotalOrder(R, S)
    PROVE  /\ \A x, y \in S : <<x, y>> \in R <=> Rank(R, S, x) < Rank(R, S, y)
           /\ \A x \in S : Rank(R, S, x) \in 0..Cardinality(S) - 1
           /\ \A n \in 0..Cardinality(S) - 1 : \E x \in S : Rank(R, S, x) = n
<1> DEFINE Under(x) == {y \in S : <<y, x>> \in R}
           n == Cardinality(S)
<1>1. n \in Nat /\ \A x \in S : IsFiniteSet(Under(x)) /\ Cardinality(Under(x)) \in Nat
  BY FS_CardinalityType, FS_Subset
<1>2. ASSUME NEW x \in S, NEW y \in S, <<x, y>> \in R
      PROVE  Rank(R, S, x) < Rank(R, S, y)
  <2>1. Under(x) \subseteq Under(y) /\ x \in Under(y) /\ x \notin Under(x)
    BY <1>2 DEF TotalOrder
  <2>2. Cardinality(Under(x)) <= Cardinality(Under(y)) /\ Cardinality(Under(x)) # Cardinality(Under(y))
    BY <1>1, <2>1, FS_Subset
  <2> QED
    BY <1>1, <2>2 DEF Rank
<1>3. \A x \in S : Rank(R, S, x) \in Nat
  BY <1>1 DEF Rank
<1>4. \A x, y \in S : <<x, y>> \in R <=> Rank(R, S, x) < Rank(R, S, y)
  <2> SUFFICES ASSUME NEW x \in S, NEW y \in S, Rank(R, S, x) < Rank(R, S, y)
               PROVE  <<x, y>> \in R
    BY <1>2
  <2>1. x # y /\ <<y, x>> \notin R
    BY <1>2, <1>3
  <2> QED
    BY <2>1 DEF TotalOrder
<1>5. ASSUME NEW x \in S PROVE Rank(R, S, x) \in 0..n - 1
  <2>1. PICK U : U = Under(x)
    OBVIOUS
  <2>2. PICK O : O = S \ {x}
    OBVIOUS
  <2>3. IsFiniteSet(O) /\ Cardinality(O) = n - 1
    BY <2>2, FS_RemoveElement
  <2>4. U \subseteq O
    BY <2>1, <2>2 DEF TotalOrder
  <2>5. Cardinality(U) <= n - 1
    BY <2>3, <2>4, FS_Subset
  <2>6. Rank(R, S, x) = Cardinality(Under(x)) /\ Cardinality(Under(x)) \in Nat
    BY <1>1 DEF Rank
  <2> QED
    BY <1>1, <2>1, <2>5, <2>6
<1>6. \A m \in 0..n - 1 : \E x \in S : Rank(R, S, x) = m
  <2> DEFINE f == [x \in S |-> Rank(R, S, x)]
             T == 0..n - 1
  <2>1. f \in Injection(S, T)
    <3>1. f \in [S -> T]
      BY <1>5
    <3>2. ASSUME NEW x \in S, NEW y \in S, f[x] = f[y] PROVE x = y
      <4>1. ~(Rank(R, S, x) < Rank(R, S, y)) /\ ~(Rank(R, S, y) < Rank(R, S, x))
        BY <1>3, <3>2
      <4> QED
        BY <1>4, <4>1 DEF TotalOrder
    <3> QED
      BY <3>1, <3>2 DEF Injection, IsInjective
  <2>2. IsFiniteSet(T) /\ Cardinality(T) = n
    <3>1. PICK k \in Int : k = n - 1
      BY <1>1
    <3>2. IsFiniteSet(0..k) /\ Cardinality(0..k) = IF 0 > k THEN 0 ELSE k - 0 + 1
      BY FS_Interval
    <3> QED
      BY <1>1, <3>1, <3>2
  <2>3. f \in Surjection(S, T)
    BY <2>1, <2>2, FS_Injection
  <2> QED
    BY <2>3 DEF Surjection
<1> QED
  BY <1>4, <1>5, <1>6

\* The slots of a stream, by their place in the batch and by the number of their event.
Places(S) == {p \in S \X S : p[1] < p[2]}
Numbering(batch, S) == {p \in S \X S : Before(batch, p[1], p[2])}

LEMMA SourceSlots ==
    ASSUME NEW E, NEW batch \in Seq(E), \A i \in DOMAIN batch : batch[i].seq \in Nat,
           NEW key, NEW S, S = Slots(batch, key)
    PROVE  /\ \A i \in S : SourceSlot(batch, i) \in S
           /\ \A i, k \in S :
                i < k => Before(batch, SourceSlot(batch, i), SourceSlot(batch, k))
           /\ \A j \in S : \E i \in S : SourceSlot(batch, i) = j
<1> DEFINE P == Places(S)
           N == Numbering(batch, S)
<1>1. S \subseteq Nat /\ IsFiniteSet(S) /\ \A i \in S : batch[i].seq \in Nat
  <2>1. Len(batch) \in Nat /\ S \subseteq 1..Len(batch) /\ S \subseteq DOMAIN batch
    BY LenProperties DEF Slots
  <2>2. IsFiniteSet(1..Len(batch))
    BY <2>1, FS_Interval
  <2> QED
    BY <2>1, <2>2, FS_Subset
<1>2. TotalOrder(P, S)
  BY <1>1 DEF TotalOrder, Places
<1>3. TotalOrder(N, S)
  <2>1. \A x \in S : ~Before(batch, x, x)
    BY <1>1 DEF Before
  <2>2. \A x, y \in S : x # y => Before(batch, x, y) \/ Before(batch, y, x)
    BY <1>1 DEF Before
  <2>3. \A x, y, z \in S : Before(batch, x, y) /\ Before(batch, y, z) => Before(batch, x, z)
    BY <1>1 DEF Before
  <2>4. \A x, y \in S : <<x, y>> \in N <=> Before(batch, x, y)
    BY DEF Numbering
  <2> QED
    BY <2>1, <2>2, <2>3, <2>4 DEF TotalOrder
<1>4. /\ \A x, y \in S : <<x, y>> \in P <=> x < y
      /\ \A x, y \in S : <<x, y>> \in N <=> Before(batch, x, y)
  BY DEF Places, Numbering
<1> HIDE DEF P, N
<1>5. /\ \A x, y \in S : x < y <=> Rank(P, S, x) < Rank(P, S, y)
      /\ \A x \in S : Rank(P, S, x) \in 0..Cardinality(S) - 1
      /\ \A n \in 0..Cardinality(S) - 1 : \E x \in S : Rank(P, S, x) = n
  <2>1. /\ \A x, y \in S : <<x, y>> \in P <=> Rank(P, S, x) < Rank(P, S, y)
        /\ \A x \in S : Rank(P, S, x) \in 0..Cardinality(S) - 1
        /\ \A n \in 0..Cardinality(S) - 1 : \E x \in S : Rank(P, S, x) = n
    BY <1>1, <1>2, RankNumbers
  <2> QED
    BY <1>4, <2>1
<1>6. /\ \A x, y \in S : Before(batch, x, y) <=> Rank(N, S, x) < Rank(N, S, y)
      /\ \A x \in S : Rank(N, S, x) \in 0..Cardinality(S) - 1
      /\ \A n \in 0..Cardinality(S) - 1 : \E x \in S : Rank(N, S, x) = n
  <2>1. /\ \A x, y \in S : <<x, y>> \in N <=> Rank(N, S, x) < Rank(N, S, y)
        /\ \A x \in S : Rank(N, S, x) \in 0..Cardinality(S) - 1
        /\ \A n \in 0..Cardinality(S) - 1 : \E x \in S : Rank(N, S, x) = n
    BY <1>1, <1>3, RankNumbers
  <2> QED
    BY <1>4, <2>1
<1>7. ASSUME NEW i \in S
      PROVE  /\ SourceSlot(batch, i) \in S
             /\ Rank(N, S, SourceSlot(batch, i)) = Rank(P, S, i)
  <2>1. S = Slots(batch, StreamKey(batch[i]))
    BY DEF Slots
  <2>2. \A j \in S : {k \in S : Before(batch, k, j)} = {k \in S : <<k, j>> \in N}
    BY <1>4
  <2>3. {k \in S : k < i} = {k \in S : <<k, i>> \in P}
    BY <1>4
  <2>4. SourceSlot(batch, i) =
          CHOOSE j \in S : Cardinality({k \in S : Before(batch, k, j)})
                             = Cardinality({k \in S : k < i})
    BY <2>1 DEF SourceSlot
  <2>5. \E j \in S : Rank(N, S, j) = Rank(P, S, i)
    BY <1>5, <1>6
  <2>6. \E j \in S : Cardinality({k \in S : Before(batch, k, j)})
                       = Cardinality({k \in S : k < i})
    BY <2>2, <2>3, <2>5 DEF Rank
  <2>7. /\ SourceSlot(batch, i) \in S
        /\ Cardinality({k \in S : Before(batch, k, SourceSlot(batch, i))})
             = Cardinality({k \in S : k < i})
    BY <2>4, <2>6
  <2> QED
    BY <2>2, <2>3, <2>7 DEF Rank
<1>8. \A i, k \in S : i < k => Before(batch, SourceSlot(batch, i), SourceSlot(batch, k))
  BY <1>5, <1>6, <1>7
<1>9. ASSUME NEW j \in S PROVE \E i \in S : SourceSlot(batch, i) = j
  <2>1. PICK i \in S : Rank(P, S, i) = Rank(N, S, j)
    BY <1>5, <1>6
  <2>2. PICK k \in S : k = SourceSlot(batch, i) /\ Rank(N, S, k) = Rank(N, S, j)
    BY <1>7, <2>1
  <2>3. k = j
    <3>1. ~(Rank(N, S, k) < Rank(N, S, j)) /\ ~(Rank(N, S, j) < Rank(N, S, k))
      BY <1>6, <2>2
    <3> QED
      BY <1>3, <1>4, <1>6, <3>1 DEF TotalOrder
  <2> QED
    BY <2>2, <2>3
<1> QED
  BY <1>7, <1>8, <1>9

\* The pump hands the gate what it took, nothing lost and nothing twice: every slot keeps
\* its stream, a stream of numbered events comes in the order of its numbers, equal
\* ones in the order they arrived, and any other stream as it arrived
\* (ordering.rs, reorder_batch).
THEOREM ReorderSorts ==
    ASSUME NEW E, NEW batch \in Seq(E), \A i \in DOMAIN batch : batch[i].seq \in Nat
    PROVE  \E from \in Bijection(DOMAIN batch, DOMAIN batch) :
               /\ ReorderBatch(batch) = [i \in DOMAIN batch |-> batch[from[i]]]
               /\ \A i \in DOMAIN batch :
                    /\ StreamKey(batch[from[i]]) = StreamKey(batch[i])
                    /\ ~GroupSequenced(batch, StreamKey(batch[i])) => from[i] = i
               /\ \A i, k \in DOMAIN batch :
                    /\ StreamKey(batch[i]) = StreamKey(batch[k]) /\ i < k
                    /\ GroupSequenced(batch, StreamKey(batch[i]))
                    => Before(batch, from[i], from[k])
<1> DEFINE D == DOMAIN batch
           key(i) == StreamKey(batch[i])
           numbered(i) == GroupSequenced(batch, key(i))
           from == [i \in D |-> IF numbered(i) THEN SourceSlot(batch, i) ELSE i]
<1>1. D \subseteq Nat /\ \A i \in D : batch[i].seq \in Nat
  BY LenProperties
<1>2. ASSUME NEW i \in D
      PROVE  /\ SourceSlot(batch, i) \in D /\ key(SourceSlot(batch, i)) = key(i)
             /\ \E j \in D : key(j) = key(i) /\ SourceSlot(batch, j) = i
             /\ \A k \in D : key(k) = key(i) /\ i < k
                  => Before(batch, SourceSlot(batch, i), SourceSlot(batch, k))
  <2>1. PICK S : S = Slots(batch, key(i))
    OBVIOUS
  <2>2. /\ \A x \in S : SourceSlot(batch, x) \in S
        /\ \A x, k \in S : x < k => Before(batch, SourceSlot(batch, x), SourceSlot(batch, k))
        /\ \A j \in S : \E x \in S : SourceSlot(batch, x) = j
    BY <2>1, SourceSlots
  <2>3. i \in S /\ \A k : k \in S <=> k \in D /\ key(k) = key(i)
    BY <2>1 DEF Slots
  <2> QED
    BY <2>2, <2>3
<1> HIDE DEF key, D
<1>3. \A i \in D : from[i] \in D /\ key(from[i]) = key(i)
  BY <1>2
<1>4. \A i, k \in D : key(i) = key(k) => (numbered(i) <=> numbered(k))
  OBVIOUS
<1> HIDE DEF numbered
<1>5. ASSUME NEW i \in D, NEW k \in D, key(i) = key(k), i < k, numbered(i)
      PROVE  Before(batch, from[i], from[k])
  BY <1>2, <1>4, <1>5
<1>6. from \in Bijection(D, D)
  <2>1. from \in [D -> D]
    BY <1>3
  <2>2. ASSUME NEW i \in D, NEW k \in D, from[i] = from[k] PROVE i = k
    <3>1. key(i) = key(k) /\ (numbered(i) <=> numbered(k))
      BY <1>3, <1>4, <2>2
    <3>2. CASE ~numbered(i)
      BY <2>2, <3>1, <3>2
    <3>3. CASE numbered(i)
      <4>1. ~Before(batch, from[i], from[i])
        <5>1. PICK j \in D : j = from[i]
          BY <1>3
        <5>2. ~Before(batch, j, j)
          BY <1>1, <5>1 DEF Before
        <5> QED
          BY <5>1, <5>2
      <4>2. ~(i < k) /\ ~(k < i)
        BY <1>5, <2>2, <3>1, <3>3, <4>1
      <4> QED
        BY <1>1, <4>2
    <3> QED
      BY <3>2, <3>3
  <2>3. ASSUME NEW j \in D PROVE \E i \in D : from[i] = j
    <3>1. CASE numbered(j)
      <4>1. PICK i \in D : key(i) = key(j) /\ SourceSlot(batch, i) = j
        BY <1>2
      <4> QED
        BY <1>4, <3>1, <4>1
    <3>2. CASE ~numbered(j)
      BY <3>2
    <3> QED
      BY <3>1, <3>2
  <2> QED
    BY <2>1, <2>2, <2>3 DEF Bijection, Injection, IsInjective, Surjection
<1>7. ReorderBatch(batch) = [i \in D |-> batch[from[i]]]
  BY DEF ReorderBatch, D, numbered, key
<1>8. \A i \in D : ~numbered(i) => from[i] = i
  OBVIOUS
<1> HIDE DEF from
<1> QED
  BY <1>3, <1>5, <1>6, <1>7, <1>8 DEF D, key, numbered

-----------------------------------------------------------------------------
(* The activity of a pane (AgentActivity).                                 *)

Owners == [source : Sources \union {"none"}, session : Nat, pid : Nat, process : Nat, instance : Nat]

\* Consecutive screen samples, capped at the two that make evidence.
Samples == 0..2
Misses == 0..1

LEMMA SamplesCount ==
    /\ 0 \in Samples /\ 0 \in Misses
    /\ \A n \in Samples : Counted(n) \in Samples
    /\ \A n \in Misses : Counted(n) < 2 => Counted(n) \in Misses
BY DEF Samples, Misses, Counted

Activity ==
    [status : Status, source : StatusSource, coverage : Coverage, owner : Owners,
     idle : Samples, working : Samples, unmatched : Misses,
     fallback : StatusSource \union {"none"}, turnObserved : BOOLEAN,
     pending : BOOLEAN, inferred : BOOLEAN, armed : BOOLEAN, ended : BOOLEAN,
     native : BOOLEAN, turn : Nat, remoteSeq : Nat, quiet : BOOLEAN]

\* What the pane reads of an event beside what the gate does.
Addressed(e) ==
    /\ Stamped(e)
    /\ e.source \in Sources /\ e.compacted \in BOOLEAN
    /\ e.session \in Nat /\ e.pid \in Nat /\ e.process \in Nat
    /\ e.instance \in Nat /\ e.turn \in Nat

Screens == {"Idle", "Working", "Blocked", "none", "unnamed"}

LEMMA DefaultFits ==
    /\ Default \in Activity /\ Default.owner = NoOwner
    /\ \A a : CommandFinished(a) \in Activity /\ CommandFinished(a).owner = NoOwner
    /\ \A a : BeginCommand(a, TRUE) \in Activity /\ BeginCommand(a, TRUE).owner = NoOwner
<1>1. NoOwner \in Owners
  BY DEF NoOwner, Owners, None
<1>2. Default \in Activity /\ Default.owner = NoOwner
  BY <1>1, SamplesCount DEF Default, Activity, Status, StatusSource, Coverage, None
<1>3. [Default EXCEPT !.ended = TRUE] \in Activity /\ [Default EXCEPT !.ended = TRUE].owner = NoOwner
  BY <1>2 DEF Activity
<1>4. /\ [Default EXCEPT !.status = "Working", !.source = "Process"] \in Activity
      /\ [Default EXCEPT !.status = "Working", !.source = "Process"].owner = NoOwner
  BY <1>2 DEF Activity, Status, StatusSource
<1> QED
  BY <1>2, <1>3, <1>4 DEF CommandFinished, BeginCommand

LEMMA InputFits ==
    ASSUME NEW a \in Activity
    PROVE  /\ NoSamples(a) \in Activity /\ NoSamples(a).owner = a.owner
           /\ \A s \in StatusSource :
                Identify(a, s) \in Activity /\ Identify(a, s).owner = a.owner
           /\ InputSent(a) \in Activity /\ InputSent(a).owner = a.owner
           /\ Submitted(a) \in Activity /\ Submitted(a).owner = a.owner
           /\ [a EXCEPT !.quiet = TRUE] \in Activity
           /\ [a EXCEPT !.quiet = TRUE].owner = a.owner
<1>1. ASSUME NEW b \in Activity
      PROVE  NoSamples(b) \in Activity /\ NoSamples(b).owner = b.owner
  BY SamplesCount DEF NoSamples, Activity
<1>2. \A s \in StatusSource : Identify(a, s) \in Activity /\ Identify(a, s).owner = a.owner
  BY DEF Identify, Activity
<1>3. \A b \in Activity : InputSent(b) \in Activity /\ InputSent(b).owner = b.owner
  <2> SUFFICES ASSUME NEW b \in Activity
               PROVE  InputSent(b) \in Activity /\ InputSent(b).owner = b.owner
    OBVIOUS
  <2>1. [b EXCEPT !.armed = TRUE] \in Activity /\ [b EXCEPT !.armed = TRUE].owner = b.owner
    BY DEF Activity
  <2> QED
    BY <1>1, <2>1 DEF InputSent
<1>4. Submitted(a) \in Activity /\ Submitted(a).owner = a.owner
  <2> DEFINE b == [a EXCEPT !.status = "Working", !.source = "Process",
                        !.fallback = "none", !.turnObserved = TRUE,
                        !.pending = TRUE, !.quiet = FALSE]
  <2>1. b \in Activity /\ b.owner = a.owner
    BY DEF Activity, Status, StatusSource
  <2> QED
    BY <1>3, <2>1 DEF Submitted
<1>5. [a EXCEPT !.quiet = TRUE] \in Activity /\ [a EXCEPT !.quiet = TRUE].owner = a.owner
  BY DEF Activity
<1> QED
  BY <1>1, <1>2, <1>3, <1>4, <1>5

LEMMA ObserveFits ==
    ASSUME NEW a \in Activity, NEW shown \in Screens \ {"unnamed"}
    PROVE  ObserveScreen(a, shown) \in Activity /\ ObserveScreen(a, shown).owner = a.owner
<1>1. ObserveNothing(a) \in Activity /\ ObserveNothing(a).owner = a.owner
  <2> DEFINE d == [a EXCEPT !.idle = 0]
             c == [d EXCEPT !.unmatched = Counted(@)]
             z(st, src) == [c EXCEPT !.unmatched = 0, !.fallback = "none",
                                     !.status = st, !.source = src]
  <2>1. d \in Activity /\ d.owner = a.owner
    BY SamplesCount DEF Activity
  <2>2. c.unmatched < 2 => c \in Activity /\ c.owner = a.owner
    <3>1. Counted(d.unmatched) < 2 => Counted(d.unmatched) \in Misses
      BY <2>1, SamplesCount DEF Activity
    <3> HIDE DEF d
    <3> QED
      BY <2>1, <3>1 DEF Activity
  <2>3. ASSUME NEW st \in Status, NEW src \in StatusSource
        PROVE  z(st, src) \in Activity /\ z(st, src).owner = a.owner
    <3> HIDE DEF d
    <3>1. LET m == [d EXCEPT !.unmatched = 0, !.fallback = "none",
                             !.status = st, !.source = src]
          IN  m \in Activity /\ m.owner = a.owner
      BY <2>1, SamplesCount DEF Activity
    <3>2. z(st, src) = [d EXCEPT !.unmatched = 0, !.fallback = "none",
                                 !.status = st, !.source = src]
      BY <2>1 DEF Activity
    <3> QED
      BY <3>1, <3>2
  <2>4. \/ ObserveNothing(a) = d
        \/ ObserveNothing(a) = c /\ c.unmatched < 2
        \/ ObserveNothing(a) = z("Unknown", "Unknown")
        \/ a.fallback # "none" /\ ObserveNothing(a) = z("Working", a.fallback)
    BY DEF ObserveNothing
  <2>5. /\ "Unknown" \in Status /\ "Working" \in Status /\ "Unknown" \in StatusSource
        /\ a.fallback # "none" => a.fallback \in StatusSource
    BY DEF Activity, Status, StatusSource
  <2> HIDE DEF d, c, z
  <2> QED
    BY <2>1, <2>2, <2>3, <2>4, <2>5
<1>2. ASSUME NEW b \in Activity, NEW next \in Status
      PROVE  ScreenMoves(b, next) \in Activity /\ ScreenMoves(b, next).owner = b.owner
  <2> DEFINE f == IF next = "Blocked" /\ b.status = "Working" THEN b.source ELSE "none"
  <2>1. f \in StatusSource \union {"none"} /\ "Screen" \in StatusSource
    BY DEF Activity, StatusSource
  <2> HIDE DEF f
  <2>2. LET m == [b EXCEPT !.fallback = f, !.status = next, !.source = "Screen"]
        IN  m \in Activity /\ m.owner = b.owner
    BY <2>1 DEF Activity
  <2> QED
    BY <2>2 DEF ScreenMoves, f
<1> DEFINE b == [a EXCEPT !.unmatched = 0]
<1>3. b \in Activity /\ b.owner = a.owner
  BY SamplesCount DEF Activity
<1> HIDE DEF b
<1>4. ObserveIdle(b) \in Activity /\ ObserveIdle(b).owner = a.owner
  <2> DEFINE d == [b EXCEPT !.idle = IF b.pending THEN 0 ELSE Counted(@)]
             c == [d EXCEPT !.armed = TRUE]
  <2>1. d \in Activity /\ d.owner = a.owner
    BY <1>3, SamplesCount DEF Activity
  <2> HIDE DEF d
  <2>2. c \in Activity /\ c.owner = a.owner
    BY <2>1 DEF Activity
  <2> HIDE DEF c
  <2>3. ObserveIdle(b) \in {d, c, ScreenMoves(c, "Done"), ScreenMoves(c, "Idle")}
    BY DEF ObserveIdle, c, d
  <2> QED
    BY <1>2, <2>1, <2>2, <2>3 DEF Status
<1>5. ASSUME shown \in {"Working", "Blocked"}
      PROVE  ObserveActive(b, shown) \in Activity /\ ObserveActive(b, shown).owner = a.owner
  <2> DEFINE d == [b EXCEPT !.idle = 0]
             c == [d EXCEPT !.pending = FALSE, !.turnObserved = @ \/ shown = "Working"]
  <2>1. d \in Activity /\ d.owner = a.owner
    BY <1>3, SamplesCount DEF Activity
  <2> HIDE DEF d
  <2>2. c \in Activity /\ c.owner = a.owner
    BY <2>1 DEF Activity
  <2> HIDE DEF c
  <2>3. ObserveActive(b, shown) \in {d, ScreenMoves(c, shown)}
    BY DEF ObserveActive, c, d
  <2> QED
    BY <1>2, <1>5, <2>1, <2>2, <2>3 DEF Status
<1>6. ObserveScreen(a, shown) = IF ~AllowsScreen(a) THEN a
                                ELSE IF shown = "none" THEN ObserveNothing(a)
                                ELSE IF shown = "Idle" THEN ObserveIdle(b)
                                ELSE ObserveActive(b, shown)
  BY DEF ObserveScreen, b
<1> QED
  BY <1>1, <1>4, <1>5, <1>6 DEF Screens

LEMMA ReconcileFits ==
    ASSUME NEW a \in Activity, NEW shown \in Screens
    PROVE  /\ ReconcileStalledTurn(a, shown) \in Activity
           /\ ReconcileStalledTurn(a, shown).owner = a.owner
<1> DEFINE none == [a EXCEPT !.idle = 0, !.working = 0]
           idle == [a EXCEPT !.working = 0, !.idle = Counted(@)]
           busy == [a EXCEPT !.idle = 0, !.working = Counted(@)]
           quit == [none EXCEPT !.pending = FALSE]
           seen == [busy EXCEPT !.turnObserved = TRUE]
<1>1. ASSUME NEW b \in Activity, NEW next \in Status
      PROVE  Reconciled(b, next) \in Activity /\ Reconciled(b, next).owner = b.owner
  <2> DEFINE end == next \in {"Done", "Idle"}
  <2>1. end \in BOOLEAN /\ "Screen" \in StatusSource
    BY DEF StatusSource
  <2> HIDE DEF end
  <2>2. LET m == [b EXCEPT !.status = next, !.source = "Screen", !.inferred = end,
                           !.idle = 0, !.working = 0]
        IN  m \in Activity /\ m.owner = b.owner
    BY <2>1, SamplesCount DEF Activity
  <2> QED
    BY <2>2 DEF Reconciled, end
<1>2. /\ none \in Activity /\ none.owner = a.owner
      /\ idle \in Activity /\ idle.owner = a.owner
      /\ busy \in Activity /\ busy.owner = a.owner
  <2>1. Counted(a.idle) \in Samples /\ Counted(a.working) \in Samples
    BY SamplesCount DEF Activity
  <2> QED
    BY <2>1, SamplesCount DEF Activity
<1> HIDE DEF none, idle, busy
<1>3. /\ quit \in Activity /\ quit.owner = a.owner
      /\ seen \in Activity /\ seen.owner = a.owner
  BY <1>2 DEF Activity
<1> HIDE DEF quit, seen
<1>4. ReconcileStalledTurn(a, shown) \in
        {a, none, quit, idle, busy, Reconciled(idle, "Done"), Reconciled(idle, "Idle"),
         Reconciled(seen, "Working")}
  BY DEF ReconcileStalledTurn, none, idle, busy, quit, seen
<1> QED
  BY <1>1, <1>2, <1>3, <1>4 DEF Status

LEMMA PolledFits ==
    ASSUME NEW a \in Activity, NEW shown \in Screens
    PROVE  Polled(a, shown) \in Activity /\ Polled(a, shown).owner = a.owner
BY InputFits, ObserveFits, ReconcileFits DEF Polled, Screens

LEMMA TakenFits ==
    ASSUME NEW a \in Activity, NEW e, Addressed(e)
    PROVE  Taken(a, e) \in Activity /\ Taken(a, e).owner = RecordOwner(a.owner, e)
<1> DEFINE own == RecordOwner(a.owner, e)
           nat == a.native \/ e.codex # "none"
           num == IF Known(e.process, e.seq) THEN e.seq ELSE a.remoteSeq
           trn == IF e.turn # None \/ (e.kind = "SessionStart" /\ ~e.compacted)
                  THEN e.turn ELSE a.turn
<1>1. own \in Owners
  BY DEF RecordOwner, Either, Owners, Activity, Addressed
<1>2. nat \in BOOLEAN /\ num \in Nat /\ trn \in Nat
  BY DEF Activity, Addressed, Stamped
<1> HIDE DEF own, nat, num, trn
<1>3. LET b == [a EXCEPT !.owner = own, !.native = nat, !.remoteSeq = num,
                         !.turn = trn, !.ended = FALSE, !.inferred = FALSE]
      IN  b \in Activity /\ b.owner = own
  BY <1>1, <1>2 DEF Activity
<1> QED
  BY <1>3 DEF Taken, own, nat, num, trn

\* A hook event the pane applies.
LEMMA ApplyFits ==
    ASSUME NEW a \in Activity, NEW e, Addressed(e)
    PROVE  /\ ApplyHook(a, e) \in Activity
           /\ \/ ApplyHook(a, e).owner = a.owner /\ ~AcceptsHook(a, e)
              \/ ApplyHook(a, e).owner = NoOwner /\ e.kind = "SessionEnd"
              \/ ApplyHook(a, e).owner = RecordOwner(a.owner, e) /\ e.kind # "SessionEnd"
<1>1. CASE ~AcceptsHook(a, e)
  BY <1>1 DEF ApplyHook
<1>2. CASE AcceptsHook(a, e) /\ e.kind = "SessionEnd"
  BY <1>2, DefaultFits DEF ApplyHook
<1>3. CASE AcceptsHook(a, e) /\ e.kind # "SessionEnd"
  <2> DEFINE t == Taken(a, e)
             h == Authoritative(t, e)
             pen == h.pending /\ e.kind = "SessionStart"
             obs == ObservedAfter(a, e)
             arm == h.armed /\ ~(e.kind = "TurnDone" /\ ~e.busy)
             sta == StatusAfter(a, e)
  <2>1. t \in Activity /\ t.owner = RecordOwner(a.owner, e)
    BY TakenFits
  <2> HIDE DEF t
  <2>2. h \in Activity /\ h.owner = t.owner
    <3> DEFINE g == [t EXCEPT !.coverage = CoverageOf(e), !.source = "Hook",
                              !.fallback = "none"]
    <3>1. CoverageOf(e) \in Coverage /\ "Hook" \in StatusSource
      BY DEF CoverageOf, Coverage, StatusSource
    <3>2. g \in Activity /\ g.owner = t.owner
      BY <2>1, <3>1 DEF Activity
    <3> HIDE DEF g
    <3>3. h = NoSamples(g)
      BY DEF Authoritative, g
    <3> QED
      BY <3>2, <3>3, InputFits
  <2>3. ApplyHook(a, e) = [h EXCEPT !.pending = pen, !.turnObserved = obs, !.armed = arm,
                                    !.status = sta, !.quiet = FALSE]
    BY <1>3 DEF ApplyHook, t
  <2> HIDE DEF h
  <2>4. pen \in BOOLEAN /\ arm \in BOOLEAN /\ obs \in BOOLEAN
    BY <2>2 DEF Activity, Addressed, Stamped, ObservedAfter
  <2>5. sta \in Status
    BY <1>3 DEF StatusAfter, StopStatus, Status, Activity, Addressed, Stamped, Kind
  <2> HIDE DEF pen, obs, arm, sta
  <2>6. ApplyHook(a, e) \in Activity /\ ApplyHook(a, e).owner = h.owner
    BY ZenonT(40), <2>2, <2>3, <2>4, <2>5 DEF Activity
  <2> QED
    BY <1>3, <2>1, <2>2, <2>6
<1> QED
  BY <1>1, <1>2, <1>3

-----------------------------------------------------------------------------
(* What is on its way to the pane.                                         *)

\* An event carries the provider of the CLI that sent it, and its process: by pid
\* where it is local, by the bridge's process where it is remote.
Events ==
    {e \in [kind : Kind, source : Sources, codex : CodexHookMode, from : Clis,
            session : Nat, pid : Nat, process : Nat, instance : Nat, seq : Nat,
            at : Nat, id : Nat, turn : Nat, busy : BOOLEAN, compacted : BOOLEAN,
            legacy : BOOLEAN, body : Nat, outcome : {"Failed", "Succeeded"},
            received : {None}] :
        /\ e.source = Provider[e.from].source
        /\ e.pid = IF Provider[e.from].remote THEN None ELSE e.from
        /\ e.process = IF Provider[e.from].remote THEN e.from ELSE None
        /\ e.instance = IF Provider[e.from].source = "pi" THEN e.from ELSE None}

Marks == [kind : {"CommandStart", "CommandFinished"}, from : {None}]

Agents == [phase : Phase, session : Nat, turn : Nat, sent : Nat]

\* The type invariant: what TypeOK says, and the types of everything it rests on.
PaneInv ==
    /\ setup \in Setups
    /\ act \in Activity
    /\ Table(streams)
    /\ job \in Clis \union {None} /\ last \in Nat
    /\ cli \in [Clis -> Agents]
    /\ lane \in [Clis \union {0} -> Seq(Events \union Marks)]

LEMMA SetupFacts ==
    ASSUME setup \in Setups
    PROVE  /\ Provider \in [Clis -> Providers]
           /\ Clis \subseteq Nat \ {0}
           /\ 0 \notin Clis
           /\ setup.emits \in Nat
           /\ \A c \in Clis : Provider[c].notify => NotifyBeside(Provider[c])
<1>1. Setup(setup)
  BY PaneConstants
<1>2. Provider \in Seq(Providers)
  BY <1>1 DEF Setup, Provider
<1>3. Clis = 1..Len(Provider) /\ Provider \in [Clis -> Providers]
  BY <1>2, LenProperties DEF Clis
<1> QED
  BY <1>1, <1>2, <1>3, LenProperties DEF Setup, Provider, Clis

LEMMA ReceivedFits ==
    ASSUME Table(streams), setup \in Setups, NEW e \in Events
    PROVE  /\ Addressed(Received(e)) /\ Received(e).from = e.from
           /\ Received(e).kind = e.kind /\ Received(e).source = e.source
           /\ Received(e).pid = e.pid /\ Received(e).process = e.process
           /\ Received(e).seq = e.seq /\ Received(e).instance = e.instance
           /\ Received(e).id = e.id /\ Received(e).session = e.session
           /\ Received(e).body = e.body /\ Received(e).busy = e.busy
           /\ StreamKey(Received(e)) = StreamKey(e)
<1> DEFINE f == [k \in DOMAIN streams |-> streams[k].received]
           T == {f[k] : k \in DOMAIN streams}
           n == 1 + Max({0} \union {streams[k].received : k \in DOMAIN streams})
<1>1. n \in Nat
  <2>1. f \in [DOMAIN streams -> Nat] /\ IsFiniteSet(DOMAIN streams)
    BY DEF Table, Stream
  <2>2. T \in SUBSET Nat /\ IsFiniteSet(T)
    <3> HIDE DEF f
    <3> QED
      BY <2>1, FiniteImage
  <2>3. {0} \union {streams[k].received : k \in DOMAIN streams} = T \union {0}
    OBVIOUS
  <2> HIDE DEF T
  <2>4. IsFiniteSet(T \union {0})
    BY <2>2, FS_AddElement
  <2>5. Max(T \union {0}) \in Nat
    <3>1. T \union {0} \in SUBSET Nat /\ T \union {0} # {}
      BY <2>2
    <3>2. Max(T \union {0}) \in T \union {0}
      BY <2>4, <3>1, MaxOfFinite
    <3> QED
      BY <3>1, <3>2
  <2>6. n = 1 + Max(T \union {0})
    BY <2>3
  <2> HIDE DEF n
  <2> QED
    BY <2>5, <2>6
<1> HIDE DEF n
<1>2. Received(e) = [e EXCEPT !.received = n]
  BY DEF Received, n
<1>3. /\ Received(e).kind = e.kind /\ Received(e).source = e.source
      /\ Received(e).from = e.from /\ Received(e).session = e.session
      /\ Received(e).pid = e.pid /\ Received(e).process = e.process
      /\ Received(e).instance = e.instance /\ Received(e).seq = e.seq
      /\ Received(e).at = e.at /\ Received(e).id = e.id /\ Received(e).turn = e.turn
      /\ Received(e).busy = e.busy /\ Received(e).compacted = e.compacted
      /\ Received(e).body = e.body /\ Received(e).received = n
  BY <1>2 DEF Events
<1>4. StreamKey(Received(e)) = StreamKey(e)
  BY <1>3 DEF StreamKey
<1> QED
  BY <1>1, <1>3, <1>4 DEF Addressed, Stamped, Events

-----------------------------------------------------------------------------
(* Every step keeps the types.                                             *)

LEMMA PaneFrame ==
    ASSUME PaneInv, setup' = setup, act' \in Activity, Table(streams'),
           job' \in Clis \union {None}, last' \in Nat, cli' \in [Clis -> Agents],
           lane' \in [Clis \union {0} -> Seq(Events \union Marks)]
    PROVE  PaneInv'
BY DEF PaneInv, Clis, Provider, Events

\* What the agents, the shell and the user do; the pane's own steps follow.
LEMMA EventFits ==
    ASSUME PaneInv, NEW c \in Clis, NEW kind \in Kind, NEW mark
    PROVE  /\ Event(c, kind, mark) \in Events
           /\ [Event(c, kind, mark) EXCEPT !.codex = "none"] \in Events
<1> DEFINE p == Provider[c]
           e == Event(c, kind, mark)
           session == cli[c].session + IF mark = "new" THEN 1 ELSE 0
           turn == cli[c].turn + IF kind = "PromptSubmit" THEN 1 ELSE 0
<1>1. p \in Providers /\ c \in Nat /\ Provider[c].source = p.source
  BY SetupFacts DEF PaneInv
<1>2. cli[c].sent + 1 \in Nat /\ session \in Nat /\ turn \in Nat
  BY DEF PaneInv, Agents
<1>3. 10 * c + session \in Nat /\ 10 * c + turn \in Nat
  BY <1>1, <1>2
<1>4. e = [kind |-> kind, source |-> p.source, codex |-> p.codex, from |-> c,
           session |-> IF p.named THEN 10 * c + session ELSE None,
           pid |-> IF p.remote THEN None ELSE c,
           process |-> IF p.remote THEN c ELSE None,
           instance |-> IF p.source = "pi" THEN c ELSE None,
           seq |-> IF Sequenced(c) THEN cli[c].sent + 1 ELSE None,
           at |-> IF p.timed THEN cli[c].sent + 1 ELSE None,
           id |-> IF p.codex # "none" /\ kind = "TurnDone" THEN 10 * c + turn ELSE None,
           turn |-> IF p.codex # "none" THEN 10 * c + turn ELSE None,
           busy |-> mark = "busy", compacted |-> mark = "compact",
           legacy |-> mark = "legacy", body |-> IF kind = "TurnDone" THEN turn ELSE 0,
           outcome |-> IF mark = "failed" THEN "Failed" ELSE "Succeeded",
           received |-> None]
  BY DEF Event
<1> HIDE DEF p, e, session, turn
<1>5. /\ p.source \in Sources /\ p.codex \in CodexHookMode /\ p.remote \in BOOLEAN
      /\ None \in Nat /\ 0 \in Nat
      /\ (mark = "busy") \in BOOLEAN /\ (mark = "compact") \in BOOLEAN
      /\ (mark = "legacy") \in BOOLEAN
  BY <1>1 DEF Providers, None
<1>6. e \in Events
  BY <1>1, <1>2, <1>3, <1>4, <1>5 DEF Events, p
<1>7. ASSUME NEW x \in Events PROVE [x EXCEPT !.codex = "none"] \in Events
  BY DEF Events, CodexHookMode
<1> QED
  BY <1>6, <1>7 DEF e

LEMMA SendFits ==
    ASSUME PaneInv, setup' = setup, NEW c \in Clis, NEW kind \in Kind, NEW mark,
           NEW phase \in Phase, Send(c, kind, mark, phase)
    PROVE  PaneInv' /\ UNCHANGED <<act, streams, spoke, heard>>
<1> DEFINE Items == Events \union Marks
           l == LaneOf(c)
           v == [phase |-> phase, sent |-> cli[c].sent + 1,
                 session |-> cli[c].session + IF mark = "new" THEN 1 ELSE 0,
                 turn |-> cli[c].turn + IF kind = "PromptSubmit" THEN 1 ELSE 0]
<1>1. /\ Event(c, kind, mark) \in Items
      /\ [Event(c, kind, mark) EXCEPT !.codex = "none"] \in Items
  BY EventFits
<1>2. l \in Clis \union {0} /\ lane[l] \in Seq(Items)
  BY DEF LaneOf, PaneInv
<1>3. PICK n \in {0, 1, 2}, m \in {0, 1, 2} :
        lane' = [lane EXCEPT ![l] = @ \o [i \in 1..n |-> Event(c, kind, mark)]
                                      \o Notify(c, kind, mark, m)]
  BY DEF Send, Copies
<1>4. Notify(c, kind, mark, m) \in Seq(Items)
  <2> DEFINE x == [Event(c, kind, mark) EXCEPT !.codex = "none"]
  <2> HIDE DEF Items, x
  <2>1. [i \in 1..m |-> x] \in Seq(Items) /\ <<>> \in Seq(Items)
    BY <1>1, SeqDef DEF x
  <2>2. Notify(c, kind, mark, m) \in {<<>>, [i \in 1..m |-> x]}
    BY Zenon DEF Notify, x
  <2> QED
    BY <2>1, <2>2
<1>5. [i \in 1..n |-> Event(c, kind, mark)] \in Seq(Items)
  BY <1>1, SeqDef
<1>6. v \in Agents
  BY DEF PaneInv, Agents
<1>7. cli' = [cli EXCEPT ![c] = v]
  BY DEF Send
<1>8. cli' \in [Clis -> Agents]
  BY <1>6, <1>7 DEF PaneInv
<1> HIDE DEF Items, l, v
<1>9. lane' \in [Clis \union {0} -> Seq(Items)]
  <2> DEFINE q == lane[l] \o [i \in 1..n |-> Event(c, kind, mark)] \o Notify(c, kind, mark, m)
  <2>1. q \in Seq(Items)
    BY <1>2, <1>4, <1>5, ConcatProperties
  <2>2. lane' = [lane EXCEPT ![l] = q]
    BY <1>3
  <2> HIDE DEF q
  <2> QED
    BY <1>2, <2>1, <2>2 DEF PaneInv, Items
<1>10. UNCHANGED <<act, streams, spoke, heard, job, last>>
  BY DEF Send
<1> QED
  BY <1>8, <1>9, <1>10, PaneFrame DEF PaneInv, Items

LEMMA AgentFits ==
    ASSUME PaneInv, setup' = setup, NEW c \in Clis, Agent(c)
    PROVE  PaneInv' /\ UNCHANGED <<act, streams, spoke, heard>>
<1>1. ASSUME NEW kind \in Kind, NEW mark, NEW phase \in Phase, Send(c, kind, mark, phase)
      PROVE  PaneInv' /\ UNCHANGED <<act, streams, spoke, heard>>
  BY <1>1, SendFits
<1>2. /\ \A k \in {"SessionStart", "PromptSubmit", "ToolComplete", "TurnDone",
                   "NeedsAttention", "SessionEnd"} : k \in Kind
      /\ \A p \in {"off", "idle", "working", "blocked"} : p \in Phase
  BY DEF Kind, Phase
<1>3. CASE SpawnNested(c) \/ AskSilently(c)
  <2>0. ASSUME NEW x \in Agents, NEW p \in {"up", "working", "blocked"}
        PROVE  [x EXCEPT !.phase = p] \in Agents
    BY DEF Agents, Phase
  <2>1. cli' \in [Clis -> Agents]
    <3>1. \E p \in {"up", "working", "blocked"} : cli' = [cli EXCEPT ![c].phase = p]
      BY <1>3 DEF SpawnNested, AskSilently
    <3>2. PICK p \in {"up", "working", "blocked"} :
            cli' = [cli EXCEPT ![c] = [cli[c] EXCEPT !.phase = p]]
      BY <3>1
    <3> QED
      BY <2>0, <3>2 DEF PaneInv
  <2>2. UNCHANGED <<act, streams, spoke, heard, job, last, lane>>
    BY <1>3 DEF SpawnNested, AskSilently
  <2> QED
    BY <2>1, <2>2, PaneFrame DEF PaneInv
<1>4. CASE StartSession(c)
  BY <1>1, <1>2, <1>4 DEF StartSession
<1>5. CASE Compact(c)
  BY <1>1, <1>2, <1>5 DEF Compact
<1>6. CASE TakePrompt(c) \/ RunTool(c)
  BY <1>1, <1>2, <1>6 DEF TakePrompt, RunTool
<1>7. CASE Ask(c) \/ Remind(c)
  BY <1>1, <1>2, <1>7 DEF Ask, Remind
<1>8. CASE StopTurn(c)
  BY <1>1, <1>2, <1>8 DEF StopTurn
<1>9. CASE EndSession(c)
  BY <1>1, <1>2, <1>9 DEF EndSession
<1> QED
  BY <1>3, <1>4, <1>5, <1>6, <1>7, <1>8, <1>9 DEF Agent

LEMMA ShellFits ==
    ASSUME PaneInv, setup' = setup, Launch \/ Exit
    PROVE  PaneInv' /\ UNCHANGED <<act, streams, spoke, heard>>
<1> DEFINE Items == Events \union Marks
<1>1. /\ Mark("CommandStart") \in Items /\ Mark("CommandFinished") \in Items
  BY DEF Mark, Marks
<1>2. lane \in [Clis \union {0} -> Seq(Items)] /\ cli \in [Clis -> Agents] /\ last \in Nat
  BY DEF PaneInv
<1>3. cli' \in [Clis -> Agents]
  <2>1. \A x \in Agents, p \in Phase : [x EXCEPT !.phase = p] \in Agents
    BY DEF Agents
  <2>2. CASE Launch
    BY <1>2, <2>1, <2>2 DEF Launch, Phase
  <2>3. CASE Exit
    BY <1>2, <2>1, <2>3 DEF Exit, Phase
  <2> QED
    BY <2>2, <2>3
<1>4. job' \in Clis \union {None} /\ last' \in Nat
  BY <1>2 DEF Launch, Exit
<1> HIDE DEF Items
<1>5. lane' \in [Clis \union {0} -> Seq(Items)]
  <2>1. PICK x \in Items : lane' = [lane EXCEPT ![0] = Append(@, x)]
    BY <1>1 DEF Launch, Exit
  <2>2. Append(lane[0], x) \in Seq(Items)
    BY <1>2, AppendProperties
  <2> QED
    BY <1>2, <2>1, <2>2
<1>6. UNCHANGED <<act, streams, spoke, heard>>
  BY DEF Launch, Exit
<1> QED
  BY <1>3, <1>4, <1>5, <1>6, PaneFrame DEF PaneInv, Items

LEMMA ForgottenFits ==
    ASSUME NEW st, Table(st)
    PROVE  /\ Table(Forgotten(st)) /\ DOMAIN Forgotten(st) = DOMAIN st
           /\ \A k \in DOMAIN st : /\ Forgotten(st)[k].seq = st[k].seq
                                  /\ Forgotten(st)[k].ids = st[k].ids
<1>1. \A x \in Stream : /\ [x EXCEPT !.print = <<>>] \in Stream
                        /\ [x EXCEPT !.print = <<>>].seq = x.seq
                        /\ [x EXCEPT !.print = <<>>].ids = x.ids
  BY DEF Stream, Prints
<1>2. /\ DOMAIN Forgotten(st) = DOMAIN st
      /\ \A k \in DOMAIN st : Forgotten(st)[k] = [st[k] EXCEPT !.print = <<>>]
  BY DEF Forgotten
<1>3. st \in [DOMAIN st -> Stream]
  BY DEF Table
<1>4. \A k \in DOMAIN st : /\ [st[k] EXCEPT !.print = <<>>] \in Stream
                           /\ [st[k] EXCEPT !.print = <<>>].seq = st[k].seq
                           /\ [st[k] EXCEPT !.print = <<>>].ids = st[k].ids
  BY <1>1, <1>3
<1>5. Forgotten(st) \in [DOMAIN st -> Stream]
  BY <1>4 DEF Forgotten
<1> QED
  BY <1>2, <1>4, <1>5 DEF Table

\* The user, the poll and the clock.
LEMMA PaneFits ==
    ASSUME PaneInv, setup' = setup,
           Submit \/ PressEnter \/ RefreshScreen \/ RefreshBlank \/ Stall \/ ForgetPrints
    PROVE  /\ PaneInv' /\ act'.owner = act.owner /\ spoke' = spoke /\ heard' = heard
           /\ streams' \in {streams, Forgotten(streams)}
<1>1. act \in Activity /\ Table(streams)
  BY DEF PaneInv
<1>2. act' \in Activity /\ act'.owner = act.owner
  <2>1. CASE Submit \/ PressEnter \/ Stall
    BY <1>1, <2>1, InputFits DEF Submit, PressEnter, Stall
  <2>2. CASE RefreshScreen
    <3>1. PICK a \in {act, Identify(act, "Screen")} : act' = Polled(a, Shown)
      BY <2>2 DEF RefreshScreen
    <3>2. "Screen" \in StatusSource
      BY DEF StatusSource
    <3>3. a \in Activity /\ a.owner = act.owner
      BY ZenonT(40), <1>1, <3>1, <3>2, InputFits
    <3>4. Shown \in Screens
      BY DEF Shown, Screens
    <3> QED
      BY <3>1, <3>3, <3>4, PolledFits
  <2>3. CASE RefreshBlank
    <3>1. PICK shown \in {"none", "unnamed"} : act' = Polled(act, shown)
      BY <2>3 DEF RefreshBlank
    <3>2. shown \in Screens
      BY DEF Screens
    <3> QED
      BY <1>1, <3>1, <3>2, PolledFits
  <2>4. CASE ForgetPrints
    BY <1>1, <2>4 DEF ForgetPrints
  <2> QED
    BY <2>1, <2>2, <2>3, <2>4
<1>3. Table(streams') /\ streams' \in {streams, Forgotten(streams)}
  BY <1>1, ForgottenFits
     DEF Submit, PressEnter, RefreshScreen, RefreshBlank, Stall, ForgetPrints
<1>4. UNCHANGED <<job, last, cli, lane, spoke, heard>>
  BY DEF Submit, PressEnter, RefreshScreen, RefreshBlank, Stall, ForgetPrints
<1> QED
  BY <1>2, <1>3, <1>4, PaneFrame DEF PaneInv

\* A command found to be over is treated as one whose mark has come.
LEMMA UnmarkedFits ==
    ASSUME PaneInv, setup' = setup, FinishUnmarked
    PROVE  PaneInv' /\ OnCommandFinished
<1>1. OnCommandFinished /\ UNCHANGED <<streams, job, last, cli, lane>>
  BY DEF FinishUnmarked, OnCommandFinished
<1>2. act' \in Activity
  BY <1>1, DefaultFits DEF OnCommandFinished, PaneInv
<1> QED
  BY <1>1, <1>2, PaneFrame DEF PaneInv

LEMMA RemoveFits ==
    ASSUME NEW S, NEW q \in Seq(S), NEW i \in DOMAIN q
    PROVE  RemoveAt(q, i) \in Seq(S) /\ q[i] \in S
<1>1. Len(q) \in Nat /\ DOMAIN q = 1..Len(q) /\ q \in [1..Len(q) -> S]
  BY LenProperties
<1>2. SubSeq(q, 1, i - 1) \in Seq(S)
  <2>1. 1 \in Int /\ i - 1 \in Int /\ \A j \in 1..i - 1 : q[j] \in S
    BY <1>1
  <2> QED
    BY <2>1, SubSeqProperties
<1>3. SubSeq(q, i + 1, Len(q)) \in Seq(S)
  <2>1. i + 1 \in Int /\ Len(q) \in Int /\ \A j \in i + 1..Len(q) : q[j] \in S
    BY <1>1
  <2> QED
    BY <2>1, SubSeqProperties
<1> QED
  BY <1>1, <1>2, <1>3, ConcatProperties DEF RemoveAt

LEMMA ArriveFits ==
    ASSUME PaneInv, setup' = setup, NEW l \in DOMAIN lane, NEW i, Arrive(l, i)
    PROVE  /\ PaneInv'
           /\ \/ OnCommandStart
              \/ OnCommandFinished
              \/ lane[l][i] \in Events /\ HandleAiHook(lane[l][i])
              \/ lane[l][i] \in Events /\ Refuse(lane[l][i])
<1> DEFINE Items == Events \union Marks
           e == lane[l][i]
<1>1. lane \in [Clis \union {0} -> Seq(Items)] /\ act \in Activity /\ Table(streams)
  BY DEF PaneInv
<1> HIDE DEF Items
<1>2. l \in Clis \union {0} /\ lane[l] \in Seq(Items) /\ i \in DOMAIN lane[l]
  BY <1>1 DEF Arrive
<1>3. RemoveAt(lane[l], i) \in Seq(Items) /\ e \in Items
  BY <1>2, RemoveFits
<1>4. lane' \in [Clis \union {0} -> Seq(Items)]
  BY <1>1, <1>2, <1>3 DEF Arrive
<1>5. \/ OnCommandStart \/ OnCommandFinished
      \/ (e \in Events /\ HandleAiHook(e)) \/ (e \in Events /\ Refuse(e))
  <2>1. CASE e \in Marks
    BY <2>1 DEF Arrive, Marks
  <2>2. CASE e \in Events
    <3>1. e.kind # "CommandStart" /\ e.kind # "CommandFinished"
      BY <2>2 DEF Events, Kind
    <3> QED
      BY <2>2, <3>1 DEF Arrive
  <2> QED
    BY <1>3, <2>1, <2>2 DEF Items
<1>6. act' \in Activity /\ Table(streams')
  <2>1. CASE OnCommandStart \/ OnCommandFinished
    BY <1>1, <2>1, DefaultFits DEF OnCommandStart, OnCommandFinished
  <2>2. CASE e \in Events /\ HandleAiHook(e)
    <3>1. Addressed(Received(e)) /\ Stamped(Received(e))
      BY <1>1, <2>2, ReceivedFits DEF PaneInv, Addressed
    <3>2. /\ act' \in {act, ApplyHook(act, Received(e))}
          /\ streams' \in {streams, GateAfter(streams, Received(e))}
      BY <2>2 DEF HandleAiHook
    <3> QED
      BY <1>1, <3>1, <3>2, ApplyFits, GateFits
  <2>3. CASE Refuse(e)
    BY <1>1, <2>3 DEF Refuse
  <2> QED
    BY <1>5, <2>1, <2>2, <2>3
<1>7. UNCHANGED <<job, last, cli>>
  BY DEF Arrive
<1> QED
  BY <1>4, <1>5, <1>6, <1>7, PaneFrame DEF PaneInv, Items

LEMMA InitFits == Init => PaneInv
<1> SUFFICES ASSUME Init PROVE PaneInv
  OBVIOUS
<1>1. act \in Activity /\ setup \in Setups /\ job \in Clis \union {None} /\ last \in Nat
  BY DefaultFits DEF Init
<1>2. Table(streams)
  <2>1. DOMAIN streams = {} /\ streams \in [{} -> Stream]
    BY DEF Init
  <2> QED
    BY <2>1, FS_EmptySet, GateConstants DEF Table
<1>3. cli \in [Clis -> Agents]
  BY DEF Init, Agents, Phase
<1>4. lane \in [Clis \union {0} -> Seq(Events \union Marks)]
  <2> DEFINE Items == Events \union Marks
  <2> HIDE DEF Items
  <2>1. lane \in [Clis \union {0} -> Seq(Items)]
    BY DEF Init
  <2> QED
    BY <2>1 DEF Items
<1> QED
  BY <1>1, <1>2, <1>3, <1>4 DEF PaneInv

\* A step keeps the types, and unless an event arrives it leaves the owner of the
\* pane and the streams' numbers alone.
LEMMA NextFits ==
    ASSUME PaneInv, [Next]_vars
    PROVE  /\ PaneInv' /\ setup' = setup
           /\ \/ /\ act'.owner = act.owner /\ spoke' = spoke /\ heard' = heard
                 /\ streams' \in {streams, Forgotten(streams)}
              \/ OnCommandStart \/ OnCommandFinished
              \/ \E e \in Events : HandleAiHook(e)
<1>1. CASE UNCHANGED vars
  <2>1. /\ UNCHANGED <<act, streams, job, last, cli, lane, spoke, heard>> /\ setup' = setup
    BY <1>1 DEF vars
  <2> QED
    BY <2>1, PaneFrame DEF PaneInv
<1>2. CASE Next
  <2>1. setup' = setup
    BY <1>2 DEF Next
  <2>2. CASE Launch \/ Exit
    BY <2>1, <2>2, ShellFits
  <2>3. CASE \E c \in Clis : Agent(c)
    BY <2>1, <2>3, AgentFits
  <2>4. CASE \E l \in DOMAIN lane : \E i \in DOMAIN lane[l] : Arrive(l, i)
    <3>1. PICK l \in DOMAIN lane : \E i \in DOMAIN lane[l] : Arrive(l, i)
      BY <2>4
    <3>2. PICK i \in DOMAIN lane[l] : Arrive(l, i)
      BY <3>1
    <3>3. Refuse(lane[l][i]) => act' = act /\ streams' = streams /\ spoke' = spoke /\ heard' = heard
      BY DEF Refuse
    <3> QED
      BY <2>1, <3>2, <3>3, ArriveFits
  <2>5. CASE Submit \/ PressEnter \/ RefreshScreen \/ RefreshBlank \/ Stall \/ ForgetPrints
    BY <2>1, <2>5, PaneFits
  <2>6. CASE FinishUnmarked
    BY <2>1, <2>6, UnmarkedFits
  <2> QED
    BY <1>2, <2>2, <2>3, <2>4, <2>5, <2>6 DEF Next
<1> QED
  BY <1>1, <1>2

\* Whatever providers share a pane and whatever is lost, repeated or reordered, every
\* field of the activity and of the gate keeps its type, and the gate's tables keep
\* their bounds: MAX_TRACKED_STREAMS streams, MAX_EVENT_IDS_PER_STREAM ids of each.
THEOREM TypeCorrect == Spec => []TypeOK
<1>1. PaneInv => TypeOK
  <2> SUFFICES ASSUME PaneInv PROVE TypeOK
    OBVIOUS
  <2>1. /\ act.status \in Status /\ act.source \in StatusSource /\ act.coverage \in Coverage
        /\ act.idle \in 0..2 /\ act.working \in 0..2 /\ act.unmatched \in 0..1
        /\ act.fallback \in StatusSource \union {"none"}
    BY DEF PaneInv, Activity, Samples, Misses
  <2>2. /\ Cardinality(DOMAIN streams) <= MaxStreams
        /\ \A k \in DOMAIN streams : streams[k].life \in Lifecycle /\ Len(streams[k].ids) <= MaxIds
    BY DEF PaneInv, Table, Stream, Ids
  <2>3. /\ setup \in Setups /\ job \in Clis \union {None}
        /\ \A c \in Clis : cli[c].phase \in Phase
    BY DEF PaneInv, Agents
  <2> QED
    BY <2>1, <2>2, <2>3 DEF TypeOK
<1> QED
  BY <1>1, InitFits, NextFits, PTL DEF Spec

\* The last sequence number of a stream never falls while the gate tracks the stream,
\* whichever event is accepted or refused and however often a window passes
\* (ordering.rs, AgentEventGate::accept).
NumbersAdvance ==
    [][\A k \in DOMAIN streams \intersect DOMAIN streams' :
            streams[k].seq <= streams'[k].seq]_vars

\* The gate's numbers advance in every pane.
THEOREM NumbersOnlyGrow == Spec => NumbersAdvance
<1>1. ASSUME PaneInv, Next,
             NEW k \in DOMAIN streams \intersect DOMAIN streams'
      PROVE  streams[k].seq <= streams'[k].seq
  <2>1. streams[k].seq \in Nat /\ Table(streams) /\ setup \in Setups
    BY <1>1 DEF PaneInv, Table, Stream
  <2>2. CASE streams' \in {streams, Forgotten(streams)}
    BY <2>1, <2>2, ForgottenFits
  <2>3. CASE OnCommandStart \/ OnCommandFinished
    <3>1. streams' = streams
      BY <2>3 DEF OnCommandStart, OnCommandFinished
    <3> QED
      BY <2>1, <3>1
  <2>4. ASSUME NEW e \in Events, HandleAiHook(e)
        PROVE  streams[k].seq <= streams'[k].seq
    <3>1. streams' \in {streams, GateAfter(streams, Received(e))}
      BY <2>4 DEF HandleAiHook
    <3>2. Stamped(Received(e))
      BY <2>1, ReceivedFits DEF Addressed
    <3>3. CASE streams' = streams
      BY <2>1, <3>3
    <3>4. CASE streams' = GateAfter(streams, Received(e))
      BY <2>1, <3>2, <3>4, NumbersGrow
    <3> QED
      BY <3>1, <3>3, <3>4
  <2> QED
    BY <1>1, <2>2, <2>3, <2>4, NextFits
<1>2. PaneInv /\ [Next]_vars => [\A k \in DOMAIN streams \intersect DOMAIN streams' :
                                     streams[k].seq <= streams'[k].seq]_vars
  BY <1>1
<1> QED
  BY <1>2, InitFits, NextFits, PTL DEF Spec, NumbersAdvance

-----------------------------------------------------------------------------
(* One agent speaks.                                                       *)

\* The agents of one provider in a pane are all behind the same kind of bridge.  A
\* remote event carries no pid and a local one no remote process, so the pane could
\* compare nothing but session ids, which an event may lack.
Uniform ==
    \A c, d \in Clis : Provider[c].source = Provider[d].source
                         => Provider[c].remote = Provider[d].remote

\* The pane's owner is the process of the CLI whose events were applied.
OwnedBy(c) ==
    /\ act.owner.source = Provider[c].source
    /\ act.owner.pid = IF Provider[c].remote THEN None ELSE c
    /\ act.owner.process = IF Provider[c].remote THEN c ELSE None

Speaker ==
    \/ act.owner = NoOwner /\ spoke = {}
    \/ \E c \in Clis : spoke = {c} /\ OwnedBy(c)

LEMMA SpeakerKept ==
    ASSUME PaneInv, Uniform, Speaker, setup' = setup, NEW e \in Events, HandleAiHook(e)
    PROVE  Speaker'
<1> DEFINE r == Received(e)
           d == e.from
           applied == AcceptsHook(act, r) /\ GateVerdict(streams, r) = "Accepted"
<1>1. act \in Activity /\ Table(streams) /\ setup \in Setups
  BY DEF PaneInv
<1>2. /\ Addressed(r) /\ r.from = d /\ r.kind = e.kind /\ r.source = e.source
      /\ r.pid = e.pid /\ r.process = e.process
  BY <1>1, ReceivedFits
<1>3. /\ d \in Clis /\ d # 0
      /\ r.source = Provider[d].source
      /\ r.pid = IF Provider[d].remote THEN None ELSE d
      /\ r.process = IF Provider[d].remote THEN d ELSE None
  BY <1>1, <1>2, SetupFacts DEF Events
<1>4. /\ act' = IF applied THEN ApplyHook(act, r) ELSE act
      /\ spoke' = IF ~applied THEN spoke
                  ELSE IF r.kind = "SessionEnd" THEN {} ELSE spoke \union {d}
  BY <1>2 DEF HandleAiHook
<1>5. UNCHANGED <<Provider, Clis>>
  BY DEF Provider, Clis
<1> HIDE DEF r, d
<1>6. CASE ~applied
  BY <1>4, <1>5, <1>6 DEF Speaker, OwnedBy
<1>7. CASE applied /\ r.kind = "SessionEnd"
  <2>1. ApplyHook(act, r) = CommandFinished(Taken(act, r))
    BY <1>7 DEF ApplyHook
  <2> QED
    BY <1>4, <1>7, <2>1, DefaultFits DEF Speaker
<1>8. CASE applied /\ r.kind # "SessionEnd"
  <2>1. act'.owner = RecordOwner(act.owner, r) /\ spoke' = spoke \union {d}
    BY <1>1, <1>2, <1>4, <1>8, ApplyFits
  <2>2. CASE act.owner = NoOwner /\ spoke = {}
    <3>1. act'.owner = [source |-> r.source, session |-> r.session, pid |-> r.pid,
                        process |-> r.process, instance |-> r.instance]
      BY <2>1, <2>2 DEF RecordOwner
    <3>2. spoke' = {d}
      BY <2>1, <2>2
    <3> QED
      BY <1>3, <1>5, <3>1, <3>2 DEF Speaker, OwnedBy
  <2>3. ASSUME NEW c \in Clis, spoke = {c}, OwnedBy(c) PROVE Speaker'
    <3>1. c # 0
      BY <1>1, SetupFacts
    <3>2. act.owner # NoOwner
      BY <2>3, <3>1 DEF OwnedBy, NoOwner, None
    <3>3. ~Foreign(act.owner, r)
      BY <1>8, <3>2 DEF AcceptsHook
    <3>4. Provider[c].remote = Provider[d].remote
      BY <1>3, <2>3, <3>3 DEF Foreign, OwnedBy, Uniform
    <3>5. c = d
      BY <1>3, <2>3, <3>1, <3>3, <3>4 DEF Foreign, OwnedBy, Known, None
    <3>6. /\ act'.owner.source = act.owner.source
          /\ act'.owner.pid = Either(act.owner.pid, r.pid)
          /\ act'.owner.process = Either(act.owner.process, r.process)
      BY <1>1, <2>1, <3>2 DEF RecordOwner, Activity, Owners
    <3>7. spoke' = {c}
      BY <2>1, <2>3, <3>5
    <3> QED
      BY <1>3, <1>5, <2>3, <3>5, <3>6, <3>7 DEF Speaker, OwnedBy, Either
  <2> QED
    BY <2>2, <2>3 DEF Speaker
<1> QED
  BY <1>6, <1>7, <1>8

\* Between two command boundaries one agent process has authority over the pane,
\* whatever sessions its events name, whatever other agents it spawns or earlier
\* commands left behind, and whatever is lost, repeated or reordered: for every pane
\* whose agents of one provider are all local or all remote.
THEOREM OneSpeaker == Spec => [](Uniform => OneAgentSpeaks)
<1> DEFINE Inv == PaneInv /\ (Uniform => Speaker)
<1>1. Init => Inv
  BY InitFits, DefaultFits DEF Init, Speaker
<1>2. Inv /\ [Next]_vars => Inv'
  <2> SUFFICES ASSUME PaneInv, Uniform => Speaker, [Next]_vars, Uniform' PROVE PaneInv' /\ Speaker'
    BY NextFits
  <2>1. PaneInv' /\ setup' = setup
    BY NextFits
  <2>2. UNCHANGED <<Provider, Clis>> /\ Uniform
    BY <2>1 DEF Provider, Clis, Uniform
  <2>3. CASE act'.owner = act.owner /\ spoke' = spoke
    BY <2>1, <2>2, <2>3 DEF Speaker, OwnedBy
  <2>4. CASE OnCommandStart \/ OnCommandFinished
    <3>1. CASE HookSeen(act) /\ OnCommandStart
      BY <2>1, <2>2, <3>1 DEF Speaker, OwnedBy, OnCommandStart
    <3>2. CASE ~HookSeen(act) /\ OnCommandStart
      BY <2>1, <3>2, DefaultFits DEF Speaker, OnCommandStart
    <3>3. CASE OnCommandFinished
      BY <2>1, <3>3, DefaultFits DEF Speaker, OnCommandFinished
    <3> QED
      BY <2>4, <3>1, <3>2, <3>3, Zenon
  <2>5. ASSUME NEW e \in Events, HandleAiHook(e) PROVE PaneInv' /\ Speaker'
    BY <2>1, <2>2, <2>5, SpeakerKept
  <2> QED
    BY <2>3, <2>4, <2>5, NextFits
<1>3. Inv => (Uniform => OneAgentSpeaks)
  BY FS_EmptySet, FS_Singleton DEF Speaker, OneAgentSpeaks
<1> QED
  BY <1>1, <1>2, <1>3, PTL DEF Spec

-----------------------------------------------------------------------------
(* The streams of a pane.                                                  *)

\* The stream of CLI c in its k-th conversation: a pi bridge names its instance, an
\* agent without session ids nothing.
KeyAt(c, k) ==
    <<Provider[c].source,
      IF Provider[c].source = "pi" THEN c
      ELSE IF Provider[c].named THEN 10 * c + k ELSE None,
      IF Provider[c].remote THEN None ELSE c,
      IF Provider[c].remote THEN c ELSE None>>
StreamKeys == {KeyAt(c, k) : c \in Clis, k \in 1..setup.sessions}

\* The gate can track every stream that the agents of the pane can name.
Room == Cardinality(StreamKeys) <= MaxStreams

LEMMA KeysFit ==
    ASSUME setup \in Setups
    PROVE  IsFiniteSet(StreamKeys)
<1>1. Setup(setup)
  BY PaneConstants
<1>2. Provider \in Seq(Providers) /\ setup.sessions \in Nat
  BY <1>1 DEF Setup, Provider
<1>3. Clis = 1..Len(Provider) /\ Len(Provider) \in Nat
  BY <1>2, LenProperties DEF Clis
<1>4. IsFiniteSet(Clis) /\ IsFiniteSet(1..setup.sessions)
  <2>1. \A n \in Nat : IsFiniteSet(1..n)
    BY FS_Interval
  <2> QED
    BY <1>2, <1>3, <2>1
<1> DEFINE P == Clis \X (1..setup.sessions)
           f == [p \in P |-> KeyAt(p[1], p[2])]
<1>5. IsFiniteSet(P)
  BY <1>4, FS_Product
<1>6. f \in Surjection(P, StreamKeys)
  <2>1. \A p \in P : f[p] \in StreamKeys
    BY DEF StreamKeys
  <2>2. ASSUME NEW k \in StreamKeys PROVE \E p \in P : f[p] = k
    <3>1. PICK c \in Clis, n \in 1..setup.sessions : k = KeyAt(c, n)
      BY DEF StreamKeys
    <3>2. <<c, n>> \in P /\ f[<<c, n>>] = k
      BY <3>1
    <3> QED
      BY <3>2
  <2> QED
    BY <2>1, <2>2 DEF Surjection
<1> HIDE DEF f, P
<1> QED
  BY <1>5, <1>6, FS_Surjection

LEMMA NoEviction ==
    ASSUME NEW st, Table(st), NEW e, NEW K, IsFiniteSet(K), Cardinality(K) <= MaxStreams,
           DOMAIN st \subseteq K, StreamKey(e) \in K
    PROVE  /\ DOMAIN Tracked(st, e) = DOMAIN st \union {StreamKey(e)}
           /\ \A k \in DOMAIN st : Tracked(st, e)[k] = st[k]
           /\ StreamKey(e) \notin DOMAIN st => Tracked(st, e)[StreamKey(e)] = NewStream(e)
<1> DEFINE key == StreamKey(e)
           D == DOMAIN st
<1>1. CASE key \in D
  BY <1>1 DEF Tracked
<1>2. CASE key \notin D
  <2>1. IsFiniteSet(K \ {key}) /\ Cardinality(K \ {key}) = Cardinality(K) - 1
    BY FS_RemoveElement
  <2>2. IsFiniteSet(D) /\ Cardinality(D) <= Cardinality(K \ {key})
    BY <1>2, <2>1, FS_Subset
  <2>3. Cardinality(K) \in Nat /\ Cardinality(D) \in Nat /\ MaxStreams \in Nat
    BY <2>2, FS_CardinalityType, GateConstants
  <2>4. ~(Cardinality(D) >= MaxStreams)
    BY <2>1, <2>2, <2>3
  <2>5. Tracked(st, e) = [k \in D \union {key} |-> IF k = key THEN NewStream(e) ELSE st[k]]
    BY <1>2, <2>4 DEF Tracked
  <2> QED
    BY <1>2, <2>5
<1> QED
  BY <1>1, <1>2

\* The pane takes the event: its owner sent it, and the gate lets it through.
Applied(e) ==
    AcceptsHook(act, Received(e)) /\ GateVerdict(streams, Received(e)) = "Accepted"

Final(e) == e.kind = "TurnDone" /\ ~e.busy

LEMMA HandleEffects ==
    ASSUME PaneInv, NEW e \in Events, HandleAiHook(e)
    PROVE  /\ DOMAIN streams' \subseteq DOMAIN streams \union {StreamKey(e)}
           /\ heard' = IF Applied(e) /\ e.seq # None
                       THEN [heard EXCEPT ![e.from] = Append(@, e.seq)] ELSE heard
           /\ announced' = IF Applied(e) /\ Final(e)
                           THEN Append(announced, <<e.from, e.body>>) ELSE announced
<1> DEFINE r == Received(e)
<1>1. /\ Stamped(r) /\ r.from = e.from /\ r.seq = e.seq /\ r.kind = e.kind
      /\ r.body = e.body /\ r.busy = e.busy /\ StreamKey(r) = StreamKey(e)
  BY ReceivedFits DEF PaneInv, Addressed
<1>2. /\ streams' \in {streams, GateAfter(streams, r)}
      /\ heard' = IF Applied(e) /\ r.seq # None
                  THEN [heard EXCEPT ![r.from] = Append(@, r.seq)] ELSE heard
      /\ announced' = IF Applied(e) /\ r.kind = "TurnDone" /\ ~r.busy
                      THEN Append(announced, <<r.from, r.body>>) ELSE announced
  BY DEF HandleAiHook, Applied
<1>3. DOMAIN GateAfter(streams, r) \subseteq DOMAIN streams \union {StreamKey(e)}
  <2>1. Table(streams)
    BY DEF PaneInv
  <2>2. DOMAIN GateAfter(streams, r) = DOMAIN Tracked(streams, r)
    BY DEF GateAfter
  <2> QED
    BY <1>1, <2>1, <2>2, TrackedFits
<1> HIDE DEF r
<1> QED
  BY <1>1, <1>2, <1>3 DEF Final

\* With room for every stream, an event touches its own stream alone.
LEMMA GateTakes ==
    ASSUME PaneInv, Room, DOMAIN streams \subseteq StreamKeys, NEW e \in Events,
           StreamKey(e) \in StreamKeys, HandleAiHook(e)
    PROVE  /\ DOMAIN streams \subseteq DOMAIN streams'
           /\ \A k \in DOMAIN streams :
                /\ k # StreamKey(e) \/ ~Applied(e) => streams'[k] = streams[k]
                /\ streams[k].seq <= streams'[k].seq
           /\ Applied(e) => /\ StreamKey(e) \in DOMAIN streams'
                            /\ e.seq # None => streams'[StreamKey(e)].seq = e.seq
                            /\ e.id # None => Contains(streams'[StreamKey(e)].ids, e.id)
           /\ StreamKey(e) \in DOMAIN streams /\ e.seq # None
                /\ e.seq <= streams[StreamKey(e)].seq => ~Applied(e)
           /\ StreamKey(e) \in DOMAIN streams /\ e.id # None
                /\ Contains(streams[StreamKey(e)].ids, e.id) => ~Applied(e)
<1> DEFINE r == Received(e)
           key == StreamKey(e)
           table == Tracked(streams, r)
           owned == AcceptsHook(act, r)
           taken == Verdict(table[key], r) = "Accepted"
<1>1. Table(streams) /\ setup \in Setups
  BY DEF PaneInv
<1>2. Stamped(r) /\ r.seq = e.seq /\ r.id = e.id /\ StreamKey(r) = key
  BY <1>1, ReceivedFits DEF Addressed
<1>3. /\ DOMAIN table = DOMAIN streams \union {key}
      /\ \A k \in DOMAIN streams : table[k] = streams[k]
  BY <1>1, <1>2, KeysFit, NoEviction DEF Room
<1>4. table[key] \in Stream
  <2>1. Table(table) /\ key \in DOMAIN table
    BY <1>1, <1>2, TrackedFits
  <2> QED
    BY <2>1 DEF Table
<1>5. /\ streams' = IF ~owned THEN streams
                    ELSE IF taken THEN [table EXCEPT ![key] = Record(@, r)] ELSE table
      /\ Applied(e) <=> owned /\ taken
  BY <1>2 DEF HandleAiHook, GateAfter, GateVerdict, Applied
<1>6. \A k \in DOMAIN streams : streams[k] \in Stream /\ streams[k].seq \in Nat
  BY <1>1 DEF Table, Stream
<1>7. /\ Record(table[key], r) \in Stream
      /\ taken => table[key].seq <= Record(table[key], r).seq
      /\ e.seq # None => Record(table[key], r).seq = e.seq
      /\ e.id # None => Contains(Record(table[key], r).ids, e.id)
  <2>1. \A s \in Stream : Verdict(s, r) = "Accepted" => s.seq <= Record(s, r).seq
    BY <1>2 DEF Verdict, Record, Compared, Stream, Stamped, None
  <2>2. e.seq # None => Record(table[key], r).seq = e.seq
    BY <1>2 DEF Record
  <2> QED
    BY <1>2, <1>4, <2>1, <2>2, RecordFits, IdKept
<1>8. ASSUME NEW s \in Stream, Verdict(s, r) = "Accepted"
      PROVE  /\ ~(e.seq # None /\ e.seq <= s.seq)
             /\ ~(e.id # None /\ Contains(s.ids, e.id))
  BY <1>2, <1>8 DEF Verdict, Compared, Stream, Stamped, None
<1>9. key \in DOMAIN streams => table[key] = streams[key]
  BY <1>3
<1> DEFINE rec == Record(table[key], r)
<1> HIDE DEF r, key, table, owned, taken, rec
<1>10. CASE ~owned
  <2>1. streams' = streams /\ ~Applied(e)
    BY <1>5, <1>10
  <2> QED
    BY <2>1, <1>6
<1>11. CASE owned /\ ~taken
  <2>1. streams' = table /\ ~Applied(e)
    BY <1>5, <1>11
  <2> QED
    BY <2>1, <1>3, <1>6
<1>12. CASE owned /\ taken
  <2>1. /\ DOMAIN streams' = DOMAIN streams \union {key}
        /\ streams'[key] = rec
        /\ \A k \in DOMAIN streams : k # key => streams'[k] = streams[k]
    BY <1>3, <1>5, <1>12 DEF rec
  <2>2. /\ e.seq # None => rec.seq = e.seq
        /\ e.id # None => Contains(rec.ids, e.id)
        /\ key \in DOMAIN streams => streams[key].seq <= rec.seq
    BY <1>7, <1>9, <1>12 DEF rec
  <2>3. /\ ~(e.seq # None /\ e.seq <= table[key].seq)
        /\ ~(e.id # None /\ Contains(table[key].ids, e.id))
    BY <1>4, <1>8, <1>12 DEF taken
  <2> QED
    BY <1>5, <1>6, <1>9, <1>12, <2>1, <2>2, <2>3 DEF key
<1> QED
  BY <1>10, <1>11, <1>12

-----------------------------------------------------------------------------
(* What is on its way: every CLI's events lie in the order they were sent. *)

\* Lanes the pane reads in order.
Ordered(c) == Provider[c].remote \/ (Provider[c].fifo /\ ~Provider[c].notify)

\* Nothing of the CLI is delivered twice.
Unrepeated(c) == "repeat" \notin Faults /\ ~Provider[c].notify

\* A turn of the CLI that may have ended: not the one it is at.
InPast(c, turn) ==
    /\ turn <= cli[c].turn
    /\ cli[c].phase \in {"working", "blocked"} => turn < cli[c].turn

\* A CLI that sends is in one of its conversations.
InSession ==
    \A c \in Clis :
        /\ cli[c].session <= setup.sessions
        /\ cli[c].phase \in {"idle", "working", "blocked"} => cli[c].session > 0

\* What an event on its way says of the CLI that sent it.
Sent(l, e) ==
    /\ l = LaneOf(e.from)
    /\ StreamKey(e) \in StreamKeys
    /\ e.seq <= cli[e.from].sent
    /\ e.seq # None <=> Sequenced(e.from)
    /\ Final(e) => InPast(e.from, e.body)
    /\ Final(e) /\ Provider[e.from].codex # "none" => e.id # None

\* Two reports of the end of one turn.
Twins(e, f) == e.from = f.from /\ Final(e) /\ Final(f) /\ e.body = f.body

\* The second was sent by the same CLI and not before the first.
Follows(e, f) ==
    /\ e.seq <= f.seq
    /\ e.seq # None /\ e.seq = f.seq => StreamKey(e) = StreamKey(f)
    /\ Twins(e, f) => e.seq = f.seq /\ e.id = f.id /\ StreamKey(e) = StreamKey(f)

\* Reports of one end lie side by side among the events of their CLI.
Lanes ==
    \A l \in Clis \union {0} :
        /\ \A j \in 1..Len(lane[l]) : lane[l][j] \in Events => Sent(l, lane[l][j])
        /\ \A j, k \in 1..Len(lane[l]) :
            /\ j < k /\ lane[l][j] \in Events /\ lane[l][k] \in Events
            /\ lane[l][j].from = lane[l][k].from
            => /\ Follows(lane[l][j], lane[l][k])
               /\ Twins(lane[l][j], lane[l][k]) => ~Unrepeated(lane[l][j].from)
        /\ \A i, j, k \in 1..Len(lane[l]) :
            /\ i < j /\ j < k
            /\ lane[l][i] \in Events /\ lane[l][j] \in Events /\ lane[l][k] \in Events
            /\ Twins(lane[l][i], lane[l][k]) /\ lane[l][j].from = lane[l][k].from
            => Twins(lane[l][j], lane[l][k])

LEMMA SameSetup ==
    ASSUME setup' = setup
    PROVE  /\ UNCHANGED <<Provider, Clis, Faults, Events, StreamKeys, Room>>
           /\ \A c : /\ Unrepeated(c)' <=> Unrepeated(c)
                     /\ Ordered(c)' <=> Ordered(c)
                     /\ Sequenced(c)' <=> Sequenced(c)
                     /\ LaneOf(c)' = LaneOf(c)
<1>1. UNCHANGED <<Provider, Clis, Faults>>
  BY DEF Provider, Clis, Faults
<1>2. Events' = Events
  BY <1>1 DEF Events
<1>3. StreamKeys' = StreamKeys
  <2>1. \A c, k : KeyAt(c, k)' = KeyAt(c, k)
    BY <1>1 DEF KeyAt
  <2> QED
    BY <1>1, <2>1 DEF StreamKeys
<1>4. Room' <=> Room
  BY <1>3 DEF Room
<1> QED
  BY <1>1, <1>2, <1>3, <1>4, Zenon DEF Unrepeated, Ordered, Sequenced, LaneOf

\* A lane that grows at its end keeps its order when what is added follows.
LEMMA LaneGrows ==
    ASSUME PaneInv, PaneInv', setup' = setup, Lanes, NEW L \in Clis \union {0},
           Len(lane[L]) <= Len(lane'[L]),
           \A j \in 1..Len(lane[L]) : lane'[L][j] = lane[L][j],
           \A l \in Clis \union {0} : l # L => lane'[l] = lane[l],
           \A l \in Clis \union {0}, e \in Events : Sent(l, e) => Sent(l, e)',
           \A k \in Len(lane[L]) + 1..Len(lane'[L]) : \A y \in Events :
                y = lane'[L][k] =>
                /\ Sent(L, y)'
                /\ \A j \in 1..k - 1 : \A x \in Events :
                    x = lane'[L][j] /\ x.from = y.from
                    => /\ Follows(x, y)
                       /\ Twins(x, y) => j > Len(lane[L]) /\ ~Unrepeated(x.from)
                       /\ j > Len(lane[L]) /\ Final(y) => Twins(x, y)
    PROVE  Lanes'
<1>0. UNCHANGED <<Clis, Events>> /\ \A c : Unrepeated(c)' <=> Unrepeated(c)
  BY SameSetup
<1>1. /\ Len(lane[L]) \in Nat /\ Len(lane'[L]) \in Nat
      /\ \A l \in Clis \union {0} : Len(lane[l]) \in Nat
  BY <1>0, LenProperties DEF PaneInv
<1> DEFINE n == Len(lane[L])
<1> SUFFICES ASSUME NEW l \in Clis \union {0}
             PROVE  /\ \A j \in 1..Len(lane'[l]) : lane'[l][j] \in Events => Sent(l, lane[l][j])'
                    /\ \A j, k \in 1..Len(lane'[l]) :
                        /\ j < k /\ lane'[l][j] \in Events /\ lane'[l][k] \in Events
                        /\ lane'[l][j].from = lane'[l][k].from
                        => /\ Follows(lane'[l][j], lane'[l][k])
                           /\ Twins(lane'[l][j], lane'[l][k]) => ~Unrepeated(lane'[l][j].from)
                    /\ \A i, j, k \in 1..Len(lane'[l]) :
                        /\ i < j /\ j < k /\ lane'[l][i] \in Events /\ lane'[l][j] \in Events
                        /\ lane'[l][k] \in Events
                        /\ Twins(lane'[l][i], lane'[l][k]) /\ lane'[l][j].from = lane'[l][k].from
                        => Twins(lane'[l][j], lane'[l][k])
  BY SMTT(30), <1>0 DEF Lanes, Follows, Twins, Final, StreamKey
<1>2. CASE l # L
  <2>1. lane'[l] = lane[l]
    BY <1>2
  <2> QED
    BY <2>1 DEF Lanes
<1>3. CASE l = L
  <2>1. \A j \in 1..Len(lane'[L]) : j \in 1..n \/ j \in n + 1..Len(lane'[L])
    BY <1>1
  <2>2. ASSUME NEW j \in 1..Len(lane'[L]), lane'[L][j] \in Events
        PROVE  Sent(L, lane[L][j])'
    BY <2>1, <2>2 DEF Lanes
  <2>3. ASSUME NEW j \in 1..Len(lane'[L]), NEW k \in 1..Len(lane'[L]), j < k,
               lane'[L][j] \in Events, lane'[L][k] \in Events,
               lane'[L][j].from = lane'[L][k].from
        PROVE  /\ Follows(lane'[L][j], lane'[L][k])
               /\ Twins(lane'[L][j], lane'[L][k]) => ~Unrepeated(lane'[L][j].from)
    <3>1. CASE k \in 1..n
      <4>1. j \in 1..n
        BY <1>1, <2>3, <3>1
      <4> QED
        BY <2>3, <3>1, <4>1 DEF Lanes
    <3>2. CASE k \in n + 1..Len(lane'[L])
      <4>1. j \in 1..k - 1
        BY <1>1, <2>3
      <4> QED
        BY <2>3, <3>2, <4>1
    <3> QED
      BY <2>1, <3>1, <3>2
  <2>4. ASSUME NEW i \in 1..Len(lane'[L]), NEW j \in 1..Len(lane'[L]),
               NEW k \in 1..Len(lane'[L]), i < j, j < k, lane'[L][i] \in Events,
               lane'[L][j] \in Events, lane'[L][k] \in Events,
               Twins(lane'[L][i], lane'[L][k]), lane'[L][j].from = lane'[L][k].from
        PROVE  Twins(lane'[L][j], lane'[L][k])
    <3>1. CASE k \in 1..n
      <4>1. i \in 1..n /\ j \in 1..n
        BY <1>1, <2>4, <3>1
      <4> QED
        BY <2>4, <3>1, <4>1 DEF Lanes
    <3>2. CASE k \in n + 1..Len(lane'[L])
      <4>1. i \in 1..k - 1 /\ j \in 1..k - 1
        BY <1>1, <2>4
      <4>2. i > n /\ Final(lane'[L][k])
        BY <2>4, <3>2, <4>1 DEF Twins
      <4>3. j > n
        BY <1>1, <2>4, <4>2
      <4> QED
        BY <2>4, <3>2, <4>1, <4>2, <4>3
    <3> QED
      BY <2>1, <3>1, <3>2
  <2> QED
    BY <1>3, <2>2, <2>3, <2>4
<1> QED
  BY <1>2, <1>3

LEMMA RemoveAtOrder ==
    ASSUME NEW S, NEW q \in Seq(S), NEW i \in DOMAIN q
    PROVE  /\ Len(RemoveAt(q, i)) = Len(q) - 1
           /\ \A j \in 1..Len(q) - 1 : RemoveAt(q, i)[j] = IF j < i THEN q[j] ELSE q[j + 1]
<1> DEFINE a == SubSeq(q, 1, i - 1)
           b == SubSeq(q, i + 1, Len(q))
<1>1. Len(q) \in Nat /\ i \in 1..Len(q) /\ q \in [1..Len(q) -> S]
  BY LenProperties
<1>2. /\ a \in Seq(S) /\ Len(a) = i - 1
      /\ \A j \in 1..i - 1 : a[j] = q[j]
  <2>1. 1 \in Int /\ i - 1 \in Int /\ \A j \in 1..i - 1 : q[j] \in S
    BY <1>1
  <2>2. /\ a \in Seq(S) /\ Len(a) = IF 1 <= i - 1 THEN (i - 1) - 1 + 1 ELSE 0
        /\ \A j \in 1..(i - 1) - 1 + 1 : a[j] = q[1 + j - 1]
    BY <2>1, SubSeqProperties
  <2> QED
    BY <1>1, <2>2
<1>3. /\ b \in Seq(S) /\ Len(b) = Len(q) - i
      /\ \A j \in 1..Len(q) - i : b[j] = q[i + j]
  <2>1. i + 1 \in Int /\ Len(q) \in Int /\ \A j \in i + 1..Len(q) : q[j] \in S
    BY <1>1
  <2>2. /\ b \in Seq(S) /\ Len(b) = IF i + 1 <= Len(q) THEN Len(q) - (i + 1) + 1 ELSE 0
        /\ \A j \in 1..Len(q) - (i + 1) + 1 : b[j] = q[(i + 1) + j - 1]
    BY <2>1, SubSeqProperties
  <2>3. /\ \A j \in 1..Len(q) - i : (i + 1) + j - 1 = i + j
        /\ Len(q) - (i + 1) + 1 = Len(q) - i
        /\ (IF i + 1 <= Len(q) THEN Len(q) - (i + 1) + 1 ELSE 0) = Len(q) - i
    BY <1>1
  <2> HIDE DEF b
  <2> QED
    BY <2>2, <2>3
<1>4. RemoveAt(q, i) = a \o b
  BY DEF RemoveAt
<1> HIDE DEF a, b
<1>5. /\ Len(a \o b) = Len(a) + Len(b)
      /\ \A j \in 1..Len(a) + Len(b) : (a \o b)[j] = IF j <= Len(a) THEN a[j] ELSE b[j - Len(a)]
  BY <1>2, <1>3, ConcatProperties
<1>6. Len(a) + Len(b) = Len(q) - 1
  BY <1>1, <1>2, <1>3
<1>7. ASSUME NEW j \in 1..Len(q) - 1
      PROVE  RemoveAt(q, i)[j] = IF j < i THEN q[j] ELSE q[j + 1]
  <2>1. CASE j < i
    <3>1. j \in 1..i - 1 /\ j <= Len(a)
      BY <1>1, <1>2, <2>1
    <3> QED
      BY <1>2, <1>4, <1>5, <1>6, <2>1, <3>1
  <2>2. CASE ~(j < i)
    <3>1. j - (i - 1) \in 1..Len(q) - i /\ ~(j <= Len(a)) /\ i + (j - (i - 1)) = j + 1
      BY <1>1, <1>2, <2>2
    <3>2. (a \o b)[j] = b[j - (i - 1)]
      BY <1>2, <1>5, <1>6, <3>1
    <3> QED
      BY <1>3, <1>4, <2>2, <3>1, <3>2
  <2> QED
    BY <2>1, <2>2
<1> QED
  BY <1>4, <1>5, <1>6, <1>7

\* Where an element of a lane was before the i-th one arrived.
Was(j, i) == IF j < i THEN j ELSE j + 1

LEMMA ArriveLanes ==
    ASSUME PaneInv, NEW l \in Clis \union {0}, NEW i, Arrive(l, i)
    PROVE  /\ i \in 1..Len(lane[l])
           /\ \A m \in Clis \union {0} : m # l => lane'[m] = lane[m]
           /\ Len(lane'[l]) = Len(lane[l]) - 1
           /\ \A j \in 1..Len(lane'[l]) :
                /\ Was(j, i) \in 1..Len(lane[l]) /\ Was(j, i) # i
                /\ lane'[l][j] = lane[l][Was(j, i)]
                /\ \A k \in 1..Len(lane'[l]) : j < k => Was(j, i) < Was(k, i)
<1> DEFINE Items == Events \union Marks
           q == lane[l]
<1>1. lane \in [Clis \union {0} -> Seq(Items)]
  BY DEF PaneInv
<1> HIDE DEF Items
<1>2. q \in Seq(Items) /\ i \in DOMAIN q /\ lane' = [lane EXCEPT ![l] = RemoveAt(q, i)]
  BY <1>1 DEF Arrive
<1>3. lane'[l] = RemoveAt(q, i) /\ \A m \in Clis \union {0} : m # l => lane'[m] = lane[m]
  BY <1>1, <1>2
<1>4. Len(q) \in Nat /\ i \in 1..Len(q)
  BY <1>2, LenProperties
<1> HIDE DEF q
<1>5. /\ Len(RemoveAt(q, i)) = Len(q) - 1
      /\ \A j \in 1..Len(q) - 1 : RemoveAt(q, i)[j] = IF j < i THEN q[j] ELSE q[j + 1]
  BY <1>2, RemoveAtOrder
<1>6. ASSUME NEW j \in 1..Len(q) - 1
      PROVE  /\ Was(j, i) \in 1..Len(q) /\ Was(j, i) # i
             /\ lane'[l][j] = q[Was(j, i)]
             /\ \A k \in 1..Len(q) - 1 : j < k => Was(j, i) < Was(k, i)
  BY <1>3, <1>4, <1>5 DEF Was
<1> QED
  BY <1>3, <1>4, <1>5, <1>6 DEF q

LEMMA LaneShrinks ==
    ASSUME PaneInv, setup' = setup, Lanes, NEW l \in Clis \union {0}, NEW i, Arrive(l, i)
    PROVE  Lanes'
<1>0. UNCHANGED <<Clis, Events>> /\ \A c : Unrepeated(c)' <=> Unrepeated(c)
  BY SameSetup
<1>1. \A m \in Clis \union {0}, e \in Events : Sent(m, e)' <=> Sent(m, e)
  <2>1. cli' = cli
    BY DEF Arrive
  <2>2. UNCHANGED <<Provider, StreamKeys>> /\ \A c : /\ Sequenced(c)' <=> Sequenced(c)
                                                     /\ LaneOf(c)' = LaneOf(c)
    BY SameSetup
  <2>3. \A c, b : InPast(c, b)' <=> InPast(c, b)
    BY <2>1 DEF InPast
  <2> QED
    BY <2>1, <2>2, <2>3, Zenon DEF Sent
<1> SUFFICES ASSUME NEW m \in Clis \union {0}
             PROVE  /\ \A j \in 1..Len(lane'[m]) : lane'[m][j] \in Events => Sent(m, lane[m][j])'
                    /\ \A j, k \in 1..Len(lane'[m]) :
                        /\ j < k /\ lane'[m][j] \in Events /\ lane'[m][k] \in Events
                        /\ lane'[m][j].from = lane'[m][k].from
                        => /\ Follows(lane'[m][j], lane'[m][k])
                           /\ Twins(lane'[m][j], lane'[m][k]) => ~Unrepeated(lane'[m][j].from)
                    /\ \A g, j, k \in 1..Len(lane'[m]) :
                        /\ g < j /\ j < k /\ lane'[m][g] \in Events /\ lane'[m][j] \in Events
                        /\ lane'[m][k] \in Events
                        /\ Twins(lane'[m][g], lane'[m][k]) /\ lane'[m][j].from = lane'[m][k].from
                        => Twins(lane'[m][j], lane'[m][k])
  BY <1>0 DEF Lanes, Follows, Twins, Final, StreamKey
<1>2. CASE m # l
  <2>1. lane'[m] = lane[m]
    BY <1>2, ArriveLanes
  <2> QED
    BY <1>1, <2>1 DEF Lanes
<1>3. CASE m = l
  <2> DEFINE n == Len(lane'[l])
  <2>1. ASSUME NEW j \in 1..n
        PROVE  /\ Was(j, i) \in 1..Len(lane[l])
               /\ lane'[l][j] = lane[l][Was(j, i)]
               /\ \A k \in 1..n : j < k => Was(j, i) < Was(k, i)
    BY ArriveLanes
  <2> HIDE DEF n
  <2>2. ASSUME NEW j \in 1..n, lane'[l][j] \in Events PROVE Sent(l, lane[l][j])'
    BY <1>1, <2>1, <2>2 DEF Lanes
  <2>3. ASSUME NEW j \in 1..n, NEW k \in 1..n, j < k, lane'[l][j] \in Events,
               lane'[l][k] \in Events, lane'[l][j].from = lane'[l][k].from
        PROVE  /\ Follows(lane'[l][j], lane'[l][k])
               /\ Twins(lane'[l][j], lane'[l][k]) => ~Unrepeated(lane'[l][j].from)
    BY SMTT(40), <2>1, <2>3 DEF Lanes
  <2>4. ASSUME NEW g \in 1..n, NEW j \in 1..n, NEW k \in 1..n, g < j, j < k,
               lane'[l][g] \in Events, lane'[l][j] \in Events, lane'[l][k] \in Events,
               Twins(lane'[l][g], lane'[l][k]), lane'[l][j].from = lane'[l][k].from
        PROVE  Twins(lane'[l][j], lane'[l][k])
    BY <2>1, <2>4 DEF Lanes
  <2> QED
    BY <1>3, <2>2, <2>3, <2>4 DEF n
<1> QED
  BY <1>2, <1>3

\* A step of a CLI that sends: the turn it ends is the one it was at, and it is in
\* one of its conversations.
Sends(c, kind, mark, phase) ==
    /\ Send(c, kind, mark, phase)
    /\ cli[c].session + (IF mark = "new" THEN 1 ELSE 0) \in 1..setup.sessions
    /\ phase \in {"working", "blocked"}
         => cli[c].phase \in {"working", "blocked"} \/ kind = "PromptSubmit"
    /\ kind = "TurnDone" /\ mark # "busy"
         => cli[c].phase \in {"working", "blocked"} /\ phase = "idle"
    /\ kind = "SessionStart" => mark \in {"new", "compact"}
    /\ mark \in {"busy", "compact"} => Provider[c].source = "claude"

LEMMA AgentSends ==
    ASSUME PaneInv, InSession, NEW c \in Clis, Agent(c)
    PROVE  \/ SpawnNested(c) \/ AskSilently(c)
           \/ \E kind \in Kind, phase \in Phase :
              \E mark \in {"new", "compact", "plain", "legacy", "failed", "busy"} :
                  Sends(c, kind, mark, phase)
<1>1. /\ \A k \in {"SessionStart", "PromptSubmit", "ToolComplete", "TurnDone",
                   "NeedsAttention", "SessionEnd"} : k \in Kind
      /\ \A p \in {"off", "idle", "working", "blocked"} : p \in Phase
  BY DEF Kind, Phase
<1>2. cli[c].session \in Nat /\ setup.sessions \in Nat
  <2>1. Setup(setup)
    BY PaneConstants DEF PaneInv
  <2> QED
    BY <2>1 DEF PaneInv, Agents, Setup
<1>3. cli[c].phase \in {"idle", "working", "blocked"} => cli[c].session + 0 \in 1..setup.sessions
  BY <1>2 DEF InSession
<1>4. CASE StartSession(c)
  <2>1. Sends(c, "SessionStart", "new", "idle")
    BY <1>2, <1>4 DEF StartSession, Sends
  <2> QED
    BY <1>1, <2>1
<1>5. CASE Compact(c)
  <2>1. Sends(c, "SessionStart", "compact", "working")
    BY <1>3, <1>5 DEF Compact, Sends
  <2> QED
    BY <1>1, <2>1
<1>6. CASE TakePrompt(c)
  <2>1. Sends(c, "PromptSubmit", "plain", "working")
    BY <1>3, <1>6 DEF TakePrompt, Sends
  <2> QED
    BY <1>1, <2>1
<1>7. CASE RunTool(c)
  <2>1. Sends(c, "ToolComplete", "plain", "working")
    BY <1>3, <1>7 DEF RunTool, Sends
  <2> QED
    BY <1>1, <2>1
<1>8. CASE Ask(c)
  <2>1. Sends(c, "NeedsAttention", "plain", "blocked")
    BY <1>3, <1>8 DEF Ask, Sends
  <2> QED
    BY <1>1, <2>1
<1>9. CASE Remind(c)
  <2>1. Sends(c, "NeedsAttention", "legacy", "idle")
    BY <1>3, <1>9 DEF Remind, Sends
  <2> QED
    BY <1>1, <2>1
<1>10. CASE StopTurn(c)
  <2>1. \/ Sends(c, "TurnDone", "plain", "idle")
        \/ Sends(c, "TurnDone", "failed", "idle")
        \/ Sends(c, "TurnDone", "busy", "working")
    BY <1>3, <1>10 DEF StopTurn, Sends
  <2> QED
    BY <1>1, <2>1
<1>11. CASE EndSession(c)
  <2>1. Sends(c, "SessionEnd", "plain", "off")
    BY <1>3, <1>11 DEF EndSession, Sends
  <2> QED
    BY <1>1, <2>1
<1> QED
  BY <1>4, <1>5, <1>6, <1>7, <1>8, <1>9, <1>10, <1>11 DEF Agent

\* What a CLI's step leaves of the turns that ended before.
LEMMA PastKept ==
    ASSUME PaneInv, setup' = setup, cli' \in [Clis -> Agents],
           \A c \in Clis :
              /\ cli[c].sent <= cli'[c].sent
              /\ \A b \in Nat : InPast(c, b) => InPast(c, b)'
    PROVE  \A l \in Clis \union {0}, e \in Events : Sent(l, e) => Sent(l, e)'
<1> SUFFICES ASSUME NEW l \in Clis \union {0}, NEW e \in Events, Sent(l, e) PROVE Sent(l, e)'
  OBVIOUS
<1>1. UNCHANGED <<Provider, StreamKeys>> /\ \A c : /\ Sequenced(c)' <=> Sequenced(c)
                                                   /\ LaneOf(c)' = LaneOf(c)
  BY SameSetup
<1>2. e.from \in Clis /\ e.body \in Nat /\ e.seq \in Nat
  BY DEF Events
<1>3. cli[e.from].sent \in Nat /\ cli'[e.from].sent \in Nat
  BY <1>2 DEF PaneInv, Agents
<1>4. e.seq <= cli'[e.from].sent
  BY <1>2, <1>3 DEF Sent
<1>5. Final(e) => InPast(e.from, e.body)'
  BY <1>2 DEF Sent
<1> QED
  BY <1>1, <1>4, <1>5, Zenon DEF Sent

\* A report and its copies: as the hook sends it, and as the notify program does.
Reported(c, kind, mark) ==
    {Event(c, kind, mark)} \union
    {x \in {[Event(c, kind, mark) EXCEPT !.codex = "none"]} : kind = "TurnDone"}

LEMMA ReportedFields ==
    ASSUME PaneInv, NEW c \in Clis, NEW kind \in Kind, NEW mark,
           NEW x \in Reported(c, kind, mark)
    PROVE  /\ x \in Events /\ x.from = c
           /\ Final(x) <=> kind = "TurnDone" /\ mark # "busy"
           /\ Final(x) => x.body = cli[c].turn
           /\ x.seq = IF Sequenced(c) THEN cli[c].sent + 1 ELSE None
           /\ x.id = Event(c, kind, mark).id
           /\ Final(x) /\ Provider[c].codex # "none" => x.id # None
           /\ StreamKey(x) = KeyAt(c, cli[c].session + IF mark = "new" THEN 1 ELSE 0)
<1> DEFINE e == Event(c, kind, mark)
<1>1. e \in Events /\ [e EXCEPT !.codex = "none"] \in Events
  BY EventFits
<1>2. /\ e.kind = kind /\ e.from = c /\ e.busy = (mark = "busy") /\ e.source = Provider[c].source
      /\ e.body = IF kind = "TurnDone"
                  THEN cli[c].turn + (IF kind = "PromptSubmit" THEN 1 ELSE 0) ELSE 0
      /\ e.seq = IF Sequenced(c) THEN cli[c].sent + 1 ELSE None
      /\ e.pid = IF Provider[c].remote THEN None ELSE c
      /\ e.process = IF Provider[c].remote THEN c ELSE None
      /\ e.instance = IF Provider[c].source = "pi" THEN c ELSE None
      /\ e.id = IF Provider[c].codex # "none" /\ kind = "TurnDone"
                THEN 10 * c + (cli[c].turn + (IF kind = "PromptSubmit" THEN 1 ELSE 0)) ELSE None
      /\ e.session = IF Provider[c].named
                     THEN 10 * c + (cli[c].session + (IF mark = "new" THEN 1 ELSE 0)) ELSE None
  BY DEF Event
<1> HIDE DEF e
<1>3. ASSUME NEW y \in Events
      PROVE  LET z == [y EXCEPT !.codex = "none"] IN
             /\ z.kind = y.kind /\ z.from = y.from /\ z.busy = y.busy /\ z.body = y.body
             /\ z.seq = y.seq /\ z.id = y.id /\ StreamKey(z) = StreamKey(y)
  BY DEF Events, StreamKey
<1>4. /\ x.kind = e.kind /\ x.from = e.from /\ x.busy = e.busy /\ x.body = e.body
      /\ x.seq = e.seq /\ x.id = e.id /\ StreamKey(x) = StreamKey(e) /\ x \in Events
  BY <1>1, <1>3 DEF Reported, e
<1>5. c \in Nat /\ c # 0 /\ cli[c].turn \in Nat
  BY SetupFacts DEF PaneInv, Agents
<1>6. StreamKey(e) = KeyAt(c, cli[c].session + IF mark = "new" THEN 1 ELSE 0)
  BY <1>2, <1>5 DEF StreamKey, KeyAt, None
<1>7. Final(x) <=> kind = "TurnDone" /\ mark # "busy"
  BY <1>2, <1>4 DEF Final
<1>8. kind = "TurnDone" => e.body = cli[c].turn
  BY <1>2, <1>5
<1>9. kind = "TurnDone" /\ Provider[c].codex # "none" => e.id # None
  BY <1>2, <1>5 DEF None
<1> QED
  BY <1>2, <1>4, <1>6, <1>7, <1>8, <1>9 DEF e

LEMMA SendLane ==
    ASSUME PaneInv, NEW c \in Clis, NEW kind \in Kind, NEW mark, NEW phase,
           Send(c, kind, mark, phase)
    PROVE  /\ LaneOf(c) \in Clis \union {0}
           /\ \A l \in Clis \union {0} : l # LaneOf(c) => lane'[l] = lane[l]
           /\ Len(lane[LaneOf(c)]) \in Nat /\ Len(lane'[LaneOf(c)]) \in Nat
           /\ Len(lane[LaneOf(c)]) <= Len(lane'[LaneOf(c)])
           /\ \A j \in 1..Len(lane[LaneOf(c)]) : lane'[LaneOf(c)][j] = lane[LaneOf(c)][j]
           /\ \A k \in Len(lane[LaneOf(c)]) + 1..Len(lane'[LaneOf(c)]) :
                lane'[LaneOf(c)][k] \in Reported(c, kind, mark)
           /\ Unrepeated(c) => Len(lane'[LaneOf(c)]) <= Len(lane[LaneOf(c)]) + 1
<1> DEFINE Items == Events \union Marks
           L == LaneOf(c)
           q == lane[L]
           R == Reported(c, kind, mark)
           e == Event(c, kind, mark)
           again == [e EXCEPT !.codex = "none"]
<1>1. lane \in [Clis \union {0} -> Seq(Items)] /\ L \in Clis \union {0}
  BY DEF PaneInv, LaneOf
<1> HIDE DEF Items
<1>2. PICK n \in Copies, o \in Copies :
        lane' = [lane EXCEPT ![L] = q \o [i \in 1..n |-> e] \o Notify(c, kind, mark, o)]
  BY DEF Send
<1> DEFINE note == Notify(c, kind, mark, o)
<1>3. n \in {0, 1, 2} /\ ("repeat" \notin Faults => n \in {0, 1}) /\ o \in {0, 1, 2}
  BY <1>2 DEF Copies
<1>4. e \in R /\ (kind = "TurnDone" => again \in R)
  BY DEF Reported
<1>5. note \in Seq(R) /\ Len(note) \in {0, 1, 2} /\ (~Provider[c].notify => Len(note) = 0)
  <2> DEFINE y == [i \in 1..o |-> again]
  <2>1. /\ note \in {<<>>, y} /\ (~Provider[c].notify => note = <<>>)
        /\ kind # "TurnDone" => note = <<>>
    BY Zenon DEF Notify
  <2>2. kind = "TurnDone" => y \in Seq(R) /\ Len(y) = o
    <3> HIDE DEF R, again
    <3>1. kind = "TurnDone" => y \in [1..o -> R] /\ o \in Nat
      BY <1>3, <1>4
    <3> QED
      BY <3>1, SeqDef, LenProperties
  <2> HIDE DEF R, note, y
  <2>3. <<>> \in Seq(R) /\ Len(<<>>) = 0
    OBVIOUS
  <2> QED
    BY <1>3, <2>1, <2>2, <2>3
<1> HIDE DEF R, e, again, note, L
<1>6. q \in Seq(Items) /\ R \subseteq Items
  <2>1. R \subseteq Events
    BY ReportedFields DEF R
  <2> QED
    BY <1>1, <2>1 DEF Items
<1> DEFINE m == [i \in 1..n |-> e]
<1>7. m \in Seq(R) /\ Len(m) = n
  <2>1. m \in [1..n -> R] /\ n \in Nat
    BY <1>3, <1>4
  <2> QED
    BY <2>1, SeqDef, LenProperties
<1> HIDE DEF m, q
<1>8. q \in Seq(Items) /\ m \in Seq(Items) /\ note \in Seq(Items)
  <2>1. \A s \in Seq(R) : s \in Seq(Items)
    BY <1>6
  <2> QED
    BY <1>5, <1>6, <1>7, <2>1
<1>9. /\ Len(q) \in Nat /\ q \o m \in Seq(Items) /\ Len(q \o m) = Len(q) + n
      /\ \A j \in 1..Len(q) + n : (q \o m)[j] = IF j <= Len(q) THEN q[j] ELSE m[j - Len(q)]
  <2>1. /\ q \o m \in Seq(Items) /\ Len(q \o m) = Len(q) + Len(m)
        /\ \A j \in 1..Len(q) + Len(m) : (q \o m)[j] = IF j <= Len(q) THEN q[j] ELSE m[j - Len(q)]
    BY <1>8, ConcatProperties
  <2> QED
    BY <1>7, <1>8, <2>1, LenProperties
<1> DEFINE p == q \o m
<1> HIDE DEF p
<1>10. /\ Len(p \o note) = Len(q) + n + Len(note)
       /\ \A j \in 1..Len(q) + n + Len(note) :
            (p \o note)[j] = IF j <= Len(q) + n THEN p[j] ELSE note[j - (Len(q) + n)]
  <2>1. p \in Seq(Items) /\ Len(p) = Len(q) + n
    BY <1>9 DEF p
  <2>2. /\ Len(p \o note) = Len(p) + Len(note)
        /\ \A j \in 1..Len(p) + Len(note) :
             (p \o note)[j] = IF j <= Len(p) THEN p[j] ELSE note[j - Len(p)]
    BY <1>8, <2>1, ConcatProperties
  <2> QED
    BY <2>1, <2>2
<1>11. lane'[L] = p \o note /\ \A l \in Clis \union {0} : l # L => lane'[l] = lane[l]
  BY <1>1, <1>2 DEF p, q, m, note
<1>12. \A j \in 1..Len(q) : (p \o note)[j] = q[j]
  <2> SUFFICES ASSUME NEW j \in 1..Len(q) PROVE (p \o note)[j] = q[j]
    OBVIOUS
  <2>0. n \in Nat /\ Len(note) \in Nat /\ Len(q) \in Nat
    BY <1>3, <1>5, <1>9
  <2>1. /\ j \in 1..Len(q) + n + Len(note) /\ j <= Len(q) + n
        /\ j \in 1..Len(q) + n /\ j <= Len(q)
    <3> DEFINE a == Len(q)
               b == Len(note)
    <3> HIDE DEF a, b
    <3>1. a \in Nat /\ b \in Nat /\ n \in Nat /\ j \in 1..a
      BY <2>0 DEF a, b
    <3>2. j \in 1..a + n + b /\ j <= a + n /\ j \in 1..a + n /\ j <= a
      BY <3>1
    <3> QED
      BY <3>2 DEF a, b
  <2> QED
    BY <1>9, <1>10, <2>1 DEF p
<1>13. ASSUME NEW k \in Len(q) + 1..Len(p \o note) PROVE (p \o note)[k] \in R
  <2>1. k \in 1..Len(q) + n + Len(note)
    BY <1>3, <1>5, <1>9, <1>10
  <2>2. CASE k <= Len(q) + n
    <3>1. k \in 1..Len(q) + n /\ ~(k <= Len(q)) /\ k - Len(q) \in 1..n
      BY <1>3, <1>5, <1>9, <2>1, <2>2
    <3>2. (p \o note)[k] = m[k - Len(q)]
      BY <1>9, <1>10, <2>1, <2>2, <3>1 DEF p
    <3>3. m[k - Len(q)] \in R
      BY <1>7, <3>1, ElementOfSeq
    <3> QED
      BY <3>2, <3>3
  <2>3. CASE ~(k <= Len(q) + n)
    <3>1. k - (Len(q) + n) \in 1..Len(note)
      BY <1>3, <1>5, <1>9, <2>1, <2>3
    <3>2. (p \o note)[k] = note[k - (Len(q) + n)]
      BY <1>10, <2>1, <2>3
    <3>3. note[k - (Len(q) + n)] \in R
      BY <1>5, <3>1, ElementOfSeq
    <3> QED
      BY <3>2, <3>3
  <2> QED
    BY <2>2, <2>3
<1>14. Unrepeated(c) => Len(p \o note) <= Len(q) + 1
  BY <1>3, <1>5, <1>9, <1>10 DEF Unrepeated
<1>15. Len(p \o note) \in Nat /\ Len(q) <= Len(p \o note)
  BY <1>3, <1>5, <1>9, <1>10
<1> DEFINE pn == p \o note
<1> HIDE DEF pn
<1> QED
  BY <1>1, <1>9, <1>11, <1>12, <1>13, <1>14, <1>15 DEF L, q, R, pn

\* The turns, conversations and numbers of a CLI after it has sent.
LEMMA SendCli ==
    ASSUME PaneInv, InSession, setup' = setup, NEW c \in Clis, NEW kind \in Kind, NEW mark,
           NEW phase \in Phase, Sends(c, kind, mark, phase)
    PROVE  /\ PaneInv' /\ InSession'
           /\ \A d \in Clis : /\ cli[d].sent <= cli'[d].sent
                              /\ \A b \in Nat : InPast(d, b) => InPast(d, b)'
           /\ cli'[c].sent = cli[c].sent + 1
           /\ kind = "TurnDone" /\ mark # "busy"
                => \A b \in Nat : b <= cli[c].turn => InPast(c, b)'
<1>1. PaneInv' /\ Send(c, kind, mark, phase)
  BY SendFits DEF Sends
<1>2. UNCHANGED Clis
  BY SameSetup
<1> DEFINE v == [phase |-> phase, sent |-> cli[c].sent + 1,
                 session |-> cli[c].session + (IF mark = "new" THEN 1 ELSE 0),
                 turn |-> cli[c].turn + (IF kind = "PromptSubmit" THEN 1 ELSE 0)]
<1>3. cli' = [cli EXCEPT ![c] = v] /\ cli \in [Clis -> Agents]
  BY <1>1 DEF Send, PaneInv
<1>4. cli'[c] = v /\ \A d \in Clis : d # c => cli'[d] = cli[d]
  BY <1>3
<1>5. \A d \in Clis : cli[d].sent \in Nat /\ cli[d].turn \in Nat /\ cli[d].session \in Nat
  BY <1>3 DEF Agents
<1>6. /\ v.phase = phase /\ v.sent = cli[c].sent + 1
      /\ v.session = cli[c].session + (IF mark = "new" THEN 1 ELSE 0)
      /\ v.turn = cli[c].turn + (IF kind = "PromptSubmit" THEN 1 ELSE 0)
  OBVIOUS
<1> HIDE DEF v
<1>7. setup.sessions \in Nat
  <2>1. Setup(setup)
    BY PaneConstants DEF PaneInv
  <2> QED
    BY <2>1 DEF Setup
<1>8. InSession'
  <2>1. v.session <= setup.sessions /\ v.session > 0
    BY <1>6, <1>7 DEF Sends
  <2> QED
    BY <1>2, <1>4, <2>1 DEF InSession
<1>9. ASSUME NEW b \in Nat, InPast(c, b) PROVE InPast(c, b)'
  <2>1. b <= cli[c].turn /\ (cli[c].phase \in {"working", "blocked"} => b < cli[c].turn)
    BY <1>9 DEF InPast
  <2>2. b <= v.turn /\ (phase \in {"working", "blocked"} => b < v.turn)
    BY <1>5, <1>6, <2>1 DEF Sends
  <2> QED
    BY <1>4, <1>6, <2>2 DEF InPast
<1>10. \A d \in Clis : /\ cli[d].sent <= cli'[d].sent
                       /\ \A b \in Nat : InPast(d, b) => InPast(d, b)'
  <2>1. ASSUME NEW d \in Clis, d # c, NEW b \in Nat, InPast(d, b) PROVE InPast(d, b)'
    BY <1>4, <2>1 DEF InPast
  <2>2. \A d \in Clis : cli[d].sent <= cli'[d].sent
    BY <1>4, <1>5, <1>6
  <2> QED
    BY <1>9, <2>1, <2>2
<1>11. ASSUME kind = "TurnDone", mark # "busy", NEW b \in Nat, b <= cli[c].turn
       PROVE  InPast(c, b)'
  <2>1. v.turn = cli[c].turn /\ v.phase = "idle"
    BY <1>5, <1>6, <1>11 DEF Sends
  <2> QED
    BY <1>4, <1>11, <2>1 DEF InPast
<1> QED
  BY <1>1, <1>4, <1>6, <1>8, <1>10, <1>11

\* What a step does that delivers nothing: turns that ended stay ended, and what is
\* added to a lane is newer than everything the pane can have heard of.
Moves ==
    /\ \A c \in Clis : /\ cli[c].sent <= cli'[c].sent
                       /\ \A b \in Nat : InPast(c, b) => InPast(c, b)'
    /\ \A l \in Clis \union {0} :
        /\ Len(lane[l]) <= Len(lane'[l])
        /\ \A j \in 1..Len(lane[l]) : lane'[l][j] = lane[l][j]
        /\ \A k \in Len(lane[l]) + 1..Len(lane'[l]) : \A y \in Events :
            y = lane'[l][k] => /\ y.seq # None => y.seq > cli[y.from].sent
                               /\ Final(y) => ~InPast(y.from, y.body)

LEMMA LanesSend ==
    ASSUME PaneInv, InSession, Lanes, setup' = setup, NEW c \in Clis, NEW kind \in Kind,
           NEW mark, NEW phase \in Phase, Sends(c, kind, mark, phase)
    PROVE  Lanes' /\ Moves
<1>0. PICK L : L = LaneOf(c)
  OBVIOUS
<1> DEFINE n == Len(lane[L])
           R == Reported(c, kind, mark)
<1>1. /\ PaneInv' /\ cli' \in [Clis -> Agents] /\ cli'[c].sent = cli[c].sent + 1
      /\ \A d \in Clis : /\ cli[d].sent <= cli'[d].sent
                         /\ \A b \in Nat : InPast(d, b) => InPast(d, b)'
      /\ kind = "TurnDone" /\ mark # "busy"
           => \A b \in Nat : b <= cli[c].turn => InPast(c, b)'
  <2>1. Clis' = Clis /\ Agents' = Agents
    BY SameSetup DEF Agents, Phase
  <2>2. PaneInv'
    BY SendCli
  <2>3. cli' \in [Clis -> Agents]
    BY <2>1, <2>2 DEF PaneInv
  <2> QED
    BY <2>2, <2>3, SendCli
<1>2. Send(c, kind, mark, phase)
  BY DEF Sends
<1>3. /\ L \in Clis \union {0} /\ n \in Nat /\ Len(lane'[L]) \in Nat /\ n <= Len(lane'[L])
      /\ \A l \in Clis \union {0} : l # L => lane'[l] = lane[l]
      /\ \A j \in 1..n : lane'[L][j] = lane[L][j]
      /\ \A k \in n + 1..Len(lane'[L]) : lane'[L][k] \in R
      /\ Unrepeated(c) => Len(lane'[L]) <= n + 1
  BY <1>0, <1>2, SendLane
<1>4. \A l \in Clis \union {0}, e \in Events : Sent(l, e) => Sent(l, e)'
  BY <1>1, PastKept
<1>5. cli[c].sent \in Nat /\ cli[c].turn \in Nat /\ cli'[c].sent \in Nat
  BY <1>1 DEF PaneInv, Agents
<1>6. ASSUME NEW y \in R
      PROVE  /\ y \in Events /\ y.from = c /\ Sent(L, y)'
             /\ Final(y) <=> kind = "TurnDone" /\ mark # "busy"
             /\ Final(y) => y.body = cli[c].turn
             /\ y.seq = IF Sequenced(c) THEN cli[c].sent + 1 ELSE None
             /\ \A x \in R : x.id = y.id /\ StreamKey(x) = StreamKey(y)
  <2>1. ASSUME NEW x \in R
        PROVE  /\ x \in Events /\ x.from = c
               /\ Final(x) <=> kind = "TurnDone" /\ mark # "busy"
               /\ Final(x) => x.body = cli[c].turn
               /\ x.seq = IF Sequenced(c) THEN cli[c].sent + 1 ELSE None
               /\ x.id = Event(c, kind, mark).id
               /\ Final(x) /\ Provider[c].codex # "none" => x.id # None
               /\ StreamKey(x) = KeyAt(c, cli[c].session + IF mark = "new" THEN 1 ELSE 0)
    BY ReportedFields
  <2>2. StreamKey(y) \in StreamKeys
    BY <2>1 DEF Sends, StreamKeys
  <2>3. y.seq <= cli'[c].sent /\ (y.seq # None <=> Sequenced(c))
    BY <1>1, <1>5, <2>1 DEF None
  <2>4. Final(y) => InPast(c, y.body)'
    <3>1. Final(y) => y.body = cli[c].turn /\ y.body \in Nat /\ y.body <= cli[c].turn
      BY <1>5, <2>1
    <3> QED
      BY <1>1, <2>1, <3>1
  <2>5. UNCHANGED <<Provider, StreamKeys>> /\ \A d : /\ Sequenced(d)' <=> Sequenced(d)
                                                     /\ LaneOf(d)' = LaneOf(d)
    BY SameSetup
  <2>6. Sent(L, y)'
    <3>1. y.from = c /\ (Final(y) /\ Provider[c].codex # "none" => y.id # None)
      BY <2>1
    <3>2. (L = LaneOf(y.from))'
      BY <1>0, <2>5, <3>1
    <3>3. (StreamKey(y) \in StreamKeys)'
      BY <2>2, <2>5
    <3> QED
      BY <2>3, <2>4, <2>5, <3>1, <3>2, <3>3, Zenon DEF Sent
  <2> QED
    BY <2>1, <2>6
<1> HIDE DEF n, R
<1>7. ASSUME NEW k \in n + 1..Len(lane'[L]), NEW y \in Events, y = lane'[L][k]
      PROVE  /\ Sent(L, y)'
             /\ \A j \in 1..k - 1 : \A x \in Events :
                 x = lane'[L][j] /\ x.from = y.from
                 => /\ Follows(x, y)
                    /\ Twins(x, y) => j > n /\ ~Unrepeated(x.from)
                    /\ j > n /\ Final(y) => Twins(x, y)
  <2>1. y \in R /\ y.from = c
    BY <1>3, <1>6, <1>7
  <2> SUFFICES ASSUME NEW j \in 1..k - 1, NEW x \in Events, x = lane'[L][j], x.from = c
               PROVE  /\ Follows(x, y)
                      /\ Twins(x, y) => j > n /\ ~Unrepeated(c)
                      /\ j > n /\ Final(y) => Twins(x, y)
    BY <1>6, <2>1
  <2>2. CASE j <= n
    <3>1. j \in 1..n /\ x = lane[L][j]
      BY <1>3, <2>2
    <3>2. Sent(L, x)
      BY <1>3, <3>1 DEF Lanes, n
    <3>3. x.seq \in Nat /\ x.seq <= cli[c].sent /\ (x.seq # None <=> Sequenced(c))
      BY <3>2 DEF Sent, Events
    <3>4. x.seq <= y.seq /\ ~(x.seq # None /\ x.seq = y.seq)
      BY <1>5, <1>6, <2>1, <3>3 DEF None
    <3>5. ~Twins(x, y)
      <4>1. SUFFICES ASSUME Final(x), Final(y), x.body = y.body PROVE FALSE
        BY DEF Twins
      <4>2. x.body = cli[c].turn /\ InPast(c, x.body)
        BY <1>6, <2>1, <3>2, <4>1 DEF Sent
      <4>3. cli[c].phase \in {"working", "blocked"}
        BY <1>6, <2>1, <4>1 DEF Sends
      <4> QED
        BY <1>5, <4>2, <4>3 DEF InPast
    <3>6. ~(j > n)
      BY <1>3, <2>2
    <3> QED
      BY <3>4, <3>5, <3>6 DEF Follows
  <2>3. CASE j > n
    <3>1. j \in n + 1..Len(lane'[L]) /\ ~(Len(lane'[L]) <= n + 1)
      BY <1>3, <2>3
    <3>2. x \in R /\ ~Unrepeated(c)
      BY <1>3, <3>1
    <3>3. x.seq = y.seq /\ x.id = y.id /\ StreamKey(x) = StreamKey(y) /\ x.seq \in Nat
      BY <1>6, <2>1, <3>2 DEF Events
    <3>4. Final(y) => Twins(x, y)
      BY <1>6, <2>1, <3>2 DEF Twins
    <3>5. Follows(x, y)
      BY <3>3 DEF Follows
    <3> QED
      BY <2>3, <3>2, <3>4, <3>5
  <2> QED
    BY <1>3, <2>2, <2>3
<1>8. ASSUME NEW k \in n + 1..Len(lane'[L]), NEW y \in Events, y = lane'[L][k]
      PROVE  /\ y.seq # None => y.seq > cli[y.from].sent
             /\ Final(y) => ~InPast(y.from, y.body)
  <2>1. y \in R /\ y.from = c
    BY <1>3, <1>6, <1>8
  <2>2. y.seq # None => y.seq > cli[c].sent
    BY <1>5, <1>6, <2>1
  <2>3. Final(y) => y.body = cli[c].turn /\ cli[c].phase \in {"working", "blocked"}
    BY <1>6, <2>1 DEF Sends
  <2> QED
    BY <1>5, <2>1, <2>2, <2>3 DEF InPast
<1>9. ASSUME NEW l \in Clis \union {0}, l # L
      PROVE  /\ lane'[l] = lane[l] /\ Len(lane[l]) \in Nat
             /\ \A k \in Len(lane[l]) + 1..Len(lane[l]) : FALSE
  <2>1. lane'[l] = lane[l] /\ Len(lane[l]) \in Nat
    BY <1>3, <1>9, LenProperties DEF PaneInv
  <2> QED
    BY <2>1
<1>10. ASSUME NEW l \in Clis \union {0}
       PROVE  /\ Len(lane[l]) <= Len(lane'[l])
              /\ \A j \in 1..Len(lane[l]) : lane'[l][j] = lane[l][j]
              /\ \A k \in Len(lane[l]) + 1..Len(lane'[l]) : \A y \in Events :
                  y = lane'[l][k] => /\ y.seq # None => y.seq > cli[y.from].sent
                                     /\ Final(y) => ~InPast(y.from, y.body)
  <2>1. CASE l = L
    BY <1>3, <1>8, <2>1 DEF n
  <2>2. CASE l # L
    BY <1>9, <2>2
  <2> QED
    BY <2>1, <2>2
<1>11. Moves
  BY <1>1, <1>10, Zenon DEF Moves
<1> QED
  BY <1>1, <1>3, <1>4, <1>7, <1>11, LaneGrows DEF n

\* A step that only moves phases, and at most puts a mark on the terminal's lane.
LEMMA LanesKept ==
    ASSUME PaneInv, PaneInv', InSession, Lanes, setup' = setup,
           \A c \in Clis :
              /\ cli'[c].sent = cli[c].sent /\ cli'[c].turn = cli[c].turn
              /\ cli'[c].session = cli[c].session
              /\ \/ cli'[c].phase \in {cli[c].phase, "up", "off"}
                 \/ {cli[c].phase, cli'[c].phase} \subseteq {"working", "blocked"},
           Len(lane[0]) <= Len(lane'[0]),
           \A j \in 1..Len(lane[0]) : lane'[0][j] = lane[0][j],
           \A k \in Len(lane[0]) + 1..Len(lane'[0]) : lane'[0][k] \notin Events,
           \A l \in Clis \union {0} : l # 0 => lane'[l] = lane[l]
    PROVE  InSession' /\ Lanes' /\ Moves
<1>1. Clis' = Clis /\ Agents' = Agents
  BY SameSetup DEF Agents, Phase
<1>2. \A c \in Clis : cli[c].sent \in Nat /\ cli[c].turn \in Nat
  BY DEF PaneInv, Agents
<1>3. cli' \in [Clis -> Agents]
  BY <1>1 DEF PaneInv
<1>4. InSession'
  <2> SUFFICES ASSUME NEW c \in Clis
               PROVE  /\ cli'[c].session <= setup.sessions
                      /\ cli'[c].phase \in {"idle", "working", "blocked"} => cli'[c].session > 0
    BY <1>1 DEF InSession
  <2> QED
    BY DEF InSession
<1>5. \A c \in Clis : /\ cli[c].sent <= cli'[c].sent
                      /\ \A b \in Nat : InPast(c, b) => InPast(c, b)'
  <2> SUFFICES ASSUME NEW c \in Clis, NEW b \in Nat, InPast(c, b) PROVE InPast(c, b)'
    BY <1>2
  <2> QED
    BY DEF InPast
<1>6. \A l \in Clis \union {0}, e \in Events : Sent(l, e) => Sent(l, e)'
  BY <1>3, <1>5, PastKept
<1>7. ASSUME NEW l \in Clis \union {0}, l # 0
      PROVE  /\ lane'[l] = lane[l] /\ Len(lane[l]) \in Nat
             /\ \A k \in Len(lane[l]) + 1..Len(lane[l]) : FALSE
  <2>1. lane'[l] = lane[l] /\ Len(lane[l]) \in Nat
    BY <1>7, LenProperties DEF PaneInv
  <2> QED
    BY <2>1
<1>8. Moves
  BY <1>5, <1>7 DEF Moves
<1>9. Lanes'
  BY <1>6, LaneGrows
<1> QED
  BY <1>4, <1>8, <1>9

\* A step that delivers nothing.
Undelivered ==
    \/ Launch \/ Exit \/ (\E c \in Clis : Agent(c))
    \/ Submit \/ PressEnter \/ RefreshScreen \/ RefreshBlank \/ FinishUnmarked
    \/ Stall \/ ForgetPrints \/ UNCHANGED vars

LEMMA LanesMove ==
    ASSUME PaneInv, PaneInv', InSession, Lanes, setup' = setup, Undelivered
    PROVE  /\ InSession' /\ Lanes' /\ Moves
           /\ heard' = heard /\ announced' = announced
           /\ streams' \in {streams, Forgotten(streams)}
<1>1. cli \in [Clis -> Agents] /\ lane \in [Clis \union {0} -> Seq(Events \union Marks)]
  BY DEF PaneInv
<1>0. ASSUME NEW x \in Agents, NEW p
      PROVE  /\ [x EXCEPT !.phase = p].sent = x.sent
             /\ [x EXCEPT !.phase = p].turn = x.turn
             /\ [x EXCEPT !.phase = p].session = x.session
             /\ [x EXCEPT !.phase = p].phase = p
  BY DEF Agents
<1>2. ASSUME NEW l \in Clis \union {0}
      PROVE  Len(lane[l]) \in Nat /\ \A k \in Len(lane[l]) + 1..Len(lane[l]) : FALSE
  BY <1>1, LenProperties
<1>3. CASE Launch \/ Exit
  <2>1. UNCHANGED <<streams, heard, announced>>
    BY <1>3 DEF Launch, Exit
  <2>2. PICK m \in Marks : lane' = [lane EXCEPT ![0] = Append(@, m)]
    BY <1>3 DEF Launch, Exit, Mark, Marks
  <2>3. m \notin Events
    BY DEF Marks, Events, Kind
  <2> DEFINE Items == Events \union Marks
             q == lane[0]
  <2>4. q \in Seq(Items) /\ m \in Items
    BY <1>1
  <2> HIDE DEF Items, q
  <2>5. /\ Len(q) \in Nat /\ Len(Append(q, m)) = Len(q) + 1
        /\ Append(q, m)[Len(q) + 1] = m
        /\ \A j \in 1..Len(q) : Append(q, m)[j] = q[j]
    BY <2>4, AppendProperties, LenProperties
  <2>6. lane'[0] = Append(q, m) /\ \A l \in Clis \union {0} : l # 0 => lane'[l] = lane[l]
    BY <1>1, <2>2 DEF q
  <2>7. \A k \in Len(q) + 1..Len(q) + 1 : k = Len(q) + 1
    BY <2>5
  <2>8. /\ Len(lane[0]) <= Len(lane'[0])
        /\ \A j \in 1..Len(lane[0]) : lane'[0][j] = lane[0][j]
        /\ \A k \in Len(lane[0]) + 1..Len(lane'[0]) : lane'[0][k] \notin Events
    BY <2>3, <2>5, <2>6, <2>7 DEF q
  <2>9. ASSUME NEW c \in Clis
        PROVE  /\ cli'[c].sent = cli[c].sent /\ cli'[c].turn = cli[c].turn
               /\ cli'[c].session = cli[c].session
               /\ cli'[c].phase \in {cli[c].phase, "up", "off"}
    <3>1. \/ cli'[c] = cli[c]
          \/ \E p \in {"up", "off"} : cli'[c] = [cli[c] EXCEPT !.phase = p]
      <4>1. CASE Launch
        BY <1>1, <4>1 DEF Launch
      <4>2. CASE Exit
        BY <1>1, <4>2 DEF Exit
      <4> QED
        BY <1>3, <4>1, <4>2
    <3>2. cli[c] \in Agents
      BY <1>1
    <3>3. ASSUME NEW p \in {"up", "off"}, cli'[c] = [cli[c] EXCEPT !.phase = p]
          PROVE  /\ cli'[c].sent = cli[c].sent /\ cli'[c].turn = cli[c].turn
                 /\ cli'[c].session = cli[c].session /\ cli'[c].phase = p
      BY <1>0, <3>2, <3>3
    <3> QED
      BY <3>1, <3>3
  <2> QED
    BY <2>1, <2>6, <2>8, <2>9, LanesKept
<1>4. ASSUME UNCHANGED <<cli, lane>> PROVE InSession' /\ Lanes' /\ Moves
  BY <1>2, <1>4, LanesKept
<1>5. CASE \/ Submit \/ PressEnter \/ RefreshScreen \/ RefreshBlank \/ FinishUnmarked
           \/ Stall \/ ForgetPrints \/ UNCHANGED vars
  <2>1. /\ UNCHANGED <<cli, lane, heard, announced>>
        /\ streams' \in {streams, Forgotten(streams)}
    BY <1>5
       DEF Submit, PressEnter, RefreshScreen, RefreshBlank, FinishUnmarked, Stall,
           ForgetPrints, vars
  <2> QED
    BY <1>4, <2>1
<1>6. ASSUME NEW c \in Clis, SpawnNested(c) \/ AskSilently(c)
      PROVE  /\ InSession' /\ Lanes' /\ Moves
             /\ heard' = heard /\ announced' = announced /\ streams' = streams
  <2>1. UNCHANGED <<lane, streams, heard, announced>>
    BY <1>6 DEF SpawnNested, AskSilently
  <2>2. ASSUME NEW d \in Clis
        PROVE  /\ cli'[d].sent = cli[d].sent /\ cli'[d].turn = cli[d].turn
               /\ cli'[d].session = cli[d].session
               /\ \/ cli'[d].phase \in {cli[d].phase, "up", "off"}
                  \/ {cli[d].phase, cli'[d].phase} \subseteq {"working", "blocked"}
    <3>1. \/ cli'[d] = cli[d]
          \/ cli'[d] = [cli[d] EXCEPT !.phase = "up"]
          \/ \E p \in {"working", "blocked"} :
                /\ cli'[d] = [cli[d] EXCEPT !.phase = p]
                /\ cli[d].phase \in {"working", "blocked"}
      <4>1. CASE SpawnNested(c)
        BY <1>1, <4>1 DEF SpawnNested
      <4>2. CASE AskSilently(c)
        BY <1>1, <4>2 DEF AskSilently
      <4> QED
        BY <1>6, <4>1, <4>2
    <3>2. cli[d] \in Agents
      BY <1>1
    <3>3. ASSUME NEW p, cli'[d] = [cli[d] EXCEPT !.phase = p]
          PROVE  /\ cli'[d].sent = cli[d].sent /\ cli'[d].turn = cli[d].turn
                 /\ cli'[d].session = cli[d].session /\ cli'[d].phase = p
      BY <1>0, <3>2, <3>3
    <3> QED
      BY <3>1, <3>3
  <2> QED
    BY <1>2, <2>1, <2>2, LanesKept
<1>7. ASSUME NEW c \in Clis, NEW kind \in Kind, NEW mark, NEW phase \in Phase,
             Sends(c, kind, mark, phase)
      PROVE  /\ InSession' /\ Lanes' /\ Moves
             /\ heard' = heard /\ announced' = announced /\ streams' = streams
  <2>1. UNCHANGED <<streams, heard, announced>>
    BY <1>7 DEF Sends, Send
  <2> QED
    BY <1>7, <2>1, LanesSend, SendCli
<1>8. CASE \E c \in Clis : Agent(c)
  <2>1. PICK c \in Clis : Agent(c)
    BY <1>8
  <2>2. \/ SpawnNested(c) \/ AskSilently(c)
        \/ \E kind \in Kind, phase \in Phase :
           \E mark \in {"new", "compact", "plain", "legacy", "failed", "busy"} :
               Sends(c, kind, mark, phase)
    BY <2>1, AgentSends
  <2> QED
    BY <1>6, <1>7, <2>2
<1> QED
  BY <1>3, <1>5, <1>8 DEF Undelivered

-----------------------------------------------------------------------------
(* What the pane has taken: a number it has heard, or an end it has        *)
(* notified, is one the gate still knows while a copy is on its way.       *)

Underway(l, j, e) == j \in 1..Len(lane[l]) /\ lane[l][j] = e

\* The streams that lead to one process are its own; a pi bridge has only one.
LEMMA KeyOwner ==
    ASSUME setup \in Setups, NEW e \in Events, NEW f \in Events
    PROVE  /\ StreamKey(e) = StreamKey(f) => e.from = f.from
           /\ e.from = f.from /\ Provider[e.from].source = "pi" => StreamKey(e) = StreamKey(f)
<1>1. \A x \in Events : /\ x.from \in Clis /\ x.source = Provider[x.from].source
                        /\ x.pid = IF Provider[x.from].remote THEN None ELSE x.from
                        /\ x.process = IF Provider[x.from].remote THEN x.from ELSE None
                        /\ x.instance = IF Provider[x.from].source = "pi" THEN x.from ELSE None
  BY DEF Events
<1>2. \A c \in Clis : c # None
  BY SetupFacts DEF None
<1>3. StreamKey(e) = StreamKey(f) => e.pid = f.pid /\ e.process = f.process
  BY DEF StreamKey
<1>4. StreamKey(e) = StreamKey(f) => e.from = f.from
  BY <1>1, <1>2, <1>3
<1>5. ASSUME e.from = f.from, Provider[e.from].source = "pi" PROVE StreamKey(e) = StreamKey(f)
  BY <1>1, <1>2, <1>5 DEF StreamKey
<1> QED
  BY <1>4, <1>5

\* Of two events of one CLI on their way, one follows the other in the same lane.
LEMMA SameLane ==
    ASSUME Lanes, NEW l \in Clis \union {0}, NEW m \in Clis \union {0}, NEW i, NEW j,
           NEW e \in Events, NEW f \in Events, Underway(l, i, e), Underway(m, j, f),
           e.from = f.from
    PROVE  /\ l = m
           /\ i < j => Follows(e, f)
           /\ i # j /\ Twins(e, f) => /\ ~Unrepeated(e.from)
                                      /\ e.seq = f.seq /\ e.id = f.id
                                      /\ StreamKey(e) = StreamKey(f)
<1>1. l = LaneOf(e.from) /\ m = LaneOf(e.from)
  BY DEF Lanes, Underway, Sent
<1>2. i \in 1..Len(lane[l]) /\ lane[l][i] = e /\ j \in 1..Len(lane[l]) /\ lane[l][j] = f
  BY <1>1 DEF Underway
<1>3. i < j => Follows(e, f) /\ (Twins(e, f) => ~Unrepeated(e.from))
  BY <1>2 DEF Lanes
<1>4. j < i => Follows(f, e) /\ (Twins(f, e) => ~Unrepeated(e.from))
  BY <1>2 DEF Lanes
<1>5. Twins(e, f) <=> Twins(f, e)
  BY DEF Twins
<1>6. i = j \/ i < j \/ j < i
  BY <1>2
<1> QED
  BY <1>1, <1>3, <1>4, <1>5, <1>6 DEF Follows

\* What arrives, and where the rest was.
LEMMA ArriveRest ==
    ASSUME PaneInv, Lanes, NEW l \in Clis \union {0}, NEW i, Arrive(l, i)
    PROVE  /\ \A e \in Events : e = lane[l][i] =>
                Underway(l, i, e) /\ Sent(l, e) /\ (Ordered(e.from) => i = 1)
           /\ \A m \in Clis \union {0} : \A j, x :
                LET w == IF m = l THEN Was(j, i) ELSE j IN
                Underway(m, j, x)' =>
                /\ Underway(m, w, x) /\ w \in Nat
                /\ m = l => w # i /\ (i = 1 => i < w)
                /\ \A k, y : Underway(m, k, y)' /\ k < j =>
                    LET v == IF m = l THEN Was(k, i) ELSE k IN Underway(m, v, y) /\ v < w
<1>1. /\ i \in 1..Len(lane[l])
      /\ \A m \in Clis \union {0} : m # l => lane'[m] = lane[m]
      /\ \A j \in 1..Len(lane'[l]) :
           /\ Was(j, i) \in 1..Len(lane[l]) /\ Was(j, i) # i
           /\ lane'[l][j] = lane[l][Was(j, i)]
           /\ \A k \in 1..Len(lane'[l]) : j < k => Was(j, i) < Was(k, i)
  BY ArriveLanes
<1>2. Len(lane[l]) \in Nat
  BY LenProperties DEF PaneInv
<1>3. ASSUME NEW e \in Events, e = lane[l][i]
      PROVE  Underway(l, i, e) /\ Sent(l, e) /\ (Ordered(e.from) => i = 1)
  <2>1. Underway(l, i, e) /\ Sent(l, e)
    BY <1>1, <1>3 DEF Underway, Lanes
  <2>2. i = 1 \/ (l # 0 /\ (~Provider[l].fifo \/ Provider[l].notify))
    <3>1. i = 1 \/ 1 \in 1..i - 1
      BY <1>1, <1>2
    <3> QED
      BY <3>1 DEF Arrive, Overtakes
  <2>3. l = IF Provider[e.from].remote THEN 0 ELSE e.from
    BY <2>1 DEF Sent, LaneOf
  <2> QED
    BY <2>1, <2>2, <2>3 DEF Ordered
<1>4. ASSUME NEW m \in Clis \union {0}, NEW j, NEW x, Underway(m, j, x)'
      PROVE  LET w == IF m = l THEN Was(j, i) ELSE j IN
             /\ Underway(m, w, x) /\ w \in Nat
             /\ m = l => w # i /\ (i = 1 => i < w)
             /\ \A k, y : Underway(m, k, y)' /\ k < j =>
                 LET v == IF m = l THEN Was(k, i) ELSE k IN Underway(m, v, y) /\ v < w
  <2>1. CASE m = l
    <3>1. j \in 1..Len(lane'[l]) /\ lane'[l][j] = x
      BY <1>4, <2>1 DEF Underway
    <3>2. Was(j, i) \in 1..Len(lane[l]) /\ Was(j, i) # i /\ Underway(l, Was(j, i), x)
      BY <1>1, <3>1 DEF Underway
    <3>3. ASSUME NEW k, NEW y, Underway(l, k, y)', k < j
          PROVE  Underway(l, Was(k, i), y) /\ Was(k, i) < Was(j, i)
      BY <1>1, <3>1, <3>3 DEF Underway
    <3>4. Was(j, i) \in Nat /\ (i = 1 => i < Was(j, i))
      BY <1>2, <3>2
    <3> QED
      BY <2>1, <3>2, <3>3, <3>4
  <2>2. CASE m # l
    <3>1. lane'[m] = lane[m]
      BY <1>1, <2>2
    <3>2. Underway(m, j, x) /\ j \in Nat
      BY <1>4, <3>1 DEF Underway
    <3> QED
      BY <2>2, <3>1, <3>2 DEF Underway
  <2> QED
    BY <2>1, <2>2
<1> QED
  BY <1>3, <1>4

\* The gate would refuse the event's number, or its id.
Passed(e) == StreamKey(e) \in DOMAIN streams /\ e.seq <= streams[StreamKey(e)].seq
Remembered(e) ==
    StreamKey(e) \in DOMAIN streams /\ Contains(streams[StreamKey(e)].ids, e.id)
Said(e) == \E n \in 1..Len(announced) : announced[n] = <<e.from, e.body>>

\* Numbers that keep their order: one stream, or one way into the pane.
InLine(c) == Provider[c].source = "pi" \/ Ordered(c)

Numbers ==
    /\ heard \in [Clis -> Seq(Nat)]
    /\ \A c \in Clis : \A n \in 1..Len(heard[c]) : heard[c][n] <= cli[c].sent
    /\ Room => \A l \in Clis \union {0} : \A j : \A e \in Events :
        Underway(l, j, e) /\ e.seq # None /\ InLine(e.from) =>
        \A n \in 1..Len(heard[e.from]) : e.seq <= heard[e.from][n] => Passed(e)

\* Of an end the pane has notified: it is past; and where a copy of it is on its way,
\* copies are possible, and the gate knows its number, or its id, with nothing of the
\* CLI ahead of it that could push the id out.
Ends ==
    /\ announced \in Seq(Clis \X Nat)
    /\ \A n \in 1..Len(announced) : InPast(announced[n][1], announced[n][2])
    /\ \A l \in Clis \union {0} : \A j : \A e \in Events :
        Underway(l, j, e) /\ Final(e) /\ Said(e) =>
        /\ ~Unrepeated(e.from)
        /\ Room /\ Sequenced(e.from) => Passed(e)
        /\ Room /\ Ordered(e.from) /\ Provider[e.from].codex # "none" =>
            /\ Remembered(e)
            /\ \A i : \A f \in Events :
                Underway(l, i, f) /\ i < j /\ f.from = e.from => Twins(f, e)

LEMMA EndsFrame ==
    ASSUME setup' = setup, announced' \in Seq(Clis \X Nat),
           \A n \in 1..Len(announced') : InPast(announced[n][1], announced[n][2])',
           \A l \in Clis \union {0} : \A j : \A e \in Events :
               Underway(l, j, e)' /\ Final(e) /\ Said(e)' =>
               /\ ~Unrepeated(e.from)
               /\ Room /\ Sequenced(e.from) => Passed(e)'
               /\ Room /\ Ordered(e.from) /\ Provider[e.from].codex # "none" =>
                   /\ Remembered(e)'
                   /\ \A i : \A f \in Events :
                       Underway(l, i, f)' /\ i < j /\ f.from = e.from => Twins(f, e)
    PROVE  Ends'
<1>1. /\ UNCHANGED <<Provider, Clis, Events, Room>>
      /\ \A c : /\ Unrepeated(c)' <=> Unrepeated(c)
                /\ Ordered(c)' <=> Ordered(c)
                /\ Sequenced(c)' <=> Sequenced(c)
  BY SameSetup
<1>2. \A e, f : Final(e)' = Final(e) /\ Twins(f, e)' = Twins(f, e)
  BY DEF Final, Twins
<1> QED
  BY <1>1, <1>2 DEF Ends

\* The gate and the history stay, and lanes grow.
LEMMA TakenMove ==
    ASSUME PaneInv, PaneInv', setup' = setup, Lanes, Numbers, Ends, Moves,
           heard' = heard, announced' = announced, streams' \in {streams, Forgotten(streams)}
    PROVE  Numbers' /\ Ends' /\ DOMAIN streams' = DOMAIN streams
<1>1. /\ UNCHANGED <<Provider, Clis, Events, Room>>
      /\ \A c : /\ Unrepeated(c)' <=> Unrepeated(c)
                /\ Ordered(c)' <=> Ordered(c)
                /\ Sequenced(c)' <=> Sequenced(c)
  BY SameSetup
<1>2. /\ DOMAIN streams' = DOMAIN streams
      /\ \A k \in DOMAIN streams : /\ streams'[k].seq = streams[k].seq
                                   /\ streams'[k].ids = streams[k].ids
  BY ForgottenFits DEF PaneInv
<1>3. \A e \in Events : /\ Passed(e) => Passed(e)'
                        /\ Remembered(e) => Remembered(e)'
                        /\ Said(e)' <=> Said(e)
  <2> SUFFICES ASSUME NEW e \in Events
               PROVE  /\ Passed(e) => Passed(e)'
                      /\ Remembered(e) => Remembered(e)'
                      /\ Said(e)' <=> Said(e)
    OBVIOUS
  <2>1. Passed(e) => Passed(e)'
    BY <1>2 DEF Passed, StreamKey
  <2>2. Remembered(e) => Remembered(e)'
    BY <1>2, Zenon DEF Remembered, StreamKey
  <2>3. Said(e)' <=> Said(e)
    BY DEF Said
  <2> QED
    BY <2>1, <2>2, <2>3
<1>4. \A c : InLine(c)' <=> InLine(c)
  BY <1>1 DEF InLine
<1>5. \A c \in Clis : cli[c].sent \in Nat /\ cli'[c].sent \in Nat /\ cli[c].sent <= cli'[c].sent
  BY <1>1 DEF PaneInv, Agents, Moves
<1>6. ASSUME NEW l \in Clis \union {0}, NEW j, NEW e \in Events, Underway(l, j, e)'
      PROVE  /\ \/ Underway(l, j, e)
                \/ /\ e.seq # None => e.seq > cli[e.from].sent
                   /\ Final(e) => ~InPast(e.from, e.body)
             /\ \A i : i < j /\ Underway(l, j, e) => \A f : Underway(l, i, f)' => Underway(l, i, f)
  <2>1. Len(lane[l]) \in Nat /\ Len(lane'[l]) \in Nat
    BY <1>1, LenProperties DEF PaneInv
  <2>2. j \in 1..Len(lane'[l]) /\ e = lane'[l][j]
    BY <1>6 DEF Underway
  <2>3. CASE j \in 1..Len(lane[l])
    <3>1. Underway(l, j, e)
      BY <2>2, <2>3 DEF Underway, Moves
    <3>2. ASSUME NEW i, i < j, NEW f, Underway(l, i, f)' PROVE Underway(l, i, f)
      <4>1. i \in 1..Len(lane'[l]) /\ f = lane'[l][i]
        BY <3>2 DEF Underway
      <4>2. i \in 1..Len(lane[l])
        BY <2>1, <2>3, <3>2, <4>1
      <4> QED
        BY <4>1, <4>2 DEF Underway, Moves
    <3> QED
      BY <3>1, <3>2
  <2>4. CASE j \notin 1..Len(lane[l])
    <3>1. j \in Len(lane[l]) + 1..Len(lane'[l])
      BY <2>1, <2>2, <2>4
    <3> QED
      BY <2>2, <2>4, <3>1 DEF Moves, Underway
  <2> QED
    BY <2>3, <2>4
<1>7. Numbers'
  <2>1. heard' \in [Clis -> Seq(Nat)]' /\ heard \in [Clis -> Seq(Nat)]
    BY <1>1 DEF Numbers
  <2>2. ASSUME NEW c \in Clis, NEW n \in 1..Len(heard[c])
        PROVE  heard[c][n] \in Nat /\ heard[c][n] <= cli[c].sent /\ heard[c][n] <= cli'[c].sent
    <3>1. heard[c][n] \in Nat
      BY <2>1, ElementOfSeq
    <3>2. heard[c][n] <= cli[c].sent
      BY DEF Numbers
    <3> QED
      BY <1>5, <3>1, <3>2
  <2>3. ASSUME Room, NEW l \in Clis \union {0}, NEW j, NEW e \in Events, Underway(l, j, e)',
               e.seq # None, InLine(e.from), NEW n \in 1..Len(heard[e.from]),
               e.seq <= heard[e.from][n]
        PROVE  Passed(e)'
    <3>1. e.from \in Clis /\ e.seq \in Nat
      BY DEF Events
    <3>2. ~(e.seq > cli[e.from].sent)
      BY <1>5, <2>2, <2>3, <3>1
    <3>3. Underway(l, j, e)
      BY <1>6, <2>3, <3>2
    <3> QED
      BY <1>3, <2>3, <3>3 DEF Numbers
  <2> QED
    BY <1>1, <1>4, <2>1, <2>2, <2>3 DEF Numbers
<1>8. Ends'
  <2>1. announced' \in Seq(Clis \X Nat) /\ announced \in Seq(Clis \X Nat)
    BY <1>1 DEF Ends
  <2>2. ASSUME NEW n \in 1..Len(announced)
        PROVE  InPast(announced[n][1], announced[n][2])'
    <3>1. announced[n] \in Clis \X Nat
      BY <2>1, ElementOfSeq
    <3> DEFINE c == announced[n][1]
               b == announced[n][2]
    <3>2. c \in Clis /\ b \in Nat /\ InPast(c, b)
      BY <3>1 DEF Ends
    <3> QED
      BY <3>2 DEF Moves, InPast
  <2>3. ASSUME NEW l \in Clis \union {0}, NEW j, NEW e \in Events, Underway(l, j, e)',
               Final(e), Said(e)
        PROVE  Underway(l, j, e)
    <3>1. PICK n \in 1..Len(announced) : announced[n] = <<e.from, e.body>>
      BY <2>3 DEF Said
    <3>2. InPast(e.from, e.body)
      BY <3>1 DEF Ends
    <3> QED
      BY <1>6, <2>3, <3>2
  <2>4. ASSUME NEW l \in Clis \union {0}, NEW j, NEW e \in Events, Underway(l, j, e)',
               Final(e), Said(e)
        PROVE  /\ ~Unrepeated(e.from)
               /\ Room /\ Sequenced(e.from) => Passed(e)'
               /\ Room /\ Ordered(e.from) /\ Provider[e.from].codex # "none" =>
                   /\ Remembered(e)'
                   /\ \A i : \A f \in Events :
                       Underway(l, i, f)' /\ i < j /\ f.from = e.from => Twins(f, e)
    <3>1. Underway(l, j, e)
      BY <2>3, <2>4
    <3>2. \A i : i < j => \A f : Underway(l, i, f)' => Underway(l, i, f)
      BY <1>6, <2>4, <3>1
    <3> QED
      BY <1>3, <2>4, <3>1, <3>2 DEF Ends
  <2>5. \A m \in Clis \union {0} : \A j : \A e \in Events :
               Underway(m, j, e)' /\ Final(e) /\ Said(e)' =>
               /\ ~Unrepeated(e.from)
               /\ Room /\ Sequenced(e.from) => Passed(e)'
               /\ Room /\ Ordered(e.from) /\ Provider[e.from].codex # "none" =>
                   /\ Remembered(e)'
                   /\ \A k : \A f \in Events :
                       Underway(m, k, f)' /\ k < j /\ f.from = e.from => Twins(f, e)
    BY <1>3, <2>4
  <2> QED
    BY <1>1, <2>1, <2>2, <2>5, EndsFrame
<1> QED
  BY <1>2, <1>7, <1>8

\* A mark or a refused event arrives: the gate and the history stay, a lane shrinks.
LEMMA TakenMark ==
    ASSUME PaneInv, setup' = setup, Lanes, Numbers, Ends, NEW l \in Clis \union {0}, NEW i,
           Arrive(l, i), UNCHANGED <<streams, heard, announced>>
    PROVE  Numbers' /\ Ends'
<1>1. /\ UNCHANGED <<Provider, Clis, Events, Room>>
      /\ \A c : /\ Unrepeated(c)' <=> Unrepeated(c)
                /\ Ordered(c)' <=> Ordered(c)
                /\ Sequenced(c)' <=> Sequenced(c)
  BY SameSetup
<1>2. cli' = cli /\ streams' = streams /\ heard' = heard /\ announced' = announced
  BY DEF Arrive
<1>3. \A e \in Events : /\ Passed(e)' <=> Passed(e)
                        /\ Remembered(e)' <=> Remembered(e)
                        /\ Said(e)' <=> Said(e)
  BY Zenon DEF Passed, Remembered, Said, StreamKey
<1>4. \A c : InLine(c)' <=> InLine(c)
  BY <1>1 DEF InLine
<1>5. ASSUME NEW m \in Clis \union {0}, NEW j, NEW x, Underway(m, j, x)'
      PROVE  \E w : /\ Underway(m, w, x)
                    /\ \A k, y : Underway(m, k, y)' /\ k < j =>
                        \E v : Underway(m, v, y) /\ v < w
  <2> DEFINE at(k) == IF m = l THEN Was(k, i) ELSE k
  <2>1. /\ Underway(m, at(j), x)
        /\ \A k, y : Underway(m, k, y)' /\ k < j => Underway(m, at(k), y) /\ at(k) < at(j)
    BY <1>5, ArriveRest
  <2> HIDE DEF at
  <2> QED
    BY <2>1, Zenon
<1>6. Numbers'
  <2>1. ASSUME Room, NEW m \in Clis \union {0}, NEW j, NEW e \in Events, Underway(m, j, e)',
               e.seq # None, InLine(e.from), NEW n \in 1..Len(heard[e.from]),
               e.seq <= heard[e.from][n]
        PROVE  Passed(e)'
    BY <1>3, <1>5, <2>1 DEF Numbers
  <2>2. /\ heard' \in [Clis -> Seq(Nat)]'
        /\ \A c \in Clis : \A n \in 1..Len(heard'[c]) : heard'[c][n] <= cli'[c].sent
    BY <1>1, <1>2 DEF Numbers
  <2> QED
    BY <1>1, <1>4, <2>1, <2>2 DEF Numbers
<1>7. Ends'
  <2>1. /\ announced' \in Seq(Clis \X Nat)
        /\ \A n \in 1..Len(announced') : InPast(announced[n][1], announced[n][2])'
    BY <1>1, <1>2 DEF Ends, InPast
  <2>2. ASSUME NEW m \in Clis \union {0}, NEW j, NEW e \in Events, Underway(m, j, e)',
               Final(e), Said(e)
        PROVE  /\ ~Unrepeated(e.from)
               /\ Room /\ Sequenced(e.from) => Passed(e)'
               /\ Room /\ Ordered(e.from) /\ Provider[e.from].codex # "none" =>
                   /\ Remembered(e)'
                   /\ \A k : \A f \in Events :
                       Underway(m, k, f)' /\ k < j /\ f.from = e.from => Twins(f, e)
    <3>1. PICK w : /\ Underway(m, w, e)
                   /\ \A k, y : Underway(m, k, y)' /\ k < j => \E v : Underway(m, v, y) /\ v < w
      BY <1>5, <2>2
    <3> QED
      BY <1>3, <2>2, <3>1 DEF Ends
  <2>5. \A m \in Clis \union {0} : \A j : \A e \in Events :
               Underway(m, j, e)' /\ Final(e) /\ Said(e)' =>
               /\ ~Unrepeated(e.from)
               /\ Room /\ Sequenced(e.from) => Passed(e)'
               /\ Room /\ Ordered(e.from) /\ Provider[e.from].codex # "none" =>
                   /\ Remembered(e)'
                   /\ \A k : \A f \in Events :
                       Underway(m, k, f)' /\ k < j /\ f.from = e.from => Twins(f, e)
    BY <1>3, <2>2
  <2> QED
    BY <1>1, <2>1, <2>2, <2>5, EndsFrame
<1> QED
  BY <1>6, <1>7

\* The pane takes an event, or refuses it: what it has passed stays passed.
LEMMA PassedStays ==
    ASSUME PaneInv, Room, DOMAIN streams \subseteq StreamKeys, NEW e \in Events,
           StreamKey(e) \in StreamKeys, HandleAiHook(e), PaneInv',
           NEW x \in Events
    PROVE  /\ Passed(x) => Passed(x)'
           /\ Remembered(x) /\ (StreamKey(x) # StreamKey(e) \/ ~Applied(e)) => Remembered(x)'
           /\ Applied(e) /\ e.seq # None /\ StreamKey(x) = StreamKey(e) /\ x.seq <= e.seq
                => Passed(x)'
           /\ Applied(e) /\ e.id # None /\ StreamKey(x) = StreamKey(e) /\ x.id = e.id
                => Remembered(x)'
           /\ e.seq # None /\ Passed(e) => ~Applied(e)
           /\ e.id # None /\ Remembered(e) => ~Applied(e)
<1> DEFINE key == StreamKey(x)
           own == StreamKey(e)
<1>1. /\ DOMAIN streams \subseteq DOMAIN streams'
      /\ \A k \in DOMAIN streams :
           /\ k # own \/ ~Applied(e) => streams'[k] = streams[k]
           /\ streams[k].seq <= streams'[k].seq
      /\ Applied(e) => /\ own \in DOMAIN streams'
                       /\ e.seq # None => streams'[own].seq = e.seq
                       /\ e.id # None => Contains(streams'[own].ids, e.id)
      /\ own \in DOMAIN streams /\ e.seq # None /\ e.seq <= streams[own].seq => ~Applied(e)
      /\ own \in DOMAIN streams /\ e.id # None /\ Contains(streams[own].ids, e.id)
            => ~Applied(e)
  BY GateTakes
<1>2. \A k \in DOMAIN streams : k \in DOMAIN streams' =>
          streams[k].seq \in Nat /\ streams'[k].seq \in Nat
  BY DEF PaneInv, Table, Stream
<1>3. x.seq \in Nat
  BY DEF Events
<1>4. key' = key
  BY DEF StreamKey
<1>5. /\ Passed(x)' <=> key \in DOMAIN streams' /\ x.seq <= streams'[key].seq
      /\ Remembered(x)' <=> key \in DOMAIN streams' /\ Contains(streams'[key].ids, x.id)
  BY <1>4, Zenon DEF Passed, Remembered
<1>6. /\ Passed(x) <=> key \in DOMAIN streams /\ x.seq <= streams[key].seq
      /\ Remembered(x) <=> key \in DOMAIN streams /\ Contains(streams[key].ids, x.id)
      /\ Passed(e) <=> own \in DOMAIN streams /\ e.seq <= streams[own].seq
      /\ Remembered(e) <=> own \in DOMAIN streams /\ Contains(streams[own].ids, e.id)
  BY Zenon DEF Passed, Remembered
<1> HIDE DEF key, own
<1>7. Passed(x) => Passed(x)'
  BY <1>1, <1>2, <1>3, <1>5, <1>6
<1>8. Remembered(x) /\ (key # own \/ ~Applied(e)) => Remembered(x)'
  BY <1>1, <1>5, <1>6, Zenon
<1>9. Applied(e) /\ e.seq # None /\ key = own /\ x.seq <= e.seq => Passed(x)'
  BY <1>1, <1>5
<1>10. Applied(e) /\ e.id # None /\ key = own /\ x.id = e.id => Remembered(x)'
  BY <1>1, <1>5, Zenon
<1>11. (e.seq # None /\ Passed(e) => ~Applied(e)) /\ (e.id # None /\ Remembered(e) => ~Applied(e))
  BY <1>1, <1>6, Zenon
<1> QED
  BY <1>7, <1>8, <1>9, <1>10, <1>11 DEF key, own

LEMMA NumbersTake ==
    ASSUME PaneInv, PaneInv', setup' = setup, Lanes, DOMAIN streams \subseteq StreamKeys,
           Numbers, NEW l \in Clis \union {0}, NEW i, Arrive(l, i), NEW e \in Events,
           lane[l][i] = e, HandleAiHook(e)
    PROVE  /\ Numbers'
           /\ Room /\ (Sequenced(e.from) => InLine(e.from)) /\ Applied(e) /\ e.seq # None
                => \A n \in 1..Len(heard[e.from]) : heard[e.from][n] < e.seq
<1> DEFINE c == e.from
<1>1. /\ UNCHANGED <<Provider, Clis, Events, Room>>
      /\ \A d : Ordered(d)' <=> Ordered(d)
  BY SameSetup
<1>2. cli' = cli
  BY DEF Arrive
<1>3. \A d : InLine(d)' <=> InLine(d)
  BY <1>1 DEF InLine
<1>4. Underway(l, i, e) /\ Sent(l, e) /\ (Ordered(c) => i = 1)
  BY ArriveRest
<1>5. c \in Clis /\ e.seq \in Nat /\ StreamKey(e) \in StreamKeys
  BY <1>4 DEF Events, Sent
<1>6. e.seq <= cli[c].sent /\ (e.seq # None <=> Sequenced(c))
  BY <1>4 DEF Sent
<1>7. heard' = IF Applied(e) /\ e.seq # None THEN [heard EXCEPT ![c] = Append(@, e.seq)]
               ELSE heard
  BY HandleEffects
<1>8. heard \in [Clis -> Seq(Nat)]
  BY DEF Numbers
<1> DEFINE q == heard[c]
<1>9. q \in Seq(Nat) /\ Len(q) \in Nat /\ \A n \in 1..Len(q) : q[n] \in Nat
  BY <1>5, <1>8, LenProperties, ElementOfSeq
<1> HIDE DEF c, q
<1>10. /\ Append(q, e.seq) \in Seq(Nat) /\ Len(Append(q, e.seq)) = Len(q) + 1
       /\ Append(q, e.seq)[Len(q) + 1] = e.seq
       /\ \A n \in 1..Len(q) : Append(q, e.seq)[n] = q[n]
  BY <1>5, <1>9, AppendProperties
<1>11. /\ heard' \in [Clis -> Seq(Nat)]
       /\ \A d \in Clis : \A n \in 1..Len(heard'[d]) :
            \/ n \in 1..Len(heard[d]) /\ heard'[d][n] = heard[d][n]
            \/ d = c /\ heard'[d][n] = e.seq /\ Applied(e) /\ e.seq # None
  <2>1. CASE Applied(e) /\ e.seq # None
    <3>1. heard' = [heard EXCEPT ![c] = Append(q, e.seq)]
      BY <1>7, <2>1 DEF q
    <3>2. heard' \in [Clis -> Seq(Nat)] /\ heard'[c] = Append(q, e.seq)
      BY <1>5, <1>8, <1>10, <3>1 DEF c
    <3>3. \A d \in Clis : d # c => heard'[d] = heard[d]
      BY <1>8, <3>1
    <3>4. \A n \in 1..Len(q) + 1 : n \in 1..Len(q) \/ n = Len(q) + 1
      BY <1>9
    <3> QED
      BY <1>10, <2>1, <3>2, <3>3, <3>4 DEF q
  <2>2. CASE ~(Applied(e) /\ e.seq # None)
    BY <1>7, <1>8, <2>2
  <2> QED
    BY <2>1, <2>2
<1>12. \A d \in Clis : \A n \in 1..Len(heard'[d]) : heard'[d][n] <= cli'[d].sent
  BY <1>2, <1>6, <1>11 DEF Numbers
<1>13. ASSUME Room, NEW m \in Clis \union {0}, NEW j, NEW x \in Events, Underway(m, j, x)',
              x.seq # None, InLine(x.from), NEW n \in 1..Len(heard'[x.from]),
              x.seq <= heard'[x.from][n]
       PROVE  Passed(x)'
  <2> DEFINE w == IF m = l THEN Was(j, i) ELSE j
  <2>1. Underway(m, w, x) /\ (m = l => w # i /\ (i = 1 => i < w))
    BY <1>13, ArriveRest
  <2> HIDE DEF w
  <2>2. x.from \in Clis /\ x.seq \in Nat
    BY DEF Events
  <2>3. CASE n \in 1..Len(heard[x.from]) /\ heard'[x.from][n] = heard[x.from][n]
    <3>1. Passed(x)
      BY <1>13, <2>1, <2>3 DEF Numbers
    <3> QED
      BY <1>5, <1>13, <3>1, PassedStays
  <2>4. CASE x.from = c /\ heard'[x.from][n] = e.seq /\ Applied(e) /\ e.seq # None
    <3>1. x.from = e.from /\ x.seq <= e.seq
      BY <1>13, <2>4 DEF c
    <3>2. StreamKey(x) = StreamKey(e)
      <4>1. CASE Provider[c].source = "pi"
        BY <2>4, <4>1, KeyOwner DEF PaneInv, c
      <4>2. CASE Ordered(c)
        <5>1. m = l /\ (i < w => Follows(e, x))
          BY <1>4, <2>1, <3>1, SameLane
        <5>2. Follows(e, x)
          BY <1>4, <2>1, <4>2, <5>1
        <5>3. e.seq = x.seq
          BY <1>5, <2>2, <3>1, <5>2 DEF Follows
        <5> QED
          BY <2>4, <5>2, <5>3 DEF Follows
      <4> QED
        BY <1>13, <2>4, <4>1, <4>2 DEF InLine
    <3> QED
      BY <1>5, <1>13, <2>4, <3>1, <3>2, PassedStays
  <2> QED
    BY <1>11, <2>2, <2>3, <2>4
<1>14. Numbers'
  <2>1. heard' \in [Clis -> Seq(Nat)]'
    BY <1>1, <1>11
  <2> QED
    BY <1>1, <1>3, <1>12, <1>13, <2>1 DEF Numbers
<1>15. ASSUME Room, Sequenced(c) => InLine(c), Applied(e), e.seq # None, NEW n \in 1..Len(q)
       PROVE  q[n] < e.seq
  <2>1. ~(e.seq <= q[n])
    <3>1. e.seq <= q[n] => Passed(e)
      BY <1>4, <1>6, <1>15 DEF Numbers, c, q
    <3> QED
      BY <1>5, <1>15, <3>1, PassedStays
  <2> QED
    BY <1>5, <1>9, <2>1
<1> QED
  BY <1>14, <1>15 DEF c, q

LEMMA EndsTake ==
    ASSUME PaneInv, PaneInv', setup' = setup, Lanes, DOMAIN streams \subseteq StreamKeys,
           Ends, NEW l \in Clis \union {0}, NEW i, Arrive(l, i), NEW e \in Events,
           lane[l][i] = e, HandleAiHook(e)
    PROVE  /\ Ends'
           /\ \/ Unrepeated(e.from)
              \/ Room /\ (Sequenced(e.from)
                          \/ (Ordered(e.from) /\ Provider[e.from].codex # "none"))
              => ~(Applied(e) /\ Final(e) /\ Said(e))
<1> DEFINE c == e.from
<1>1. cli' = cli
  BY DEF Arrive
<1>2. Underway(l, i, e) /\ Sent(l, e) /\ (Ordered(c) => i = 1)
  BY ArriveRest
<1>3. c \in Clis /\ e.body \in Nat /\ StreamKey(e) \in StreamKeys
  BY <1>2 DEF Events, Sent
<1>4. /\ e.seq # None <=> Sequenced(c)
      /\ Final(e) => InPast(c, e.body)
      /\ Final(e) /\ Provider[c].codex # "none" => e.id # None
  BY <1>2 DEF Sent
<1>5. announced' = IF Applied(e) /\ Final(e) THEN Append(announced, <<c, e.body>>) ELSE announced
  BY HandleEffects
<1> DEFINE p == <<c, e.body>>
           P == Clis \X Nat
<1>6. announced \in Seq(P) /\ p \in P
  BY <1>3 DEF Ends
<1> HIDE DEF c, P, p
<1>7. Len(announced) \in Nat
  BY <1>6, LenProperties
<1>8. /\ Append(announced, p) \in Seq(P) /\ Len(Append(announced, p)) = Len(announced) + 1
      /\ Append(announced, p)[Len(announced) + 1] = p
      /\ \A n \in 1..Len(announced) : Append(announced, p)[n] = announced[n]
  BY <1>6, AppendProperties
<1>9. /\ announced' \in Seq(P)
      /\ \A n \in 1..Len(announced') :
           \/ n \in 1..Len(announced) /\ announced'[n] = announced[n]
           \/ announced'[n] = p /\ Applied(e) /\ Final(e)
  <2>1. CASE Applied(e) /\ Final(e)
    <3>1. announced' = Append(announced, p)
      BY <1>5, <2>1 DEF p
    <3>2. \A n \in 1..Len(announced) + 1 : n \in 1..Len(announced) \/ n = Len(announced) + 1
      BY <1>7
    <3> QED
      BY <1>8, <2>1, <3>1, <3>2
  <2>2. CASE ~(Applied(e) /\ Final(e))
    BY <1>5, <1>6, <2>2
  <2> QED
    BY <2>1, <2>2
<1>10. ASSUME NEW n \in 1..Len(announced') PROVE InPast(announced[n][1], announced[n][2])'
  <2>1. ASSUME NEW r, InPast(r[1], r[2]), announced'[n] = r
        PROVE  InPast(announced[n][1], announced[n][2])'
    BY <1>1, <2>1 DEF InPast
  <2>2. CASE n \in 1..Len(announced) /\ announced'[n] = announced[n]
    <3>1. InPast(announced[n][1], announced[n][2])
      BY <2>2 DEF Ends
    <3> QED
      BY <2>1, <2>2, <3>1
  <2>3. CASE announced'[n] = p /\ Final(e)
    <3>1. InPast(p[1], p[2])
      BY <1>4, <2>3 DEF p
    <3> QED
      BY <2>1, <2>3, <3>1
  <2> QED
    BY <1>9, <2>2, <2>3
<1>11. ASSUME NEW x \in Events, Said(x)'
       PROVE  \/ Said(x)
              \/ Applied(e) /\ Final(e) /\ x.from = e.from /\ x.body = e.body
  <2>1. PICK n \in 1..Len(announced') : announced'[n] = <<x.from, x.body>>
    BY <1>11 DEF Said
  <2> QED
    BY <1>9, <2>1 DEF Said, p, c
<1>12. ASSUME NEW m \in Clis \union {0}, NEW j, NEW x \in Events, Underway(m, j, x)',
              Final(x), Said(x)'
       PROVE  /\ ~Unrepeated(x.from)
              /\ Room /\ Sequenced(x.from) => Passed(x)'
              /\ Room /\ Ordered(x.from) /\ Provider[x.from].codex # "none" =>
                  /\ Remembered(x)'
                  /\ \A k : \A f \in Events :
                      Underway(m, k, f)' /\ k < j /\ f.from = x.from => Twins(f, x)
  <2> DEFINE at(k) == IF m = l THEN Was(k, i) ELSE k
             w == at(j)
  <2>1. /\ Underway(m, w, x) /\ (m = l => w # i /\ (i = 1 => i < w))
        /\ \A k, y : Underway(m, k, y)' /\ k < j => Underway(m, at(k), y) /\ at(k) < w
    BY <1>12, ArriveRest
  <2>2. x.from \in Clis /\ x.seq \in Nat
    BY DEF Events
  <2>3. ASSUME Ordered(c), m = l, NEW k, NEW y, Underway(m, k, y)'
        PROVE  i < at(k)
    BY <1>2, <2>3, ArriveRest
  <2> HIDE DEF at, w
  <2>4. CASE Said(x)
    <3>1. /\ ~Unrepeated(x.from)
          /\ Room /\ Sequenced(x.from) => Passed(x)
          /\ Room /\ Ordered(x.from) /\ Provider[x.from].codex # "none" =>
              /\ Remembered(x)
              /\ \A k : \A f \in Events :
                  Underway(m, k, f) /\ k < w /\ f.from = x.from => Twins(f, x)
      BY <1>12, <2>1, <2>4 DEF Ends
    <3>2. Room /\ Sequenced(x.from) => Passed(x)'
      BY <1>3, <3>1, PassedStays
    <3>3. ASSUME Room, Ordered(x.from), Provider[x.from].codex # "none" PROVE Remembered(x)'
      <4>1. CASE StreamKey(x) # StreamKey(e)
        BY <1>3, <3>1, <3>3, <4>1, PassedStays
      <4>2. CASE StreamKey(x) = StreamKey(e)
        <5>1. x.from = e.from
          BY <4>2, KeyOwner DEF PaneInv
        <5>2. m = l
          BY <1>2, <2>1, <5>1, SameLane
        <5>3. i < w
          BY <1>2, <2>1, <3>3, <5>1, <5>2 DEF c
        <5>4. Twins(e, x)
          BY <1>2, <3>1, <3>3, <5>1, <5>2, <5>3
        <5>5. e.id = x.id /\ e.id # None
          <6>1. e.id = x.id
            BY <1>2, <2>1, <5>1, <5>2, <5>3, <5>4, SameLane DEF Follows
          <6> QED
            BY <1>4, <3>3, <5>1, <5>4, <6>1 DEF Twins, c
        <5>6. Remembered(e)
          BY <3>1, <3>3, <4>2, <5>5 DEF Remembered
        <5> QED
          BY <1>3, <3>1, <3>3, <5>5, <5>6, PassedStays
      <4> QED
        BY <4>1, <4>2
    <3>4. ASSUME Room, Ordered(x.from), Provider[x.from].codex # "none", NEW k,
                 NEW f \in Events, Underway(m, k, f)', k < j, f.from = x.from
          PROVE  Twins(f, x)
      BY <2>1, <3>1, <3>4
    <3> QED
      BY <3>1, <3>2, <3>3, <3>4
  <2>5. CASE Applied(e) /\ Final(e) /\ x.from = e.from /\ x.body = e.body
    <3>1. Twins(e, x) /\ x.from = c
      BY <1>12, <2>5 DEF Twins, c
    <3>2. m = l /\ i # w
      BY <1>2, <2>1, <2>5, SameLane
    <3>3. ~Unrepeated(c) /\ e.seq = x.seq /\ e.id = x.id /\ StreamKey(e) = StreamKey(x)
      <4>1. /\ Underway(l, i, e) /\ Underway(m, w, x) /\ e.from = x.from
            /\ i \in Int /\ w \in Int
        BY <1>2, <2>1, <2>5 DEF Underway
      <4>2. i # w /\ Twins(e, x) => /\ ~Unrepeated(e.from)
                                    /\ e.seq = x.seq /\ e.id = x.id
                                    /\ StreamKey(e) = StreamKey(x)
        BY <4>1, SameLane
      <4> QED
        BY <3>1, <3>2, <4>2 DEF c
    <3>4. Room /\ Sequenced(c) => Passed(x)'
      BY <1>3, <1>4, <2>2, <2>5, <3>3, PassedStays
    <3>5. Room /\ Provider[c].codex # "none" => Remembered(x)'
      BY <1>3, <1>4, <2>5, <3>3, PassedStays
    <3>6. ASSUME Ordered(c), NEW k, NEW f \in Events, Underway(m, k, f)', k < j, f.from = c
          PROVE  Twins(f, x)
      <4>1. Underway(l, at(k), f) /\ at(k) < w /\ i < at(k)
        BY <2>1, <2>3, <3>2, <3>6
      <4>2. /\ i \in 1..Len(lane[l]) /\ lane[l][i] = e
            /\ at(k) \in 1..Len(lane[l]) /\ lane[l][at(k)] = f
            /\ w \in 1..Len(lane[l]) /\ lane[l][w] = x
        BY <1>2, <2>1, <3>2, <4>1 DEF Underway
      <4> QED
        BY <3>1, <3>6, <4>1, <4>2 DEF Lanes
    <3> QED
      BY <3>1, <3>3, <3>4, <3>5, <3>6
  <2> QED
    BY <1>11, <1>12, <2>4, <2>5
<1>13. Ends'
  BY <1>9, <1>10, <1>12, EndsFrame DEF P
<1>14. ASSUME \/ Unrepeated(c)
              \/ Room /\ (Sequenced(c) \/ (Ordered(c) /\ Provider[c].codex # "none")),
              Applied(e), Final(e), Said(e)
       PROVE  FALSE
  <2>1. /\ ~Unrepeated(c)
        /\ Room /\ Sequenced(c) => Passed(e)
        /\ Room /\ Ordered(c) /\ Provider[c].codex # "none" => Remembered(e)
    BY <1>2, <1>14 DEF Ends, c
  <2>2. CASE Room /\ Sequenced(c)
    BY <1>3, <1>4, <1>14, <2>1, <2>2, PassedStays
  <2>3. CASE Room /\ Ordered(c) /\ Provider[c].codex # "none"
    BY <1>3, <1>4, <1>14, <2>1, <2>3, PassedStays
  <2> QED
    BY <1>14, <2>1, <2>2, <2>3
<1> QED
  BY <1>13, <1>14 DEF c

-----------------------------------------------------------------------------
(* Numbers advance, and an end is notified once.                           *)

\* The inductive invariant: the types, what is on its way, and what was taken.
History ==
    /\ PaneInv /\ InSession /\ Lanes
    /\ DOMAIN streams \subseteq StreamKeys
    /\ Numbers /\ Ends

LEMMA HistoryInit == Init => History
<1> SUFFICES ASSUME Init PROVE History
  OBVIOUS
<1>1. PaneInv
  BY InitFits
<1>2. \A c \in Clis : cli[c].session = 0 /\ cli[c].phase = "off"
  BY DEF Init
<1>3. setup.sessions \in Nat
  <2>1. Setup(setup)
    BY PaneConstants DEF Init
  <2> QED
    BY <2>1 DEF Setup
<1>4. InSession
  BY <1>2, <1>3 DEF InSession
<1>5. \A l \in Clis \union {0} : lane[l] = <<>> /\ 1..Len(lane[l]) = {}
  <2>1. \A l \in Clis \union {0} : lane[l] = <<>>
    BY DEF Init
  <2>2. 1..Len(<<>>) = {}
    OBVIOUS
  <2> QED
    BY <2>1, <2>2
<1>6. Lanes
  BY <1>5 DEF Lanes
<1>7. DOMAIN streams \subseteq StreamKeys
  BY DEF Init
<1>8. \A l \in Clis \union {0} : \A j, e : ~Underway(l, j, e)
  BY <1>5 DEF Underway
<1>9. 1..Len(<<>>) = {}
  OBVIOUS
<1>10. Numbers
  <2>1. heard = [c \in Clis |-> <<>>]
    BY DEF Init
  <2> QED
    BY <1>8, <1>9, <2>1 DEF Numbers
<1>11. Ends
  <2>1. announced = <<>> /\ announced \in Seq(Clis \X Nat)
    <3> DEFINE P == Clis \X Nat
    <3> HIDE DEF P
    <3>1. announced = <<>> /\ announced \in Seq(P)
      BY DEF Init
    <3> QED
      BY <3>1 DEF P
  <2> QED
    BY <1>8, <1>9, <2>1, Zenon DEF Ends
<1> QED
  BY <1>1, <1>4, <1>6, <1>7, <1>10, <1>11 DEF History

\* A step keeps the invariant, and what it adds to the history is an event the pane
\* took: with a number beyond the ones heard, or of an end not yet notified.
Takes(e) ==
    /\ heard' = IF Applied(e) /\ e.seq # None
                THEN [heard EXCEPT ![e.from] = Append(@, e.seq)] ELSE heard
    /\ announced' = IF Applied(e) /\ Final(e)
                    THEN Append(announced, <<e.from, e.body>>) ELSE announced
    /\ Room /\ (Sequenced(e.from) => InLine(e.from)) /\ Applied(e) /\ e.seq # None
         => \A n \in 1..Len(heard[e.from]) : heard[e.from][n] < e.seq
    /\ \/ Unrepeated(e.from)
       \/ Room /\ (Sequenced(e.from) \/ (Ordered(e.from) /\ Provider[e.from].codex # "none"))
       => ~(Applied(e) /\ Final(e) /\ Said(e))

LEMMA ArriveTakes ==
    ASSUME History, PaneInv', setup' = setup, NEW l \in Clis \union {0}, NEW i, Arrive(l, i),
           NEW e \in Events, lane[l][i] = e, HandleAiHook(e)
    PROVE  Numbers' /\ Ends' /\ Takes(e)
<1>1. PaneInv /\ InSession /\ Lanes /\ DOMAIN streams \subseteq StreamKeys /\ Numbers /\ Ends
  BY DEF History
<1>2. /\ heard' = IF Applied(e) /\ e.seq # None
                  THEN [heard EXCEPT ![e.from] = Append(@, e.seq)] ELSE heard
      /\ announced' = IF Applied(e) /\ Final(e)
                      THEN Append(announced, <<e.from, e.body>>) ELSE announced
  BY <1>1, HandleEffects
<1>3. /\ Numbers'
      /\ Room /\ (Sequenced(e.from) => InLine(e.from)) /\ Applied(e) /\ e.seq # None
           => \A n \in 1..Len(heard[e.from]) : heard[e.from][n] < e.seq
  BY <1>1, NumbersTake
<1>4. /\ Ends'
      /\ \/ Unrepeated(e.from)
         \/ Room /\ (Sequenced(e.from)
                     \/ (Ordered(e.from) /\ Provider[e.from].codex # "none"))
         => ~(Applied(e) /\ Final(e) /\ Said(e))
  BY <1>1, EndsTake
<1> QED
  BY <1>2, <1>3, <1>4, Zenon DEF Takes

LEMMA HistoryNext ==
    ASSUME History, [Next]_vars
    PROVE  /\ History' /\ setup' = setup
           /\ \/ heard' = heard /\ announced' = announced
              \/ \E e \in Events : Takes(e)
<1>1. PaneInv /\ InSession /\ Lanes /\ DOMAIN streams \subseteq StreamKeys /\ Numbers /\ Ends
  BY DEF History
<1>2. PaneInv' /\ setup' = setup
  BY <1>1, NextFits
<1>3. StreamKeys' = StreamKeys
  BY <1>2, SameSetup
<1>4. CASE Undelivered
  <2>1. /\ InSession' /\ Lanes' /\ Moves
        /\ heard' = heard /\ announced' = announced
        /\ streams' \in {streams, Forgotten(streams)}
    BY <1>1, <1>2, <1>4, LanesMove
  <2>2. Numbers' /\ Ends' /\ DOMAIN streams' = DOMAIN streams
    BY <1>1, <1>2, <2>1, TakenMove
  <2> QED
    BY <1>1, <1>2, <1>3, <2>1, <2>2 DEF History
<1>5. ASSUME NEW l \in DOMAIN lane, NEW i, Arrive(l, i)
      PROVE  /\ History'
             /\ \/ heard' = heard /\ announced' = announced
                \/ \E e \in Events : Takes(e)
  <2>1. l \in Clis \union {0}
    BY <1>1 DEF PaneInv
  <2>2. Lanes'
    BY <1>1, <1>2, <1>5, <2>1, LaneShrinks
  <2>3. InSession'
    <3>1. cli' = cli /\ Clis' = Clis
      BY <1>2, <1>5, SameSetup DEF Arrive
    <3> QED
      BY <1>1, <1>2, <3>1 DEF InSession
  <2>4. CASE OnCommandStart \/ OnCommandFinished \/ Refuse(lane[l][i])
    <3>1. UNCHANGED <<streams, heard, announced>>
      BY <2>4 DEF OnCommandStart, OnCommandFinished, Refuse
    <3>2. Numbers' /\ Ends'
      BY <1>1, <1>2, <1>5, <2>1, <3>1, TakenMark
    <3> QED
      BY <1>1, <1>2, <1>3, <2>2, <2>3, <3>1, <3>2 DEF History
  <2>5. CASE lane[l][i] \in Events /\ HandleAiHook(lane[l][i])
    <3>1. PICK e \in Events : lane[l][i] = e /\ HandleAiHook(e)
      BY <2>5
    <3>2. DOMAIN streams' \subseteq DOMAIN streams \union {StreamKey(e)}
      BY <1>1, <3>1, HandleEffects
    <3>3. StreamKey(e) \in StreamKeys
      BY <1>1, <1>5, <2>1, <3>1, ArriveRest DEF Sent
    <3>4. Numbers' /\ Ends' /\ Takes(e)
      BY <1>2, <1>5, <2>1, <3>1, ArriveTakes
    <3>5. History'
      BY <1>1, <1>2, <1>3, <2>2, <2>3, <3>2, <3>3, <3>4 DEF History
    <3> QED
      BY <3>4, <3>5
  <2> QED
    BY <1>1, <1>2, <1>5, <2>4, <2>5, ArriveFits
<1> QED
  <2>1. CASE UNCHANGED vars
    BY <1>2, <1>4, <2>1 DEF Undelivered
  <2>2. CASE Next
    <3>1. CASE Undelivered
      BY <1>2, <1>4, <3>1
    <3>2. CASE \E l \in DOMAIN lane : \E i \in DOMAIN lane[l] : Arrive(l, i)
      BY <1>2, <1>5, <3>2
    <3> QED
      BY <2>2, <3>1, <3>2, Zenon DEF Next, Undelivered
  <2> QED
    BY <2>1, <2>2

\* The panes whose numbers the gate orders: it can track every stream the agents can
\* name, and a numbered CLI has one stream or sends through one ordered lane.
Numbered == Room /\ \A c \in Clis : Sequenced(c) => InLine(c)

\* In such a pane an event stamped by our bridge is applied at most once and never
\* after a later one of its process, for any number of agents, local or remote, nested
\* or in turn, whatever is lost, repeated or reordered.
THEOREM NumbersInOrder == Spec => [](Numbered => SequenceAdvances)
<1> DEFINE Inv == History /\ (Numbered => SequenceAdvances)
<1>1. Init => Inv
  <2>1. Init => \A c \in Clis : heard[c] = <<>>
    BY DEF Init
  <2>2. 2..Len(<<>>) = {}
    OBVIOUS
  <2> QED
    BY <2>1, <2>2, HistoryInit DEF SequenceAdvances
<1>2. Inv /\ [Next]_vars => Inv'
  <2> SUFFICES ASSUME History, Numbered => SequenceAdvances, [Next]_vars, Numbered'
               PROVE  SequenceAdvances'
    BY HistoryNext
  <2>1. /\ setup' = setup
        /\ \/ heard' = heard /\ announced' = announced
           \/ \E e \in Events : Takes(e)
    BY HistoryNext
  <2>2. Clis' = Clis /\ (Room' <=> Room) /\ \A c : /\ Sequenced(c)' <=> Sequenced(c)
                                                   /\ InLine(c)' <=> InLine(c)
    BY <2>1, SameSetup DEF InLine
  <2>3. Numbered /\ SequenceAdvances
    BY <2>2 DEF Numbered
  <2>4. CASE heard' = heard
    BY <2>2, <2>3, <2>4 DEF SequenceAdvances
  <2>5. CASE heard' # heard
    <3>1. PICK e \in Events : Takes(e)
      BY <2>1, <2>5
    <3> DEFINE c == e.from
               q == heard[c]
    <3>2. c \in Clis /\ e.seq \in Nat /\ heard \in [Clis -> Seq(Nat)]
      BY DEF Events, History, Numbers
    <3>3. /\ heard' = [heard EXCEPT ![c] = Append(q, e.seq)]
          /\ \A n \in 1..Len(q) : q[n] < e.seq
      <4>1. Applied(e) /\ e.seq # None
        BY <2>5, <3>1, Zenon DEF Takes
      <4> QED
        BY <2>3, <3>1, <3>2, <4>1 DEF Takes, Numbered
    <3> HIDE DEF c
    <3>4. q \in Seq(Nat) /\ Len(q) \in Nat
      BY <3>2, LenProperties
    <3>5. \A i \in 2..Len(q) : q[i - 1] < q[i]
      BY <2>3, <3>2 DEF SequenceAdvances
    <3>6. heard'[c] = Append(q, e.seq) /\ \A d \in Clis : d # c => heard'[d] = heard[d]
      BY <3>2, <3>3
    <3> HIDE DEF q
    <3>7. /\ Len(Append(q, e.seq)) = Len(q) + 1
          /\ Append(q, e.seq)[Len(q) + 1] = e.seq
          /\ \A n \in 1..Len(q) : Append(q, e.seq)[n] = q[n]
      BY <3>2, <3>4, AppendProperties
    <3>8. ASSUME NEW i \in 2..Len(q) + 1 PROVE Append(q, e.seq)[i - 1] < Append(q, e.seq)[i]
      <4>1. CASE i = Len(q) + 1
        <5>1. i - 1 \in 1..Len(q)
          BY <3>4, <4>1
        <5> QED
          BY <3>3, <3>7, <4>1, <5>1
      <4>2. CASE i # Len(q) + 1
        <5>1. i - 1 \in 1..Len(q) /\ i \in 1..Len(q) /\ i \in 2..Len(q)
          BY <3>4, <4>2
        <5> QED
          BY <3>5, <3>7, <5>1
      <4> QED
        BY <4>1, <4>2
    <3>9. ASSUME NEW d \in Clis, NEW i \in 2..Len(heard'[d]) PROVE heard'[d][i - 1] < heard'[d][i]
      BY <2>3, <3>6, <3>7, <3>8, <3>9 DEF SequenceAdvances
    <3> QED
      BY <2>2, <3>9 DEF SequenceAdvances
  <2> QED
    BY <2>4, <2>5
<1>3. Inv => (Numbered => SequenceAdvances)
  OBVIOUS
<1> QED
  BY <1>1, <1>2, <1>3, PTL DEF Spec

-----------------------------------------------------------------------------
(* Native hooks and the notify program: a report of either may come late,  *)
(* while the gate still has the id of the end it reports.                  *)

\* The turns a report of an end may be late: while it is on its way, reports of turns
\* so near are all that the gate can take after the id of this one.
Reach == (MaxIds - 1) \div 2

\* The id is kept, with nothing but ids of near turns taken since.
Near(ids, a) ==
    \E p \in 1..Len(ids) :
        /\ ids[p] = a
        /\ \A q \in p + 1..Len(ids) : ids[q] \in a - Reach..a + Reach

\* A new id of a near turn does not push the kept one out.
LEMMA NearStays ==
    ASSUME NEW s \in Stream, IsInjective(s.ids), NEW e, Stamped(e), e.kind # "SessionStart",
           NEW a \in Nat, Near(s.ids, a),
           e.id # None => e.id \in a - Reach..a + Reach /\ ~Contains(s.ids, e.id)
    PROVE  Near(IdsAfter(s, e), a)
<1>1. PICK ids : ids = s.ids
  OBVIOUS
<1>2. ids \in Seq(Nat) /\ Len(ids) \in Nat /\ Len(ids) <= MaxIds /\ e.id \in Nat
  BY <1>1, LenProperties DEF Stream, Ids, Stamped
<1>3. MaxIds \in Nat /\ MaxIds > 0
  BY GateConstants
<1>4. PICK b \in Nat : b = Reach
  BY <1>3 DEF Reach
<1>5. 2 * b <= MaxIds - 1
  BY <1>3, <1>4 DEF Reach
<1>6. PICK p \in 1..Len(ids) : ids[p] = a /\ \A q \in p + 1..Len(ids) : ids[q] \in a - b..a + b
  BY <1>1, <1>4 DEF Near
<1>7. CASE e.id = None
  <2>1. IdsAfter(s, e) = s.ids
    BY <1>7 DEF IdsAfter
  <2> QED
    BY <2>1
<1>8. CASE e.id # None /\ Len(ids) # MaxIds
  <2>1. IdsAfter(s, e) = Append(ids, e.id)
    BY <1>1, <1>8 DEF IdsAfter
  <2>2. /\ Len(Append(ids, e.id)) = Len(ids) + 1
        /\ Append(ids, e.id)[Len(ids) + 1] = e.id
        /\ \A n \in 1..Len(ids) : Append(ids, e.id)[n] = ids[n]
    BY <1>2, AppendProperties
  <2> DEFINE n == Append(ids, e.id)
  <2> HIDE DEF n
  <2>3. p \in 1..Len(n) /\ n[p] = a
    BY <1>2, <1>6, <2>2 DEF n
  <2>4. ASSUME NEW q \in p + 1..Len(n) PROVE n[q] \in a - b..a + b
    <3>1. (q \in p + 1..Len(ids) /\ q \in 1..Len(ids)) \/ q = Len(ids) + 1
      <4>1. Len(n) = Len(ids) + 1
        BY <2>2 DEF n
      <4> QED
        BY <1>2, <4>1
    <3> QED
      BY <1>4, <1>6, <1>8, <2>2, <3>1 DEF n
  <2> QED
    BY <1>4, <2>1, <2>3, <2>4 DEF Near, n
<1>9. CASE e.id # None /\ Len(ids) = MaxIds
  <2>1. IdsAfter(s, e) = Append(Tail(ids), e.id)
    BY <1>1, <1>9 DEF IdsAfter
  <2>2. ids # <<>>
    BY <1>2, <1>3, <1>9
  <2>3. /\ Tail(ids) \in Seq(Nat) /\ Len(Tail(ids)) = Len(ids) - 1
        /\ \A n \in 1..Len(Tail(ids)) : Tail(ids)[n] = ids[n + 1]
    BY <1>2, <2>2, HeadTailProperties
  <2>4. PICK t : t = Tail(ids)
    OBVIOUS
  <2>5. /\ Len(Append(t, e.id)) = Len(t) + 1
        /\ Append(t, e.id)[Len(t) + 1] = e.id
        /\ \A n \in 1..Len(t) : Append(t, e.id)[n] = t[n]
    BY <1>2, <2>3, <2>4, AppendProperties
  <2>6. PICK n : n = Append(t, e.id)
    OBVIOUS
  <2>7. /\ Len(n) = MaxIds /\ n[MaxIds] = e.id
        /\ \A q \in 1..MaxIds - 1 : n[q] = ids[q + 1]
    BY <1>2, <1>3, <1>9, <2>3, <2>4, <2>5, <2>6
  <2>8. \A q \in 1..MaxIds : q \in 1..MaxIds - 1 \/ q = MaxIds
    BY <1>3
  <2>9. CASE p # 1
    <3>1. p - 1 \in 1..MaxIds - 1 /\ p \in 1..MaxIds
      BY <1>2, <1>3, <1>9, <2>9
    <3>2. p - 1 \in 1..Len(n) /\ n[p - 1] = a
      BY <1>3, <1>6, <2>7, <3>1
    <3>3. ASSUME NEW q \in (p - 1) + 1..Len(n) PROVE n[q] \in a - b..a + b
      <4>1. q \in 1..MaxIds
        BY <1>3, <2>7, <3>1
      <4>2. q \in 1..MaxIds - 1 => q + 1 \in p + 1..Len(ids)
        BY <1>3, <1>9, <3>1
      <4> QED
        BY <1>4, <1>6, <1>9, <2>7, <2>8, <4>1, <4>2
    <3> QED
      BY <1>4, <2>1, <2>4, <2>6, <3>2, <3>3 DEF Near
  <2>10. CASE p = 1
    <3> DEFINE I == a - b..a + b
               T == I \ {a}
               f == [q \in 1..MaxIds |-> n[q]]
    <3>1. IsFiniteSet(I) /\ Cardinality(I) = 2 * b + 1 /\ a \in I
      <4>1. a - b \in Int /\ a + b \in Int /\ ~(a - b > a + b) /\ (a + b) - (a - b) + 1 = 2 * b + 1
        OBVIOUS
      <4> QED
        BY <4>1, FS_Interval
    <3>2. IsFiniteSet(T) /\ Cardinality(T) = 2 * b
      <4>1. IsFiniteSet(T) /\ Cardinality(T) = Cardinality(I) - 1
        BY <3>1, FS_RemoveElement
      <4> QED
        BY <3>1, <4>1
    <3>3. IsFiniteSet(1..MaxIds) /\ Cardinality(1..MaxIds) = MaxIds
      <4>1. 1 \in Int /\ MaxIds \in Int /\ (IF 1 > MaxIds THEN 0 ELSE MaxIds - 1 + 1) = MaxIds
        BY <1>3
      <4> QED
        BY <4>1, FS_Interval
    <3>4. DOMAIN ids = 1..MaxIds /\ \A x, y \in 1..MaxIds : ids[x] = ids[y] => x = y
      BY <1>1, <1>2, <1>9, LenProperties DEF IsInjective
    <3>5. \A x \in 1..MaxIds : ids[x] # e.id
      BY <1>1, <1>9 DEF Contains
    <3>6. ASSUME NEW q \in 1..MaxIds PROVE n[q] \in I /\ n[q] # a
      <4>1. 1 \in 1..MaxIds
        BY <1>3
      <4>2. CASE q \in 1..MaxIds - 1
        <5>1. q + 1 \in p + 1..Len(ids) /\ q + 1 \in 1..MaxIds /\ q + 1 # 1
          BY <1>3, <1>9, <2>10, <4>2
        <5> QED
          BY <1>6, <2>7, <2>10, <3>4, <4>1, <4>2, <5>1
      <4>3. CASE q = MaxIds
        BY <1>4, <1>6, <1>9, <2>7, <2>10, <3>5, <4>1, <4>3
      <4> QED
        BY <2>8, <4>2, <4>3
    <3>7. ASSUME NEW x \in 1..MaxIds, NEW y \in 1..MaxIds, n[x] = n[y] PROVE x = y
      <4>1. \A q \in 1..MaxIds - 1 : q + 1 \in 1..MaxIds
        BY <1>3
      <4>2. \A q \in 1..MaxIds - 1 : n[q] # e.id
        BY <2>7, <3>5, <4>1
      <4>3. CASE x \in 1..MaxIds - 1 /\ y \in 1..MaxIds - 1
        <5>1. x + 1 = y + 1
          BY <2>7, <3>4, <3>7, <4>1, <4>3
        <5> QED
          BY <5>1
      <4> QED
        BY <2>7, <2>8, <3>7, <4>2, <4>3
    <3> HIDE DEF T, I
    <3>8. f \in [1..MaxIds -> T]
      <4>1. \A q \in 1..MaxIds : n[q] \in T
        BY <3>6 DEF T
      <4> QED
        BY <4>1
    <3>9. Cardinality(T) < Cardinality(1..MaxIds)
      BY <1>3, <1>5, <3>2, <3>3
    <3> HIDE DEF f
    <3>10. \E x, y \in 1..MaxIds : x # y /\ f[x] = f[y]
      BY <3>2, <3>3, <3>8, <3>9, FS_PigeonHole
    <3> QED
      BY <3>7, <3>10 DEF f
  <2> QED
    BY <2>9, <2>10
<1> QED
  BY <1>7, <1>8, <1>9

\* An accepted id is the last one its stream keeps.
LEMMA NearTaken ==
    ASSUME NEW s \in Stream, NEW e, Stamped(e), e.id # None
    PROVE  Near(IdsAfter(s, e), e.id)
<1> DEFINE kept == IF e.kind = "SessionStart" THEN <<>> ELSE s.ids
           room == IF e.id # None /\ Len(kept) = MaxIds THEN Tail(kept) ELSE kept
<1>1. IdsAfter(s, e) = Append(room, e.id)
  BY DEF IdsAfter
<1>2. kept \in Seq(Nat) /\ e.id \in Nat
  BY DEF Stream, Ids, Stamped
<1> HIDE DEF kept
<1>3. room \in Seq(Nat)
  <2>1. Len(kept) = MaxIds => kept # <<>>
    BY <1>2, GateConstants
  <2> QED
    BY <1>2, <2>1, HeadTailProperties
<1>4. PICK q \in Seq(Nat) : q = room
  BY <1>3
<1> HIDE DEF room
<1>5. /\ Len(q) \in Nat /\ Len(Append(q, e.id)) = Len(q) + 1
      /\ Append(q, e.id)[Len(q) + 1] = e.id
  BY <1>2, AppendProperties, LenProperties
<1>6. \A n \in (Len(q) + 1) + 1..Len(q) + 1 : FALSE
  BY <1>5
<1>7. Len(q) + 1 \in 1..Len(q) + 1
  BY <1>5
<1> QED
  BY <1>1, <1>4, <1>5, <1>6, <1>7 DEF Near

\* No id is kept twice.
Distinct(st) == \A k \in DOMAIN st : IsInjective(st[k].ids)

LEMMA IdsDistinct ==
    ASSUME NEW s \in Stream, IsInjective(s.ids), NEW e, Stamped(e),
           Verdict(s, e) = "Accepted"
    PROVE  IsInjective(IdsAfter(s, e))
<1> DEFINE kept == IF e.kind = "SessionStart" THEN <<>> ELSE s.ids
           room == IF e.id # None /\ Len(kept) = MaxIds THEN Tail(kept) ELSE kept
<1>1. IsInjective(<<>>) /\ <<>> \in Seq(Nat)
  BY DEF IsInjective
<1>2. s.ids \in Seq(Nat) /\ e.id \in Nat
  BY DEF Stream, Ids, Stamped
<1>3. /\ kept \in Seq(Nat) /\ IsInjective(kept)
      /\ e.id # None => \A n \in 1..Len(kept) : kept[n] # e.id
  <2>1. e.id # None => ~Contains(s.ids, e.id)
    BY DEF Verdict
  <2>2. e.id # None => \A n \in 1..Len(s.ids) : s.ids[n] # e.id
    BY <2>1 DEF Contains
  <2>3. 1..Len(<<>>) = {}
    OBVIOUS
  <2> QED
    BY <1>1, <1>2, <2>2, <2>3
<1>4. CASE e.id = None
  BY <1>3, <1>4 DEF IdsAfter
<1>5. CASE e.id # None
  <2>1. IdsAfter(s, e) = Append(room, e.id)
    BY <1>5 DEF IdsAfter
  <2> HIDE DEF kept
  <2>2. /\ room \in Seq(Nat) /\ IsInjective(room)
        /\ \A n \in 1..Len(room) : room[n] # e.id
    <3>1. CASE Len(kept) = MaxIds
      <4>1. kept # <<>> /\ Len(kept) \in Nat
        BY <1>3, <3>1, GateConstants, LenProperties
      <4>2. /\ Tail(kept) \in Seq(Nat) /\ Len(Tail(kept)) = Len(kept) - 1
            /\ \A n \in 1..Len(Tail(kept)) : Tail(kept)[n] = kept[n + 1]
        BY <1>3, <4>1, HeadTailProperties
      <4>3. \A n \in 1..Len(kept) - 1 : n + 1 \in 1..Len(kept)
        BY <4>1
      <4>4. DOMAIN kept = 1..Len(kept) /\ DOMAIN Tail(kept) = 1..Len(kept) - 1
        BY <1>3, <4>2, LenProperties
      <4>5. ASSUME NEW x \in 1..Len(kept) - 1, NEW y \in 1..Len(kept) - 1,
                   Tail(kept)[x] = Tail(kept)[y]
            PROVE  x = y
        <5>1. x + 1 = y + 1
          BY <1>3, <4>2, <4>3, <4>4, <4>5 DEF IsInjective
        <5> QED
          BY <5>1
      <4>6. IsInjective(Tail(kept))
        BY <4>4, <4>5 DEF IsInjective
      <4>7. room = Tail(kept)
        BY <1>5, <3>1
      <4>8. \A n \in 1..Len(kept) - 1 : Tail(kept)[n] # e.id
        BY <1>3, <1>5, <4>2, <4>3
      <4> HIDE DEF room
      <4> QED
        BY <4>2, <4>6, <4>7, <4>8
    <3>2. CASE Len(kept) # MaxIds
      BY <1>3, <1>5, <3>2
    <3> QED
      BY <3>1, <3>2
  <2>3. PICK q \in Seq(Nat) : q = room
    BY <2>2
  <2>4. IsInjective(q) /\ \A n \in 1..Len(q) : q[n] # e.id
    BY <2>2, <2>3
  <2> HIDE DEF room
  <2>5. /\ Len(q) \in Nat /\ DOMAIN q = 1..Len(q)
        /\ DOMAIN Append(q, e.id) = 1..Len(q) + 1
        /\ Append(q, e.id)[Len(q) + 1] = e.id
        /\ \A n \in 1..Len(q) : Append(q, e.id)[n] = q[n]
    BY <1>2, AppendProperties, LenProperties
  <2>6. \A n \in 1..Len(q) + 1 : n \in 1..Len(q) \/ n = Len(q) + 1
    BY <2>5
  <2>7. ASSUME NEW x \in 1..Len(q) + 1, NEW y \in 1..Len(q) + 1,
               Append(q, e.id)[x] = Append(q, e.id)[y]
        PROVE  x = y
    BY <2>4, <2>5, <2>6, <2>7 DEF IsInjective
  <2> QED
    BY <2>1, <2>3, <2>5, <2>7 DEF IsInjective
<1> QED
  BY <1>4, <1>5

LEMMA GateDistinct ==
    ASSUME NEW st, Table(st), Distinct(st), NEW e, Stamped(e)
    PROVE  Distinct(GateAfter(st, e))
<1> DEFINE table == Tracked(st, e)
           key == StreamKey(e)
<1>1. /\ Table(table) /\ key \in DOMAIN table
      /\ \A k \in DOMAIN table : \/ k \in DOMAIN st /\ table[k] = st[k]
                                 \/ k = key /\ table[k] = NewStream(e)
  BY TrackedFits
<1>2. IsInjective(NewStream(e).ids)
  BY DEF NewStream, IsInjective
<1>3. \A k \in DOMAIN table : table[k] \in Stream /\ IsInjective(table[k].ids)
  BY <1>1, <1>2 DEF Distinct, Table
<1>4. GateAfter(st, e) = IF Verdict(table[key], e) = "Accepted"
                         THEN [table EXCEPT ![key] = Record(@, e)] ELSE table
  BY DEF GateAfter
<1> HIDE DEF table, key
<1>5. CASE Verdict(table[key], e) = "Accepted"
  <2>1. Record(table[key], e).ids = IdsAfter(table[key], e)
    BY DEF Record
  <2>2. IsInjective(IdsAfter(table[key], e))
    BY <1>1, <1>3, <1>5, IdsDistinct
  <2> QED
    BY <1>1, <1>3, <1>4, <1>5, <2>1, <2>2 DEF Distinct
<1>6. CASE Verdict(table[key], e) # "Accepted"
  BY <1>3, <1>4, <1>6 DEF Distinct
<1> QED
  BY <1>5, <1>6

\* A step keeps the ids of every stream distinct.
LEMMA DistinctNext ==
    ASSUME PaneInv, Distinct(streams), [Next]_vars
    PROVE  Distinct(streams)'
<1>1. Table(streams) /\ setup \in Setups
  BY DEF PaneInv
<1>2. CASE streams' \in {streams, Forgotten(streams)}
  <2>1. /\ DOMAIN streams' = DOMAIN streams
        /\ \A k \in DOMAIN streams : streams'[k].ids = streams[k].ids
    BY <1>1, <1>2, ForgottenFits
  <2> QED
    BY <2>1 DEF Distinct
<1>3. CASE OnCommandStart \/ OnCommandFinished
  BY <1>3 DEF OnCommandStart, OnCommandFinished, Distinct
<1>4. ASSUME NEW e \in Events, HandleAiHook(e) PROVE Distinct(streams)'
  <2>1. streams' \in {streams, GateAfter(streams, Received(e))}
    BY <1>4 DEF HandleAiHook
  <2>2. Stamped(Received(e))
    BY <1>1, ReceivedFits DEF Addressed
  <2>3. Distinct(GateAfter(streams, Received(e)))
    BY <1>1, <2>2, GateDistinct
  <2> QED
    BY <2>1, <2>3 DEF Distinct
<1> QED
  BY <1>2, <1>3, <1>4, NextFits

\* With room for every stream, what an event that was taken leaves of its stream.
LEMMA GateIds ==
    ASSUME PaneInv, Room, DOMAIN streams \subseteq StreamKeys, NEW e \in Events,
           StreamKey(e) \in StreamKeys, HandleAiHook(e), Applied(e)
    PROVE  \E s \in Stream :
             /\ StreamKey(e) \in DOMAIN streams => s = streams[StreamKey(e)]
             /\ StreamKey(e) \in DOMAIN streams'
             /\ streams'[StreamKey(e)].ids = IdsAfter(s, Received(e))
             /\ e.id # None => ~Contains(s.ids, e.id)
<1> DEFINE r == Received(e)
           key == StreamKey(e)
           table == Tracked(streams, r)
<1>1. Table(streams) /\ setup \in Setups
  BY DEF PaneInv
<1>2. Stamped(r) /\ r.id = e.id /\ StreamKey(r) = key
  BY <1>1, ReceivedFits DEF Addressed
<1>3. /\ DOMAIN table = DOMAIN streams \union {key}
      /\ \A k \in DOMAIN streams : table[k] = streams[k]
  BY <1>1, <1>2, KeysFit, NoEviction DEF Room
<1>4. table[key] \in Stream
  <2>1. Table(table) /\ key \in DOMAIN table
    BY <1>1, <1>2, TrackedFits
  <2> QED
    BY <2>1 DEF Table
<1>5. /\ Verdict(table[key], r) = "Accepted"
      /\ streams' = [table EXCEPT ![key] = Record(@, r)]
  BY <1>2 DEF HandleAiHook, GateAfter, GateVerdict, Applied
<1>6. e.id # None => ~Contains(table[key].ids, e.id)
  BY <1>2, <1>5 DEF Verdict
<1>7. Record(table[key], r).ids = IdsAfter(table[key], r)
  BY DEF Record
<1> HIDE DEF r, key, table
<1>8. key \in DOMAIN streams' /\ streams'[key] = Record(table[key], r)
  BY <1>3, <1>5
<1>9. /\ key \in DOMAIN streams => table[key] = streams[key]
      /\ streams'[key].ids = IdsAfter(table[key], r)
  BY <1>3, <1>7, <1>8
<1> QED
  BY <1>4, <1>6, <1>8, <1>9 DEF key, r

\* What an event on its way says of a CLI beside which the notify program runs: its
\* conversations are named in turn, and the ends alone carry ids, one for each turn.
Tells(e) ==
    /\ e.session <= 10 * e.from + cli[e.from].session
    /\ e.codex = "none" \/ e.id # None => Final(e)
    /\ Final(e) => e.id = 10 * e.from + e.body

\* What a step that delivers nothing adds: a conversation starts under a new name.
Talks ==
    /\ \A c \in Clis : cli[c].session <= cli'[c].session
    /\ \A l \in Clis \union {0} : \A k \in Len(lane[l]) + 1..Len(lane'[l]) : \A y \in Events :
        y = lane'[l][k] /\ Provider[y.from].notify =>
        /\ Tells(y)'
        /\ y.kind = "SessionStart" =>
            /\ y.session > 10 * y.from + cli[y.from].session
            /\ \A i \in Len(lane[l]) + 1..Len(lane'[l]) : \A z \in Events :
                z = lane'[l][i] => ~Final(z)

LEMMA ReportedTells ==
    ASSUME PaneInv, NEW c \in Clis, NEW kind \in Kind, NEW mark, NEW phase \in Phase,
           Sends(c, kind, mark, phase), Provider[c].notify, NEW x \in Reported(c, kind, mark)
    PROVE  /\ x.from = c /\ x.kind = kind /\ Tells(x)'
           /\ kind = "SessionStart" => x.session > 10 * c + cli[c].session
<1> DEFINE e == Event(c, kind, mark)
           new == IF mark = "new" THEN 1 ELSE 0
<1>1. /\ Provider[c].source = "codex" /\ Provider[c].codex # "none" /\ Provider[c].named
      /\ c \in Nat /\ c # 0
  BY SetupFacts DEF PaneInv, NotifyBeside
<1>2. cli[c].session \in Nat /\ cli[c].turn \in Nat
  BY DEF PaneInv, Agents
<1>3. mark # "busy" /\ (kind = "SessionStart" => mark = "new")
  BY <1>1 DEF Sends
<1>4. cli'[c].session = cli[c].session + new
  <2>1. cli' = [cli EXCEPT ![c] =
                [phase |-> phase, sent |-> @.sent + 1, session |-> @.session + new,
                 turn |-> @.turn + IF kind = "PromptSubmit" THEN 1 ELSE 0]]
    BY DEF Sends, Send
  <2>2. cli \in [Clis -> Agents]
    BY DEF PaneInv
  <2> QED
    BY <2>1, <2>2
<1>5. /\ e.kind = kind /\ e.from = c /\ e.codex = Provider[c].codex
      /\ e.session = 10 * c + (cli[c].session + new)
      /\ e.busy = (mark = "busy")
      /\ kind = "TurnDone" => e.body = cli[c].turn /\ e.id = 10 * c + cli[c].turn
      /\ kind # "TurnDone" => e.id = None
  BY <1>1, <1>2 DEF Event
<1>6. e \in Events
  BY EventFits DEF Reported
<1> HIDE DEF e
<1>7. /\ x.kind = kind /\ x.from = c /\ x.session = e.session /\ x.busy = e.busy
      /\ x.body = e.body /\ x.id = e.id
      /\ x.codex # "none" \/ kind = "TurnDone"
  <2>1. ASSUME NEW y \in Events
        PROVE  LET z == [y EXCEPT !.codex = "none"] IN
               /\ z.kind = y.kind /\ z.from = y.from /\ z.busy = y.busy /\ z.body = y.body
               /\ z.session = y.session /\ z.id = y.id
    BY DEF Events
  <2>2. x = e \/ (x = [e EXCEPT !.codex = "none"] /\ kind = "TurnDone")
    BY DEF Reported, e
  <2> QED
    BY <1>1, <1>5, <1>6, <2>1, <2>2
<1>8. Final(x) <=> kind = "TurnDone"
  BY <1>3, <1>5, <1>7 DEF Final
<1>9. x.session <= 10 * x.from + cli'[x.from].session
  BY <1>1, <1>2, <1>4, <1>5, <1>7
<1>10. x.codex = "none" \/ x.id # None => Final(x)
  BY <1>5, <1>7, <1>8
<1>11. Final(x) => x.id = 10 * x.from + x.body
  BY <1>5, <1>7, <1>8
<1>12. Tells(x)'
  BY <1>9, <1>10, <1>11 DEF Tells, Final
<1>13. kind = "SessionStart" => x.session > 10 * c + cli[c].session
  BY <1>1, <1>2, <1>3, <1>5, <1>7
<1> QED
  BY <1>7, <1>12, <1>13

LEMMA TalksMove ==
    ASSUME PaneInv, InSession, setup' = setup, Undelivered
    PROVE  Talks
<1>1. cli \in [Clis -> Agents] /\ lane \in [Clis \union {0} -> Seq(Events \union Marks)]
  BY DEF PaneInv
<1>2. ASSUME NEW l \in Clis \union {0}
      PROVE  Len(lane[l]) \in Nat /\ \A k \in Len(lane[l]) + 1..Len(lane[l]) : FALSE
  BY <1>1, LenProperties
<1>3. \A c \in Clis : cli[c].session \in Nat
  BY <1>1 DEF Agents
<1>4. ASSUME UNCHANGED lane, \A c \in Clis : cli'[c].session = cli[c].session
      PROVE  Talks
  BY <1>2, <1>3, <1>4 DEF Talks
<1>5. CASE Launch \/ Exit
  <2>1. PICK m \in Marks : lane' = [lane EXCEPT ![0] = Append(@, m)]
    BY <1>5 DEF Launch, Exit, Mark, Marks
  <2>2. m \notin Events
    BY DEF Marks, Events, Kind
  <2> DEFINE Items == Events \union Marks
  <2>3. PICK q \in Seq(Items) : q = lane[0]
    BY <1>1
  <2>4. m \in Items
    OBVIOUS
  <2> HIDE DEF Items
  <2>5. /\ Len(q) \in Nat /\ Len(Append(q, m)) = Len(q) + 1
        /\ Append(q, m)[Len(q) + 1] = m
    BY <2>4, AppendProperties, LenProperties
  <2>6. lane'[0] = Append(q, m) /\ \A l \in Clis \union {0} : l # 0 => lane'[l] = lane[l]
    BY <1>1, <2>1, <2>3
  <2>7. \A k \in Len(q) + 1..Len(q) + 1 : k = Len(q) + 1
    BY <2>5
  <2>8. ASSUME NEW l \in Clis \union {0}, NEW k \in Len(lane[l]) + 1..Len(lane'[l])
        PROVE  lane'[l][k] \notin Events
    <3>1. CASE l = 0
      BY <2>2, <2>3, <2>5, <2>6, <2>7, <3>1
    <3>2. CASE l # 0
      BY <1>2, <2>6, <3>2
    <3> QED
      BY <3>1, <3>2
  <2>9. ASSUME NEW c \in Clis PROVE cli'[c].session = cli[c].session
    <3>1. cli'[c] = cli[c] \/ \E p \in {"up", "off"} : cli'[c] = [cli[c] EXCEPT !.phase = p]
      <4>1. CASE Launch
        BY <1>1, <4>1 DEF Launch
      <4>2. CASE Exit
        BY <1>1, <4>2 DEF Exit
      <4> QED
        BY <1>5, <4>1, <4>2
    <3>2. ASSUME NEW x \in Agents, NEW p PROVE [x EXCEPT !.phase = p].session = x.session
      BY DEF Agents
    <3>3. cli[c] \in Agents
      BY <1>1
    <3> QED
      BY <3>1, <3>2, <3>3
  <2> QED
    BY <1>3, <2>8, <2>9 DEF Talks
<1>6. CASE \/ Submit \/ PressEnter \/ RefreshScreen \/ RefreshBlank \/ FinishUnmarked
           \/ Stall \/ ForgetPrints \/ UNCHANGED vars
  <2>1. UNCHANGED <<cli, lane>>
    BY <1>6
       DEF Submit, PressEnter, RefreshScreen, RefreshBlank, FinishUnmarked, Stall,
           ForgetPrints, vars
  <2> QED
    BY <1>4, <2>1
<1>7. ASSUME NEW c \in Clis, SpawnNested(c) \/ AskSilently(c) PROVE Talks
  <2>1. UNCHANGED lane
    BY <1>7 DEF SpawnNested, AskSilently
  <2>2. ASSUME NEW d \in Clis PROVE cli'[d].session = cli[d].session
    <3>1. cli'[d] = cli[d] \/ \E p \in Phase : cli'[d] = [cli[d] EXCEPT !.phase = p]
      <4>1. CASE SpawnNested(c)
        BY <1>1, <4>1 DEF SpawnNested, Phase
      <4>2. CASE AskSilently(c)
        BY <1>1, <4>2 DEF AskSilently, Phase
      <4> QED
        BY <1>7, <4>1, <4>2
    <3>2. ASSUME NEW x \in Agents, NEW p PROVE [x EXCEPT !.phase = p].session = x.session
      BY DEF Agents
    <3>3. cli[d] \in Agents
      BY <1>1
    <3> QED
      BY <3>1, <3>2, <3>3
  <2> QED
    BY <1>4, <2>1, <2>2
<1>8. ASSUME NEW c \in Clis, NEW kind \in Kind, NEW mark, NEW phase \in Phase,
             Sends(c, kind, mark, phase)
      PROVE  Talks
  <2>0. PICK L : L = LaneOf(c)
    OBVIOUS
  <2>1. /\ L \in Clis \union {0}
        /\ \A l \in Clis \union {0} : l # L => lane'[l] = lane[l]
        /\ \A k \in Len(lane[L]) + 1..Len(lane'[L]) : lane'[L][k] \in Reported(c, kind, mark)
    BY <1>8, <2>0, SendLane DEF Sends
  <2>2. \A x \in Reported(c, kind, mark) :
          /\ x.from = c
          /\ Final(x) <=> kind = "TurnDone" /\ mark # "busy"
    BY ReportedFields
  <2>3. Provider[c].notify => \A x \in Reported(c, kind, mark) :
          /\ x.kind = kind /\ Tells(x)'
          /\ kind = "SessionStart" => x.session > 10 * c + cli[c].session
    BY <1>8, ReportedTells
  <2>4. ASSUME NEW d \in Clis PROVE cli[d].session <= cli'[d].session
    <3>1. cli' = [cli EXCEPT ![c] =
                [phase |-> phase, sent |-> @.sent + 1,
                 session |-> @.session + IF mark = "new" THEN 1 ELSE 0,
                 turn |-> @.turn + IF kind = "PromptSubmit" THEN 1 ELSE 0]]
      BY <1>8 DEF Sends, Send
    <3> QED
      BY <1>1, <1>3, <3>1
  <2>5. ASSUME NEW l \in Clis \union {0}, NEW k \in Len(lane[l]) + 1..Len(lane'[l]),
               NEW y \in Events, y = lane'[l][k], Provider[y.from].notify
        PROVE  /\ Tells(y)'
               /\ y.kind = "SessionStart" =>
                   /\ y.session > 10 * y.from + cli[y.from].session
                   /\ \A i \in Len(lane[l]) + 1..Len(lane'[l]) : \A z \in Events :
                       z = lane'[l][i] => ~Final(z)
    <3>1. l = L
      BY <1>2, <2>1, <2>5
    <3>2. y \in Reported(c, kind, mark) /\ y.from = c
      BY <2>1, <2>2, <2>5, <3>1
    <3> QED
      BY <2>1, <2>2, <2>3, <2>5, <3>1, <3>2
  <2> QED
    BY <2>4, <2>5, Zenon DEF Talks
<1>9. CASE \E c \in Clis : Agent(c)
  <2>1. PICK c \in Clis : Agent(c)
    BY <1>9
  <2>2. \/ SpawnNested(c) \/ AskSilently(c)
        \/ \E kind \in Kind, phase \in Phase :
           \E mark \in {"new", "compact", "plain", "legacy", "failed", "busy"} :
               Sends(c, kind, mark, phase)
    BY <2>1, AgentSends
  <2> QED
    BY <1>7, <1>8, <2>2
<1> QED
  BY <1>5, <1>6, <1>9 DEF Undelivered

\* What is on its way after a step that delivers nothing: the same, or something new.
LEMMA Grown ==
    ASSUME PaneInv, PaneInv', setup' = setup, Moves, NEW l \in Clis \union {0}, NEW j, NEW e,
           Underway(l, j, e)'
    PROVE  \/ /\ Underway(l, j, e)
              /\ \A i, f : Underway(l, i, f)' /\ i < j => Underway(l, i, f)
           \/ j \in Len(lane[l]) + 1..Len(lane'[l]) /\ e = lane'[l][j]
<1>0. Clis' = Clis
  BY SameSetup
<1>1. Len(lane[l]) \in Nat /\ Len(lane'[l]) \in Nat
  BY <1>0, LenProperties DEF PaneInv
<1>2. j \in 1..Len(lane'[l]) /\ e = lane'[l][j]
  BY DEF Underway
<1>3. CASE j \in 1..Len(lane[l])
  <2>1. Underway(l, j, e)
    BY <1>2, <1>3 DEF Underway, Moves
  <2>2. ASSUME NEW i, i < j, NEW f, Underway(l, i, f)' PROVE Underway(l, i, f)
    <3>1. i \in 1..Len(lane'[l]) /\ f = lane'[l][i]
      BY <2>2 DEF Underway
    <3>2. i \in 1..Len(lane[l])
      BY <1>1, <1>3, <2>2, <3>1
    <3> QED
      BY <3>1, <3>2 DEF Underway, Moves
  <2> QED
    BY <2>1, <2>2
<1>4. CASE j \notin 1..Len(lane[l])
  BY <1>1, <1>2, <1>4
<1> QED
  BY <1>3, <1>4

\* What is on its way after an arrival was so before, in the same order.
LEMMA Shrunk ==
    ASSUME PaneInv, Lanes, NEW l \in Clis \union {0}, NEW i, Arrive(l, i),
           NEW m \in Clis \union {0}, NEW j, NEW x, Underway(m, j, x)'
    PROVE  \E w : /\ Underway(m, w, x) /\ (m = l => w # i)
                  /\ \A k, y : Underway(m, k, y)' /\ k < j =>
                      \E v : Underway(m, v, y) /\ v < w
<1> DEFINE at(k) == IF m = l THEN Was(k, i) ELSE k
<1>1. /\ Underway(m, at(j), x) /\ (m = l => at(j) # i)
      /\ \A k, y : Underway(m, k, y)' /\ k < j => Underway(m, at(k), y) /\ at(k) < at(j)
  BY ArriveRest
<1> HIDE DEF at
<1> QED
  BY <1>1, Zenon

\* Behind the report of an end no start of its conversation is on its way.
Conversations ==
    \A l \in Clis \union {0} : \A j : \A e \in Events :
        Underway(l, j, e) /\ Provider[e.from].notify =>
        /\ Tells(e)
        /\ e.kind = "SessionStart" => \A i : \A f \in Events :
            Underway(l, i, f) /\ i < j /\ f.from = e.from /\ Final(f) => f.session < e.session

LEMMA ConversationsMove ==
    ASSUME PaneInv, PaneInv', setup' = setup, Lanes, Conversations, Moves, Talks
    PROVE  Conversations'
<1>1. UNCHANGED <<Provider, Clis, Events>>
  BY SameSetup
<1>2. \A c \in Clis : /\ cli[c].session \in Nat /\ cli'[c].session \in Nat
                      /\ cli[c].session <= cli'[c].session /\ c \in Nat
  BY <1>1, SetupFacts DEF PaneInv, Agents, Talks
<1>3. ASSUME NEW e \in Events, Tells(e) PROVE Tells(e)'
  <2>1. e.from \in Clis /\ e.session \in Nat
    BY DEF Events
  <2> QED
    BY <1>2, <1>3, <2>1 DEF Tells, Final
<1>4. ASSUME NEW l \in Clis \union {0}, NEW j, NEW e \in Events, Underway(l, j, e)',
             Provider[e.from].notify
      PROVE  /\ Tells(e)'
             /\ e.kind = "SessionStart" => \A i : \A f \in Events :
                 Underway(l, i, f)' /\ i < j /\ f.from = e.from /\ Final(f)
                 => f.session < e.session
  <2>1. CASE /\ Underway(l, j, e)
             /\ \A i, f : Underway(l, i, f)' /\ i < j => Underway(l, i, f)
    BY <1>3, <1>4, <2>1 DEF Conversations
  <2>2. CASE j \in Len(lane[l]) + 1..Len(lane'[l]) /\ e = lane'[l][j]
    <3>1. /\ Tells(e)'
          /\ e.kind = "SessionStart" =>
              /\ e.session > 10 * e.from + cli[e.from].session
              /\ \A i \in Len(lane[l]) + 1..Len(lane'[l]) : \A z \in Events :
                  z = lane'[l][i] => ~Final(z)
      BY <1>4, <2>2 DEF Talks
    <3>2. ASSUME e.kind = "SessionStart", NEW i, NEW f \in Events, Underway(l, i, f)',
                 f.from = e.from, Final(f)
          PROVE  f.session < e.session
      <4>1. Underway(l, i, f)
        BY <3>1, <3>2, Grown
      <4>2. f.session <= 10 * e.from + cli[e.from].session
        BY <1>4, <3>2, <4>1 DEF Conversations, Tells
      <4>3. f.session \in Nat /\ e.session \in Nat /\ e.from \in Clis
        BY DEF Events
      <4> QED
        BY <1>2, <3>1, <3>2, <4>2, <4>3
    <3> QED
      BY <3>1, <3>2
  <2> QED
    BY <1>4, <2>1, <2>2, Grown
<1>5. \A f : Final(f)' <=> Final(f)
  BY DEF Final
<1> QED
  BY <1>1, <1>4, <1>5, Zenon DEF Conversations

LEMMA ConversationsArrive ==
    ASSUME PaneInv, setup' = setup, Lanes, Conversations, NEW l \in Clis \union {0}, NEW i,
           Arrive(l, i)
    PROVE  Conversations'
<1>1. UNCHANGED <<Provider, Clis, Events>> /\ cli' = cli
  BY SameSetup DEF Arrive
<1>2. ASSUME NEW e \in Events, Tells(e) PROVE Tells(e)'
  BY <1>1, <1>2 DEF Tells, Final
<1>3. ASSUME NEW m \in Clis \union {0}, NEW j, NEW e \in Events, Underway(m, j, e)',
             Provider[e.from].notify
      PROVE  /\ Tells(e)'
             /\ e.kind = "SessionStart" => \A k : \A f \in Events :
                 Underway(m, k, f)' /\ k < j /\ f.from = e.from /\ Final(f)
                 => f.session < e.session
  <2>1. PICK w : /\ Underway(m, w, e)
                 /\ \A k, y : Underway(m, k, y)' /\ k < j => \E v : Underway(m, v, y) /\ v < w
    BY <1>3, Shrunk
  <2> QED
    BY <1>2, <1>3, <2>1 DEF Conversations
<1>4. \A f : Final(f)' <=> Final(f)
  BY DEF Final
<1> QED
  BY <1>1, <1>3, <1>4, Zenon DEF Conversations

\* While the report of an end is on its way, no more than Reach turns follow.
Timely ==
    \A c \in Clis : \A j \in 1..Len(lane[c]) :
        Provider[c].notify /\ Final(lane[c][j]) => cli[c].turn <= lane[c][j].body + Reach

\* The end the event reports is one the gate knows of, and will while it is on its way.
Lately(e) == StreamKey(e) \in DOMAIN streams /\ Near(streams[StreamKey(e)].ids, e.id)

\* Of an end that was notified: where a report of it is on its way, the gate knows it,
\* and its conversation is not about to start and have the gate forget.
Doubles ==
    Room => \A l \in Clis \union {0} : \A j : \A x \in Events :
        Underway(l, j, x) /\ Final(x) /\ Said(x) /\ Provider[x.from].notify =>
        /\ Lately(x)
        /\ \A i : \A f \in Events :
            Underway(l, i, f) /\ f.kind = "SessionStart" => StreamKey(f) # StreamKey(x)

\* Events of such a CLI in different conversations are in different streams.
LEMMA KeySession ==
    ASSUME setup \in Setups, NEW e \in Events, NEW f \in Events, Provider[e.from].notify,
           StreamKey(e) = StreamKey(f)
    PROVE  e.session = f.session /\ e.from = f.from
<1>1. e.from \in Clis /\ e.from = f.from
  BY KeyOwner DEF Events
<1>2. e.source = "codex" /\ f.source = "codex"
  BY <1>1, SetupFacts DEF Events, NotifyBeside
<1> QED
  BY <1>1, <1>2 DEF StreamKey

\* What arrives does not come before the start of a conversation sent before it.
LEMMA NotAhead ==
    ASSUME PaneInv, Lanes, Conversations, NEW l \in Clis \union {0}, NEW i, Arrive(l, i),
           NEW e \in Events, lane[l][i] = e, Provider[e.from].notify,
           NEW j, NEW f \in Events, Underway(l, j, f), f.from = e.from, j < i
    PROVE  f.kind # "SessionStart"
<1>1. Underway(l, i, e) /\ Sent(l, e)
  BY ArriveRest
<1>2. l = e.from /\ Provider[l].fifo
  BY <1>1, SetupFacts DEF Sent, LaneOf, NotifyBeside, PaneInv, Events
<1>3. j \in 1..i - 1 /\ lane[l][j] = f
  BY <1>1 DEF Underway
<1>4. f.codex = "none" \/ Same(e.id, f.id)
  BY <1>2, <1>3 DEF Arrive, Overtakes
<1>5. f.codex = "none" \/ f.id # None
  BY <1>4 DEF Same
<1>6. Final(f)
  BY <1>5 DEF Conversations, Tells
<1> QED
  BY <1>6 DEF Final

\* Of two reports of ends on their way, both timely, the turns are near.
LEMMA TimelyNear ==
    ASSUME PaneInv, Lanes, Conversations, Timely, NEW l \in Clis \union {0}, NEW i, NEW j,
           NEW e \in Events, NEW x \in Events, Underway(l, i, e), Underway(l, j, x),
           e.from = x.from, Provider[x.from].notify, Final(e), Final(x)
    PROVE  e.id \in x.id - Reach..x.id + Reach
<1>1. PICK c \in Clis : c = x.from
  BY DEF Events
<1>2. c \in Nat /\ cli[c].turn \in Nat /\ e.body \in Nat /\ x.body \in Nat
  BY SetupFacts DEF PaneInv, Agents, Events
<1>3. Sent(l, e) /\ Sent(l, x)
  BY DEF Lanes, Underway
<1>4. l = c
  BY <1>1, <1>3, SetupFacts DEF Sent, LaneOf, NotifyBeside, PaneInv
<1>5. e.body <= cli[c].turn /\ x.body <= cli[c].turn
  BY <1>1, <1>3 DEF Sent, InPast
<1>6. cli[c].turn <= e.body + Reach /\ cli[c].turn <= x.body + Reach
  BY <1>1, <1>4 DEF Timely, Underway
<1>7. e.id = 10 * c + e.body /\ x.id = 10 * c + x.body
  BY <1>1 DEF Conversations, Tells
<1>8. Reach \in Int
  BY GateConstants DEF Reach
<1>9. ASSUME NEW n \in Nat, NEW a \in Nat, NEW b \in Nat, NEW t \in Nat, NEW d \in Int,
             a <= t, b <= t, t <= a + d, t <= b + d
      PROVE  n + a \in (n + b) - d..(n + b) + d
  BY <1>9
<1>10. 10 * c \in Nat
  BY <1>2
<1> QED
  BY <1>2, <1>5, <1>6, <1>7, <1>8, <1>9, <1>10

\* The pane takes an event, or refuses it: the id of an end that was notified stays.
LEMMA LatelyStays ==
    ASSUME PaneInv, Room, Lanes, DOMAIN streams \subseteq StreamKeys, Distinct(streams),
           Conversations, Timely, NEW l \in Clis \union {0}, NEW i, NEW e \in Events,
           Underway(l, i, e), StreamKey(e) \in StreamKeys, HandleAiHook(e),
           NEW m \in Clis \union {0}, NEW j, NEW x \in Events, Underway(m, j, x),
           Final(x), Provider[x.from].notify, Lately(x),
           \A k : \A f \in Events :
               Underway(m, k, f) /\ f.kind = "SessionStart" => StreamKey(f) # StreamKey(x)
    PROVE  Lately(x)'
<1>1. Table(streams) /\ setup \in Setups
  BY DEF PaneInv
<1>2. PICK key : key = StreamKey(x)
  OBVIOUS
<1>3. /\ Lately(x) <=> key \in DOMAIN streams /\ Near(streams[key].ids, x.id)
      /\ Lately(x)' <=> key \in DOMAIN streams' /\ Near(streams'[key].ids, x.id)
  <2>1. StreamKey(x)' = StreamKey(x) /\ \A q, a : Near(q, a)' <=> Near(q, a)
    BY DEF StreamKey, Near, Reach
  <2> QED
    BY <1>2, <2>1, Zenon DEF Lately
<1>4. CASE key # StreamKey(e) \/ ~Applied(e)
  <2>1. key \in DOMAIN streams /\ key \in DOMAIN streams' /\ streams'[key] = streams[key]
    BY <1>3, <1>4, GateTakes
  <2> QED
    BY <1>3, <2>1
<1>5. CASE key = StreamKey(e) /\ Applied(e)
  <2>1. e.from = x.from /\ m = l
    <3>1. e.from = x.from
      BY <1>1, <1>2, <1>5, KeyOwner
    <3> QED
      BY <3>1, SameLane
  <2>2. e.kind # "SessionStart"
    BY <1>2, <1>5, <2>1
  <2>3. PICK r : r = Received(e)
    OBVIOUS
  <2>4. Stamped(r) /\ r.id = e.id /\ r.kind = e.kind
    BY <1>1, <2>3, ReceivedFits DEF Addressed
  <2>5. PICK s \in Stream : /\ key \in DOMAIN streams => s = streams[key]
                            /\ key \in DOMAIN streams'
                            /\ streams'[key].ids = IdsAfter(s, r)
                            /\ e.id # None => ~Contains(s.ids, e.id)
    BY <1>5, <2>3, GateIds
  <2>6. s = streams[key] /\ IsInjective(s.ids) /\ Near(s.ids, x.id)
    BY <1>3, <2>5 DEF Distinct
  <2>7. e.id # None => e.id \in x.id - Reach..x.id + Reach
    <3>1. e.id # None => Final(e)
      BY <2>1 DEF Conversations, Tells
    <3> QED
      BY <2>1, <3>1, TimelyNear
  <2>8. x.id \in Nat
    BY DEF Events
  <2>9. Near(IdsAfter(s, r), x.id)
    BY <2>2, <2>4, <2>5, <2>6, <2>7, <2>8, NearStays
  <2> QED
    BY <1>3, <2>5, <2>9
<1> QED
  BY <1>4, <1>5

LEMMA DoublesMove ==
    ASSUME PaneInv, PaneInv', setup' = setup, Lanes, Ends, Conversations', Doubles, Moves,
           announced' = announced, streams' \in {streams, Forgotten(streams)}
    PROVE  Doubles'
<1>1. UNCHANGED <<Provider, Clis, Events, Room>>
  BY SameSetup
<1>2. /\ DOMAIN streams' = DOMAIN streams
      /\ \A k \in DOMAIN streams : streams'[k].ids = streams[k].ids
  BY ForgottenFits DEF PaneInv
<1>3. \A x \in Events : (Said(x)' <=> Said(x)) /\ (Lately(x) => Lately(x)')
  <2> SUFFICES ASSUME NEW x \in Events
               PROVE  (Said(x)' <=> Said(x)) /\ (Lately(x) => Lately(x)')
    OBVIOUS
  <2>1. Said(x)' <=> Said(x)
    BY DEF Said
  <2>2. Lately(x) => Lately(x)'
    BY <1>2, Zenon DEF Lately, StreamKey, Near, Reach
  <2> QED
    BY <2>1, <2>2
<1>4. \A f : Final(f)' <=> Final(f)
  BY DEF Final
<1>5. ASSUME Room, NEW l \in Clis \union {0}, NEW j, NEW x \in Events, Underway(l, j, x)',
             Final(x), Said(x), Provider[x.from].notify
      PROVE  /\ Lately(x)'
             /\ \A i : \A f \in Events :
                 Underway(l, i, f)' /\ f.kind = "SessionStart" => StreamKey(f) # StreamKey(x)
  <2>1. InPast(x.from, x.body)
    <3>1. PICK n \in 1..Len(announced) : announced[n] = <<x.from, x.body>>
      BY <1>5 DEF Said
    <3> QED
      BY <3>1 DEF Ends
  <2>2. /\ Underway(l, j, x)
        /\ j \in 1..Len(lane[l]) /\ Len(lane[l]) \in Nat
    <3>1. ~(j \in Len(lane[l]) + 1..Len(lane'[l]) /\ x = lane'[l][j])
      BY <1>5, <2>1 DEF Moves
    <3>2. Len(lane[l]) \in Nat
      BY LenProperties DEF PaneInv
    <3> QED
      BY <1>5, <3>1, <3>2, Grown DEF Underway
  <2>3. Lately(x)
    BY <1>5, <2>2 DEF Doubles
  <2>4. ASSUME NEW i, NEW f \in Events, Underway(l, i, f)', f.kind = "SessionStart",
               StreamKey(f) = StreamKey(x)
        PROVE  FALSE
    <3>1. ~Underway(l, i, f)
      BY <1>5, <2>2, <2>4 DEF Doubles
    <3>2. i \in Len(lane[l]) + 1..Len(lane'[l])
      BY <2>4, <3>1, Grown
    <3>3. j < i
      BY <2>2, <3>2
    <3>4. f.session = x.session /\ f.from = x.from
      BY <1>5, <2>4, KeySession DEF PaneInv
    <3>5. x.session < f.session
      BY <1>1, <1>4, <1>5, <2>4, <3>3, <3>4 DEF Conversations
    <3>6. x.session \in Nat
      BY DEF Events
    <3> QED
      BY <3>4, <3>5, <3>6
  <2> QED
    BY <1>3, <2>3, <2>4
<1>6. \A f, x : StreamKey(f)' = StreamKey(f)
  BY DEF StreamKey
<1> QED
  BY <1>1, <1>3, <1>4, <1>5, Zenon DEF Doubles

\* A mark or a refused event arrives.
LEMMA DoublesMark ==
    ASSUME PaneInv, setup' = setup, Lanes, Doubles, NEW l \in Clis \union {0}, NEW i,
           Arrive(l, i), UNCHANGED <<streams, announced>>
    PROVE  Doubles'
<1>1. UNCHANGED <<Provider, Clis, Events, Room>>
  BY SameSetup
<1>2. \A x \in Events : (Said(x)' <=> Said(x)) /\ (Lately(x)' <=> Lately(x))
  BY Zenon DEF Said, Lately, StreamKey, Near, Reach
<1>3. \A f : Final(f)' <=> Final(f)
  BY DEF Final
<1>4. ASSUME Room, NEW m \in Clis \union {0}, NEW j, NEW x \in Events, Underway(m, j, x)',
             Final(x), Said(x), Provider[x.from].notify
      PROVE  /\ Lately(x)
             /\ \A k : \A f \in Events :
                 Underway(m, k, f)' /\ f.kind = "SessionStart" => StreamKey(f) # StreamKey(x)
  <2>1. \A k, y : Underway(m, k, y)' => \E w : Underway(m, w, y)
    BY Shrunk
  <2> QED
    BY <1>4, <2>1 DEF Doubles
<1> QED
  BY <1>1, <1>2, <1>3, <1>4, Zenon DEF Doubles

\* Two reports of one end share their id and their stream.
LEMMA TwinsShare ==
    ASSUME Lanes, NEW l \in Clis \union {0}, NEW m \in Clis \union {0}, NEW i, NEW j,
           NEW e \in Events, NEW f \in Events, Underway(l, i, e), Underway(m, j, f),
           e.from = f.from, i # j, Twins(e, f)
    PROVE  e.id = f.id /\ StreamKey(e) = StreamKey(f)
<1>1. l = LaneOf(e.from) /\ m = LaneOf(e.from)
  BY DEF Lanes, Underway, Sent
<1>2. i \in 1..Len(lane[l]) /\ lane[l][i] = e /\ j \in 1..Len(lane[l]) /\ lane[l][j] = f
  BY <1>1 DEF Underway
<1>3. CASE i < j
  <2>1. Follows(e, f)
    BY <1>2, <1>3 DEF Lanes
  <2> QED
    BY <2>1 DEF Follows
<1>4. CASE j < i
  <2>1. Follows(f, e)
    BY <1>2, <1>4 DEF Lanes
  <2>2. Twins(f, e)
    BY DEF Twins
  <2> QED
    BY <2>1, <2>2 DEF Follows
<1> QED
  BY <1>2, <1>3, <1>4

LEMMA DoublesTake ==
    ASSUME PaneInv, PaneInv', setup' = setup, Lanes, DOMAIN streams \subseteq StreamKeys,
           Distinct(streams), Conversations, Doubles, Timely, NEW l \in Clis \union {0},
           NEW i, Arrive(l, i), NEW e \in Events, lane[l][i] = e, HandleAiHook(e)
    PROVE  /\ Doubles'
           /\ Room /\ Provider[e.from].notify => ~(Applied(e) /\ Final(e) /\ Said(e))
<1>1. UNCHANGED <<Provider, Clis, Events, Room>>
  BY SameSetup
<1>2. Underway(l, i, e) /\ Sent(l, e) /\ StreamKey(e) \in StreamKeys
  BY ArriveRest DEF Sent
<1>3. Table(streams) /\ setup \in Setups
  BY DEF PaneInv
<1>4. PICK r : r = Received(e)
  OBVIOUS
<1>5. Stamped(r) /\ r.id = e.id /\ r.kind = e.kind
  BY <1>3, <1>4, ReceivedFits DEF Addressed
<1>6. ASSUME NEW x \in Events, Said(x)'
      PROVE  \/ Said(x)
             \/ Applied(e) /\ Final(e) /\ x.from = e.from /\ x.body = e.body
  <2>1. PICK n \in 1..Len(announced') : announced'[n] = <<x.from, x.body>>
    BY <1>6 DEF Said
  <2>2. announced' = IF Applied(e) /\ Final(e)
                     THEN Append(announced, <<e.from, e.body>>) ELSE announced
    BY HandleEffects
  <2>3. CASE Applied(e) /\ Final(e)
    BY <2>1, <2>2, <2>3 DEF Said
  <2>4. CASE ~(Applied(e) /\ Final(e))
    BY <2>1, <2>2, <2>4 DEF Said
  <2> QED
    BY <2>3, <2>4
<1>7. ASSUME Room, NEW m \in Clis \union {0}, NEW j, NEW x \in Events, Underway(m, j, x)',
             Final(x), Said(x)', Provider[x.from].notify
      PROVE  /\ Lately(x)'
             /\ \A k : \A f \in Events :
                 Underway(m, k, f)' /\ f.kind = "SessionStart" => StreamKey(f) # StreamKey(x)
  <2>1. \A k, y : Underway(m, k, y)' => \E w : Underway(m, w, y)
    BY Shrunk
  <2>2. PICK w : Underway(m, w, x) /\ (m = l => w # i)
    BY <1>7, Shrunk
  <2>3. CASE Said(x)
    <3>1. /\ Lately(x)
          /\ \A k : \A f \in Events :
              Underway(m, k, f) /\ f.kind = "SessionStart" => StreamKey(f) # StreamKey(x)
      BY <1>7, <2>2, <2>3 DEF Doubles
    <3>2. Lately(x)'
      BY <1>2, <1>7, <2>2, <3>1, LatelyStays
    <3> QED
      BY <2>1, <3>1, <3>2
  <2>4. CASE Applied(e) /\ Final(e) /\ x.from = e.from /\ x.body = e.body
    <3>1. Twins(e, x)
      BY <1>7, <2>4 DEF Twins
    <3>2. m = l /\ i # w
      BY <1>2, <2>2, <2>4, SameLane
    <3>3. e.id = x.id /\ StreamKey(e) = StreamKey(x)
      <4>1. /\ Underway(l, i, e) /\ Underway(m, w, x) /\ e.from = x.from
            /\ i \in Int /\ w \in Int
        BY <1>2, <2>2, <2>4 DEF Underway
      <4> QED
        BY <3>1, <3>2, <4>1, TwinsShare
    <3>4. e.id # None
      <4>1. Provider[e.from].codex # "none"
        BY <1>3, <1>7, <2>4, SetupFacts DEF NotifyBeside, Events
      <4> QED
        BY <1>2, <2>4, <4>1 DEF Sent
    <3>5. PICK s \in Stream : /\ StreamKey(e) \in DOMAIN streams'
                              /\ streams'[StreamKey(e)].ids = IdsAfter(s, r)
      BY <1>2, <1>4, <1>7, <2>4, GateIds
    <3>6. Near(IdsAfter(s, r), x.id)
      BY <1>5, <3>3, <3>4, NearTaken
    <3>7. Lately(x)'
      <4>1. StreamKey(x)' = StreamKey(x) /\ \A q, a : Near(q, a)' <=> Near(q, a)
        BY DEF StreamKey, Near, Reach
      <4> QED
        BY <3>3, <3>5, <3>6, <4>1, Zenon DEF Lately
    <3>8. ASSUME NEW k, NEW f \in Events, Underway(m, k, f)', f.kind = "SessionStart",
                 StreamKey(f) = StreamKey(x)
          PROVE  FALSE
      <4>1. PICK v : Underway(l, v, f) /\ v # i
        BY <3>2, <3>8, Shrunk
      <4>2. f.session = e.session /\ f.from = e.from /\ e.session \in Nat
        BY <1>3, <1>7, <2>4, <3>3, <3>8, KeySession DEF Events
      <4>3. v \in Int /\ i \in Int
        BY <1>2, <4>1 DEF Underway
      <4>4. CASE i < v
        BY <1>2, <1>7, <2>4, <3>8, <4>1, <4>2, <4>4 DEF Conversations
      <4>5. CASE v < i
        BY <1>2, <1>7, <2>4, <3>8, <4>1, <4>2, <4>5, NotAhead
      <4> QED
        BY <4>1, <4>3, <4>4, <4>5
    <3> QED
      BY <3>7, <3>8
  <2> QED
    BY <1>6, <1>7, <2>3, <2>4
<1>8. \A f : Final(f)' <=> Final(f)
  BY DEF Final
<1>9. Doubles'
  BY <1>1, <1>7, <1>8, Zenon DEF Doubles
<1>10. ASSUME Room, Provider[e.from].notify, Applied(e), Final(e), Said(e) PROVE FALSE
  <2>1. Lately(e)
    BY <1>2, <1>10 DEF Doubles
  <2>2. Remembered(e)
    BY <2>1 DEF Lately, Near, Remembered, Contains
  <2>3. e.id # None
    <3>1. Provider[e.from].codex # "none"
      BY <1>3, <1>10, SetupFacts DEF NotifyBeside, Events
    <3> QED
      BY <1>2, <1>10, <3>1 DEF Sent
  <2> QED
    BY <1>2, <1>10, <2>2, <2>3, PassedStays
<1> QED
  BY <1>9, <1>10

\* What the ids of the ends rest on, beside the history.
Endings == Distinct(streams) /\ Conversations /\ Doubles

LEMMA DoublesInit == Init => Endings
<1> SUFFICES ASSUME Init PROVE Endings
  OBVIOUS
<1>1. Distinct(streams)
  BY DEF Init, Distinct
<1>2. \A l \in Clis \union {0} : lane[l] = <<>>
  BY DEF Init
<1>3. 1..Len(<<>>) = {}
  OBVIOUS
<1>4. \A l \in Clis \union {0} : \A j, e : ~Underway(l, j, e)
  BY <1>2, <1>3 DEF Underway
<1> QED
  BY <1>1, <1>4, Zenon DEF Endings, Conversations, Doubles

LEMMA DoublesNext ==
    ASSUME History, Endings, Timely, [Next]_vars
    PROVE  /\ Endings'
           /\ \/ announced' = announced
              \/ \E e \in Events : /\ Takes(e)
                                   /\ Room /\ Provider[e.from].notify
                                        => ~(Applied(e) /\ Final(e) /\ Said(e))
<1>1. /\ PaneInv /\ InSession /\ Lanes /\ DOMAIN streams \subseteq StreamKeys /\ Ends
      /\ Distinct(streams) /\ Conversations /\ Doubles
  BY DEF History, Endings
<1>2. PaneInv' /\ setup' = setup /\ Distinct(streams)'
  BY <1>1, NextFits, DistinctNext
<1>3. CASE Undelivered
  <2>1. Moves /\ announced' = announced /\ streams' \in {streams, Forgotten(streams)}
    BY <1>1, <1>2, <1>3, LanesMove
  <2>2. Conversations'
    BY <1>1, <1>2, <1>3, <2>1, TalksMove, ConversationsMove
  <2>3. Doubles'
    BY <1>1, <1>2, <2>1, <2>2, DoublesMove
  <2> QED
    BY <1>2, <2>1, <2>2, <2>3 DEF Endings
<1>4. ASSUME NEW l \in DOMAIN lane, NEW i, Arrive(l, i)
      PROVE  /\ Endings'
             /\ \/ announced' = announced
                \/ \E e \in Events : /\ Takes(e)
                                     /\ Room /\ Provider[e.from].notify
                                          => ~(Applied(e) /\ Final(e) /\ Said(e))
  <2>1. l \in Clis \union {0}
    BY <1>1 DEF PaneInv
  <2>2. Conversations'
    BY <1>1, <1>2, <1>4, <2>1, ConversationsArrive
  <2>3. CASE OnCommandStart \/ OnCommandFinished \/ Refuse(lane[l][i])
    <3>1. UNCHANGED <<streams, announced>>
      BY <2>3 DEF OnCommandStart, OnCommandFinished, Refuse
    <3>2. Doubles'
      BY <1>1, <1>2, <1>4, <2>1, <3>1, DoublesMark
    <3> QED
      BY <1>2, <2>2, <3>1, <3>2 DEF Endings
  <2>4. CASE lane[l][i] \in Events /\ HandleAiHook(lane[l][i])
    <3>1. PICK e \in Events : lane[l][i] = e /\ HandleAiHook(e)
      BY <2>4
    <3>2. /\ Doubles'
          /\ Room /\ Provider[e.from].notify => ~(Applied(e) /\ Final(e) /\ Said(e))
      BY <1>1, <1>2, <1>4, <2>1, <3>1, DoublesTake
    <3>3. Takes(e)
      BY <1>2, <1>4, <2>1, <3>1, ArriveTakes
    <3> QED
      BY <1>2, <2>2, <3>2, <3>3 DEF Endings
  <2> QED
    BY <1>1, <1>2, <1>4, <2>3, <2>4, ArriveFits
<1> QED
  <2>1. CASE UNCHANGED vars
    BY <1>3, <2>1 DEF Undelivered
  <2>2. CASE Next
    <3>1. CASE \E l \in DOMAIN lane : \E i \in DOMAIN lane[l] : Arrive(l, i)
      BY <1>4, <3>1
    <3> QED
      BY <1>3, <2>2, <3>1, Zenon DEF Next, Undelivered
  <2> QED
    BY <2>1, <2>2

\* The panes in which the gate recognises every copy of the end of a turn: nothing is
\* delivered twice, or every stream has its place and the copy carries a number, or the
\* turn id of codex, on a lane that keeps its order or beside the notify program.
Recognised ==
    \A c \in Clis :
        \/ Unrepeated(c)
        \/ Room /\ (Sequenced(c) \/ Provider[c].notify
                    \/ (Ordered(c) /\ Provider[c].codex # "none"))

\* In such a pane the end of a turn is notified once, although codex reports it by its
\* native hooks and by the notify program, and each report may be lost, repeated or
\* refused: the one of the program may come first, or in a later turn or command, as
\* long as it is not Reach turns late (MAX_EVENT_IDS_PER_STREAM is 64, so 31 turns).
THEOREM EndNotifiedOnce == Spec /\ []Timely => [](Recognised => CompletionOnce)
<1> DEFINE Inv == History /\ Endings /\ (Recognised => CompletionOnce)
<1>1. Init => Inv
  BY HistoryInit, DoublesInit DEF Init, CompletionOnce, IsInjective
<1>2. Inv /\ Timely /\ [Next]_vars => Inv'
  <2> SUFFICES ASSUME History, Endings, Recognised => CompletionOnce, Timely, [Next]_vars,
                      Recognised'
               PROVE  CompletionOnce'
    BY HistoryNext, DoublesNext
  <2>1. /\ setup' = setup
        /\ \/ announced' = announced
           \/ \E e \in Events : /\ Takes(e)
                                /\ Room /\ Provider[e.from].notify
                                     => ~(Applied(e) /\ Final(e) /\ Said(e))
    BY HistoryNext, DoublesNext
  <2>2. Recognised /\ CompletionOnce
    BY <2>1, SameSetup DEF Recognised
  <2>3. CASE announced' = announced
    BY <2>2, <2>3 DEF CompletionOnce, IsInjective
  <2>4. CASE announced' # announced
    <3>1. PICK e \in Events : /\ Takes(e)
                              /\ Room /\ Provider[e.from].notify
                                   => ~(Applied(e) /\ Final(e) /\ Said(e))
      BY <2>1, <2>4
    <3> DEFINE p == <<e.from, e.body>>
               P == Clis \X Nat
    <3>2. e.from \in Clis /\ e.body \in Nat /\ announced \in Seq(P)
      BY DEF Events, History, Ends
    <3>3. p \in P
      BY <3>2
    <3>4. announced' = Append(announced, p) /\ ~Said(e)
      <4>1. Applied(e) /\ Final(e) /\ announced' = Append(announced, p)
        BY <2>4, <3>1, Zenon DEF Takes
      <4>2. ~(Applied(e) /\ Final(e) /\ Said(e))
        BY <2>2, <3>1, <3>2, Zenon DEF Takes, Recognised
      <4> QED
        BY <4>1, <4>2
    <3>5. \A n \in 1..Len(announced) : announced[n] # p
      BY <3>4 DEF Said
    <3> HIDE DEF p, P
    <3>6. /\ Len(announced) \in Nat /\ DOMAIN announced = 1..Len(announced)
          /\ DOMAIN Append(announced, p) = 1..Len(announced) + 1
          /\ Append(announced, p)[Len(announced) + 1] = p
          /\ \A n \in 1..Len(announced) : Append(announced, p)[n] = announced[n]
      BY <3>2, <3>3, AppendProperties, LenProperties
    <3>7. \A n \in 1..Len(announced) + 1 : n \in 1..Len(announced) \/ n = Len(announced) + 1
      BY <3>6
    <3>8. ASSUME NEW a \in 1..Len(announced) + 1, NEW b \in 1..Len(announced) + 1,
                 Append(announced, p)[a] = Append(announced, p)[b]
          PROVE  a = b
      <4>1. \A m, n \in 1..Len(announced) : announced[m] = announced[n] => m = n
        BY <2>2, <3>6 DEF CompletionOnce, IsInjective
      <4> QED
        BY <3>5, <3>6, <3>7, <3>8, <4>1
    <3> QED
      BY <3>4, <3>6, <3>8 DEF CompletionOnce, IsInjective
  <2> QED
    BY <2>3, <2>4
<1>3. Inv => (Recognised => CompletionOnce)
  OBVIOUS
<1> QED
  BY <1>1, <1>2, <1>3, PTL DEF Spec
==============================================================================
