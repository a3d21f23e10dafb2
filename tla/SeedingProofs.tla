---------------------------- MODULE SeedingProofs ----------------------------
(***************************************************************************)
(* cmd/seed's dataset meets the constraints of the schema, and a run that  *)
(* reports success has replaced the tables by it, proved for every draw,   *)
(* event, roster, size of a chunk and number of runs.                      *)
(***************************************************************************)
EXTENDS Seeding, FiniteSetTheorems, SequenceTheorems, WellFoundedInduction, TLAPS

(***************************************************************************)
(* Induction, for the functions the generator is made of.                  *)
(***************************************************************************)
LEMMA LeastNumber ==
    ASSUME NEW S, S \subseteq Nat, S # {}
    PROVE  \E n \in S : \A m \in S : n <= m
<1>1. PICK n \in S : \A m \in S : ~(<<m, n>> \in OpToRel(<, Nat))
    BY NatLessThanWellFounded, WFMin
<1>2. \A m \in S : ~(m < n)
    BY <1>1 DEF OpToRel
<1>3. \A m \in S : n <= m
    BY <1>2
<1> QED
    BY <1>3

\* A set of numbers that holds zero and is closed under successor holds all.
LEMMA Induction ==
    ASSUME NEW S, S \subseteq Nat, 0 \in S, \A n \in S : n + 1 \in S
    PROVE  \A n \in Nat : n \in S
<1> SUFFICES ASSUME Nat \ S # {} PROVE FALSE
    OBVIOUS
<1>1. PICK n \in Nat \ S : \A m \in Nat \ S : n <= m
    BY LeastNumber
<1>2. n # 0 /\ n - 1 \in Nat /\ n - 1 \in S
    BY <1>1
<1> QED
    BY <1>1, <1>2

\* A set of indices has a first and a last.
LEMMA Extremes ==
    ASSUME NEW n \in Nat, NEW S, S \subseteq 1 .. n, S # {}
    PROVE  /\ Min(S) \in S /\ \A i \in S : Min(S) <= i
           /\ Max(S) \in S /\ \A i \in S : i <= Max(S)
<1> S \subseteq Nat
    OBVIOUS
<1>1. \E i \in S : \A j \in S : i <= j
    BY LeastNumber
<1>2. \E i \in S : \A j \in S : i >= j
    <2> DEFINE above == {m \in Nat : \A j \in S : j <= m}
    <2>1. above \subseteq Nat /\ n \in above
        OBVIOUS
    <2>2. PICK m \in above : \A k \in above : m <= k
        BY <2>1, LeastNumber
    <2>3. m \in S
        <3> SUFFICES ASSUME m \notin S PROVE FALSE
            OBVIOUS
        <3>1. \A j \in S : j <= m /\ j # m /\ j \in 1 .. n
            BY <2>2
        <3>2. m \in Nat /\ m # 0
            <4>1. PICK j : j \in S
                OBVIOUS
            <4>2. j <= m /\ j >= 1
                BY <3>1, <4>1
            <4> QED
                BY <2>1, <4>1, <4>2
        <3>3. \A j \in S : j <= m - 1
            BY <3>1, <3>2
        <3>4. m - 1 \in above
            BY <3>2, <3>3
        <3> QED
            BY <2>2, <3>2, <3>4
    <2> QED
        BY <2>2, <2>3
<1>3. Min(S) \in S /\ \A j \in S : Min(S) <= j
    BY <1>1, Zenon DEF Min
<1>4. Max(S) \in S /\ \A j \in S : Max(S) >= j
    BY <1>2, Zenon DEF Max
<1> QED
    BY <1>3, <1>4

\* FlattenSeq appends one sequence after another.
LEMMA FlattenSteps ==
    ASSUME NEW seqs, Len(seqs) \in Nat \ {0}
    PROVE  \E f : /\ f[1] = seqs[1]
                  /\ \A i \in 2 .. Len(seqs) : f[i] = f[i - 1] \o seqs[i]
                  /\ FlattenSeq(seqs) = f[Len(seqs)]
<1> DEFINE N == Len(seqs)
           Good(f, n) == f = [i \in 1 .. n |-> IF i = 1 THEN seqs[i] ELSE f[i - 1] \o seqs[i]]
           S == {n \in Nat : \E f : Good(f, n + 1)}
<1>1. 0 \in S
    <2> DEFINE g == [i \in 1 .. 1 |-> seqs[i]]
    <2>1. Good(g, 1)
        OBVIOUS
    <2> HIDE DEF g, Good
    <2> QED
        BY <2>1
<1>2. ASSUME NEW n \in S PROVE n + 1 \in S
    <2>1. PICK f : Good(f, n + 1)
        OBVIOUS
    <2> DEFINE g == [i \in 1 .. n + 2 |-> IF i = n + 2 THEN f[n + 1] \o seqs[i] ELSE f[i]]
    <2>2. \A i \in 1 .. n + 2 : g[i] = IF i = 1 THEN seqs[i] ELSE g[i - 1] \o seqs[i]
        <3> SUFFICES ASSUME NEW i \in 1 .. n + 2
                     PROVE  g[i] = IF i = 1 THEN seqs[i] ELSE g[i - 1] \o seqs[i]
            OBVIOUS
        <3>1. CASE i = n + 2
            <4>1. i # 1 /\ i - 1 = n + 1 /\ n + 1 \in 1 .. n + 2 /\ n + 1 # n + 2
                BY <3>1
            <4> QED
                BY <3>1, <4>1
        <3>2. CASE i # n + 2
            <4>1. i \in 1 .. n + 1 /\ (i # 1 => i - 1 \in 1 .. n + 1)
                BY <3>2
            <4>2. f[i] = IF i = 1 THEN seqs[i] ELSE f[i - 1] \o seqs[i]
                BY <2>1, <4>1
            <4> QED
                BY <3>2, <4>1, <4>2
        <3> QED
            BY <3>1, <3>2
    <2>3. Good(g, n + 2)
        BY <2>2
    <2> HIDE DEF g, Good
    <2> QED
        BY <2>3
<1> HIDE DEF Good
<1>3. S \subseteq Nat
    OBVIOUS
<1> HIDE DEF S
<1>4. \A n \in Nat : n \in S
    BY <1>1, <1>2, <1>3, Induction
<1> USE DEF S
<1>5. \E f : Good(f, N)
    <2>1. N - 1 \in Nat /\ (N - 1) + 1 = N
        OBVIOUS
    <2> QED
        BY <1>4, <2>1
<1> DEFINE flatten == CHOOSE f : Good(f, N)
<1>6. Good(flatten, N)
    BY <1>5, Zenon
<1>7. FlattenSeq(seqs) = flatten[N]
    BY DEF FlattenSeq, Good
<1> HIDE DEF flatten
<1>8. flatten[1] = seqs[1] /\ \A i \in 2 .. N : flatten[i] = flatten[i - 1] \o seqs[i]
    <2>1. \A i \in 1 .. N : flatten[i] = IF i = 1 THEN seqs[i] ELSE flatten[i - 1] \o seqs[i]
        BY <1>6 DEF Good
    <2>2. 1 \in 1 .. N /\ \A i \in 2 .. N : i \in 1 .. N /\ i # 1
        OBVIOUS
    <2> QED
        BY <2>1, <2>2
<1> QED
    BY <1>7, <1>8

\* Hence what it makes of sequences over a set is one.
LEMMA FlattenType ==
    ASSUME NEW S, NEW seqs \in Seq(Seq(S))
    PROVE  FlattenSeq(seqs) \in Seq(S)
<1>1. CASE Len(seqs) = 0
    <2>1. FlattenSeq(seqs) = seqs /\ seqs = << >>
        BY <1>1 DEF FlattenSeq
    <2> QED
        BY <2>1
<1>2. CASE Len(seqs) # 0
    <2>1. Len(seqs) \in Nat \ {0}
        BY <1>2
    <2>2. PICK f : /\ f[1] = seqs[1]
                   /\ \A i \in 2 .. Len(seqs) : f[i] = f[i - 1] \o seqs[i]
                   /\ FlattenSeq(seqs) = f[Len(seqs)]
        BY <2>1, FlattenSteps
    <2> DEFINE T == {n \in Nat : n + 1 <= Len(seqs) => f[n + 1] \in Seq(S)}
    <2>3. \A i \in 1 .. Len(seqs) : seqs[i] \in Seq(S)
        OBVIOUS
    <2>4. T \subseteq Nat /\ 0 \in T
        BY <2>1, <2>2, <2>3
    <2>5. ASSUME NEW n \in T PROVE n + 1 \in T
        <3> SUFFICES ASSUME n + 2 <= Len(seqs) PROVE f[n + 2] \in Seq(S)
            OBVIOUS
        <3>1. f[n + 1] \in Seq(S) /\ n + 2 \in 2 .. Len(seqs) /\ (n + 2) - 1 = n + 1 /\ n + 2 \in 1 .. Len(seqs)
            BY <2>1
        <3>2. f[n + 2] = f[(n + 2) - 1] \o seqs[n + 2]
            BY <2>2, <3>1
        <3>3. seqs[n + 2] \in Seq(S)
            BY <2>3, <3>1
        <3> QED
            BY <3>1, <3>2, <3>3
    <2> HIDE DEF T
    <2>6. \A n \in Nat : n \in T
        BY <2>4, <2>5, Induction
    <2>7. \A n \in Nat : n + 1 <= Len(seqs) => f[n + 1] \in Seq(S)
        BY <2>6 DEF T
    <2>8. f[Len(seqs)] \in Seq(S)
        <3>1. Len(seqs) - 1 \in Nat /\ (Len(seqs) - 1) + 1 = Len(seqs) /\ Len(seqs) <= Len(seqs)
            BY <2>1
        <3> HIDE DEF T
        <3> QED
            BY <2>7, <3>1
    <2> QED
        BY <2>2, <2>8
<1> QED
    BY <1>1, <1>2

(***************************************************************************)
(* The slots.  A fixture has its room to itself; the sessions of any other *)
(* room follow one another.                                                *)
(***************************************************************************)
Plain(i, k) ==
    [event |-> Events[i].name, room |-> <<Events[i].name, Events[i].rooms[k]>>,
     opens |-> Events[i].opens + 18, fixture |-> NoFixture]

Fixed(i) ==
    [event |-> Events[i].name, room |-> <<Events[i].name, Events[i].rooms[1]>>,
     opens |-> Events[i].opens, fixture |-> Events[i].fixture]

SlotSet(i) ==
    {Plain(i, k) : k \in DOMAIN Events[i].rooms}
      \cup (IF Events[i].fixture = NoFixture THEN {} ELSE {Fixed(i)})

\* No slot shares the room of a fixture.
FixtureAlone(slots) ==
    \A p, q \in DOMAIN slots : p # q /\ slots[p].fixture # NoFixture => slots[p].room # slots[q].room

\* What the assumption on the events says of one of them.
LEMMA EventShape ==
    ASSUME NEW i \in DOMAIN Events
    PROVE  /\ Events[i].rooms \in Seq(STRING) /\ Len(Events[i].rooms) \in Nat \ {0}
           /\ DOMAIN Events[i].rooms = 1 .. Len(Events[i].rooms)
           /\ Events[i].total \in Nat /\ Events[i].opens \in Nat /\ Events[i].fixture \in Seq(Nat)
           /\ \A k, l \in DOMAIN Events[i].rooms : Events[i].rooms[k] = Events[i].rooms[l] => k = l
           /\ Events[i].fixture # NoFixture =>
                /\ Len(Events[i].rooms) = 2 /\ Len(Events[i].fixture) = 2
                /\ Events[i].fixture[1] \in Nat /\ Events[i].fixture[2] \in Nat
                /\ Events[i].fixture[1] < Events[i].fixture[2]
<1>1. Events[i] \in Event /\ Events[i].rooms # << >>
    BY DatasetAssumption
<1>2. /\ Events[i].rooms \in Seq(STRING) /\ Events[i].total \in Nat /\ Events[i].opens \in Nat
      /\ Events[i].fixture \in Seq(Nat)
    BY <1>1 DEF Event
<1>3. Len(Events[i].rooms) \in Nat \ {0} /\ DOMAIN Events[i].rooms = 1 .. Len(Events[i].rooms)
    BY <1>1, <1>2, EmptySeq
<1>4. Events[i].fixture # NoFixture => Len(Events[i].fixture) = 2
    BY DatasetAssumption
<1>5. Events[i].fixture # NoFixture => Events[i].fixture[1] \in Nat /\ Events[i].fixture[2] \in Nat
    BY <1>2, <1>4
<1> QED
    BY <1>2, <1>3, <1>5, DatasetAssumption

\* What addGenericSessions is asked for in one room.
LEMMA RoomSlotsType ==
    ASSUME NEW i \in DOMAIN Events, NEW k \in DOMAIN Events[i].rooms, NEW count \in Nat
    PROVE  RoomSlots(Events[i], k, count) \in Seq({Plain(i, k)})
BY DEF RoomSlots, Plain

\* A room's share is a number of sessions.
LEMMA ShareType ==
    ASSUME NEW total \in Nat, NEW n \in Nat \ {0}, NEW k
    PROVE  Share(total, n, k) \in Nat
<1>1. total \div n \in Nat
    OBVIOUS
<1> QED
    BY <1>1 DEF Share

\* An event's slots are in its rooms, a fixture's by itself.
LEMMA SlotsOfEvent ==
    ASSUME NEW i \in DOMAIN Events
    PROVE  SlotsOf(Events[i]) \in Seq(SlotSet(i)) /\ FixtureAlone(SlotsOf(Events[i]))
<1> DEFINE ev == Events[i]
           R == Len(ev.rooms)
<1>1. CASE ev.fixture = NoFixture
    <2> DEFINE parts == [k \in 1 .. R |-> RoomSlots(ev, k, Share(ev.total, R, k))]
    <2>1. ASSUME NEW k \in 1 .. R PROVE parts[k] \in Seq(SlotSet(i))
        <3>1. k \in DOMAIN ev.rooms /\ Share(ev.total, R, k) \in Nat
            BY EventShape, ShareType
        <3>2. parts[k] \in Seq({Plain(i, k)})
            BY <3>1, RoomSlotsType
        <3>3. {Plain(i, k)} \subseteq SlotSet(i)
            BY <3>1 DEF SlotSet
        <3> QED
            BY <3>2, <3>3, SeqMonotonic
    <2>2. parts \in Seq(Seq(SlotSet(i)))
        <3> HIDE DEF parts
        <3>1. R \in Nat
            BY EventShape
        <3>2. parts \in [1 .. R -> Seq(SlotSet(i))]
            BY <2>1 DEF parts
        <3> QED
            BY <3>1, <3>2
    <2>3. SlotsOf(ev) = FlattenSeq(parts)
        BY <1>1 DEF SlotsOf
    <2>4. SlotsOf(ev) \in Seq(SlotSet(i))
        BY <2>2, <2>3, FlattenType
    <2>5. \A slot \in SlotSet(i) : slot.fixture = NoFixture
        BY <1>1 DEF SlotSet, Plain
    <2> QED
        BY <2>4, <2>5 DEF FixtureAlone
<1>2. CASE ev.fixture # NoFixture
    <2> DEFINE more == RoomSlots(ev, 2, 2)
    <2>1. 1 \in DOMAIN ev.rooms /\ 2 \in DOMAIN ev.rooms /\ ev.rooms[1] # ev.rooms[2]
        BY <1>2, EventShape
    <2>2. more \in Seq({Plain(i, 2)})
        BY <2>1, RoomSlotsType
    <2>3. SlotsOf(ev) = <<Fixed(i)>> \o more
        BY <1>2 DEF SlotsOf, Fixed
    <2>4. {Plain(i, 2)} \subseteq SlotSet(i) /\ Fixed(i) \in SlotSet(i)
        BY <1>2, <2>1 DEF SlotSet
    <2>5. more \in Seq(SlotSet(i)) /\ <<Fixed(i)>> \in Seq(SlotSet(i))
        BY <2>2, <2>4, SeqMonotonic
    <2> HIDE DEF more
    <2>6. SlotsOf(ev) \in Seq(SlotSet(i))
        BY <2>3, <2>5
    <2>7. \A p \in DOMAIN SlotsOf(ev) : IF p = 1 THEN SlotsOf(ev)[p] = Fixed(i) ELSE SlotsOf(ev)[p] = Plain(i, 2)
        BY <2>2, <2>3, <2>5
    <2>8. Plain(i, 2).fixture = NoFixture /\ Plain(i, 2).room # Fixed(i).room
        BY <2>1 DEF Plain, Fixed
    <2> QED
        BY <2>6, <2>7, <2>8 DEF FixtureAlone
<1> QED
    BY <1>1, <1>2

\* Slots of different rooms, one after the other.
LEMMA JoinedSlots ==
    ASSUME NEW A, NEW B, NEW a \in Seq(A), NEW b \in Seq(B), FixtureAlone(a), FixtureAlone(b),
           \A x \in A, y \in B : x.room # y.room
    PROVE  a \o b \in Seq(A \cup B) /\ FixtureAlone(a \o b)
<1> DEFINE c == a \o b
<1>1. a \in Seq(A \cup B) /\ b \in Seq(A \cup B)
    BY SeqMonotonic
<1>2. c \in Seq(A \cup B) /\ Len(c) = Len(a) + Len(b) /\ Len(a) \in Nat /\ Len(b) \in Nat /\ DOMAIN c = 1 .. Len(c)
    BY <1>1
<1>3. \A p \in DOMAIN c :
        \/ p \in DOMAIN a /\ c[p] = a[p] /\ c[p] \in A
        \/ p - Len(a) \in DOMAIN b /\ c[p] = b[p - Len(a)] /\ c[p] \in B
    BY <1>1, <1>2
<1> HIDE DEF c
<1>4. ASSUME NEW p \in DOMAIN c, NEW q \in DOMAIN c, p # q, c[p].fixture # NoFixture
      PROVE  c[p].room # c[q].room
    <2>1. CASE p \in DOMAIN a /\ c[p] = a[p] /\ c[p] \in A
        <3>1. CASE q \in DOMAIN a /\ c[q] = a[q] /\ c[q] \in A
            BY <1>4, <2>1, <3>1 DEF FixtureAlone
        <3>2. CASE q - Len(a) \in DOMAIN b /\ c[q] = b[q - Len(a)] /\ c[q] \in B
            BY <2>1, <3>2
        <3> QED
            BY <1>3, <3>1, <3>2
    <2>2. CASE p - Len(a) \in DOMAIN b /\ c[p] = b[p - Len(a)] /\ c[p] \in B
        <3>1. CASE q \in DOMAIN a /\ c[q] = a[q] /\ c[q] \in A
            BY <2>2, <3>1
        <3>2. CASE q - Len(a) \in DOMAIN b /\ c[q] = b[q - Len(a)] /\ c[q] \in B
            <4>1. p - Len(a) # q - Len(a)
                BY <1>2, <1>4
            <4> QED
                BY <1>4, <2>2, <3>2, <4>1 DEF FixtureAlone
        <3> QED
            BY <1>3, <3>1, <3>2
    <2> QED
        BY <1>3, <2>1, <2>2
<1> QED
    BY <1>2, <1>4 DEF FixtureAlone, c

\* A slot is in a room of its event.
LEMMA SlotShape ==
    ASSUME NEW i \in DOMAIN Events, NEW slot \in SlotSet(i)
    PROVE  /\ slot.event = Events[i].name
           /\ \E k \in DOMAIN Events[i].rooms : slot.room = <<Events[i].name, Events[i].rooms[k]>>
           /\ slot.opens \in Nat
           /\ slot.fixture # NoFixture =>
                /\ slot.fixture[1] \in Nat /\ slot.fixture[2] \in Nat
                /\ slot.fixture[1] < slot.fixture[2]
<1>1. CASE \E k \in DOMAIN Events[i].rooms : slot = Plain(i, k)
    BY <1>1, EventShape DEF Plain
<1>2. CASE Events[i].fixture # NoFixture /\ slot = Fixed(i)
    <2>1. 1 \in DOMAIN Events[i].rooms
        BY EventShape
    <2> QED
        BY <1>2, <2>1, EventShape DEF Fixed
<1> QED
    BY <1>1, <1>2 DEF SlotSet

\* The slots of all events.
LEMMA SlotsShape ==
    Slots \in Seq(UNION {SlotSet(i) : i \in DOMAIN Events}) /\ FixtureAlone(Slots)
<1> DEFINE L == Len(Events)
           seqs == [i \in 1 .. L |-> SlotsOf(Events[i])]
           Upto(n) == UNION {SlotSet(i) : i \in 1 .. n}
<1>1. Events \in Seq(Event) /\ L \in Nat \ {0} /\ DOMAIN Events = 1 .. L
    BY DatasetAssumption
<1>2. Len(seqs) = L
    BY <1>1
<1>3. PICK f : /\ f[1] = seqs[1]
               /\ \A i \in 2 .. L : f[i] = f[i - 1] \o seqs[i]
               /\ FlattenSeq(seqs) = f[L]
    <2> HIDE DEF seqs, L
    <2> QED
        BY <1>1, <1>2, FlattenSteps
<1>4. \A i \in 1 .. L : seqs[i] \in Seq(SlotSet(i)) /\ FixtureAlone(seqs[i])
    BY <1>1, SlotsOfEvent
<1>5. Slots = f[L]
    BY <1>3 DEF Slots
<1> HIDE DEF seqs, L
<1> DEFINE P(n) == f[n] \in Seq(Upto(n)) /\ FixtureAlone(f[n])
           T == {n \in Nat : n + 1 <= L => P(n + 1)}
<1>6. T \subseteq Nat /\ 0 \in T
    <2>1. 1 \in 1 .. L /\ f[1] \in Seq(SlotSet(1)) /\ FixtureAlone(f[1])
        BY <1>1, <1>3, <1>4
    <2>2. SlotSet(1) \subseteq Upto(1)
        OBVIOUS
    <2>3. P(1)
        BY <2>1, <2>2, SeqMonotonic
    <2> HIDE DEF P
    <2> QED
        BY <2>3
<1>7. ASSUME NEW n \in T PROVE n + 1 \in T
    <2> SUFFICES ASSUME n + 2 <= L PROVE P(n + 2)
        <3> HIDE DEF P
        <3> QED
            OBVIOUS
    <2>1. /\ n \in Nat /\ P(n + 1) /\ n + 2 \in 2 .. L /\ n + 2 \in 1 .. L /\ (n + 2) - 1 = n + 1
        <3> HIDE DEF P
        <3> QED
            BY <1>1
    <2>2. f[n + 2] = f[(n + 2) - 1] \o seqs[n + 2]
        BY <1>3, <2>1
    <2>3. ASSUME NEW x \in Upto(n + 1), NEW y \in SlotSet(n + 2) PROVE x.room # y.room
        <3>1. PICK i \in 1 .. n + 1 : x \in SlotSet(i)
            OBVIOUS
        <3>2. i \in DOMAIN Events /\ n + 2 \in DOMAIN Events /\ i # n + 2
            BY <1>1, <2>1, <3>1
        <3>3. x.room[1] = Events[i].name /\ y.room[1] = Events[n + 2].name
            BY <3>1, <3>2, SlotShape
        <3>4. Events[i].name # Events[n + 2].name
            BY <3>2, DatasetAssumption
        <3> QED
            BY <3>3, <3>4
    <2>4. Upto(n + 1) \cup SlotSet(n + 2) \subseteq Upto(n + 2)
        BY <2>1
    <2>5. f[n + 1] \in Seq(Upto(n + 1)) /\ FixtureAlone(f[n + 1])
        BY <2>1
    <2>6. seqs[n + 2] \in Seq(SlotSet(n + 2)) /\ FixtureAlone(seqs[n + 2])
        BY <1>4, <2>1
    <2> HIDE DEF Upto
    <2>7. /\ f[n + 1] \o seqs[n + 2] \in Seq(Upto(n + 1) \cup SlotSet(n + 2))
          /\ FixtureAlone(f[n + 1] \o seqs[n + 2])
        BY <2>3, <2>5, <2>6, JoinedSlots
    <2>8. f[n + 1] \o seqs[n + 2] \in Seq(Upto(n + 2))
        BY <2>4, <2>7, SeqMonotonic
    <2> QED
        BY <2>1, <2>2, <2>7, <2>8
<1> HIDE DEF T, P
<1>8. \A n \in Nat : n \in T
    BY <1>6, <1>7, Induction
<1>9. P(L)
    <2>1. \A n \in Nat : n + 1 <= L => P(n + 1)
        BY <1>8 DEF T
    <2>2. L - 1 \in Nat /\ (L - 1) + 1 = L /\ L <= L
        BY <1>1
    <2> QED
        BY <2>1, <2>2
<1> QED
    BY <1>1, <1>5, <1>9 DEF P

(***************************************************************************)
(* The sessions.  Fits(s, n) is what the constraints ask of the first n    *)
(* sessions and what the generator keeps up: in its room each session      *)
(* begins after those before it have ended, and its speaker is at no other *)
(* at the time.                                                            *)
(***************************************************************************)
EventNames == {Events[i].name : i \in DOMAIN Events}
RoomKeys == UNION {{<<Events[i].name, Events[i].rooms[k]>> : k \in DOMAIN Events[i].rooms} : i \in DOMAIN Events}
Session == [event : EventNames, room : RoomKeys, speaker : People \cup {Nobody}, starts : Nat, ends : Nat]

Apart(s, p, q) == s[p].ends <= s[q].starts \/ s[q].ends <= s[p].starts

Fits(s, n) ==
    /\ s \in Seq(Session) /\ Len(s) = n
    /\ \A p \in 1 .. n : s[p].starts < s[p].ends /\ s[p].room = Slots[p].room
    /\ \A p, q \in 1 .. n :
         p < q =>
           /\ s[p].room = s[q].room => s[p].ends <= s[q].starts
           /\ s[p].speaker = s[q].speaker /\ s[p].speaker # Nobody => Apart(s, p, q)

Draw == [length : 1 .. 3, direct : BOOLEAN, order : Seq(People)]

\* Whoever is picked is a user, and free.
LEMMA PickShape ==
    ASSUME NEW candidates \in Seq(People), NEW s, NEW starts, NEW ends
    PROVE  LET u == PickSpeaker(candidates, s, starts, ends) IN
           /\ u \in People \cup {Nobody}
           /\ u # Nobody => ~Overlaps(s, u, starts, ends)
<1> DEFINE free == {k \in DOMAIN candidates : ~Overlaps(s, candidates[k], starts, ends)}
<1>1. CASE free = {}
    BY <1>1 DEF PickSpeaker
<1>2. CASE free # {}
    <2>1. Len(candidates) \in Nat /\ DOMAIN candidates = 1 .. Len(candidates)
        OBVIOUS
    <2>2. free \subseteq 1 .. Len(candidates)
        BY <2>1
    <2>3. PickSpeaker(candidates, s, starts, ends) = candidates[Min(free)]
        BY <1>2 DEF PickSpeaker
    <2>4. Min(free) \in free
        <3> HIDE DEF free
        <3> QED
            BY <1>2, <2>1, <2>2, Extremes
    <2>5. candidates[Min(free)] \in People /\ ~Overlaps(s, candidates[Min(free)], starts, ends)
        BY <2>4
    <2> QED
        BY <2>3, <2>5
<1> QED
    BY <1>1, <1>2

\* The cursor of a room has passed every session that is in it.
LEMMA CursorShape ==
    ASSUME NEW n \in Nat, NEW s, Fits(s, n), NEW slot, slot.opens \in Nat
    PROVE  /\ Cursor(s, slot) \in Nat
           /\ \A p \in 1 .. n : s[p].room = slot.room => s[p].ends <= Cursor(s, slot)
<1> DEFINE there == {i \in DOMAIN s : s[i].room = slot.room}
<1>1. DOMAIN s = 1 .. n
    BY DEF Fits
<1>2. CASE there = {}
    BY <1>1, <1>2 DEF Cursor
<1>3. CASE there # {}
    <2>1. Cursor(s, slot) = s[Max(there)].ends + 1
        BY <1>3 DEF Cursor
    <2>2. there \subseteq 1 .. n
        BY <1>1
    <2>3. Max(there) \in there /\ \A p \in there : p <= Max(there)
        <3> HIDE DEF there
        <3> QED
            BY <1>3, <2>2, Extremes
    <2>4. PICK m \in 1 .. n : m = Max(there) /\ s[m].room = slot.room
        BY <1>1, <2>3
    <2>5. \A p \in 1 .. n : s[p] \in Session
        BY <1>1 DEF Fits
    <2>6. s[m].ends \in Nat /\ s[m].starts \in Nat /\ s[m].starts < s[m].ends
        BY <2>4, <2>5 DEF Fits, Session
    <2>7. ASSUME NEW p \in 1 .. n, s[p].room = slot.room PROVE s[p].ends <= s[m].ends
        <3>1. p \in there /\ p <= m
            BY <1>1, <2>3, <2>4, <2>7
        <3>2. CASE p = m
            BY <2>6, <3>2
        <3>3. CASE p < m
            <4>1. s[p].ends <= s[m].starts /\ s[p].ends \in Nat
                BY <2>4, <2>5, <2>7, <3>3 DEF Fits, Session
            <4> QED
                BY <2>6, <4>1
        <3> QED
            BY <3>1, <3>2, <3>3
    <2>8. \A p \in 1 .. n : s[p].room = slot.room => s[p].ends <= s[m].ends + 1
        <3> SUFFICES ASSUME NEW p \in 1 .. n, s[p].room = slot.room PROVE s[p].ends <= s[m].ends + 1
            OBVIOUS
        <3>1. s[p].ends \in Nat
            BY <2>5 DEF Session
        <3> QED
            BY <2>6, <2>7, <3>1
    <2> QED
        BY <2>1, <2>4, <2>6, <2>8
<1> QED
    BY <1>2, <1>3

\* One more session.
LEMMA PlaceFits ==
    ASSUME NEW n \in Nat, n + 1 \in 1 .. Len(Slots), NEW s, Fits(s, n), NEW draw \in Draw
    PROVE  Fits(Place(s, Slots[n + 1], draw), n + 1)
<1> DEFINE slot == Slots[n + 1]
           starts == IF slot.fixture = NoFixture THEN Cursor(s, slot) ELSE slot.fixture[1]
           ends == IF slot.fixture = NoFixture THEN starts + draw.length ELSE slot.fixture[2]
           speaker == PickSpeaker(Candidates(draw), s, starts, ends)
           e == [event |-> slot.event, room |-> slot.room, speaker |-> speaker, starts |-> starts, ends |-> ends]
           t == Append(s, e)
<1>1. Place(s, slot, draw) = t
    BY DEF Place
<1>2. PICK i \in DOMAIN Events : slot \in SlotSet(i)
    BY SlotsShape
<1>3. /\ slot.event \in EventNames /\ slot.room \in RoomKeys /\ slot.opens \in Nat
      /\ slot.fixture # NoFixture =>
           slot.fixture[1] \in Nat /\ slot.fixture[2] \in Nat /\ slot.fixture[1] < slot.fixture[2]
    <2> HIDE DEF slot
    <2>1. /\ slot.event = Events[i].name
          /\ \E k \in DOMAIN Events[i].rooms : slot.room = <<Events[i].name, Events[i].rooms[k]>>
          /\ slot.opens \in Nat
          /\ slot.fixture # NoFixture =>
               slot.fixture[1] \in Nat /\ slot.fixture[2] \in Nat /\ slot.fixture[1] < slot.fixture[2]
        BY <1>2, SlotShape
    <2>2. PICK k \in DOMAIN Events[i].rooms : slot.room = <<Events[i].name, Events[i].rooms[k]>>
        BY <2>1
    <2>3. slot.event \in EventNames
        BY <2>1 DEF EventNames
    <2>4. slot.room \in RoomKeys
        BY <2>2 DEF RoomKeys
    <2> QED
        BY <2>1, <2>3, <2>4
<1>4. /\ Cursor(s, slot) \in Nat
      /\ \A p \in 1 .. n : s[p].room = slot.room => s[p].ends <= Cursor(s, slot)
    BY <1>3, CursorShape
<1>5. starts \in Nat /\ ends \in Nat /\ starts < ends
    <2>1. draw.length \in Nat /\ draw.length > 0
        BY DEF Draw
    <2> HIDE DEF slot
    <2> QED
        BY <1>3, <1>4, <2>1
<1>6. Candidates(draw) \in Seq(People)
    BY DatasetAssumption DEF Candidates, Draw
<1>7. speaker \in People \cup {Nobody} /\ (speaker # Nobody => ~Overlaps(s, speaker, starts, ends))
    <2> HIDE DEF starts, ends
    <2> QED
        BY <1>6, PickShape
<1>8. ASSUME NEW p \in 1 .. n, s[p].room = slot.room PROVE s[p].ends <= starts
    <2>1. slot.fixture = NoFixture
        <3>1. p \in DOMAIN Slots /\ n + 1 \in DOMAIN Slots /\ p # n + 1 /\ s[p].room = Slots[p].room
            BY SlotsShape DEF Fits
        <3> QED
            BY <1>8, <3>1, SlotsShape DEF FixtureAlone
    <2> HIDE DEF slot
    <2> QED
        BY <1>4, <1>8, <2>1
<1> HIDE DEF slot, starts, ends, speaker
<1>9. e \in Session
    BY <1>3, <1>5, <1>7 DEF Session
<1>10. s \in Seq(Session) /\ Len(s) = n /\ \A p \in 1 .. n : s[p] \in Session
    BY DEF Fits
<1>11. e.room = slot.room /\ e.speaker = speaker /\ e.starts = starts /\ e.ends = ends
    OBVIOUS
<1> HIDE DEF e
<1>12. t \in Seq(Session) /\ Len(t) = n + 1 /\ t[n + 1] = e /\ \A p \in 1 .. n : t[p] = s[p]
    BY <1>9, <1>10
<1> HIDE DEF t
<1>13. ASSUME NEW p \in 1 .. n + 1 PROVE t[p].starts < t[p].ends /\ t[p].room = Slots[p].room
    <2>1. CASE p = n + 1
        BY <1>5, <1>11, <1>12, <2>1 DEF slot
    <2>2. CASE p # n + 1
        <3>1. p \in 1 .. n /\ t[p] = s[p]
            BY <1>12, <2>2
        <3> QED
            BY <3>1 DEF Fits
    <2> QED
        BY <2>1, <2>2
<1>14. ASSUME NEW p \in 1 .. n + 1, NEW q \in 1 .. n + 1, p < q
       PROVE  /\ t[p].room = t[q].room => t[p].ends <= t[q].starts
              /\ t[p].speaker = t[q].speaker /\ t[p].speaker # Nobody => Apart(t, p, q)
    <2>1. p \in 1 .. n /\ t[p] = s[p]
        BY <1>12, <1>14
    <2>2. CASE q = n + 1
        <3>1. t[p].room = t[q].room => t[p].ends <= t[q].starts
            BY <1>8, <1>11, <1>12, <2>1, <2>2
        <3>2. ASSUME t[p].speaker = t[q].speaker, t[p].speaker # Nobody PROVE Apart(t, p, q)
            <4>1. ~Overlaps(s, speaker, starts, ends) /\ s[p].speaker = speaker
                BY <1>7, <1>11, <1>12, <2>1, <2>2, <3>2
            <4>2. p \in DOMAIN s
                BY <1>10, <2>1
            <4>3. ~(starts < s[p].ends /\ s[p].starts < ends)
                BY <4>1, <4>2 DEF Overlaps
            <4>4. s[p].ends \in Nat /\ s[p].starts \in Nat
                BY <1>10, <2>1 DEF Session
            <4>5. s[p].ends <= starts \/ ends <= s[p].starts
                BY <1>5, <4>3, <4>4
            <4> QED
                BY <1>11, <1>12, <2>1, <2>2, <4>5 DEF Apart
        <3> QED
            BY <3>1, <3>2
    <2>3. CASE q # n + 1
        <3>1. q \in 1 .. n /\ t[q] = s[q]
            BY <1>12, <2>3
        <3> QED
            BY <1>14, <2>1, <3>1 DEF Fits, Apart
    <2> QED
        BY <2>2, <2>3
<1> QED
    BY <1>1, <1>12, <1>13, <1>14 DEF Fits, slot

\* The sessions are made one after another.
LEMMA SessionsSteps ==
    ASSUME NEW drawn
    PROVE  \E f : /\ f[0] = << >>
                  /\ \A n \in 1 .. Len(Slots) : f[n] = Place(f[n - 1], Slots[n], drawn[n])
                  /\ Sessions(drawn) = f[Len(Slots)]
<1> DEFINE L == Len(Slots)
           Good(f, n) == f = [m \in 0 .. n |-> IF m = 0 THEN << >> ELSE Place(f[m - 1], Slots[m], drawn[m])]
           S == {n \in Nat : \E f : Good(f, n)}
<1>1. 0 \in S
    <2> DEFINE g == [m \in 0 .. 0 |-> << >>]
    <2>1. Good(g, 0)
        OBVIOUS
    <2> HIDE DEF g, Good
    <2> QED
        BY <2>1
<1>2. ASSUME NEW n \in S PROVE n + 1 \in S
    <2>1. PICK f : Good(f, n)
        OBVIOUS
    <2> DEFINE g == [m \in 0 .. n + 1 |-> IF m = n + 1 THEN Place(f[n], Slots[m], drawn[m]) ELSE f[m]]
    <2>2. \A m \in 0 .. n + 1 : g[m] = IF m = 0 THEN << >> ELSE Place(g[m - 1], Slots[m], drawn[m])
        <3> SUFFICES ASSUME NEW m \in 0 .. n + 1
                     PROVE  g[m] = IF m = 0 THEN << >> ELSE Place(g[m - 1], Slots[m], drawn[m])
            OBVIOUS
        <3>1. CASE m = n + 1
            <4>1. m # 0 /\ m - 1 = n /\ n \in 0 .. n + 1 /\ n # n + 1
                BY <3>1
            <4> QED
                BY <3>1, <4>1
        <3>2. CASE m # n + 1
            <4>1. m \in 0 .. n /\ (m # 0 => m - 1 \in 0 .. n /\ m - 1 \in 0 .. n + 1 /\ m - 1 # n + 1)
                BY <3>2
            <4>2. f[m] = IF m = 0 THEN << >> ELSE Place(f[m - 1], Slots[m], drawn[m])
                BY <2>1, <4>1
            <4> QED
                BY <3>2, <4>1, <4>2
        <3> QED
            BY <3>1, <3>2
    <2>3. Good(g, n + 1)
        BY <2>2
    <2> HIDE DEF g, Good
    <2> QED
        BY <2>3
<1> HIDE DEF Good
<1>3. S \subseteq Nat
    OBVIOUS
<1> HIDE DEF S
<1>4. \A n \in Nat : n \in S
    BY <1>1, <1>2, <1>3, Induction
<1> USE DEF S
<1>5. L \in Nat
    BY SlotsShape
<1>6. \E f : Good(f, L)
    BY <1>4, <1>5
<1> DEFINE made == CHOOSE f : Good(f, L)
<1>7. Good(made, L)
    BY <1>6, Zenon
<1>8. Sessions(drawn) = made[L]
    BY DEF Sessions, Good
<1> HIDE DEF made
<1>9. made[0] = << >> /\ \A n \in 1 .. L : made[n] = Place(made[n - 1], Slots[n], drawn[n])
    <2>1. \A m \in 0 .. L : made[m] = IF m = 0 THEN << >> ELSE Place(made[m - 1], Slots[m], drawn[m])
        BY <1>7 DEF Good
    <2>2. 0 \in 0 .. L /\ \A n \in 1 .. L : n \in 0 .. L /\ n # 0
        BY <1>5
    <2> QED
        BY <2>1, <2>2
<1> QED
    BY <1>8, <1>9

\* What is generated fits.
LEMMA SessionsFit ==
    ASSUME NEW drawn \in [1 .. Len(Slots) -> Draw]
    PROVE  Fits(Sessions(drawn), Len(Slots))
<1> DEFINE L == Len(Slots)
<1>1. L \in Nat
    BY SlotsShape
<1>2. PICK f : /\ f[0] = << >>
               /\ \A n \in 1 .. L : f[n] = Place(f[n - 1], Slots[n], drawn[n])
               /\ Sessions(drawn) = f[L]
    BY SessionsSteps
<1> DEFINE T == {n \in Nat : n <= L => Fits(f[n], n)}
<1>3. T \subseteq Nat /\ 0 \in T
    <2>1. Fits(<< >>, 0)
        BY DEF Fits
    <2> QED
        BY <1>2, <2>1
<1>4. ASSUME NEW n \in T PROVE n + 1 \in T
    <2> SUFFICES ASSUME n + 1 <= L PROVE Fits(f[n + 1], n + 1)
        OBVIOUS
    <2>1. n \in Nat /\ n + 1 \in 1 .. L /\ Fits(f[n], n) /\ (n + 1) - 1 = n
        BY <1>1
    <2>2. f[n + 1] = Place(f[(n + 1) - 1], Slots[n + 1], drawn[n + 1]) /\ drawn[n + 1] \in Draw
        BY <1>2, <2>1
    <2> HIDE DEF T
    <2> QED
        BY <2>1, <2>2, PlaceFits
<1> HIDE DEF T
<1>5. \A n \in Nat : n \in T
    BY <1>3, <1>4, Induction
<1>6. \A n \in Nat : n <= L => Fits(f[n], n)
    BY <1>5 DEF T
<1> QED
    BY <1>1, <1>2, <1>6

\* Two sessions of a room, or of a speaker, are apart, in whichever order they come.
LEMMA FitApart ==
    ASSUME NEW n \in Nat, NEW s, Fits(s, n), ~Panics(s), NEW p \in DOMAIN s, NEW q \in DOMAIN s, p # q,
           s[p].speaker = s[q].speaker \/ s[p].room = s[q].room
    PROVE  Apart(s, p, q)
<1>1. DOMAIN s = 1 .. n /\ p \in 1 .. n /\ q \in 1 .. n
    BY DEF Fits
<1>2. s[p].speaker # Nobody /\ s[q].speaker # Nobody
    BY DEF Panics
<1>3. CASE p < q
    BY <1>1, <1>2, <1>3 DEF Fits, Apart
<1>4. CASE q < p
    BY <1>1, <1>2, <1>4 DEF Fits, Apart
<1> QED
    BY <1>1, <1>3, <1>4

\* Hence no neighbours overlap, in a room or of a speaker.
LEMMA FitAccepted ==
    ASSUME NEW n \in Nat, NEW s, Fits(s, n), ~Panics(s)
    PROVE  /\ NoSpeakerOrRoomOverlap(s)
           /\ \A i, j \in DOMAIN s :
                 /\ i # j
                 /\ \/ s[i].speaker = s[j].speaker
                    \/ s[i].room = s[j].room
                 => s[i].ends <= s[j].starts \/ s[j].ends <= s[i].starts
<1>1. DOMAIN s = 1 .. n /\ \A p \in 1 .. n : s[p].starts \in Nat /\ s[p].ends \in Nat /\ s[p].starts < s[p].ends
    <2>1. DOMAIN s = 1 .. n /\ \A p \in 1 .. n : s[p] \in Session /\ s[p].starts < s[p].ends
        BY DEF Fits
    <2> QED
        BY <2>1 DEF Session
<1>2. \A i, j \in DOMAIN s :
          i # j /\ (s[i].speaker = s[j].speaker \/ s[i].room = s[j].room) => Apart(s, i, j)
    BY FitApart
<1>3. ASSUME NEW i \in DOMAIN s, NEW j \in DOMAIN s, i # j, s[i].starts <= s[j].starts,
             s[i].speaker = s[j].speaker \/ s[i].room = s[j].room
      PROVE  s[i].ends <= s[j].starts
    <2>1. Apart(s, i, j)
        BY <1>2, <1>3
    <2> QED
        BY <1>1, <1>3, <2>1 DEF Apart
<1>4. NoOverlapByKey(s, "room")
    BY <1>3 DEF NoOverlapByKey, Neighbours
<1>5. NoOverlapByKey(s, "speaker")
    BY <1>3 DEF NoOverlapByKey, Neighbours
<1> QED
    BY <1>2, <1>4, <1>5 DEF NoSpeakerOrRoomOverlap, Apart

\* What a run has placed is the dataset of its draws, or nothing; one that
\* lacks a speaker has stopped the run.
Generated ==
    /\ draws \in Draws
    /\ \/ placed = << >>
       \/ placed = Sessions(draws.places) /\ (Panics(placed) => at = 0 /\ exit = "panic")

\* No sessions fit, before there are any.
LEMMA NothingFits == Fits(<< >>, 0) /\ ~Panics(<< >>)
BY DEF Fits, Panics

\* What the random source may draw is as SessionsFit wants it.
LEMMA DrawsFit ==
    ASSUME NEW d \in Draws
    PROVE  Fits(Sessions(d.places), Len(Slots)) /\ Len(Slots) \in Nat
<1>1. d.places \in [1 .. Len(Slots) -> Draw]
    BY SeedingAssumption DEF Draw
<1> QED
    BY <1>1, SessionsFit, SlotsShape

\* Every step keeps that.
LEMMA GeneratedStep ==
    ASSUME Generated, [SeedNext]_seedVars
    PROVE  Generated'
<1>1. CASE Start
    BY <1>1 DEF Start, Generated
<1>2. CASE Execute
    BY <1>2 DEF Execute, Generated, Stays, End, Go
<1>3. CASE Generate
    <2>1. placed' = Sessions(draws.places) /\ draws' = draws
        BY <1>3 DEF Generate, Stays
    <2>2. Panics(placed') => at' = 0 /\ exit' = "panic"
        BY <1>3 DEF Generate, End
    <2> QED
        BY <2>1, <2>2 DEF Generated
<1>4. CASE Check
    BY <1>4 DEF Check, Generated, Stays, End, Go
<1>5. CASE Interrupt
    BY <1>5 DEF Interrupt, Generated, Stays, End
<1>6. CASE Beside
    <2>1. UNCHANGED <<draws, at, exit, placed>>
        BY <1>6 DEF Beside, SignIn, Invite, Found, Schedule, Edit, Adds
    <2> QED
        BY <2>1 DEF Generated
<1>7. CASE UNCHANGED seedVars
    BY <1>7 DEF seedVars, Generated
<1> QED
    BY <1>1, <1>2, <1>3, <1>4, <1>5, <1>6, <1>7 DEF SeedNext

\* generate.go: whatever the random source draws, the sessions of a run that did
\* not panic are ones the EXCLUDE constraints accept, and the guard of the tests
\* says so.
THEOREM DatasetAlwaysFits == SeedSpec => []DatasetFits
<1>1. SeedInit => Generated
    BY DEF SeedInit, Generated
<1>2. Generated /\ [SeedNext]_seedVars => Generated'
    BY GeneratedStep
<1>3. Generated => DatasetFits
    <2> SUFFICES ASSUME Generated, exit # "panic" PROVE DatasetFits
        BY DEF DatasetFits
    <2>1. PICK n \in Nat : Fits(placed, n)
        BY NothingFits, DrawsFit DEF Generated
    <2>2. ~Panics(placed)
        BY NothingFits DEF Generated
    <2> QED
        BY <2>1, <2>2, FitAccepted DEF DatasetFits
<1> QED
    BY <1>1, <1>2, <1>3, PTL DEF SeedSpec

(***************************************************************************)
(* The tables.  Every row is one of its table's and refers to what its     *)
(* table refers to; Anchors are the references no row is without.          *)
(***************************************************************************)
TableNames == {"users", "events", "event_members", "rooms", "sessions", "invitations",
               "audit_log", "idempotency_keys", "session_series", "session_exceptions"}

RefTables(t) ==
    CASE t \in {"idempotency_keys", "audit_log"} -> {"users"}
      [] t \in {"invitations", "event_members"} -> {"events", "users"}
      [] t = "rooms" -> {"events"}
      [] t = "sessions" -> {"events", "users", "rooms", "session_series"}
      [] t = "session_series" -> {"events", "users", "rooms"}
      [] t = "session_exceptions" -> {"sessions", "session_series"}
      [] OTHER -> {}

Anchors(t) ==
    CASE t = "audit_log" -> {"users"}
      [] t \in {"rooms", "session_series"} -> {"events"}
      [] t = "session_exceptions" -> {"session_series"}
      [] OTHER -> {}

Proper(t, w) ==
    /\ w.id[2] = t
    /\ \A r \in w.refs : r[2] \in RefTables(t)
    /\ \A a \in Anchors(t) : \E r \in w.refs : r[2] = a

WellFormed(tables) ==
    /\ DOMAIN tables = TableNames
    /\ \A t \in TableNames : \A w \in tables[t] : Proper(t, w)

\* The steps of Program: eight deletes, generate, four copies, the chunks of the
\* sessions, the invitations, and a check for each identity.
Chunks == (Len(Slots) + ChunkSize - 1) \div ChunkSize
Final == 14 + Chunks + Len(DemoIdentities)

DeletedAt(t) ==
    CASE t = "idempotency_keys" -> 1
      [] t = "audit_log" -> 2
      [] t = "invitations" -> 3
      [] t = "sessions" -> 4
      [] t = "event_members" -> 5
      [] t = "rooms" -> 6
      [] t = "users" -> 8
      [] OTHER -> 7

CopiedAt(t) ==
    CASE t = "users" -> 10
      [] t = "events" -> 11
      [] t = "event_members" -> 12
      [] t = "rooms" -> 13
      [] t = "invitations" -> 14 + Chunks
      [] OTHER -> 9

\* What a run that has come to step p has loaded into a table.
Loaded(p, t) ==
    IF t = "sessions"
    THEN {SessionRow(runs, i) : i \in {k \in DOMAIN placed : p > 14 /\ k <= (p - 14) * ChunkSize}}
    ELSE IF CopiedAt(t) < p THEN RowsOf(runs, t) ELSE {}

\* A run that has come to step p has nothing else in the tables it has cleared,
\* but for what the API did meanwhile.
Reached(p) ==
    /\ 9 < p => placed = Sessions(draws.places) /\ ~Panics(placed)
    /\ \A t \in TableNames :
          DeletedAt(t) < p =>
            /\ Loaded(p, t) \subseteq db[t]
            /\ ~company => db[t] = Loaded(p, t)

Running == at # 0 => exit = "none" /\ runs # 0 /\ \A p \in 1 .. Final : p = at => Reached(p)

SeedInv ==
    /\ draws \in Draws /\ runs \in Nat /\ acts \in Nat /\ company \in BOOLEAN
    /\ at \in 0 .. Final
    /\ WellFormed(db) /\ Closed(db)
    /\ Running
    /\ exit = "ok" => Reached(Final + 1)

\* These are the tables.
LEMMA TableNamesListed == ToSet(Tables) = TableNames
<1>2. DOMAIN Tables = 1 .. 10
    BY DEF Tables
<1>3. \A i \in 1 .. 10 : Tables[i] \in TableNames
    BY DEF Tables, TableNames
<1>4. /\ Tables[1] = "users" /\ Tables[2] = "events" /\ Tables[3] = "event_members" /\ Tables[4] = "rooms"
      /\ Tables[5] = "sessions" /\ Tables[6] = "invitations" /\ Tables[7] = "audit_log"
      /\ Tables[8] = "idempotency_keys" /\ Tables[9] = "session_series" /\ Tables[10] = "session_exceptions"
    BY DEF Tables
<1>5. ToSet(Tables) = {Tables[i] : i \in 1 .. 10}
    BY <1>2 DEF ToSet
<1>6. \A t \in TableNames : \E i \in 1 .. 10 : Tables[i] = t
    BY <1>4 DEF TableNames
<1> QED
    BY <1>3, <1>5, <1>6

\* The demo identities are finitely many.
LEMMA IdentitiesType ==
    /\ Len(DemoIdentities) \in Nat /\ DOMAIN DemoIdentities = 1 .. Len(DemoIdentities)
    /\ DemoIdentities \in Seq(DOMAIN DemoRole)
<1> DEFINE n == Cardinality(DOMAIN DemoRole)
           f == [i \in 1 .. Len(Users) |-> Users[i]]
<1>1. Users \in Seq(STRING) /\ Len(Users) \in Nat /\ DOMAIN Users = 1 .. Len(Users)
    BY DatasetAssumption
<1>2. f \in Surjection(1 .. Len(Users), People)
    <2>1. People = {Users[i] : i \in 1 .. Len(Users)}
        BY <1>1 DEF People, ToSet
    <2> QED
        BY <2>1 DEF Surjection
<1>3. IsFiniteSet(1 .. Len(Users))
    BY <1>1, FS_Interval
<1>4. IsFiniteSet(People)
    <2> HIDE DEF f
    <2> QED
        BY <1>2, <1>3, FS_Surjection
<1>5. n \in Nat
    BY <1>4, FS_Subset, FS_CardinalityType, DatasetAssumption
<1>6. Len(DemoIdentities) = n /\ DOMAIN DemoIdentities = 1 .. n
    BY <1>5 DEF DemoIdentities
<1>7. \A i \in 1 .. n : DemoIdentities[i] \in DOMAIN DemoRole
    BY <1>6, DatasetAssumption DEF ToSet
<1>8. DemoIdentities = [i \in 1 .. n |-> DemoIdentities[i]]
    BY <1>5 DEF DemoIdentities
<1> QED
    BY <1>5, <1>6, <1>7, <1>8

\* One sequence after another, by position.
Listed(s, n) == n \in Nat /\ s = [i \in 1 .. n |-> s[i]]

Joint(c, a, m, b, n) ==
    /\ Listed(c, m + n) /\ Len(c) = m + n
    /\ \A p \in 1 .. m : c[p] = a[p]
    /\ \A p \in m + 1 .. m + n : c[p] = b[p - m]

\* What is where in two sequences joined.
LEMMA Joined ==
    ASSUME NEW a, NEW m, Listed(a, m), NEW b, NEW n, Listed(b, n)
    PROVE  Joint(a \o b, a, m, b, n)
<1> DEFINE S == {a[i] : i \in 1 .. m} \cup {b[i] : i \in 1 .. n}
<1>1. m \in Nat /\ n \in Nat /\ a = [i \in 1 .. m |-> a[i]] /\ b = [i \in 1 .. n |-> b[i]]
    BY DEF Listed
<1>2. (\A i \in 1 .. m : a[i] \in S) /\ (\A i \in 1 .. n : b[i] \in S)
    OBVIOUS
<1> HIDE DEF S
<1>3. a \in Seq(S) /\ Len(a) = m /\ b \in Seq(S) /\ Len(b) = n
    <2>1. a \in [1 .. m -> S] /\ b \in [1 .. n -> S]
        BY <1>1, <1>2
    <2> QED
        BY <1>1, <2>1
<1>4. /\ a \o b \in Seq(S) /\ Len(a \o b) = m + n
      /\ \A p \in 1 .. m : (a \o b)[p] = a[p]
      /\ \A p \in m + 1 .. m + n : (a \o b)[p] = b[p - m]
    BY <1>1, <1>3
<1>5. Listed(a \o b, m + n)
    BY <1>1, <1>4 DEF Listed
<1> QED
    BY <1>4, <1>5 DEF Joint

\* The chunks cover the sessions.
LEMMA ChunksType ==
    Chunks \in Nat /\ Len(Slots) \in Nat /\ Len(Slots) <= Chunks * ChunkSize
<1>1. Len(Slots) \in Nat /\ ChunkSize \in Nat \ {0}
    BY SlotsShape, SeedingAssumption
<1>2. \A a \in Nat : \A b \in Nat \ {0} : (a + b - 1) \div b \in Nat /\ a <= ((a + b - 1) \div b) * b
    OBVIOUS
<1> QED
    BY <1>1, <1>2 DEF Chunks

\* What stands at each step of Program.
LEMMA ProgramShape ==
    /\ Len(Program) = Final /\ Final \in Nat
    /\ \A p \in 1 .. 8 : Program[p].what = "delete"
    /\ Program[1].table = "idempotency_keys" /\ Program[2].table = "audit_log"
    /\ Program[3].table = "invitations" /\ Program[4].table = "sessions"
    /\ Program[5].table = "event_members" /\ Program[6].table = "rooms"
    /\ Program[7].table = "events" /\ Program[8].table = "users"
    /\ Program[9].what = "generate"
    /\ \A p \in 10 .. 13 : Program[p].what = "copy"
    /\ Program[10].table = "users" /\ Program[11].table = "events"
    /\ Program[12].table = "event_members" /\ Program[13].table = "rooms"
    /\ \A p \in 14 .. 13 + Chunks :
          Program[p].what = "insert" /\ Program[p].table = "sessions" /\ Program[p].part = p - 13
    /\ Program[14 + Chunks].what = "copy" /\ Program[14 + Chunks].table = "invitations"
    /\ \A p \in 15 + Chunks .. Final :
          Program[p].what = "check" /\ Program[p].table \in DOMAIN DemoRole
<1> DEFINE D == Len(DemoIdentities)
           copies == [i \in 1 .. 4 |-> Statement("copy", <<"users", "events", "event_members", "rooms">>[i], 0)]
           inserts == [n \in 1 .. Chunks |-> Statement("insert", "sessions", n)]
           generate == <<Statement("generate", "none", 0)>>
           rest == <<Statement("copy", "invitations", 0)>>
           pre == Truncate \o generate
           head == copies \o inserts
           front == pre \o Load
<1>1. Listed(Truncate, 8) /\ \A p \in 1 .. 8 : Truncate[p].what = "delete"
    BY DEF Truncate, Deletes, Statement, Listed
<1>2. /\ Truncate[1].table = "idempotency_keys" /\ Truncate[2].table = "audit_log"
      /\ Truncate[3].table = "invitations" /\ Truncate[4].table = "sessions"
      /\ Truncate[5].table = "event_members" /\ Truncate[6].table = "rooms"
      /\ Truncate[7].table = "events" /\ Truncate[8].table = "users"
    BY DEF Truncate, Deletes, Statement
<1>3. Listed(generate, 1) /\ generate[1].what = "generate"
    BY DEF Statement, Listed
<1>4. Listed(copies, 4) /\ \A p \in 1 .. 4 : copies[p].what = "copy"
    BY DEF Statement, Listed
<1>5. /\ copies[1].table = "users" /\ copies[2].table = "events"
      /\ copies[3].table = "event_members" /\ copies[4].table = "rooms"
    BY DEF Statement
<1>6. /\ Listed(inserts, Chunks)
      /\ \A p \in 1 .. Chunks : inserts[p].what = "insert" /\ inserts[p].table = "sessions" /\ inserts[p].part = p
    BY ChunksType DEF Statement, Listed
<1>7. Listed(rest, 1) /\ rest[1].what = "copy" /\ rest[1].table = "invitations"
    BY DEF Statement, Listed
<1>8. /\ Listed(SelfCheck, D)
      /\ \A p \in 1 .. D : SelfCheck[p].what = "check" /\ SelfCheck[p].table \in DOMAIN DemoRole
    BY IdentitiesType DEF SelfCheck, Statement, Listed
<1>9. Load = head \o rest
    BY DEF Load, Chunks
<1>10. Program = front \o SelfCheck
    BY DEF Program
<1>11. Final = 14 + Chunks + D /\ Final \in Nat /\ D \in Nat /\ Chunks \in Nat
    BY ChunksType, IdentitiesType DEF Final
<1> HIDE DEF D, copies, inserts, generate, rest
<1>12. Listed(pre, 9) /\ (\A p \in 1 .. 8 : pre[p] = Truncate[p]) /\ pre[9] = generate[1]
    <2>1. Joint(pre, Truncate, 8, generate, 1)
        BY <1>1, <1>3, Joined, Zenon
    <2>2. Listed(pre, 8 + 1) /\ (\A p \in 1 .. 8 : pre[p] = Truncate[p]) /\ \A p \in 8 + 1 .. 8 + 1 : pre[p] = generate[p - 8]
        BY <2>1 DEF Joint
    <2> HIDE DEF pre
    <2>3. 8 + 1 = 9 /\ 9 \in 8 + 1 .. 8 + 1 /\ 9 - 8 = 1
        OBVIOUS
    <2>4. Listed(pre, 9)
        BY <2>2, <2>3
    <2> QED
        BY <2>2, <2>3, <2>4
<1>13. /\ Listed(head, 4 + Chunks)
       /\ \A p \in 1 .. 4 : head[p] = copies[p]
       /\ \A p \in 5 .. 4 + Chunks : head[p] = inserts[p - 4]
    <2>1. Joint(head, copies, 4, inserts, Chunks)
        BY <1>4, <1>6, Joined, Zenon
    <2>2. 4 + 1 = 5
        OBVIOUS
    <2>3. 4 + 1 .. 4 + Chunks = 5 .. 4 + Chunks
        BY <2>2
    <2> HIDE DEF head
    <2> QED
        BY <2>1, <2>3 DEF Joint
<1> HIDE DEF pre, head
<1>14. /\ Listed(Load, 5 + Chunks)
       /\ \A p \in 1 .. 4 + Chunks : Load[p] = head[p]
       /\ Load[5 + Chunks] = rest[1]
    <2>1. /\ Listed(Load, (4 + Chunks) + 1)
          /\ \A p \in 1 .. 4 + Chunks : Load[p] = head[p]
          /\ \A p \in (4 + Chunks) + 1 .. (4 + Chunks) + 1 : Load[p] = rest[p - (4 + Chunks)]
        <3>1. Joint(Load, head, 4 + Chunks, rest, 1)
            BY <1>7, <1>9, <1>13, Joined, Zenon
        <3> QED
            BY <3>1 DEF Joint
    <2>2. (4 + Chunks) + 1 = 5 + Chunks /\ (5 + Chunks) - (4 + Chunks) = 1
          /\ 5 + Chunks \in (4 + Chunks) + 1 .. (4 + Chunks) + 1
        BY <1>11
    <2>3. Listed(Load, 5 + Chunks)
        BY <2>1, <2>2
    <2> QED
        BY <2>1, <2>2, <2>3
<1>15. /\ Listed(front, 14 + Chunks)
       /\ \A p \in 1 .. 9 : front[p] = pre[p]
       /\ \A p \in 10 .. 14 + Chunks : front[p] = Load[p - 9]
    <2>1. /\ Listed(front, 9 + (5 + Chunks))
          /\ \A p \in 1 .. 9 : front[p] = pre[p]
          /\ \A p \in 9 + 1 .. 9 + (5 + Chunks) : front[p] = Load[p - 9]
        <3>1. Joint(front, pre, 9, Load, 5 + Chunks)
            BY <1>12, <1>14, Joined, Zenon
        <3> QED
            BY <3>1 DEF Joint
    <2> HIDE DEF front
    <2>2. 9 + (5 + Chunks) = 14 + Chunks /\ 9 + 1 = 10
        BY <1>11
    <2>3. Listed(front, 14 + Chunks)
        BY <2>1, <2>2
    <2>4. 9 + 1 .. 9 + (5 + Chunks) = 10 .. 14 + Chunks
        BY <2>2
    <2> QED
        BY <2>1, <2>3, <2>4
<1> HIDE DEF front
<1>16. /\ Len(Program) = Final
       /\ \A p \in 1 .. 14 + Chunks : Program[p] = front[p]
       /\ \A p \in 15 + Chunks .. Final : Program[p] = SelfCheck[p - (14 + Chunks)]
    <2>1. /\ Len(Program) = (14 + Chunks) + D
          /\ \A p \in 1 .. 14 + Chunks : Program[p] = front[p]
          /\ \A p \in (14 + Chunks) + 1 .. (14 + Chunks) + D : Program[p] = SelfCheck[p - (14 + Chunks)]
        <3>1. Joint(Program, front, 14 + Chunks, SelfCheck, D)
            BY <1>8, <1>10, <1>15, Joined, Zenon
        <3> QED
            BY <3>1 DEF Joint
    <2>2. (14 + Chunks) + D = Final /\ (14 + Chunks) + 1 = 15 + Chunks
        BY <1>11
    <2> QED
        BY <2>1, <2>2
<1>17. \A p \in 1 .. 8 : Program[p] = Truncate[p]
    <2> TAKE p \in 1 .. 8
    <2>1. p \in 1 .. 9 /\ p \in 1 .. 14 + Chunks
        BY <1>11
    <2> QED
        BY <1>12, <1>15, <1>16, <2>1
<1>18. Program[9] = generate[1]
    <2>1. 9 \in 1 .. 9 /\ 9 \in 1 .. 14 + Chunks
        BY <1>11
    <2> QED
        BY <1>12, <1>15, <1>16, <2>1
<1>19. \A p \in 10 .. 13 : Program[p] = copies[p - 9] /\ p - 9 \in 1 .. 4
    <2> TAKE p \in 10 .. 13
    <2>1. p - 9 \in 1 .. 4 /\ p - 9 \in 1 .. 4 + Chunks /\ p \in 10 .. 14 + Chunks /\ p \in 1 .. 14 + Chunks
        BY <1>11
    <2> QED
        BY <1>13, <1>14, <1>15, <1>16, <2>1
<1>20. \A p \in 14 .. 13 + Chunks : Program[p] = inserts[p - 13] /\ p - 13 \in 1 .. Chunks
    <2> TAKE p \in 14 .. 13 + Chunks
    <2>1. /\ p - 9 \in 5 .. 4 + Chunks /\ p - 9 \in 1 .. 4 + Chunks /\ (p - 9) - 4 = p - 13
          /\ p \in 10 .. 14 + Chunks /\ p \in 1 .. 14 + Chunks /\ p - 13 \in 1 .. Chunks
        BY <1>11
    <2> QED
        BY <1>13, <1>14, <1>15, <1>16, <2>1
<1>21. Program[14 + Chunks] = rest[1]
    <2>1. (14 + Chunks) - 9 = 5 + Chunks /\ 14 + Chunks \in 10 .. 14 + Chunks /\ 14 + Chunks \in 1 .. 14 + Chunks
        BY <1>11
    <2> QED
        BY <1>14, <1>15, <1>16, <2>1
<1>22. \A p \in 15 + Chunks .. Final : Program[p].what = "check" /\ Program[p].table \in DOMAIN DemoRole
    <2> TAKE p \in 15 + Chunks .. Final
    <2>1. p - (14 + Chunks) \in 1 .. D
        BY <1>11
    <2> QED
        BY <1>8, <1>16, <2>1
<1>23. /\ \A p \in 1 .. 8 : Program[p].what = "delete"
       /\ Program[1].table = "idempotency_keys" /\ Program[2].table = "audit_log"
       /\ Program[3].table = "invitations" /\ Program[4].table = "sessions"
       /\ Program[5].table = "event_members" /\ Program[6].table = "rooms"
       /\ Program[7].table = "events" /\ Program[8].table = "users"
    BY <1>1, <1>2, <1>17
<1>24. /\ \A p \in 10 .. 13 : Program[p].what = "copy"
       /\ Program[10].table = "users" /\ Program[11].table = "events"
       /\ Program[12].table = "event_members" /\ Program[13].table = "rooms"
    <2>1. /\ 10 \in 10 .. 13 /\ 11 \in 10 .. 13 /\ 12 \in 10 .. 13 /\ 13 \in 10 .. 13
          /\ 10 - 9 = 1 /\ 11 - 9 = 2 /\ 12 - 9 = 3 /\ 13 - 9 = 4
        OBVIOUS
    <2>2. \A p \in 10 .. 13 : Program[p].what = "copy"
        BY <1>4, <1>19
    <2> QED
        BY <1>5, <1>19, <2>1, <2>2
<1>25. \A p \in 14 .. 13 + Chunks :
          Program[p].what = "insert" /\ Program[p].table = "sessions" /\ Program[p].part = p - 13
    BY <1>6, <1>20
<1> QED
    BY <1>3, <1>7, <1>11, <1>16, <1>18, <1>21, <1>22, <1>23, <1>24, <1>25

(***************************************************************************)
(* What each step does to the tables.                                      *)
(***************************************************************************)

\* The steps, one kind after another.
LEMMA StepKinds ==
    ASSUME at \in 1 .. Final
    PROVE  \/ at \in 1 .. 8 /\ Step.what = "delete" /\ Step.table \in TableNames
           \/ at = 9 /\ Step.what = "generate"
           \/ at \in 10 .. 13 /\ Step.what = "copy" /\ Step.table \in TableNames
           \/ /\ at \in 14 .. 13 + Chunks /\ Step.what = "insert"
              /\ Step.table = "sessions" /\ Step.part = at - 13
           \/ at = 14 + Chunks /\ Step.what = "copy" /\ Step.table = "invitations"
           \/ at \in 15 + Chunks .. Final /\ Step.what = "check" /\ Step.table \in DOMAIN DemoRole
<1>1. CASE at \in 1 .. 8
    <2>1. at = 1 \/ at = 2 \/ at = 3 \/ at = 4 \/ at = 5 \/ at = 6 \/ at = 7 \/ at = 8
        BY <1>1
    <2>2. Program[at].table \in TableNames
        BY <2>1, ProgramShape DEF TableNames
    <2> QED
        BY <1>1, <2>2, ProgramShape DEF Step
<1>2. CASE at = 9
    BY <1>2, ProgramShape DEF Step
<1>3. CASE at \in 10 .. 13
    <2>1. at = 10 \/ at = 11 \/ at = 12 \/ at = 13
        BY <1>3
    <2>2. Program[at].table \in TableNames
        BY <2>1, ProgramShape DEF TableNames
    <2> QED
        BY <1>3, <2>2, ProgramShape DEF Step
<1>4. CASE at \in 14 .. 13 + Chunks
    BY <1>4, ProgramShape DEF Step
<1>5. CASE at = 14 + Chunks
    BY <1>5, ProgramShape DEF Step
<1>6. CASE at \in 15 + Chunks .. Final
    BY <1>6, ProgramShape DEF Step
<1>7. \/ at \in 1 .. 8 \/ at = 9 \/ at \in 10 .. 13 \/ at \in 14 .. 13 + Chunks
      \/ at = 14 + Chunks \/ at \in 15 + Chunks .. Final
    BY ChunksType, ProgramShape
<1> QED
    BY <1>1, <1>2, <1>3, <1>4, <1>5, <1>6, <1>7

\* The rows of the dataset.
LEMMA RowsProper ==
    ASSUME NEW t \in TableNames, NEW w \in RowsOf(runs, t)
    PROVE  Proper(t, w)
<1>1. CASE t = "users"
    BY <1>1 DEF RowsOf, Row, Id, Proper, RefTables, Anchors
<1>2. CASE t = "events"
    BY <1>2 DEF RowsOf, EventRow, Row, Id, Proper, RefTables, Anchors
<1>3. CASE t = "event_members"
    <2>1. PICK name \in DOMAIN draws.roster :
              w \in {Row(Id(runs, t, <<name, u>>), {Id(runs, "events", name), Id(runs, "users", u)}) :
                        u \in DOMAIN draws.roster[name]}
        BY <1>3 DEF RowsOf
    <2>2. PICK u \in DOMAIN draws.roster[name] :
              w = Row(Id(runs, t, <<name, u>>), {Id(runs, "events", name), Id(runs, "users", u)})
        BY <2>1
    <2> QED
        BY <1>3, <2>2 DEF Row, Id, Proper, RefTables, Anchors
<1>4. CASE t = "rooms"
    <2>1. PICK i \in DOMAIN Events : \E k \in DOMAIN Events[i].rooms :
              w = Row(Id(runs, t, <<Events[i].name, Events[i].rooms[k]>>), {Id(runs, "events", Events[i].name)})
        BY <1>4 DEF RowsOf
    <2>2. w.id[2] = t /\ w.refs = {Id(runs, "events", Events[i].name)}
        BY <2>1 DEF Row, Id
    <2>3. Id(runs, "events", Events[i].name)[2] = "events"
        BY DEF Id
    <2>4. RefTables(t) = {"events"} /\ Anchors(t) = {"events"}
        BY <1>4 DEF RefTables, Anchors
    <2> QED
        BY <2>2, <2>3, <2>4 DEF Proper
<1>5. CASE t = "sessions"
    <2>1. PICK i \in DOMAIN placed : w = SessionRow(runs, i)
        BY <1>5 DEF RowsOf
    <2> QED
        BY <1>5, <2>1 DEF SessionRow, Row, Id, Proper, RefTables, Anchors
<1>6. CASE t = "invitations"
    <2>1. PICK i \in DOMAIN Events : \E v \in Invitations(Events[i]) :
              w = Row(Id(runs, t, v), {Id(runs, "events", v[1])} \cup
                        (IF v[2] = "user" THEN {Id(runs, "users", v[3])} ELSE {}))
        BY <1>6 DEF RowsOf
    <2>2. PICK v : w.id = Id(runs, t, v) /\ \A r \in w.refs : r = Id(runs, "events", v[1]) \/ r = Id(runs, "users", v[3])
        BY <2>1 DEF Row
    <2>3. w.id[2] = t /\ \A r \in w.refs : r[2] \in {"events", "users"}
        BY <2>2 DEF Id
    <2> QED
        BY <1>6, <2>3 DEF Proper, RefTables, Anchors
<1>7. CASE t \notin {"users", "events", "event_members", "rooms", "sessions", "invitations"}
    BY <1>7 DEF RowsOf
<1> QED
    BY <1>1, <1>2, <1>3, <1>4, <1>5, <1>6, <1>7

\* A DELETE takes rows away: of its table, and of others only with an event.
LEMMA WithoutShape ==
    ASSUME WellFormed(db), NEW table, NEW doomed, NEW after, after = Without(doomed, table)
    PROVE  /\ DOMAIN after = TableNames
           /\ \A t \in TableNames : after[t] \subseteq db[t]
           /\ table \in TableNames => after[table] = db[table] \ doomed
           /\ table # "events" => \A t \in TableNames : t # table => after[t] = db[t]
<1>1. DOMAIN after = TableNames
    BY DEF Without, WellFormed
<1>2. \A t \in TableNames :
        after[t] = IF t = table THEN db[t] \ doomed
                   ELSE IF t \in OfEvent \cup {"session_exceptions"}
                        THEN {w \in db[t] : w.refs \cap Cascade(doomed, table) = {}} ELSE db[t]
    BY DEF Without, WellFormed
<1>3. table # "events" => Cascade(doomed, table) = {}
    BY DEF Cascade
<1>4. \A t \in TableNames : after[t] \subseteq db[t]
    BY <1>2
<1>5. table # "events" => \A t \in TableNames : t # table => after[t] = db[t]
    BY <1>2, <1>3
<1> QED
    BY <1>1, <1>2, <1>4, <1>5

\* An INSERT or COPY.
LEMMA WithShape ==
    ASSUME WellFormed(db), NEW table \in TableNames, NEW rows, NEW after, after = With(rows, table)
    PROVE  /\ DOMAIN after = TableNames
           /\ after[table] = db[table] \cup rows
           /\ \A t \in TableNames : t # table => after[t] = db[t]
BY DEF With, WellFormed

\* The tables are well formed after every statement.
LEMMA AfterWellFormed ==
    ASSUME WellFormed(db), at \in 1 .. Final
    PROVE  WellFormed(After)
<1>1. CASE Step.what = "delete"
    <2>1. After = Without(Condemned(Step.table), Step.table)
        BY <1>1 DEF After
    <2>2. DOMAIN After = TableNames /\ \A t \in TableNames : After[t] \subseteq db[t]
        BY <2>1, WithoutShape
    <2> QED
        BY <2>2 DEF WellFormed
<1>2. CASE Step.what = "copy"
    <2>1. After = With(RowsOf(runs, Step.table), Step.table) /\ Step.table \in TableNames
        BY <1>2, StepKinds DEF After, TableNames
    <2>2. DOMAIN After = TableNames /\ After[Step.table] = db[Step.table] \cup RowsOf(runs, Step.table)
          /\ \A t \in TableNames : t # Step.table => After[t] = db[t]
        BY <2>1, WithShape
    <2>3. \A w \in RowsOf(runs, Step.table) : Proper(Step.table, w)
        BY <2>1, RowsProper
    <2> QED
        BY <2>2, <2>3 DEF WellFormed
<1>3. CASE Step.what = "insert"
    <2> DEFINE rows == {SessionRow(runs, i) : i \in Chunk(Step.part)}
    <2>1. After = With(rows, "sessions") /\ "sessions" \in TableNames
        BY <1>3 DEF After, TableNames
    <2>2. DOMAIN After = TableNames /\ After["sessions"] = db["sessions"] \cup rows
          /\ \A t \in TableNames : t # "sessions" => After[t] = db[t]
        <3> HIDE DEF rows
        <3> QED
            BY <2>1, WithShape
    <2>3. rows \subseteq RowsOf(runs, "sessions")
        BY DEF RowsOf, Chunk
    <2>4. \A w \in rows : Proper("sessions", w)
        BY <2>1, <2>3, RowsProper
    <2> QED
        BY <2>2, <2>4 DEF WellFormed
<1>4. CASE Step.what \notin {"delete", "copy", "insert"}
    BY <1>4 DEF After
<1> QED
    BY <1>1, <1>2, <1>3, <1>4

\* The database lets no reference dangle.
LEMMA AfterClosed ==
    ASSUME Closed(db), Succeeds
    PROVE  Closed(After)
BY DEF Succeeds, After

(***************************************************************************)
(* What the API does beside a run.                                         *)
(***************************************************************************)
Present(tables) == UNION {Ids(tables[t]) : t \in DOMAIN tables}

\* A transaction that adds rows of their tables, with references to what is
\* there or comes with them.
LEMMA AddsKeep ==
    ASSUME WellFormed(db), Closed(db), NEW rows, Adds(rows), DOMAIN rows \subseteq TableNames,
           \A t \in DOMAIN rows : \A w \in rows[t] : Proper(t, w),
           \A t \in DOMAIN rows : \A w \in rows[t] : \A r \in w.refs :
              \/ \E t2 \in TableNames : \E v \in db[t2] : v.id = r
              \/ \E t2 \in DOMAIN rows : \E v \in rows[t2] : v.id = r
    PROVE  /\ WellFormed(db') /\ Closed(db')
           /\ \A t \in TableNames : db[t] \subseteq db'[t]
           /\ company' = TRUE /\ UNCHANGED <<draws, runs, at, exit, placed>> /\ acts' = acts + 1
<1>1. DOMAIN db' = TableNames
    BY DEF Adds, WellFormed
<1>2. \A t \in TableNames : db'[t] = IF t \in DOMAIN rows THEN db[t] \cup rows[t] ELSE db[t]
    BY DEF Adds, WellFormed
<1>3. WellFormed(db')
    BY <1>1, <1>2 DEF WellFormed
<1>4. \A t \in TableNames : db[t] \subseteq db'[t]
    BY <1>2
<1>5. ASSUME NEW t \in TableNames, NEW w \in db'[t], NEW r \in w.refs
      PROVE  \E t2 \in TableNames : \E v \in db'[t2] : v.id = r
    <2>1. CASE w \in db[t]
        <3>1. r \in UNION {Ids(db[t2]) : t2 \in DOMAIN db}
            BY <1>5, <2>1 DEF Closed, WellFormed
        <3>2. \E t2 \in TableNames : \E v \in db[t2] : v.id = r
            BY <3>1 DEF Ids, WellFormed
        <3> QED
            BY <1>4, <3>2
    <2>2. CASE t \in DOMAIN rows /\ w \in rows[t]
        <3>1. CASE \E t2 \in TableNames : \E v \in db[t2] : v.id = r
            BY <1>4, <3>1
        <3>2. CASE \E t2 \in DOMAIN rows : \E v \in rows[t2] : v.id = r
            BY <1>2, <3>2
        <3> QED
            BY <1>5, <2>2, <3>1, <3>2
    <2> QED
        BY <1>2, <1>5, <2>1, <2>2
<1>6. Closed(db')
    <2> SUFFICES ASSUME NEW t \in DOMAIN db', NEW w \in db'[t], NEW r \in w.refs
                 PROVE  r \in UNION {Ids(db'[t2]) : t2 \in DOMAIN db'}
        BY DEF Closed
    <2>1. PICK t2 \in TableNames : \E v \in db'[t2] : v.id = r
        BY <1>1, <1>5
    <2>2. r \in Ids(db'[t2])
        BY <2>1 DEF Ids
    <2> QED
        BY <1>1, <2>1, <2>2
<1> QED
    BY <1>3, <1>4, <1>6 DEF Adds

\* What a row refers to is there, in the table its tag names.
LEMMA Referred ==
    ASSUME WellFormed(db), Closed(db), NEW t \in TableNames, NEW w \in db[t], NEW r \in w.refs
    PROVE  /\ \E v \in db[r[2]] : v.id = r
           /\ r[2] \in TableNames /\ r[2] \in RefTables(t)
<1>1. r \in UNION {Ids(db[t2]) : t2 \in DOMAIN db}
    BY DEF Closed, WellFormed
<1>2. PICK t2 \in TableNames : \E v \in db[t2] : v.id = r
    BY <1>1 DEF Ids, WellFormed
<1>3. r[2] = t2
    BY <1>2 DEF WellFormed, Proper
<1> QED
    BY <1>2, <1>3 DEF WellFormed, Proper

\* A step of the API changes the tables alone, and only adds to them.
Grows ==
    /\ WellFormed(db') /\ Closed(db')
    /\ \A t \in TableNames : db[t] \subseteq db'[t]
    /\ company' = TRUE /\ UNCHANGED <<draws, runs, at, exit, placed>> /\ acts' = acts + 1

\* A first sign-in.
LEMMA SignInGrows ==
    ASSUME WellFormed(db), Closed(db), SignIn
    PROVE  Grows
<1>1. PICK u \in DOMAIN DemoRole : Adds([users |-> {Row(Id(0, "users", u), {})}])
    BY DEF SignIn
<1> DEFINE rows == [users |-> {Row(Id(0, "users", u), {})}]
<1>2. DOMAIN rows = {"users"} /\ rows["users"] = {Row(Id(0, "users", u), {})} /\ rows.users = rows["users"]
    OBVIOUS
<1>3. Adds(rows)
    BY <1>1
<1> HIDE DEF rows
<1>4. \A w \in rows["users"] : w.refs = {} /\ Proper("users", w)
    BY <1>2 DEF Row, Id, Proper, Anchors
<1>5. DOMAIN rows \subseteq TableNames
    BY <1>2 DEF TableNames
<1>6. \A t \in DOMAIN rows : \A w \in rows[t] : Proper(t, w) /\ w.refs = {}
    BY <1>2, <1>4
<1> QED
    BY <1>3, <1>5, <1>6, AddsKeep DEF Grows

\* A bulk invitation.
LEMMA InviteGrows ==
    ASSUME WellFormed(db), Closed(db), Invite
    PROVE  Grows
<1>1. PICK v \in db["users"], e \in Ids(db["events"]) :
        Adds([invitations |-> {Row(Fresh("invitations"), {e})},
              idempotency_keys |-> {Row(Fresh("idempotency_keys"), {v.id})},
              audit_log |-> Audited(v.id)])
    BY DEF Invite
<1> DEFINE rows == [invitations |-> {Row(Fresh("invitations"), {e})},
                    idempotency_keys |-> {Row(Fresh("idempotency_keys"), {v.id})},
                    audit_log |-> Audited(v.id)]
<1>2. /\ DOMAIN rows = {"invitations", "idempotency_keys", "audit_log"}
      /\ rows["invitations"] = {Row(Fresh("invitations"), {e})}
      /\ rows["idempotency_keys"] = {Row(Fresh("idempotency_keys"), {v.id})}
      /\ rows["audit_log"] = {Row(Fresh("audit_log"), {v.id})}
    BY DEF Audited
<1>3. Adds(rows)
    BY <1>1
<1> HIDE DEF rows
<1>4. PICK ev \in db["events"] : ev.id = e
    BY DEF Ids
<1>5. "users" \in TableNames /\ "events" \in TableNames /\ v.id[2] = "users" /\ e[2] = "events"
    BY <1>4 DEF TableNames, WellFormed, Proper
<1>6. /\ \A w \in rows["invitations"] : w.id[2] = "invitations" /\ w.refs = {e}
      /\ \A w \in rows["idempotency_keys"] : w.id[2] = "idempotency_keys" /\ w.refs = {v.id}
      /\ \A w \in rows["audit_log"] : w.id[2] = "audit_log" /\ w.refs = {v.id}
    BY <1>2 DEF Row, Fresh, Id
<1>7. \A w \in rows["invitations"] : Proper("invitations", w)
    BY <1>5, <1>6 DEF Proper, RefTables, Anchors
<1>8. \A w \in rows["idempotency_keys"] : Proper("idempotency_keys", w)
    BY <1>5, <1>6 DEF Proper, RefTables, Anchors
<1>9. \A w \in rows["audit_log"] : Proper("audit_log", w)
    BY <1>5, <1>6 DEF Proper, RefTables, Anchors
<1>10. DOMAIN rows \subseteq TableNames
    BY <1>2 DEF TableNames
<1>11. \A t \in DOMAIN rows : \A w \in rows[t] : Proper(t, w)
    BY <1>2, <1>7, <1>8, <1>9
<1>12. \A t \in DOMAIN rows : \A w \in rows[t] : \A r \in w.refs :
          \E t2 \in TableNames : \E x \in db[t2] : x.id = r
    <2>1. \A t \in DOMAIN rows : \A w \in rows[t] : \A r \in w.refs : r = e \/ r = v.id
        <3>1. /\ \A w \in rows["invitations"] : \A r \in w.refs : r = e
              /\ \A w \in rows["idempotency_keys"] : \A r \in w.refs : r = v.id
              /\ \A w \in rows["audit_log"] : \A r \in w.refs : r = v.id
            BY <1>6
        <3> QED
            BY <1>2, <3>1
    <2>2. \A r : r = e \/ r = v.id => \E t2 \in TableNames : \E x \in db[t2] : x.id = r
        BY <1>4, <1>5
    <2> QED
        BY <2>1, <2>2
<1> QED
    BY <1>3, <1>10, <1>11, <1>12, AddsKeep DEF Grows

\* A new event and its admin.
LEMMA FoundGrows ==
    ASSUME WellFormed(db), Closed(db), Found
    PROVE  Grows
<1>1. PICK v \in db["users"] :
        Adds([events |-> {Row(Fresh("events"), {})},
              event_members |-> {Row(Fresh("event_members"), {Fresh("events"), v.id})},
              audit_log |-> Audited(v.id)])
    BY DEF Found
<1> DEFINE rows == [events |-> {Row(Fresh("events"), {})},
                    event_members |-> {Row(Fresh("event_members"), {Fresh("events"), v.id})},
                    audit_log |-> Audited(v.id)]
<1>2. /\ DOMAIN rows = {"events", "event_members", "audit_log"}
      /\ rows["events"] = {Row(Fresh("events"), {})}
      /\ rows["event_members"] = {Row(Fresh("event_members"), {Fresh("events"), v.id})}
      /\ rows["audit_log"] = {Row(Fresh("audit_log"), {v.id})}
    BY DEF Audited
<1>3. Adds(rows)
    BY <1>1
<1> HIDE DEF rows
<1>4. "users" \in TableNames /\ v.id[2] = "users" /\ Fresh("events")[2] = "events"
    BY DEF TableNames, WellFormed, Proper, Fresh, Id
<1>5. /\ \A w \in rows["events"] : w.id = Fresh("events") /\ w.refs = {}
      /\ \A w \in rows["event_members"] : w.id[2] = "event_members" /\ w.refs = {Fresh("events"), v.id}
      /\ \A w \in rows["audit_log"] : w.id[2] = "audit_log" /\ w.refs = {v.id}
      /\ \E w \in rows["events"] : w.id = Fresh("events")
    BY <1>2 DEF Row, Fresh, Id
<1>6. \A w \in rows["events"] : Proper("events", w)
    BY <1>4, <1>5 DEF Proper, RefTables, Anchors
<1>7. \A w \in rows["event_members"] : Proper("event_members", w)
    BY <1>4, <1>5 DEF Proper, RefTables, Anchors
<1>8. \A w \in rows["audit_log"] : Proper("audit_log", w)
    BY <1>4, <1>5 DEF Proper, RefTables, Anchors
<1>9. DOMAIN rows \subseteq TableNames
    BY <1>2 DEF TableNames
<1>10. \A t \in DOMAIN rows : \A w \in rows[t] : Proper(t, w)
    BY <1>2, <1>6, <1>7, <1>8
<1>11. \A t \in DOMAIN rows : \A w \in rows[t] : \A r \in w.refs : r = v.id \/ r = Fresh("events")
    <2>1. /\ \A w \in rows["events"] : \A r \in w.refs : FALSE
          /\ \A w \in rows["event_members"] : \A r \in w.refs : r = v.id \/ r = Fresh("events")
          /\ \A w \in rows["audit_log"] : \A r \in w.refs : r = v.id
        BY <1>5
    <2> QED
        BY <1>2, <2>1
<1>12. \A t \in DOMAIN rows : \A w \in rows[t] : \A r \in w.refs :
          \/ \E t2 \in TableNames : \E x \in db[t2] : x.id = r
          \/ \E t2 \in DOMAIN rows : \E x \in rows[t2] : x.id = r
    <2>1. \E t2 \in TableNames : \E x \in db[t2] : x.id = v.id
        BY <1>4
    <2>2. \E t2 \in DOMAIN rows : \E x \in rows[t2] : x.id = Fresh("events")
        BY <1>2, <1>5
    <2> QED
        BY <1>11, <2>1, <2>2
<1> QED
    BY <1>3, <1>9, <1>10, <1>12, AddsKeep DEF Grows

\* A session, alone or the first of a series.
LEMMA ScheduleGrows ==
    ASSUME WellFormed(db), Closed(db), Schedule
    PROVE  Grows
<1>1. PICK v \in db["users"], m \in db["rooms"], series \in {{}, {Fresh("session_series")}} :
        Adds([session_series |-> {Row(id, m.refs \cup {m.id, v.id}) : id \in series},
              sessions |-> {Row(Fresh("sessions"), m.refs \cup {m.id, v.id} \cup series)},
              audit_log |-> Audited(v.id)])
    BY DEF Schedule
<1> DEFINE rows == [session_series |-> {Row(id, m.refs \cup {m.id, v.id}) : id \in series},
                    sessions |-> {Row(Fresh("sessions"), m.refs \cup {m.id, v.id} \cup series)},
                    audit_log |-> Audited(v.id)]
           held == m.refs \cup {m.id, v.id}
<1>2. /\ DOMAIN rows = {"session_series", "sessions", "audit_log"}
      /\ rows["session_series"] = {Row(id, held) : id \in series}
      /\ rows["sessions"] = {Row(Fresh("sessions"), held \cup series)}
      /\ rows["audit_log"] = {Row(Fresh("audit_log"), {v.id})}
    BY DEF Audited
<1>3. Adds(rows)
    BY <1>1
<1>4. \A r : r \in held <=> r \in m.refs \/ r = m.id \/ r = v.id
    OBVIOUS
<1> HIDE DEF rows, held
<1>5. "users" \in TableNames /\ "rooms" \in TableNames /\ v.id[2] = "users" /\ Proper("rooms", m)
    BY DEF TableNames, WellFormed, Proper
<1>6. m.id[2] = "rooms" /\ (\A r \in m.refs : r[2] = "events") /\ \E r \in m.refs : r[2] = "events"
    BY <1>5 DEF Proper, RefTables, Anchors
<1>7. (\A r \in held : r[2] \in {"events", "users", "rooms"}) /\ \E r \in held : r[2] = "events"
    BY <1>4, <1>5, <1>6
<1>8. \A r \in held : \E t2 \in TableNames : \E x \in db[t2] : x.id = r
    <2> TAKE r \in held
    <2>1. CASE r \in m.refs
        BY <1>5, <2>1, Referred
    <2>2. CASE r = m.id \/ r = v.id
        BY <1>5, <2>2
    <2> QED
        BY <1>4, <2>1, <2>2
<1>9. \A id \in series : id = Fresh("session_series") /\ id[2] = "session_series"
    BY DEF Fresh, Id
<1>10. /\ \A w \in rows["session_series"] : w.id \in series /\ w.refs = held
       /\ \A id \in series : \E w \in rows["session_series"] : w.id = id
       /\ \A w \in rows["sessions"] : w.id[2] = "sessions" /\ w.refs = held \cup series
       /\ \A w \in rows["audit_log"] : w.id[2] = "audit_log" /\ w.refs = {v.id}
    <2>1. \A w \in rows["session_series"] : w.id \in series /\ w.refs = held
        BY <1>2 DEF Row
    <2>2. ASSUME NEW id \in series PROVE \E w \in rows["session_series"] : w.id = id
        <3>1. Row(id, held) \in rows["session_series"]
            BY <1>2
        <3> QED
            BY <3>1 DEF Row
    <2>3. /\ \A w \in rows["sessions"] : w.id[2] = "sessions" /\ w.refs = held \cup series
          /\ \A w \in rows["audit_log"] : w.id[2] = "audit_log" /\ w.refs = {v.id}
        BY <1>2 DEF Row, Fresh, Id
    <2> QED
        BY <2>1, <2>2, <2>3
<1>11. \A w \in rows["session_series"] : Proper("session_series", w)
    <2> TAKE w \in rows["session_series"]
    <2>1. w.id[2] = "session_series" /\ w.refs = held
        BY <1>9, <1>10
    <2> QED
        BY <1>7, <2>1 DEF Proper, RefTables, Anchors
<1>12. \A w \in rows["sessions"] : Proper("sessions", w)
    <2> TAKE w \in rows["sessions"]
    <2>1. w.id[2] = "sessions" /\ \A r \in w.refs : r \in held \/ r \in series
        BY <1>10
    <2>2. \A r \in w.refs : r[2] \in {"events", "users", "rooms", "session_series"}
        BY <1>7, <1>9, <2>1
    <2> QED
        BY <2>1, <2>2 DEF Proper, RefTables, Anchors
<1>13. \A w \in rows["audit_log"] : Proper("audit_log", w)
    BY <1>5, <1>10 DEF Proper, RefTables, Anchors
<1>14. DOMAIN rows \subseteq TableNames
    BY <1>2 DEF TableNames
<1>15. \A t \in DOMAIN rows : \A w \in rows[t] : Proper(t, w)
    BY <1>2, <1>11, <1>12, <1>13
<1>16. \A t \in DOMAIN rows : \A w \in rows[t] : \A r \in w.refs : r \in held \/ r \in series
    <2>1. /\ \A w \in rows["session_series"] : \A r \in w.refs : r \in held
          /\ \A w \in rows["sessions"] : \A r \in w.refs : r \in held \/ r \in series
          /\ \A w \in rows["audit_log"] : \A r \in w.refs : r \in held
        BY <1>4, <1>10
    <2> QED
        BY <1>2, <2>1
<1>17. \A r \in series : \E t2 \in DOMAIN rows : \E x \in rows[t2] : x.id = r
    BY <1>2, <1>10
<1>18. \A t \in DOMAIN rows : \A w \in rows[t] : \A r \in w.refs :
          \/ \E t2 \in TableNames : \E x \in db[t2] : x.id = r
          \/ \E t2 \in DOMAIN rows : \E x \in rows[t2] : x.id = r
    BY <1>8, <1>16, <1>17
<1> QED
    BY <1>3, <1>14, <1>15, <1>18, AddsKeep DEF Grows

\* An exception of a series.
LEMMA EditGrows ==
    ASSUME WellFormed(db), Closed(db), Edit
    PROVE  Grows
<1>1. PICK v \in db["users"], s \in db["sessions"], q \in db["session_series"] :
        Adds([session_exceptions |-> {Row(Fresh("session_exceptions"), {s.id, q.id})},
              audit_log |-> Audited(v.id)])
    BY DEF Edit
<1> DEFINE rows == [session_exceptions |-> {Row(Fresh("session_exceptions"), {s.id, q.id})},
                    audit_log |-> Audited(v.id)]
<1>2. /\ DOMAIN rows = {"session_exceptions", "audit_log"}
      /\ rows["session_exceptions"] = {Row(Fresh("session_exceptions"), {s.id, q.id})}
      /\ rows["audit_log"] = {Row(Fresh("audit_log"), {v.id})}
    BY DEF Audited
<1>3. Adds(rows)
    BY <1>1
<1> HIDE DEF rows
<1>4. /\ "users" \in TableNames /\ "sessions" \in TableNames /\ "session_series" \in TableNames
      /\ v.id[2] = "users" /\ s.id[2] = "sessions" /\ q.id[2] = "session_series"
    BY DEF TableNames, WellFormed, Proper
<1>5. /\ \A w \in rows["session_exceptions"] : w.id[2] = "session_exceptions" /\ w.refs = {s.id, q.id}
      /\ \A w \in rows["audit_log"] : w.id[2] = "audit_log" /\ w.refs = {v.id}
    BY <1>2 DEF Row, Fresh, Id
<1>6. \A w \in rows["session_exceptions"] : Proper("session_exceptions", w)
    BY <1>4, <1>5 DEF Proper, RefTables, Anchors
<1>7. \A w \in rows["audit_log"] : Proper("audit_log", w)
    BY <1>4, <1>5 DEF Proper, RefTables, Anchors
<1>8. DOMAIN rows \subseteq TableNames
    BY <1>2 DEF TableNames
<1>9. \A t \in DOMAIN rows : \A w \in rows[t] : Proper(t, w)
    BY <1>2, <1>6, <1>7
<1>10. \A t \in DOMAIN rows : \A w \in rows[t] : \A r \in w.refs : r = s.id \/ r = q.id \/ r = v.id
    <2>1. /\ \A w \in rows["session_exceptions"] : \A r \in w.refs : r = s.id \/ r = q.id
          /\ \A w \in rows["audit_log"] : \A r \in w.refs : r = v.id
        BY <1>5
    <2> QED
        BY <1>2, <2>1
<1>11. \A r : r = s.id \/ r = q.id \/ r = v.id => \E t2 \in TableNames : \E x \in db[t2] : x.id = r
    BY <1>4
<1>12. \A t \in DOMAIN rows : \A w \in rows[t] : \A r \in w.refs :
          \E t2 \in TableNames : \E x \in db[t2] : x.id = r
    BY <1>10, <1>11
<1> QED
    BY <1>3, <1>8, <1>9, <1>12, AddsKeep DEF Grows

(***************************************************************************)
(* How far a run has come.                                                 *)
(***************************************************************************)

\* A DELETE leaves nothing in its table; that of the events takes every series
\* and every exception along.
LEMMA DeleteClears ==
    ASSUME WellFormed(db), Closed(db), at \in 1 .. 8
    PROVE  \A t \in TableNames : After[t] \subseteq db[t] /\ (DeletedAt(t) = at => After[t] = {})
<1>1. /\ Step.what = "delete" /\ at \in 1 .. Final
      /\ at = 1 => Step.table = "idempotency_keys"
      /\ at = 2 => Step.table = "audit_log"
      /\ at = 3 => Step.table = "invitations"
      /\ at = 4 => Step.table = "sessions"
      /\ at = 5 => Step.table = "event_members"
      /\ at = 6 => Step.table = "rooms"
      /\ at = 7 => Step.table = "events"
      /\ at = 8 => Step.table = "users"
    BY ProgramShape, ChunksType, IdentitiesType DEF Step, Final
<1>2. After = Without(Condemned(Step.table), Step.table) /\ Step.table \in TableNames
    BY <1>1, StepKinds DEF After
<1>3. \A t \in TableNames : After[t] \subseteq db[t]
    BY <1>2, WithoutShape
<1>4. After[Step.table] = db[Step.table] \ Condemned(Step.table)
    BY <1>2, WithoutShape
<1>5. After[Step.table] = {}
    <2>1. CASE Step.table # "audit_log"
        BY <1>4, <2>1 DEF Condemned
    <2>2. CASE Step.table = "audit_log"
        <3>1. ASSUME NEW w \in db["audit_log"] PROVE w \in Condemned("audit_log")
            <4>1. Proper("audit_log", w) /\ "audit_log" \in TableNames
                BY DEF WellFormed, TableNames
            <4>2. PICK r \in w.refs : r[2] = "users"
                BY <4>1 DEF Proper, Anchors
            <4>3. \E v \in db["users"] : v.id = r
                BY <4>1, <4>2, Referred
            <4> QED
                BY <4>2, <4>3 DEF Condemned, Ids
        <3> QED
            BY <1>4, <2>2, <3>1
    <2> QED
        BY <2>1, <2>2
<1>6. ASSUME at = 7, NEW t \in {"session_series", "session_exceptions"} PROVE After[t] = {}
    <2> DEFINE doomed == db["events"]
    <2>1. Step.table = "events" /\ Condemned("events") = doomed
        BY <1>1, <1>6 DEF Condemned
    <2>2. After[t] = {w \in db[t] : w.refs \cap Cascade(doomed, "events") = {}}
        BY <1>2, <2>1 DEF Without, WellFormed, TableNames, OfEvent
    <2>3. "events" \in TableNames /\ "session_series" \in TableNames /\ "session_exceptions" \in TableNames
        BY DEF TableNames
    <2>4. ASSUME NEW q \in db["session_series"]
          PROVE  \E r \in q.refs : r \in Ids(doomed)
        <3>1. Proper("session_series", q)
            BY <2>3 DEF WellFormed
        <3>2. PICK r \in q.refs : r[2] = "events"
            BY <3>1 DEF Proper, Anchors
        <3>3. \E v \in db["events"] : v.id = r
            BY <2>3, <3>2, Referred
        <3> QED
            BY <3>2, <3>3 DEF Ids
    <2>5. Cascade(doomed, "events") = Ids(doomed) \cup Ids({q \in db["session_series"] : q.refs \cap Ids(doomed) # {}})
        BY DEF Cascade
    <2>6. \A q \in db["session_series"] : q.id \in Cascade(doomed, "events")
        <3> TAKE q \in db["session_series"]
        <3>1. q \in {x \in db["session_series"] : x.refs \cap Ids(doomed) # {}}
            BY <2>4
        <3>2. q.id \in Ids({x \in db["session_series"] : x.refs \cap Ids(doomed) # {}})
            BY <3>1 DEF Ids
        <3> QED
            BY <2>5, <3>2
    <2>7. ASSUME NEW w \in db[t] PROVE w.refs \cap Cascade(doomed, "events") # {}
        <3>1. CASE t = "session_series"
            BY <2>4, <2>5, <3>1
        <3>2. CASE t = "session_exceptions"
            <4>1. Proper("session_exceptions", w)
                BY <2>3, <3>2 DEF WellFormed
            <4>2. PICK r \in w.refs : r[2] = "session_series"
                BY <4>1 DEF Proper, Anchors
            <4>3. \E v \in db["session_series"] : v.id = r
                BY <2>3, <3>2, <4>2, Referred
            <4>4. r \in Cascade(doomed, "events")
                BY <2>6, <4>3
            <4> QED
                BY <4>2, <4>4
        <3> QED
            BY <3>1, <3>2
    <2> QED
        BY <2>2, <2>7
<1>7. ASSUME NEW t \in TableNames, DeletedAt(t) = at PROVE After[t] = {}
    <2>1. \/ t = Step.table
          \/ at = 7 /\ t \in {"session_series", "session_exceptions"}
        BY <1>1, <1>7 DEF DeletedAt, TableNames
    <2> QED
        BY <1>5, <1>6, <2>1
<1> QED
    BY <1>3, <1>7

\* A longer stretch of chunks covers no less.
LEMMA Products ==
    ASSUME NEW a \in Nat, NEW b \in Nat, a <= b
    PROVE  a * ChunkSize <= b * ChunkSize /\ (a + 1) * ChunkSize = a * ChunkSize + ChunkSize
<1>1. ChunkSize \in Nat
    BY SeedingAssumption
<1> DEFINE d == b - a
<1>2. d \in Nat /\ b = a + d
    OBVIOUS
<1> HIDE DEF d
<1>3. (a + d) * ChunkSize = a * ChunkSize + d * ChunkSize /\ d * ChunkSize \in Nat /\ a * ChunkSize \in Nat
    BY <1>1, <1>2
<1> QED
    BY <1>1, <1>2, <1>3

\* Past the last chunk every session is there.
LEMMA AllLoaded ==
    ASSUME NEW p \in Nat, 14 + Chunks <= p, DOMAIN placed = 1 .. Len(Slots)
    PROVE  Loaded(p, "sessions") = RowsOf(runs, "sessions")
<1>1. p - 14 \in Nat /\ Chunks \in Nat /\ Chunks <= p - 14 /\ Len(Slots) \in Nat /\ Len(Slots) <= Chunks * ChunkSize
    BY ChunksType
<1>2. Chunks * ChunkSize <= (p - 14) * ChunkSize
    BY <1>1, Products
<1>3. Chunks * ChunkSize \in Nat /\ (p - 14) * ChunkSize \in Nat /\ (Chunks = 0 => Chunks * ChunkSize = 0)
    BY <1>1, SeedingAssumption
<1>4. ASSUME NEW k \in DOMAIN placed PROVE p > 14 /\ k <= (p - 14) * ChunkSize
    BY <1>1, <1>2, <1>3
<1>5. {k \in DOMAIN placed : p > 14 /\ k <= (p - 14) * ChunkSize} = DOMAIN placed
    BY <1>4
<1> QED
    BY <1>5 DEF Loaded, RowsOf

\* Every step from the copies on adds what it is to load.
LEMMA LoadStep ==
    ASSUME WellFormed(db), at \in 10 .. Final, DOMAIN placed = 1 .. Len(Slots), NEW t \in TableNames
    PROVE  \E new : After[t] = db[t] \cup new /\ Loaded(at + 1, t) = Loaded(at, t) \cup new
<1>1. at \in Nat /\ at \in 1 .. Final /\ Chunks \in Nat /\ Len(Slots) \in Nat
    BY ChunksType, ProgramShape
<1>2. CASE Step.what = "copy" /\ t = Step.table
    <2>1. /\ After = With(RowsOf(runs, t), t)
          /\ \/ at = 10 /\ t = "users"
             \/ at = 11 /\ t = "events"
             \/ at = 12 /\ t = "event_members"
             \/ at = 13 /\ t = "rooms"
             \/ at = 14 + Chunks /\ t = "invitations"
        <3>1. \/ at = 10 \/ at = 11 \/ at = 12 \/ at = 13 \/ at = 14 + Chunks
            BY <1>1, <1>2, StepKinds
        <3> QED
            BY <1>2, <3>1, ProgramShape DEF After, Step
    <2>2. After[t] = db[t] \cup RowsOf(runs, t)
        BY <2>1, WithShape
    <2>3. CopiedAt(t) = at /\ t # "sessions"
        BY <2>1 DEF CopiedAt
    <2>4. Loaded(at + 1, t) = RowsOf(runs, t) /\ Loaded(at, t) = {}
        BY <1>1, <2>3 DEF Loaded
    <2> QED
        BY <2>2, <2>4
<1>3. CASE Step.what = "insert" /\ t = "sessions"
    <2> DEFINE new == {SessionRow(runs, i) : i \in Chunk(Step.part)}
    <2>1. After = With(new, "sessions") /\ at \in 14 .. 13 + Chunks /\ Step.part = at - 13
        BY <1>1, <1>3, StepKinds DEF After
    <2>2. After["sessions"] = db["sessions"] \cup new
        <3> HIDE DEF new
        <3> QED
            BY <1>3, <2>1, WithShape
    <2>3. /\ at - 14 \in Nat /\ Step.part - 1 = at - 14 /\ Step.part = (at - 14) + 1
          /\ (at + 1) - 14 = (at - 14) + 1 /\ at + 1 > 14 /\ (at > 14 \/ at - 14 = 0)
        BY <1>1, <2>1
    <2> DEFINE low == (at - 14) * ChunkSize
               high == ((at - 14) + 1) * ChunkSize
    <2>4. low \in Nat /\ high \in Nat /\ low <= high /\ (at - 14 = 0 => low = 0)
        <3>1. low <= low /\ high = low + ChunkSize
            BY <2>3, Products
        <3> QED
            BY <2>3, <3>1, SeedingAssumption
    <2>5. Chunk(Step.part) = {i \in DOMAIN placed : low < i /\ i <= high}
        BY <2>3 DEF Chunk
    <2>6. /\ {k \in DOMAIN placed : at + 1 > 14 /\ k <= ((at + 1) - 14) * ChunkSize} = {k \in DOMAIN placed : k <= high}
          /\ {k \in DOMAIN placed : at > 14 /\ k <= (at - 14) * ChunkSize} = {k \in DOMAIN placed : k <= low}
        <3> HIDE DEF high
        <3>1. ((at + 1) - 14) * ChunkSize = high
            BY <2>3 DEF high
        <3>2. \A k \in DOMAIN placed : k \in Nat \ {0}
            OBVIOUS
        <3>3. \A k \in DOMAIN placed : k <= low => at > 14
            BY <2>3, <2>4, <3>2
        <3> QED
            BY <2>3, <3>1, <3>3
    <2> HIDE DEF low, high
    <2>7. {k \in DOMAIN placed : k <= high} = {k \in DOMAIN placed : k <= low} \cup Chunk(Step.part)
        BY <2>4, <2>5
    <2>8. Loaded(at + 1, t) = Loaded(at, t) \cup new
        BY <1>3, <2>6, <2>7 DEF Loaded
    <2> QED
        BY <1>3, <2>2, <2>8
<1>4. CASE ~(Step.what = "copy" /\ t = Step.table) /\ ~(Step.what = "insert" /\ t = "sessions")
    <2>1. After[t] = db[t]
        <3>1. CASE Step.what = "copy"
            <4>1. Step.table \in TableNames /\ After = With(RowsOf(runs, Step.table), Step.table)
                BY <1>1, <3>1, StepKinds DEF After, TableNames
            <4> QED
                BY <1>4, <3>1, <4>1, WithShape
        <3>2. CASE Step.what = "insert"
            <4>1. "sessions" \in TableNames /\ After = With({SessionRow(runs, i) : i \in Chunk(Step.part)}, "sessions")
                BY <3>2 DEF After, TableNames
            <4> QED
                BY <1>4, <3>2, <4>1, WithShape
        <3>3. CASE Step.what \notin {"copy", "insert"}
            BY <1>1, <3>3, StepKinds DEF After
        <3> QED
            BY <3>1, <3>2, <3>3
    <2>2. Loaded(at + 1, t) = Loaded(at, t)
        <3>1. CASE t = "sessions"
            <4>1. CASE at < 14
                <5>1. ~(at > 14) /\ ~(at + 1 > 14)
                    BY <1>1, <4>1
                <5> QED
                    BY <3>1, <5>1 DEF Loaded
            <4>2. CASE at \in 14 .. 13 + Chunks
                BY <1>1, <1>4, <3>1, <4>2, ProgramShape DEF Step
            <4>3. CASE 14 + Chunks <= at
                BY <1>1, <3>1, <4>3, AllLoaded
            <4> QED
                BY <1>1, <4>1, <4>2, <4>3
        <3>2. CASE t # "sessions"
            <4>1. CopiedAt(t) \in Nat
                BY <1>1 DEF CopiedAt
            <4>2. CopiedAt(t) # at
                <5>1. SUFFICES ASSUME CopiedAt(t) = at PROVE FALSE
                    OBVIOUS
                <5>2. \/ at = 10 /\ t = "users"
                      \/ at = 11 /\ t = "events"
                      \/ at = 12 /\ t = "event_members"
                      \/ at = 13 /\ t = "rooms"
                      \/ at = 14 + Chunks /\ t = "invitations"
                    BY <1>1, <5>1 DEF CopiedAt
                <5> QED
                    BY <1>4, <5>2, ProgramShape DEF Step
            <4>3. (CopiedAt(t) < at + 1) <=> (CopiedAt(t) < at)
                BY <1>1, <4>1, <4>2
            <4> QED
                BY <3>2, <4>3 DEF Loaded
        <3> QED
            BY <3>1, <3>2
    <2> QED
        BY <2>1, <2>2
<1> QED
    BY <1>2, <1>3, <1>4

\* Nothing is loaded before the copies.
LEMMA NotYet ==
    ASSUME NEW p \in Nat, p <= 10, NEW t \in TableNames
    PROVE  Loaded(p, t) = {} /\ Loaded(p, t)' = {}
<1>1. Chunks \in Nat
    BY ChunksType
<1>2. CASE t = "sessions"
    <2>1. ~(p > 14)
        OBVIOUS
    <2> QED
        BY <1>2, <2>1 DEF Loaded
<1>3. CASE t \in {"users", "events", "event_members", "rooms", "invitations"}
    <2>1. ~(CopiedAt(t) < p) /\ t # "sessions"
        BY <1>1, <1>3 DEF CopiedAt
    <2> QED
        BY <2>1 DEF Loaded
<1>4. CASE t \in {"audit_log", "idempotency_keys", "session_series", "session_exceptions"}
    <2>1. RowsOf(runs, t) = {} /\ RowsOf(runs, t)' = {} /\ t # "sessions"
        BY <1>4 DEF RowsOf
    <2> QED
        BY <2>1 DEF Loaded
<1> QED
    BY <1>2, <1>3, <1>4 DEF TableNames

\* What a run loads does not change while its draws and sessions do not.
LEMMA LoadedSame ==
    ASSUME UNCHANGED <<draws, runs, placed>>, NEW p, NEW t
    PROVE  Loaded(p, t)' = Loaded(p, t)
BY DEF Loaded, RowsOf, SessionRow, EventRow

\* A session for every slot.
LEMMA PlacedDomain ==
    ASSUME draws \in Draws, placed = Sessions(draws.places)
    PROVE  DOMAIN placed = 1 .. Len(Slots)
<1>1. Fits(placed, Len(Slots)) /\ Len(Slots) \in Nat
    BY DrawsFit
<1> QED
    BY <1>1 DEF Fits

\* A statement carried out brings the run one step further.
LEMMA StatementReaches ==
    ASSUME SeedInv, at # 0, Step.what # "generate", db' = After, UNCHANGED <<draws, runs, company, placed>>,
           NEW p, p = at + 1
    PROVE  Reached(p)'
<1>1. at \in 1 .. Final /\ p \in Nat /\ draws \in Draws /\ WellFormed(db) /\ Closed(db) /\ Chunks \in Nat
    BY ChunksType, ProgramShape DEF SeedInv
<1>2. PICK q \in 1 .. Final : q = at
    BY <1>1
<1>3. Reached(q)
    BY <1>2 DEF SeedInv, Running
<1>4. at # 9
    BY <1>1, StepKinds
<1>5. CASE at \in 1 .. 8
    <2>1. ~(9 < p) /\ p <= 10 /\ q <= 10 /\ q \in Nat
        BY <1>2, <1>5
    <2>2. ASSUME NEW t \in TableNames, DeletedAt(t) < p
          PROVE  Loaded(p, t)' = {} /\ (~company => After[t] = {})
        <3>1. Loaded(p, t)' = {} /\ Loaded(q, t) = {}
            BY <1>1, <2>1, NotYet
        <3>2. DeletedAt(t) \in Nat
            BY DEF DeletedAt
        <3>3. CASE DeletedAt(t) = at
            BY <1>1, <1>5, <3>1, <3>3, DeleteClears
        <3>4. CASE DeletedAt(t) < q
            <4>1. ~company => db[t] = {}
                BY <1>3, <3>1, <3>4 DEF Reached
            <4>2. After[t] \subseteq db[t]
                BY <1>1, <1>5, DeleteClears
            <4> QED
                BY <3>1, <4>1, <4>2
        <3> QED
            BY <1>1, <1>2, <2>2, <3>2, <3>3, <3>4
    <2> QED
        BY <2>1, <2>2 DEF Reached
<1>6. CASE at \in 10 .. Final
    <2>1. placed = Sessions(draws.places) /\ ~Panics(placed)
        BY <1>2, <1>3, <1>6 DEF Reached
    <2>2. DOMAIN placed = 1 .. Len(Slots)
        BY <1>1, <2>1, PlacedDomain
    <2>3. ASSUME NEW t \in TableNames
          PROVE  Loaded(p, t)' \subseteq After[t] /\ (~company => After[t] = Loaded(p, t)')
        <3>1. PICK new : After[t] = db[t] \cup new /\ Loaded(at + 1, t) = Loaded(at, t) \cup new
            BY <1>1, <1>6, <2>2, LoadStep
        <3>2. Loaded(p, t) = Loaded(q, t) \cup new
            BY <1>2, <3>1
        <3>3. DeletedAt(t) < q
            BY <1>2, <1>6 DEF DeletedAt
        <3>4. Loaded(q, t) \subseteq db[t] /\ (~company => db[t] = Loaded(q, t))
            BY <1>3, <3>3 DEF Reached
        <3>5. Loaded(p, t)' = Loaded(p, t)
            BY LoadedSame
        <3> QED
            BY <3>1, <3>2, <3>4, <3>5
    <2> QED
        BY <2>1, <2>3 DEF Reached
<1> QED
    BY <1>1, <1>4, <1>5, <1>6

\* So does the generator, unless it panics.
LEMMA GenerateReaches ==
    ASSUME SeedInv, at # 0, Generate, ~Panics(placed')
    PROVE  Reached(10)' /\ at = 9
<1>1. at \in 1 .. Final /\ draws \in Draws
    BY DEF SeedInv
<1>2. at = 9
    BY <1>1, StepKinds DEF Generate
<1>3. PICK q \in 1 .. Final : q = at
    BY <1>1
<1>4. Reached(q) /\ q = 9
    BY <1>2, <1>3 DEF SeedInv, Running
<1>5. placed' = Sessions(draws'.places) /\ db' = db /\ company' = company
    BY DEF Generate, Stays
<1>6. ASSUME NEW t \in TableNames
      PROVE  Loaded(10, t)' = {} /\ (~company => db[t] = {})
    <2>1. Loaded(10, t)' = {} /\ Loaded(9, t) = {}
        BY NotYet
    <2>2. DeletedAt(t) < 9
        BY DEF DeletedAt
    <2> QED
        BY <1>4, <2>1, <2>2 DEF Reached
<1> QED
    BY <1>2, <1>5, <1>6 DEF Reached

\* What the API does beside a run does not set it back.
LEMMA GrowsReaches ==
    ASSUME Grows, NEW p, Reached(p)
    PROVE  Reached(p)'
<1>1. \A t \in TableNames : Loaded(p, t)' = Loaded(p, t)
    BY LoadedSame DEF Grows
<1> QED
    BY <1>1 DEF Grows, Reached

(***************************************************************************)
(* The invariant of a run.                                                 *)
(***************************************************************************)
LEMMA SeedInvInit == SeedInit => SeedInv
<1> SUFFICES ASSUME SeedInit PROVE SeedInv
    OBVIOUS
<1>1. DOMAIN db = TableNames /\ \A t \in TableNames : db[t] = {}
    BY TableNamesListed DEF SeedInit
<1>2. WellFormed(db)
    BY <1>1 DEF WellFormed
<1>3. Closed(db)
    BY <1>1 DEF Closed
<1>4. draws \in Draws /\ runs \in Nat /\ acts \in Nat /\ company \in BOOLEAN
    <2>1. MaxRuns \in Nat /\ MaxActs \in Nat
        BY SeedingAssumption
    <2>2. runs \in Nat /\ acts \in Nat
        BY <2>1 DEF SeedInit
    <2>3. draws \in Draws /\ company \in BOOLEAN
        BY DEF SeedInit
    <2> QED
        BY <2>2, <2>3
<1>5. at = 0 /\ exit = "none" /\ Final \in Nat
    BY ProgramShape DEF SeedInit
<1> QED
    BY <1>2, <1>3, <1>4, <1>5 DEF SeedInv, Running

\* A run begins with nothing cleared.
LEMMA StartKeeps ==
    ASSUME SeedInv, Start
    PROVE  SeedInv'
<1>1. /\ runs' = runs + 1 /\ company' = FALSE /\ UNCHANGED <<draws, db, acts>>
      /\ (at' = 1 /\ exit' = "none") \/ (at' = 0 /\ exit' = "refused")
    BY DEF Start
<1>2. /\ draws' \in Draws /\ runs' \in Nat /\ runs' # 0 /\ acts' \in Nat /\ company' \in BOOLEAN
      /\ WellFormed(db') /\ Closed(db') /\ exit' # "ok" /\ Final \in Nat /\ Final >= 14
    <2>1. Final \in Nat /\ Final >= 14
        BY ProgramShape, ChunksType, IdentitiesType DEF Final
    <2>2. draws \in Draws /\ runs \in Nat /\ acts \in Nat /\ WellFormed(db) /\ Closed(db)
        BY DEF SeedInv
    <2>3. runs' \in Nat /\ runs' # 0
        BY <1>1, <2>2
    <2> QED
        BY <1>1, <2>1, <2>2, <2>3
<1>3. at' \in 0 .. Final
    BY <1>1, <1>2
<1>4. \A p \in 1 .. Final : p = 1 => Reached(p)'
    <2> SUFFICES Reached(1)'
        OBVIOUS
    <2>1. ~(9 < 1) /\ \A t \in TableNames : ~(DeletedAt(t) < 1)
        BY DEF DeletedAt
    <2> QED
        BY <2>1 DEF Reached
<1>5. Running'
    BY <1>1, <1>2, <1>4 DEF Running
<1> QED
    BY <1>2, <1>3, <1>5 DEF SeedInv

\* The end of a run that has not come through.
LEMMA EndKeeps ==
    ASSUME SeedInv, at' = 0, exit' # "ok", WellFormed(db'), Closed(db'), Stays
    PROVE  SeedInv'
<1>1. at' \in 0 .. Final
    BY ProgramShape
<1> QED
    BY <1>1 DEF SeedInv, Running, Stays

\* A run that goes on, or has come through.
LEMMA GoKeeps ==
    ASSUME SeedInv, at # 0, Go, WellFormed(db'), Closed(db'), Stays,
           \A p : p = at + 1 => Reached(p)'
    PROVE  SeedInv'
<1>1. at \in 1 .. Final /\ Final \in Nat /\ Len(Program) = Final
    BY ProgramShape DEF SeedInv
<1>2. CASE at = Final
    <2>1. at' = 0 /\ exit' = "ok" /\ Reached(Final + 1)'
        BY <1>1, <1>2 DEF Go, End
    <2>2. at' \in 0 .. Final
        BY <1>1, <2>1
    <2> QED
        BY <2>1, <2>2 DEF SeedInv, Running, Stays
<1>3. CASE at # Final
    <2>1. at' = at + 1 /\ exit' = "none" /\ exit' # "ok" /\ runs' = runs /\ runs' # 0
        BY <1>1, <1>3 DEF Go, SeedInv, Running, Stays
    <2>2. at' \in 0 .. Final
        BY <1>1, <1>3, <2>1
    <2>3. Running'
        BY <2>1 DEF Running
    <2> QED
        BY <2>1, <2>2, <2>3 DEF SeedInv, Stays
<1> QED
    BY <1>2, <1>3

\* A statement is carried out, or refused.
LEMMA ExecuteKeeps ==
    ASSUME SeedInv, Execute
    PROVE  SeedInv'
<1>1. at # 0 /\ at \in 1 .. Final /\ Step.what # "generate" /\ placed' = placed /\ Stays
      /\ WellFormed(db) /\ Closed(db)
    BY DEF Execute, SeedInv
<1>2. CASE Succeeds /\ db' = After /\ Go
    <2>1. WellFormed(db') /\ Closed(db')
        BY <1>1, <1>2, AfterWellFormed, AfterClosed
    <2>2. UNCHANGED <<draws, runs, company, placed>>
        BY <1>1 DEF Stays
    <2>3. \A p : p = at + 1 => Reached(p)'
        BY <1>1, <1>2, <2>2, StatementReaches
    <2> QED
        BY <1>1, <1>2, <2>1, <2>3, GoKeeps
<1>3. CASE db' = db /\ End("database")
    <2>1. at' = 0 /\ exit' # "ok" /\ WellFormed(db') /\ Closed(db')
        BY <1>1, <1>3 DEF End
    <2> QED
        BY <1>1, <2>1, EndKeeps
<1> QED
    BY <1>2, <1>3 DEF Execute

\* The dataset is generated, or the generator panics.
LEMMA GenerateKeeps ==
    ASSUME SeedInv, Generate
    PROVE  SeedInv'
<1>1. at # 0 /\ Stays /\ WellFormed(db') /\ Closed(db') /\ at \in 1 .. Final
    BY DEF Generate, SeedInv
<1>2. CASE Panics(placed')
    <2>1. at' = 0 /\ exit' # "ok"
        BY <1>2 DEF Generate, End
    <2> QED
        BY <1>1, <2>1, EndKeeps
<1>3. CASE ~Panics(placed')
    <2>1. Go
        BY <1>3 DEF Generate
    <2>2. Reached(10)' /\ at = 9
        BY <1>1, <1>3, GenerateReaches
    <2>3. \A p : p = at + 1 => Reached(p)'
        BY <2>2
    <2> QED
        BY <1>1, <2>1, <2>3, GoKeeps
<1> QED
    BY <1>2, <1>3

\* A demo identity has its seat, or the run fails.
LEMMA CheckKeeps ==
    ASSUME SeedInv, Check
    PROVE  SeedInv'
<1>1. /\ at # 0 /\ at \in 1 .. Final /\ Step.what = "check" /\ Stays /\ db' = db /\ placed' = placed
      /\ WellFormed(db') /\ Closed(db')
    BY DEF Check, SeedInv
<1>2. CASE Go
    <2>1. db' = After
        BY <1>1 DEF After
    <2>2. UNCHANGED <<draws, runs, company, placed>>
        BY <1>1 DEF Stays
    <2>3. \A p : p = at + 1 => Reached(p)'
        BY <1>1, <2>1, <2>2, StatementReaches
    <2> QED
        BY <1>1, <1>2, <2>3, GoKeeps
<1>3. CASE End("database") \/ End("issuer")
    <2>1. at' = 0 /\ exit' # "ok"
        BY <1>3 DEF End
    <2> QED
        BY <1>1, <2>1, EndKeeps
<1> QED
    BY <1>2, <1>3 DEF Check

\* A run is cut off, the statement under way carried out or not.
LEMMA InterruptKeeps ==
    ASSUME SeedInv, Interrupt
    PROVE  SeedInv'
<1>1. at # 0 /\ at \in 1 .. Final /\ at' = 0 /\ exit' # "ok" /\ Stays /\ WellFormed(db) /\ Closed(db)
    BY DEF Interrupt, End, SeedInv
<1>2. db' = db \/ (Succeeds /\ db' = After)
    BY DEF Interrupt
<1>3. WellFormed(db') /\ Closed(db')
    BY <1>1, <1>2, AfterWellFormed, AfterClosed
<1> QED
    BY <1>1, <1>3, EndKeeps

\* Whatever the API does only adds.
LEMMA BesideGrows ==
    ASSUME SeedInv, Beside
    PROVE  Grows
BY SignInGrows, InviteGrows, FoundGrows, ScheduleGrows, EditGrows DEF Beside, SeedInv

\* And so takes nothing back that a run has done.
LEMMA BesideKeeps ==
    ASSUME SeedInv, Grows
    PROVE  SeedInv'
<1>1. \A p : Reached(p) => Reached(p)'
    BY GrowsReaches
<1>2. Running'
    BY <1>1 DEF SeedInv, Running, Grows
<1>3. exit' = "ok" => Reached(Final + 1)'
    BY <1>1 DEF SeedInv, Grows
<1> QED
    BY <1>2, <1>3 DEF SeedInv, Grows

\* A step that changes nothing.
LEMMA StutterKeeps ==
    ASSUME SeedInv, UNCHANGED seedVars
    PROVE  SeedInv'
<1>1. UNCHANGED <<draws, runs, placed>> /\ UNCHANGED <<db, at, exit, acts, company>>
    BY DEF seedVars
<1>2. \A p, t : Loaded(p, t)' = Loaded(p, t)
    BY <1>1, LoadedSame
<1>3. \A p : Reached(p) => Reached(p)'
    BY <1>1, <1>2 DEF Reached
<1>4. Running'
    BY <1>1, <1>3 DEF SeedInv, Running
<1>5. exit' = "ok" => Reached(Final + 1)'
    BY <1>1, <1>3 DEF SeedInv
<1> QED
    BY <1>1, <1>4, <1>5 DEF SeedInv

\* Every step keeps the invariant.
LEMMA SeedInvNext == SeedInv /\ [SeedNext]_seedVars => SeedInv'
<1> SUFFICES ASSUME SeedInv, [SeedNext]_seedVars PROVE SeedInv'
    OBVIOUS
<1>1. CASE Start
    BY <1>1, StartKeeps
<1>2. CASE Execute
    BY <1>2, ExecuteKeeps
<1>3. CASE Generate
    BY <1>3, GenerateKeeps
<1>4. CASE Check
    BY <1>4, CheckKeeps
<1>5. CASE Interrupt
    BY <1>5, InterruptKeeps
<1>6. CASE Beside
    BY <1>6, BesideGrows, BesideKeeps
<1>7. CASE UNCHANGED seedVars
    BY <1>7, StutterKeeps
<1> QED
    BY <1>1, <1>2, <1>3, <1>4, <1>5, <1>6, <1>7 DEF SeedNext

\* So it always holds.
LEMMA SeedInvHolds == SeedSpec => []SeedInv
BY SeedInvInit, SeedInvNext, PTL DEF SeedSpec

\* main.go: a run that reports success has left every row of the dataset in the
\* tables and, unless the API worked beside it, nothing else: whatever earlier runs
\* that were cut off, and the API since, had left there is gone, series and
\* exceptions with the events.
THEOREM SuccessIsWhole == SeedSpec => []SeedIsWhole
<1>1. SeedInv => SeedIsWhole
    <2> SUFFICES ASSUME SeedInv, exit = "ok", NEW t \in TableNames
                 PROVE  /\ RowsOf(runs, t) \subseteq db[t]
                        /\ ~company => db[t] = RowsOf(runs, t)
        BY DEF SeedIsWhole, SeedInv, WellFormed
    <2>1. Reached(Final + 1) /\ Final \in Nat /\ draws \in Draws /\ Chunks \in Nat /\ 14 + Chunks < Final + 1
        BY ProgramShape, ChunksType, IdentitiesType DEF SeedInv, Final
    <2>2. DeletedAt(t) < Final + 1
        BY <2>1 DEF DeletedAt
    <2>3. Loaded(Final + 1, t) \subseteq db[t] /\ (~company => db[t] = Loaded(Final + 1, t))
        BY <2>1, <2>2 DEF Reached
    <2>4. Loaded(Final + 1, t) = RowsOf(runs, t)
        <3>1. CASE t = "sessions"
            <4>1. DOMAIN placed = 1 .. Len(Slots)
                BY <2>1, PlacedDomain DEF Reached
            <4>2. Final + 1 \in Nat /\ 14 + Chunks <= Final + 1
                BY <2>1
            <4> QED
                BY <3>1, <4>1, <4>2, AllLoaded
        <3>2. CASE t # "sessions"
            <4>1. CopiedAt(t) < Final + 1
                BY <2>1 DEF CopiedAt
            <4> QED
                BY <3>2, <4>1 DEF Loaded
        <3> QED
            BY <3>1, <3>2
    <2> QED
        BY <2>3, <2>4
<1> QED
    BY <1>1, SeedInvHolds, PTL

(***************************************************************************)
(* Why the database may refuse a run: what the program sends is in an      *)
(* order the foreign keys allow, and meets every other constraint.         *)
(***************************************************************************)

\* A roster seats users, and in a demo event every demo identity in its role.
LEMMA RosterShape ==
    ASSUME NEW i \in DOMAIN Events, NEW seated \in Rosters(Events[i])
    PROVE  /\ DOMAIN seated \subseteq People
           /\ Events[i].demo => \A u \in DOMAIN DemoRole : u \in DOMAIN seated /\ seated[u] = DemoRole[u]
<1> DEFINE ev == Events[i]
           D == DemoMembers(ev)
           F(a, c, t) == [u \in D \cup a \cup c \cup t |->
                            IF u \in D THEN DemoRole[u]
                            ELSE IF u \in a THEN "admin" ELSE IF u \in c THEN "contributor" ELSE "attendee"]
<1>1. D \subseteq People /\ (ev.demo => D = DOMAIN DemoRole)
    BY DatasetAssumption DEF DemoMembers
<1>2. PICK n \in Seats : seated \in
        UNION {UNION {{F(a, c, t) : t \in PickDistinctUsers(n.attendee, D \cup a \cup c)} :
                         c \in PickDistinctUsers(n.contributor, D \cup a)} :
                 a \in PickDistinctUsers(n.admin, D)}
    BY DEF Rosters
<1>3. PICK a \in PickDistinctUsers(n.admin, D) : seated \in
        UNION {{F(a, c, t) : t \in PickDistinctUsers(n.attendee, D \cup a \cup c)} :
                  c \in PickDistinctUsers(n.contributor, D \cup a)}
    BY <1>2
<1>4. PICK c \in PickDistinctUsers(n.contributor, D \cup a) : seated \in
        {F(a, c, t) : t \in PickDistinctUsers(n.attendee, D \cup a \cup c)}
    BY <1>3
<1>5. PICK t \in PickDistinctUsers(n.attendee, D \cup a \cup c) : seated = F(a, c, t)
    BY <1>4
<1>6. a \subseteq People /\ c \subseteq People /\ t \subseteq People
    BY DEF PickDistinctUsers
<1> HIDE DEF D
<1>7. DOMAIN seated = D \cup a \cup c \cup t /\ \A u \in D : seated[u] = DemoRole[u]
    BY <1>5
<1> QED
    BY <1>1, <1>6, <1>7

\* Who is invited is a user, or an address.
LEMMA InvitedShape ==
    ASSUME NEW i \in DOMAIN Events, NEW v \in Invitations(Events[i])
    PROVE  v[1] = Events[i].name /\ (v[2] = "user" => v[3] \in People)
<1> DEFINE real == (Invited * 8) \div 10
<1>1. real \in Nat /\ real <= Len(Users) /\ Users \in Seq(STRING)
    BY DatasetAssumption
<1> HIDE DEF real
<1>2. \A k \in 1 .. real : Users[k] \in People
    BY <1>1 DEF People, ToSet
<1>3. \/ \E k \in 1 .. real : v = <<Events[i].name, "user", Users[k]>>
      \/ \E k \in 1 .. Invited - real : v = <<Events[i].name, "external", k>>
    BY DEF Invitations, real
<1>4. CASE \E k \in 1 .. real : v = <<Events[i].name, "user", Users[k]>>
    BY <1>2, <1>4
<1>5. CASE \E k \in 1 .. Invited - real : v = <<Events[i].name, "external", k>>
    BY <1>5
<1> QED
    BY <1>3, <1>4, <1>5

\* The rows others refer to.
HasUser(u) == \E v \in RowsOf(runs, "users") : v.id = Id(runs, "users", u)
HasEvent(name) == \E v \in RowsOf(runs, "events") : v.id = Id(runs, "events", name)
HasRoom(room) == \E v \in RowsOf(runs, "rooms") : v.id = Id(runs, "rooms", room)

\* The dataset holds a row for every user, event and room it names.
LEMMA HasRows ==
    /\ \A u \in People : HasUser(u)
    /\ \A name \in EventNames : HasEvent(name)
    /\ \A room \in RoomKeys : HasRoom(room)
<1>1. ASSUME NEW u \in People PROVE HasUser(u)
    <2>1. Row(Id(runs, "users", u), {}) \in RowsOf(runs, "users")
        BY DEF RowsOf
    <2> QED
        BY <2>1 DEF HasUser, Row
<1>2. ASSUME NEW name \in EventNames PROVE HasEvent(name)
    <2>1. PICK i \in DOMAIN Events : name = Events[i].name
        BY DEF EventNames
    <2>2. EventRow(runs, Events[i]) \in RowsOf(runs, "events")
        BY DEF RowsOf
    <2>3. EventRow(runs, Events[i]).id = Id(runs, "events", name)
        BY <2>1 DEF EventRow, Row
    <2> QED
        BY <2>2, <2>3 DEF HasEvent
<1>3. ASSUME NEW room \in RoomKeys PROVE HasRoom(room)
    <2>1. PICK i \in DOMAIN Events : \E k \in DOMAIN Events[i].rooms : room = <<Events[i].name, Events[i].rooms[k]>>
        BY DEF RoomKeys
    <2>2. PICK k \in DOMAIN Events[i].rooms : room = <<Events[i].name, Events[i].rooms[k]>>
        BY <2>1
    <2> DEFINE w == Row(Id(runs, "rooms", room), {Id(runs, "events", Events[i].name)})
    <2>3. w \in RowsOf(runs, "rooms")
        BY <2>2 DEF RowsOf
    <2>4. w.id = Id(runs, "rooms", room)
        BY DEF Row
    <2> QED
        BY <2>3, <2>4 DEF HasRoom
<1> QED
    BY <1>1, <1>2, <1>3

\* What the rows of the dataset refer to is in it.
LEMMA RowsRefer ==
    ASSUME draws \in Draws, placed = Sessions(draws.places), ~Panics(placed),
           NEW t \in {"event_members", "rooms", "sessions", "invitations"},
           NEW w \in RowsOf(runs, t), NEW r \in w.refs
    PROVE  \/ \E v \in RowsOf(runs, "events") : v.id = r
           \/ t # "rooms" /\ \E v \in RowsOf(runs, "users") : v.id = r
           \/ t = "sessions" /\ \E v \in RowsOf(runs, "rooms") : v.id = r
<1>1. CASE t = "event_members"
    <2>1. PICK name \in DOMAIN draws.roster :
              w \in {Row(Id(runs, t, <<name, u>>), {Id(runs, "events", name), Id(runs, "users", u)}) :
                        u \in DOMAIN draws.roster[name]}
        BY <1>1 DEF RowsOf
    <2>2. PICK u \in DOMAIN draws.roster[name] :
              w = Row(Id(runs, t, <<name, u>>), {Id(runs, "events", name), Id(runs, "users", u)})
        BY <2>1
    <2>3. PICK i \in DOMAIN Events : name = Events[i].name
        BY SeedingAssumption
    <2>4. draws.roster[name] \in Rosters(Events[i])
        BY <2>3, SeedingAssumption
    <2>5. u \in People
        BY <2>4, RosterShape
    <2>6. HasEvent(name) /\ HasUser(u)
        BY <2>3, <2>5, HasRows DEF EventNames
    <2>7. r = Id(runs, "events", name) \/ r = Id(runs, "users", u)
        BY <2>2 DEF Row
    <2> QED
        BY <1>1, <2>6, <2>7 DEF HasEvent, HasUser
<1>2. CASE t = "rooms"
    <2>1. PICK i \in DOMAIN Events : \E k \in DOMAIN Events[i].rooms :
              w = Row(Id(runs, t, <<Events[i].name, Events[i].rooms[k]>>), {Id(runs, "events", Events[i].name)})
        BY <1>2 DEF RowsOf
    <2>2. r = Id(runs, "events", Events[i].name)
        BY <2>1 DEF Row
    <2>3. HasEvent(Events[i].name)
        BY HasRows DEF EventNames
    <2> QED
        BY <2>2, <2>3 DEF HasEvent
<1>3. CASE t = "sessions"
    <2>1. PICK i \in DOMAIN placed : w = SessionRow(runs, i)
        BY <1>3 DEF RowsOf
    <2>2. Fits(placed, Len(Slots))
        BY DrawsFit
    <2>3. placed[i] \in Session /\ placed[i].speaker # Nobody
        BY <2>1, <2>2 DEF Fits, Panics
    <2>4. placed[i].event \in EventNames /\ placed[i].room \in RoomKeys /\ placed[i].speaker \in People
        BY <2>3 DEF Session
    <2>5. HasEvent(placed[i].event) /\ HasRoom(placed[i].room) /\ HasUser(placed[i].speaker)
        BY <2>4, HasRows
    <2>6. \/ r = Id(runs, "events", placed[i].event) \/ r = Id(runs, "users", placed[i].speaker)
          \/ r = Id(runs, "rooms", placed[i].room)
        BY <2>1 DEF SessionRow, Row
    <2> QED
        BY <1>3, <2>5, <2>6 DEF HasEvent, HasUser, HasRoom
<1>4. CASE t = "invitations"
    <2>1. PICK i \in DOMAIN Events : \E v \in Invitations(Events[i]) :
              w = Row(Id(runs, t, v), {Id(runs, "events", v[1])} \cup
                        (IF v[2] = "user" THEN {Id(runs, "users", v[3])} ELSE {}))
        BY <1>4 DEF RowsOf
    <2>2. PICK v \in Invitations(Events[i]) :
              \/ r = Id(runs, "events", v[1])
              \/ v[2] = "user" /\ r = Id(runs, "users", v[3])
        BY <2>1 DEF Row
    <2>3. v[1] \in EventNames /\ (v[2] = "user" => v[3] \in People)
        BY InvitedShape DEF EventNames
    <2>4. HasEvent(v[1]) /\ (v[2] = "user" => HasUser(v[3]))
        BY <2>3, HasRows
    <2> QED
        BY <1>4, <2>2, <2>4 DEF HasEvent, HasUser
<1> QED
    BY <1>1, <1>2, <1>3, <1>4

\* A run alone with the database, and no series left of before.
Alone == SeedInv /\ at # 0 /\ ~company /\ db["session_series"] = {}

\* What such a run finds in the tables.
LEMMA AloneHas ==
    ASSUME Alone
    PROVE  /\ at \in 1 .. Final /\ runs # 0 /\ draws \in Draws /\ WellFormed(db) /\ Closed(db)
           /\ \A t \in TableNames : DeletedAt(t) < at => db[t] = Loaded(at, t)
           /\ 9 < at => placed = Sessions(draws.places) /\ ~Panics(placed)
           /\ db["session_exceptions"] = {}
<1>1. at \in 1 .. Final /\ runs # 0 /\ draws \in Draws /\ WellFormed(db) /\ Closed(db)
    BY DEF Alone, SeedInv, Running
<1>2. Reached(at)
    BY <1>1 DEF Alone, SeedInv, Running
<1>3. ASSUME NEW w \in db["session_exceptions"] PROVE FALSE
    <2>1. "session_exceptions" \in TableNames /\ Proper("session_exceptions", w)
        BY <1>1 DEF TableNames, WellFormed
    <2>2. PICK r \in w.refs : r[2] = "session_series"
        BY <2>1 DEF Proper, Anchors
    <2> QED
        BY <1>1, <2>1, <2>2, Referred DEF Alone
<1> QED
    BY <1>1, <1>2, <1>3 DEF Alone, Reached

\* No DELETE leaves a reference dangling.
LEMMA DeletePasses ==
    ASSUME Alone, Step.what = "delete"
    PROVE  Succeeds
<1>1. /\ at \in 1 .. Final /\ WellFormed(db) /\ Closed(db) /\ db["session_exceptions"] = {}
      /\ db["session_series"] = {}
    BY AloneHas DEF Alone
<1>2. at \in 1 .. 8 /\ at \in Nat
    BY <1>1, StepKinds
<1>3. \A t \in TableNames : DeletedAt(t) < at => db[t] = {}
    <2> TAKE t \in TableNames
    <2>1. Loaded(at, t) = {}
        BY <1>2, NotYet
    <2> QED
        BY <2>1, AloneHas
<1>4. /\ at = 1 => Step.table = "idempotency_keys"
      /\ at = 2 => Step.table = "audit_log"
      /\ at = 3 => Step.table = "invitations"
      /\ at = 4 => Step.table = "sessions"
      /\ at = 5 => Step.table = "event_members"
      /\ at = 6 => Step.table = "rooms"
      /\ at = 7 => Step.table = "events"
      /\ at = 8 => Step.table = "users"
    BY ProgramShape DEF Step
<1>5. After = Without(Condemned(Step.table), Step.table)
    BY <1>1 DEF After
<1>6. /\ DOMAIN After = TableNames
      /\ \A t \in TableNames : After[t] \subseteq db[t]
      /\ Step.table # "events" => \A t \in TableNames : t # Step.table => After[t] = db[t]
    BY <1>1, <1>5, WithoutShape
\* Whatever still refers to something is of a table none of whose references is at stake.
<1>7. ASSUME NEW t \in TableNames, db[t] # {}, NEW a \in RefTables(t)
      PROVE  Step.table # "events" /\ a # Step.table
    <2>1. t \notin {"session_series", "session_exceptions"} /\ ~(DeletedAt(t) < at)
        BY <1>1, <1>3, <1>7
    <2>2. \/ t \in {"idempotency_keys", "audit_log"} /\ a = "users"
          \/ t \in {"invitations", "event_members"} /\ a \in {"events", "users"}
          \/ t = "rooms" /\ a = "events"
          \/ t = "sessions" /\ a \in {"events", "users", "rooms", "session_series"}
        BY <1>7, <2>1 DEF RefTables, TableNames
    <2>3. /\ t = "idempotency_keys" => DeletedAt(t) = 1
          /\ t = "audit_log" => DeletedAt(t) = 2
          /\ t = "invitations" => DeletedAt(t) = 3
          /\ t = "sessions" => DeletedAt(t) = 4
          /\ t = "event_members" => DeletedAt(t) = 5
          /\ t = "rooms" => DeletedAt(t) = 6
        BY DEF DeletedAt
    <2>4. at <= 6
        BY <1>2, <2>1, <2>2, <2>3
    <2>5. at = 1 \/ at = 2 \/ at = 3 \/ at = 4 \/ at = 5 \/ at = 6
        BY <1>2, <2>4
    <2>6. at = 6 => t # "sessions"
        BY <2>1, <2>3
    <2> QED
        BY <1>4, <2>2, <2>5, <2>6
<1>8. Closed(After)
    <2> SUFFICES ASSUME NEW t \in TableNames, NEW w \in After[t], NEW r \in w.refs
                 PROVE  r \in UNION {Ids(After[t2]) : t2 \in TableNames}
        BY <1>6 DEF Closed
    <2>1. w \in db[t]
        BY <1>6
    <2>2. PICK v \in db[r[2]] : v.id = r
        BY <1>1, <2>1, Referred
    <2>3. r[2] \in TableNames /\ r[2] \in RefTables(t)
        BY <1>1, <2>1, Referred
    <2>4. Step.table # "events" /\ r[2] # Step.table
        BY <1>7, <2>1, <2>3
    <2>5. v \in After[r[2]]
        BY <1>6, <2>2, <2>3, <2>4
    <2> QED
        BY <2>2, <2>3, <2>5 DEF Ids
<1> QED
    BY <1>8 DEF Succeeds

\* Nor does a COPY or INSERT refer to what is not there yet.
LEMMA AddedClosed ==
    ASSUME Alone, 9 < at, NEW t \in {"users", "events", "event_members", "rooms", "sessions", "invitations"},
           t # "users" => CopiedAt("users") < at,
           t \notin {"users", "events"} => CopiedAt("events") < at,
           t = "sessions" => CopiedAt("rooms") < at,
           NEW rows, rows \subseteq RowsOf(runs, t), After = With(rows, t)
    PROVE  Closed(After)
<1>1. /\ at \in 1 .. Final /\ draws \in Draws /\ WellFormed(db) /\ Closed(db)
      /\ placed = Sessions(draws.places) /\ ~Panics(placed)
    BY AloneHas
<1>2. t \in TableNames /\ "users" \in TableNames /\ "events" \in TableNames /\ "rooms" \in TableNames
    BY DEF TableNames
<1>3. /\ DOMAIN After = TableNames /\ After[t] = db[t] \cup rows
      /\ \A t2 \in TableNames : t2 # t => After[t2] = db[t2]
    BY <1>1, <1>2, WithShape
<1>4. \A t2 \in TableNames : db[t2] \subseteq After[t2]
    BY <1>2, <1>3
<1>5. ASSUME NEW t2 \in {"users", "events", "rooms"}, CopiedAt(t2) < at
      PROVE  RowsOf(runs, t2) \subseteq After[t2]
    <2>1. DeletedAt(t2) < at
        BY <1>1 DEF DeletedAt
    <2>2. db[t2] = Loaded(at, t2)
        BY <1>2, <1>5, <2>1, AloneHas
    <2>3. Loaded(at, t2) = RowsOf(runs, t2)
        BY <1>5 DEF Loaded
    <2> QED
        BY <1>2, <1>4, <1>5, <2>2, <2>3
<1>6. ASSUME NEW w \in rows, NEW r \in w.refs
      PROVE  \E t2 \in TableNames : \E v \in After[t2] : v.id = r
    <2>1. CASE t = "users"
        BY <1>6, <2>1 DEF RowsOf, Row
    <2>2. CASE t = "events"
        BY <1>6, <2>2 DEF RowsOf, EventRow, Row
    <2>3. CASE t \notin {"users", "events"}
        <3>1. t \in {"event_members", "rooms", "sessions", "invitations"} /\ w \in RowsOf(runs, t)
            BY <1>6, <2>3
        <3>2. \/ \E v \in RowsOf(runs, "events") : v.id = r
              \/ \E v \in RowsOf(runs, "users") : v.id = r
              \/ t = "sessions" /\ \E v \in RowsOf(runs, "rooms") : v.id = r
            BY <1>1, <1>6, <3>1, RowsRefer
        <3>3. RowsOf(runs, "events") \subseteq After["events"] /\ RowsOf(runs, "users") \subseteq After["users"]
            BY <1>5, <2>3
        <3>4. t = "sessions" => RowsOf(runs, "rooms") \subseteq After["rooms"]
            BY <1>5
        <3> QED
            BY <1>2, <3>2, <3>3, <3>4
    <2> QED
        BY <2>1, <2>2, <2>3
<1>7. ASSUME NEW t1 \in TableNames, NEW w \in db[t1], NEW r \in w.refs
      PROVE  \E t2 \in TableNames : \E v \in After[t2] : v.id = r
    <2>1. r[2] \in TableNames /\ \E v \in db[r[2]] : v.id = r
        BY <1>1, <1>7, Referred
    <2> QED
        BY <1>4, <2>1
<1>8. ASSUME NEW t1 \in TableNames, NEW w \in After[t1], NEW r \in w.refs
      PROVE  r \in UNION {Ids(After[t2]) : t2 \in TableNames}
    <2>1. w \in db[t1] \/ w \in rows
        BY <1>3
    <2>2. PICK t2 \in TableNames : \E v \in After[t2] : v.id = r
        BY <1>6, <1>7, <1>8, <2>1
    <2> QED
        BY <2>2 DEF Ids
<1> QED
    BY <1>3, <1>8 DEF Closed

\* A COPY meets the foreign keys and the uniqueness of users.
LEMMA CopyPasses ==
    ASSUME Alone, Step.what = "copy"
    PROVE  Succeeds
<1>1. at \in 1 .. Final /\ Chunks \in Nat
    BY AloneHas, ChunksType
<1>2. at = 10 \/ at = 11 \/ at = 12 \/ at = 13 \/ at = 14 + Chunks
    BY <1>1, StepKinds
<1>3. \/ at = 10 /\ Step.table = "users"
      \/ at = 11 /\ Step.table = "events"
      \/ at = 12 /\ Step.table = "event_members"
      \/ at = 13 /\ Step.table = "rooms"
      \/ at = 14 + Chunks /\ Step.table = "invitations"
    BY <1>2, ProgramShape DEF Step
<1>4. After = With(RowsOf(runs, Step.table), Step.table)
    BY DEF After
<1>5. /\ 9 < at /\ Step.table \in {"users", "events", "event_members", "rooms", "sessions", "invitations"}
      /\ CopiedAt("users") = 10 /\ CopiedAt("events") = 11
      /\ Step.table # "users" => 10 < at
      /\ Step.table \notin {"users", "events"} => 11 < at
      /\ Step.table # "sessions"
    BY <1>1, <1>3 DEF CopiedAt
<1>6. Closed(After)
    BY <1>4, <1>5, AddedClosed
<1>7. Unique(RowsOf(runs, Step.table), Step.table)
    <2>1. CASE Step.table = "users"
        <3>1. at = 10 /\ "users" \in TableNames
            BY <1>1, <1>3, <2>1 DEF TableNames
        <3>2. DeletedAt("users") < at
            BY <3>1 DEF DeletedAt
        <3>3. db["users"] = {}
            BY <3>1, <3>2, AloneHas, NotYet
        <3> QED
            BY <2>1, <3>3 DEF Unique
    <2>2. CASE Step.table # "users"
        BY <2>2 DEF Unique
    <2> QED
        BY <2>1, <2>2
<1> QED
    BY <1>6, <1>7 DEF Succeeds

\* The EXCLUDE constraints have nothing to say, and no session of the API is in the way.
LEMMA InsertPasses ==
    ASSUME Alone, Step.what = "insert"
    PROVE  Succeeds /\ ~InTheWay(Step.part)
<1>1. at \in 1 .. Final /\ Chunks \in Nat
    BY AloneHas, ChunksType
<1>2. at \in 14 .. 13 + Chunks /\ at \in Nat /\ 13 < at
    BY <1>1, StepKinds
<1>3. placed = Sessions(draws.places) /\ ~Panics(placed) /\ draws \in Draws /\ runs # 0
    BY <1>2, AloneHas
<1> DEFINE rows == {SessionRow(runs, i) : i \in Chunk(Step.part)}
<1>4. After = With(rows, "sessions")
    BY DEF After
<1>5. rows \subseteq RowsOf(runs, "sessions")
    BY DEF RowsOf, Chunk
<1>6. CopiedAt("users") < at /\ CopiedAt("events") < at /\ CopiedAt("rooms") < at /\ 9 < at
    BY <1>2 DEF CopiedAt
<1>7. Closed(After)
    <2> HIDE DEF rows
    <2> QED
        BY <1>4, <1>5, <1>6, AddedClosed
<1>8. ~Collides(Step.part)
    <2> SUFFICES ASSUME NEW i \in DOMAIN placed, NEW j \in DOMAIN placed, i # j,
                        placed[i].speaker = placed[j].speaker \/ placed[i].room = placed[j].room,
                        placed[i].starts < placed[j].ends, placed[j].starts < placed[i].ends
                 PROVE  FALSE
        BY DEF Collides, Chunk
    <2>1. Fits(placed, Len(Slots)) /\ Len(Slots) \in Nat
        BY <1>3, DrawsFit
    <2>2. Apart(placed, i, j)
        BY <1>3, <2>1, FitApart
    <2>3. placed[i] \in Session /\ placed[j] \in Session
        BY <2>1 DEF Fits
    <2> QED
        BY <2>2, <2>3 DEF Apart, Session
<1>9. ~InTheWay(Step.part)
    <2> SUFFICES ASSUME NEW w \in db["sessions"], w.id[1] = 0 PROVE FALSE
        BY DEF InTheWay
    <2>1. "sessions" \in TableNames /\ DeletedAt("sessions") < at
        BY <1>2 DEF TableNames, DeletedAt
    <2>2. w \in Loaded(at, "sessions")
        BY <2>1, AloneHas
    <2>3. \E i \in DOMAIN placed : w = SessionRow(runs, i)
        BY <2>2 DEF Loaded
    <2> QED
        BY <1>3, <2>3 DEF SessionRow, Row, Id
<1> QED
    BY <1>7, <1>8, <1>9 DEF Succeeds

\* Every demo identity has its seat.
LEMMA CheckPasses ==
    ASSUME Alone, Step.what = "check"
    PROVE  IdentitySeated(Step.table)
<1>1. at \in 1 .. Final /\ Chunks \in Nat /\ draws \in Draws
    BY AloneHas, ChunksType
<1>2. at \in 15 + Chunks .. Final /\ Step.table \in DOMAIN DemoRole
    BY <1>1, StepKinds
<1> DEFINE u == Step.table
<1>3. ASSUME NEW t \in {"users", "events", "event_members"} PROVE db[t] = RowsOf(runs, t)
    <2>1. t \in TableNames /\ DeletedAt(t) < at /\ CopiedAt(t) < at /\ t # "sessions"
        BY <1>1, <1>2 DEF TableNames, DeletedAt, CopiedAt
    <2> QED
        BY <2>1, AloneHas DEF Loaded
<1>4. PICK i \in DOMAIN Events : Events[i].demo
    BY DatasetAssumption
<1> DEFINE name == Events[i].name
           v == Row(Id(runs, "users", u), {})
           e == EventRow(runs, Events[i])
           m == Row(Id(runs, "event_members", <<name, u>>), {Id(runs, "events", name), Id(runs, "users", u)})
<1>5. name \in DOMAIN draws.roster /\ draws.roster[name] \in Rosters(Events[i])
    BY <1>1, SeedingAssumption
<1>6. u \in DOMAIN draws.roster[name] /\ draws.roster[name][u] = DemoRole[u]
    BY <1>2, <1>4, <1>5, RosterShape
<1>7. u \in People
    BY <1>2, DatasetAssumption
<1>8. v \in db["users"] /\ e \in db["events"]
    BY <1>3, <1>7 DEF RowsOf
<1>9. m \in db["event_members"]
    <2>1. m \in {Row(Id(runs, "event_members", <<name, x>>), {Id(runs, "events", name), Id(runs, "users", x)}) :
                    x \in DOMAIN draws.roster[name]}
        BY <1>6
    <2>2. m \in RowsOf(runs, "event_members")
        BY <1>5, <2>1 DEF RowsOf
    <2> QED
        BY <1>3, <2>2
<1>10. /\ KeyOf(v) = u /\ KeyOf(e) = name /\ e.id[1] = runs /\ m.refs = {v.id, e.id}
    BY DEF KeyOf, Row, Id, EventRow
<1> HIDE DEF v, e, m
<1> QED
    BY <1>4, <1>6, <1>8, <1>9, <1>10 DEF IdentitySeated

\* load.go: the statements are in an order the foreign keys allow, from whatever
\* tables a run that was cut off has left: the database refuses a run only for what
\* the API does beside it, or for a series, which Truncate forgets.
THEOREM RefusalsAreExplained == SeedSpec => []FailureExplained
<1>1. SeedInit => FailureExplained
    BY DEF SeedInit, FailureExplained
<1>2. ASSUME SeedInv, FailureExplained, [SeedNext]_seedVars
      PROVE  FailureExplained'
    <2> SUFFICES ASSUME exit' = "database", ~company', db'["session_series"] = {}
                 PROVE  FALSE
        BY DEF FailureExplained
    <2>0. at # 0 => exit = "none"
        BY <1>2 DEF SeedInv, Running
    <2>1. CASE Start
        BY <2>1 DEF Start
    <2>2. CASE Execute
        <3>1. CASE Succeeds /\ db' = After /\ Go
            BY <2>0, <2>2, <3>1 DEF Execute, Go, End
        <3>2. CASE db' = db /\ (~Succeeds \/ (Step.what = "insert" /\ InTheWay(Step.part)))
            <4>1. Alone /\ Step.what \in {"delete", "copy", "insert"}
                BY <1>2, <2>2, <3>2 DEF Execute, Alone, Stays
            <4>2. Succeeds /\ (Step.what = "insert" => ~InTheWay(Step.part))
                BY <4>1, DeletePasses, CopyPasses, InsertPasses
            <4> QED
                BY <3>2, <4>2
        <3> QED
            BY <2>2, <3>1, <3>2 DEF Execute
    <2>3. CASE Generate
        BY <2>0, <2>3 DEF Generate, Go, End
    <2>4. CASE Check
        <3>1. Alone /\ Step.what = "check"
            BY <1>2, <2>4 DEF Check, Alone, Stays
        <3>2. IdentitySeated(Step.table)
            BY <3>1, CheckPasses
        <3> QED
            BY <2>0, <2>4, <3>2 DEF Check, Go, End
    <2>5. CASE Interrupt
        BY <2>5 DEF Interrupt, End
    <2>6. CASE Beside
        BY <1>2, <2>6, BesideGrows DEF Grows
    <2>7. CASE UNCHANGED seedVars
        BY <1>2, <2>7 DEF seedVars, FailureExplained
    <2> QED
        BY <1>2, <2>1, <2>2, <2>3, <2>4, <2>5, <2>6, <2>7 DEF SeedNext
<1> QED
    BY <1>1, <1>2, SeedInvHolds, PTL DEF SeedSpec
=============================================================================
