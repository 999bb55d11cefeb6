--------------------------- MODULE RateLaneProofs ---------------------------
(***************************************************************************)
(* Proofs about RateLane for any slots, period and burst settings.          *)
(*                                                                         *)
(* RateHeldPerSlot counts the starts of a window and is not inductive: what *)
(* may still start depends on the credit, on the place in the period, and on *)
(* the sleepers.  A sleeper is uncovered when the token it waits for is no   *)
(* longer there for it; it will run all the same.  `Room' is the number of   *)
(* starts, counted from the opening of the window, after which a lane with    *)
(* that credit can have none to spare: spending a token makes room for one   *)
(* start, and spending the last one for a start of every slot, because every *)
(* sleeper may then be uncovered.                                            *)
(*                                                                         *)
(* The burst moves under the window, up too, and the credit may stand above  *)
(* it while a save awaits the file.  The ledger is therefore kept for every   *)
(* setting q from the highest burst of the window upwards, with the credit    *)
(* cut to q: a higher burst only takes some of them out of account.          *)
(***************************************************************************)
EXTENDS RateLane, FiniteSetTheorems, WellFoundedInduction, TLAPS

Slots == Cardinality(Workers)
Capacity == MaxBurst * Period

\* The credit a take() would find under a burst of q.
Credit(q) == AtMost(tokens + since, q * Period)

\* The sleepers that will run without a token of their own.
Uncovered == {w \in Workers : phase[w] = "asleep" /\ tokens + since + remaining[w] < Period}

\* The tokens of a credit that can be spent one start at a time, at time e.
Single(c, e) == IF c < 2 * Period THEN 0 ELSE (c - Period - (e % Period)) \div Period

\* The times that a lane with credit c at time e has spent its last token.
LastSpent(c, e) == (2 * Period - 1 + e - AtMost(c, 2 * Period - 1)) \div Period

\* What a lane with credit c at time e may have started beside a full burst.
Room(c, e) == Slots * LastSpent(c, e) - Single(c, e)

LedgerOf(q) == granted + Cardinality(Uncovered) <= q - 1 + Room(Credit(q), elapsed)

Ledger ==
    /\ burst <= peak
    /\ \A q \in Bursts : peak <= q => LedgerOf(q)

-----------------------------------------------------------------------------
\* The greatest burst is one of the settings: take a burst with the fewest above.
LEMMA MaxBurstIsMax ==
    /\ MaxBurst \in Bursts
    /\ \A b \in Bursts : b <= MaxBurst
<1> DEFINE Above(b) == {x \in Bursts : x > b}
           T == {Above(b) : b \in Bursts}
<1>1. IsWellFoundedOn(StrictSubsetOrdering(Bursts), SUBSET Bursts)
  <2>1. IsWellFoundedOn(StrictSubsetOrdering(Bursts), FiniteSubsetsOf(Bursts))
    BY FS_StrictSubsetOrderingWellFounded
  <2>2. FiniteSubsetsOf(Bursts) = SUBSET Bursts
    BY FS_FiniteSubsetsOfFinite, BurstsAssumption
  <2> QED  BY <2>1, <2>2, Zenon
<1>2. T \subseteq SUBSET Bursts /\ T # {}
  BY BurstsAssumption
<1>3. PICK t \in T : \A y \in T : ~ (<<y, t>> \in StrictSubsetOrdering(Bursts))
  <2> HIDE DEF T
  <2> QED  BY <1>1, <1>2, WFMin, Zenon
<1>4. PICK m \in Bursts : t = Above(m)
  OBVIOUS
<1>5. ASSUME NEW b \in Bursts, b > m
      PROVE  FALSE
  <2>1. Above(b) \in T /\ Above(b) \in SUBSET Bursts /\ t \in SUBSET Bursts
    BY <1>4
  <2>2. Above(b) \subseteq t
    <3>1. m \in Nat /\ b \in Nat /\ \A x \in Bursts : x \in Nat
      BY BurstsAssumption
    <3>2. ASSUME NEW x \in Bursts, x > b
          PROVE  x > m
      <4> x \in Nat
        BY <3>1
      <4> QED  BY <3>1, <3>2, <1>5
    <3> QED  BY <1>4, <3>2, Zenon
  <2>3. b \in t /\ b \notin Above(b)
    BY <1>4, <1>5, BurstsAssumption
  <2> QED  BY <1>3, <2>1, <2>2, <2>3 DEF StrictSubsetOrdering
<1>6. \A b \in Bursts : m >= b
  BY <1>5, BurstsAssumption
<1> QED  BY <1>6, BurstsAssumption DEF MaxBurst, Max

\* A bucket of any setting holds at least one token, and the greatest the most.
LEMMA Capacities ==
    /\ Period \in Nat \ {0} /\ MaxBurst \in Nat \ {0} /\ Capacity \in Nat
    /\ \A b \in Bursts : /\ b \in Nat \ {0}
                         /\ b * Period \in Nat
                         /\ Period <= b * Period
                         /\ b * Period <= Capacity
<1>1. ASSUME NEW p \in Nat \ {0}, NEW b \in Nat \ {0}, NEW m \in Nat \ {0}, b <= m
      PROVE  b * p \in Nat /\ p <= b * p /\ b * p <= m * p
  BY <1>1
<1>2. MaxBurst \in Nat \ {0} /\ \A b \in Bursts : b \in Nat \ {0} /\ b <= MaxBurst
  BY MaxBurstIsMax, BurstsAssumption
<1> QED  BY <1>1, <1>2, PeriodAssumption DEF Capacity

LEMMA SlotsPositive == Slots \in Nat \ {0}
  BY FS_CardinalityType, FS_EmptySet, WorkersAssumption DEF Slots

-----------------------------------------------------------------------------
\* What is used of whole-number division.
LEMMA Division ==
    ASSUME NEW p \in Nat \ {0}, NEW a \in Nat
    PROVE  /\ a \div p \in Nat
           /\ (a + p) \div p = a \div p + 1
           /\ a % p \in 0 .. p - 1
           /\ a = p * (a \div p) + (a % p)
<1>1. a \div p \in Nat
  BY SMT
<1>2. (a + p) \div p = a \div p + 1
  BY SMT
<1>3. a % p \in 0 .. p - 1
  BY SMT
<1>4. a = p * (a \div p) + (a % p)
  BY SMT
<1> QED  BY <1>1, <1>2, <1>3, <1>4

LEMMA DivisionGrows ==
    ASSUME NEW p \in Nat \ {0}, NEW a \in Nat, NEW b \in Nat, a <= b
    PROVE  a \div p <= b \div p
  BY SMT

LEMMA Quotient ==
    ASSUME NEW p \in Nat \ {0}, NEW q \in Nat, NEW r \in 0 .. p - 1
    PROVE  /\ (p * q + r) \div p = q
           /\ (p * q + r) % p = r
  BY SMT

\* One tick later the place in the period is the next, or a new period begins.
LEMMA NextTick ==
    ASSUME NEW p \in Nat \ {0}, NEW e \in Nat
    PROVE  \/ (e + 1) % p = (e % p) + 1 /\ (e + 1) \div p = e \div p
           \/ e % p = p - 1 /\ (e + 1) % p = 0 /\ (e + 1) \div p = e \div p + 1
<1> DEFINE q == e \div p
           r == e % p
<1>1. q \in Nat /\ r \in 0 .. p - 1 /\ e = p * q + r
  BY Division
<1> HIDE DEF q, r
<1>2. CASE r < p - 1
  <2>1. e + 1 = p * q + (r + 1) /\ r + 1 \in 0 .. p - 1
    BY <1>1, <1>2
  <2>2. (e + 1) \div p = q /\ (e + 1) % p = r + 1
    BY <1>1, <2>1, Quotient
  <2> QED  BY <2>2 DEF q, r
<1>3. CASE r = p - 1
  <2>1. e + 1 = p * (q + 1) + 0 /\ 0 \in 0 .. p - 1 /\ q + 1 \in Nat
    BY <1>1, <1>3
  <2>2. (e + 1) \div p = q + 1 /\ (e + 1) % p = 0
    <3>1. /\ (p * (q + 1) + 0) \div p = q + 1
          /\ (p * (q + 1) + 0) % p = 0
      BY <2>1, Quotient
    <3> QED  BY <2>1, <3>1, Zenon
  <2> QED  BY <1>3, <2>2 DEF q, r
<1> QED  BY <1>1, <1>2, <1>3

-----------------------------------------------------------------------------
\* The two quotients in Room.
LEMMA RoomTypes ==
    ASSUME NEW c \in Nat, NEW e \in Nat
    PROVE  /\ LastSpent(c, e) \in Nat
           /\ Single(c, e) \in Nat
           /\ Slots * LastSpent(c, e) \in Nat
           /\ Room(c, e) \in Int
<1>1. 2 * Period - 1 + e - AtMost(c, 2 * Period - 1) \in Nat
  BY Capacities DEF AtMost
<1>2. LastSpent(c, e) \in Nat
  <2> DEFINE a == 2 * Period - 1 + e - AtMost(c, 2 * Period - 1)
  <2>1. a \in Nat /\ LastSpent(c, e) = a \div Period
    BY <1>1, Zenon DEF LastSpent
  <2> HIDE DEF a
  <2> QED  BY <2>1, Division, Capacities
<1>3. Single(c, e) \in Nat
  <2>1. CASE c < 2 * Period
    BY <2>1 DEF Single
  <2>2. CASE ~(c < 2 * Period)
    <3>1. e % Period \in 0 .. Period - 1
      BY Division, Capacities
    <3>2. c - Period - (e % Period) \in Nat
      BY <2>2, <3>1, Capacities
    <3> QED  BY <2>2, <3>2, Division, Capacities DEF Single
  <2> QED  BY <2>1, <2>2
<1>4. Slots * LastSpent(c, e) \in Nat
  <2>1. \A x, y \in Nat : x * y \in Nat
    BY SMT
  <2> QED  BY <1>2, <2>1, SlotsPositive
<1> QED  BY <1>2, <1>3, <1>4, Capacities DEF Room

\* Less credit never leaves less room.
LEMMA RoomOfLess ==
    ASSUME NEW c \in Nat, NEW d \in Nat, NEW e \in Nat, c <= d
    PROVE  /\ LastSpent(d, e) <= LastSpent(c, e)
           /\ Single(c, e) <= Single(d, e)
           /\ Room(d, e) <= Room(c, e)
<1> DEFINE a == 2 * Period - 1 + e - AtMost(c, 2 * Period - 1)
           b == 2 * Period - 1 + e - AtMost(d, 2 * Period - 1)
<1>1. LastSpent(d, e) <= LastSpent(c, e)
  <2>1. a \in Nat /\ b \in Nat /\ b <= a
    BY Capacities DEF AtMost
  <2>2. LastSpent(c, e) = a \div Period /\ LastSpent(d, e) = b \div Period
    BY Zenon DEF LastSpent
  <2> HIDE DEF a, b
  <2>3. b \div Period <= a \div Period
    BY <2>1, DivisionGrows, Capacities
  <2> QED  BY <2>2, <2>3
<1>2. Single(c, e) <= Single(d, e)
  <2>1. CASE c < 2 * Period
    BY <2>1, RoomTypes DEF Single
  <2>2. CASE ~(c < 2 * Period)
    <3> DEFINE x == c - Period - (e % Period)
               y == d - Period - (e % Period)
    <3>1. e % Period \in 0 .. Period - 1
      BY Division, Capacities
    <3>2. x \in Nat /\ y \in Nat /\ x <= y
      BY <2>2, <3>1, Capacities
    <3>3. Single(c, e) = x \div Period /\ Single(d, e) = y \div Period
      BY <2>2, Capacities DEF Single
    <3> HIDE DEF x, y
    <3>4. x \div Period <= y \div Period
      BY <3>2, DivisionGrows, Capacities
    <3> QED  BY <3>3, <3>4
  <2> QED  BY <2>1, <2>2
<1>3. Slots * LastSpent(d, e) <= Slots * LastSpent(c, e)
  <2>1. \A s, x, y \in Nat : x <= y => s * x <= s * y
    BY SMT
  <2> QED  BY <1>1, <2>1, RoomTypes, SlotsPositive
<1> QED  BY <1>2, <1>1, <1>3, RoomTypes, Capacities DEF Room

\* Room compared by what it is made of.
LEMMA RoomCompare ==
    ASSUME NEW c \in Nat, NEW e \in Nat, NEW d \in Nat, NEW f \in Nat, NEW g \in Int,
           Slots * LastSpent(d, f) - Single(d, f) + g <= Slots * LastSpent(c, e) - Single(c, e)
    PROVE  Room(d, f) + g <= Room(c, e)
<1> DEFINE s == Slots * LastSpent(c, e)
           t == Slots * LastSpent(d, f)
<1>1. s \in Nat /\ Single(c, e) \in Nat
  BY RoomTypes
<1>2. t \in Nat /\ Single(d, f) \in Nat
  BY RoomTypes
<1>3. Room(c, e) = s - Single(c, e) /\ Room(d, f) = t - Single(d, f)
  BY Zenon DEF Room
<1>4. t - Single(d, f) + g <= s - Single(c, e)
  OBVIOUS
<1> HIDE DEF s, t
<1> QED  BY <1>1, <1>2, <1>3, <1>4, Capacities

\* What one more last token is worth.
LEMMA SlotsMore ==
    ASSUME NEW x \in Nat, NEW y \in Nat, y + 1 <= x
    PROVE  Slots * y + Slots <= Slots * x
<1>1. \A s, u, v \in Nat : v + 1 <= u => s * v + s <= s * u
  BY SMT
<1> QED  BY <1>1, SlotsPositive

\* Where the argument of LastSpent is no longer cut off, and where it is.
LEMMA LastSpentIs ==
    ASSUME NEW c \in Nat, NEW e \in Nat
    PROVE  /\ c < 2 * Period => LastSpent(c, e) = (2 * Period - 1 + e - c) \div Period
           /\ c >= 2 * Period - 1 => LastSpent(c, e) = e \div Period
<1>1. c < 2 * Period => AtMost(c, 2 * Period - 1) = c
  BY Capacities DEF AtMost
<1>2. c >= 2 * Period - 1 => 2 * Period - 1 + e - AtMost(c, 2 * Period - 1) = e
  BY Capacities DEF AtMost
<1> QED  BY <1>1, <1>2, Zenon DEF LastSpent

\* A lane left with less than a token has room for a start of every slot more.
LEMMA RoomOfLast ==
    ASSUME NEW c \in Nat, NEW d \in Nat, NEW e \in Nat,
           Period <= d, c <= d - Period, c < Period
    PROVE  Room(d, e) + Slots <= Room(c, e)
<1> DEFINE a == 2 * Period - 1 + e - c
           b == 2 * Period - 1 + e - AtMost(d, 2 * Period - 1)
<1>1. a \in Nat /\ b \in Nat /\ b + Period <= a
  BY Capacities DEF AtMost
<1>2. LastSpent(c, e) = a \div Period /\ LastSpent(d, e) = b \div Period
  <2>1. c < 2 * Period
    BY Capacities
  <2> QED  BY <2>1, LastSpentIs, Zenon DEF LastSpent
<1> HIDE DEF a, b
<1>3. b \div Period + 1 <= a \div Period
  <2>1. (b + Period) \div Period = b \div Period + 1
    BY <1>1, Division, Capacities
  <2>2. b + Period \in Nat
    BY <1>1, Capacities
  <2>3. (b + Period) \div Period <= a \div Period
    BY <1>1, <2>2, DivisionGrows, Capacities
  <2> QED  BY <2>1, <2>3
<1>4. Slots * LastSpent(d, e) + Slots <= Slots * LastSpent(c, e)
  BY <1>2, <1>3, SlotsMore, RoomTypes
<1>5. Single(c, e) = 0
  BY Capacities DEF Single
<1>6. /\ Slots * LastSpent(c, e) \in Nat /\ Slots * LastSpent(d, e) \in Nat
      /\ Single(d, e) \in Nat /\ Slots \in Nat
  BY RoomTypes, SlotsPositive
<1>7. Slots * LastSpent(d, e) - Single(d, e) + Slots <= Slots * LastSpent(c, e) - Single(c, e)
  BY <1>4, <1>5, <1>6
<1> QED  BY <1>6, <1>7, RoomCompare

\* Spending a token makes room for one start.
LEMMA RoomOfSpend ==
    ASSUME NEW c \in Nat, NEW d \in Nat, NEW e \in Nat, Period <= d, c <= d - Period
    PROVE  Room(d, e) + 1 <= Room(c, e)
<1>1. CASE c < Period
  <2>1. Room(d, e) + Slots <= Room(c, e)
    BY <1>1, RoomOfLast
  <2> QED  BY <2>1, RoomTypes, SlotsPositive
<1>2. CASE ~(c < Period)
  <2> DEFINE k == d - Period
             m == e % Period
             E == e \div Period
  <2>1. k \in Nat /\ c <= k /\ Period <= k /\ d = k + Period /\ 2 * Period <= d
    BY <1>2, Capacities
  <2>2. m \in 0 .. Period - 1 /\ E \in Nat /\ e = Period * E + m
    BY Division, Capacities
  <2>3. Room(k, e) <= Room(c, e)
    BY <2>1, RoomOfLess
  <2>4. LastSpent(d, e) = E
    BY <2>1, LastSpentIs, Capacities
  <2>5. LastSpent(d, e) <= LastSpent(k, e) /\ Slots * LastSpent(d, e) <= Slots * LastSpent(k, e)
    <3>1. \A s, x, y \in Nat : x <= y => s * x <= s * y
      BY SMT
    <3>2. LastSpent(d, e) <= LastSpent(k, e)
      <4>1. k \in Nat /\ k <= d
        BY <2>1, Capacities
      <4> HIDE DEF k
      <4> QED  BY <4>1, RoomOfLess
    <3> QED  BY <2>1, <3>1, <3>2, RoomTypes, SlotsPositive
  <2> HIDE DEF k, E, m
  <2>6. Single(d, e) = (k - m) \div Period
    <3>1. d - Period - m = k - m
      BY <2>1, <2>2, Capacities
    <3> QED  BY <2>1, <3>1, Capacities DEF Single, m
  <2>7. /\ Slots * LastSpent(d, e) \in Nat /\ Slots * LastSpent(k, e) \in Nat
        /\ Single(d, e) \in Nat /\ Single(k, e) \in Nat
    BY <2>1, RoomTypes
  <2>8. Slots * LastSpent(d, e) - Single(d, e) + 1 <= Slots * LastSpent(k, e) - Single(k, e)
    <3>1. CASE 2 * Period <= k
      <4>1. LastSpent(k, e) = E
        BY <2>1, <3>1, LastSpentIs, Capacities DEF E
      <4>2. Single(k, e) = (k - Period - m) \div Period
        BY <2>1, <3>1, Capacities DEF Single, m
      <4>3. (k - m) \div Period = (k - Period - m) \div Period + 1
        <5> DEFINE x == k - Period - m
        <5>1. x \in Nat /\ k - m = x + Period
          BY <2>1, <2>2, <3>1, Capacities
        <5> HIDE DEF x
        <5>2. (x + Period) \div Period = x \div Period + 1
          BY <5>1, Division, Capacities
        <5> QED  BY <5>1, <5>2 DEF x
      <4> QED
        <5>1. Single(d, e) = Single(k, e) + 1
          BY <2>6, <4>2, <4>3
        <5>2. Slots * LastSpent(d, e) = Slots * LastSpent(k, e)
          BY <2>4, <4>1, Zenon
        <5> QED  BY <2>7, <5>1, <5>2
    <3>2. CASE k < 2 * Period /\ Period <= k - m
      <4>1. Single(k, e) = 0
        BY <3>2 DEF Single
      <4>2. 1 <= Single(d, e)
        <5> DEFINE x == k - m - Period
        <5>1. x \in Nat /\ k - m = x + Period
          BY <2>1, <2>2, <3>2, Capacities
        <5> HIDE DEF x
        <5>2. (x + Period) \div Period = x \div Period + 1 /\ x \div Period \in Nat
          BY <5>1, Division, Capacities
        <5> QED  BY <2>6, <5>1, <5>2
      <4> QED  BY <2>5, <2>7, <4>1, <4>2
    <3>3. CASE k < 2 * Period /\ k - m < Period
      <4>1. Single(k, e) = 0 /\ Single(d, e) \in Nat
        BY <3>3, RoomTypes DEF Single
      <4>2. E + 1 <= LastSpent(k, e)
        <5> DEFINE x == 2 * Period - 1 + e - k
        <5>1. x \in Nat /\ e - m + Period \in Nat /\ e - m + Period <= x
          BY <2>1, <2>2, <3>3, Capacities
        <5>2. e - m + Period = Period * (E + 1) + 0
          BY <2>2, Capacities
        <5>3. (Period * (E + 1) + 0) \div Period = E + 1
          <6> E + 1 \in Nat /\ 0 \in 0 .. Period - 1
            BY <2>2, Capacities
          <6> QED  BY Quotient, Capacities
        <5>4. LastSpent(k, e) = x \div Period
          BY <2>1, <3>3, LastSpentIs
        <5> HIDE DEF x
        <5>5. (e - m + Period) \div Period <= x \div Period
          BY <5>1, DivisionGrows, Capacities
        <5>6. (e - m + Period) \div Period = E + 1
          BY <5>2, <5>3, Zenon
        <5> QED  BY <5>4, <5>5, <5>6
      <4>3. Slots * LastSpent(d, e) + Slots <= Slots * LastSpent(k, e)
        BY <2>1, <2>4, <4>2, SlotsMore, RoomTypes
      <4> QED  BY <2>7, <4>1, <4>3, SlotsPositive
    <3> QED  BY <2>1, <2>2, <3>1, <3>2, <3>3, Capacities
  <2>9. Room(d, e) + 1 <= Room(k, e)
    BY <2>1, <2>8, RoomCompare
  <2>10. Room(d, e) \in Int /\ Room(k, e) \in Int /\ Room(c, e) \in Int
    BY <2>1, RoomTypes
  <2> QED  BY <2>3, <2>9, <2>10
<1> QED  BY <1>1, <1>2

\* A tick adds at most a tick of credit and never takes room away.
LEMMA RoomOfTick ==
    ASSUME NEW c \in Nat, NEW d \in Nat, NEW e \in Nat, c <= d + 1
    PROVE  Room(d, e) <= Room(c, e + 1)
<1> DEFINE k == d + 1
           f == e + 1
           E == e \div Period
           m == e % Period
<1>1. k \in Nat /\ f \in Nat /\ c <= k
  OBVIOUS
<1>2. m \in 0 .. Period - 1 /\ E \in Nat
  BY Division, Capacities
<1>3. \/ f % Period = m + 1 /\ f \div Period = E
      \/ m = Period - 1 /\ f % Period = 0 /\ f \div Period = E + 1
  BY NextTick, Capacities
<1> HIDE DEF f, E, m
<1>4. /\ Slots * LastSpent(d, e) \in Nat /\ Slots * LastSpent(k, f) \in Nat
      /\ Single(d, e) \in Nat /\ Single(k, f) \in Nat
      /\ LastSpent(d, e) \in Nat /\ LastSpent(k, f) \in Nat
  <2> HIDE DEF k
  <2> QED  BY <1>1, RoomTypes
<1>5. Slots * LastSpent(d, e) - Single(d, e) + 0 <= Slots * LastSpent(k, f) - Single(k, f)
  <2>1. CASE k < 2 * Period
    <3>1. Single(d, e) = 0 /\ Single(k, f) = 0
      BY <2>1, Capacities DEF Single
    <3>2. LastSpent(d, e) = LastSpent(k, f)
      <4>1. 2 * Period - 1 + e - d = 2 * Period - 1 + f - k
        BY Capacities DEF f
      <4>2. d < 2 * Period
        BY <2>1, Capacities
      <4>3. /\ LastSpent(d, e) = (2 * Period - 1 + e - d) \div Period
            /\ LastSpent(k, f) = (2 * Period - 1 + f - k) \div Period
        BY <1>1, <2>1, <4>2, LastSpentIs
      <4> QED  BY <4>1, <4>3, Zenon
    <3>3. Slots * LastSpent(d, e) = Slots * LastSpent(k, f)
      BY <3>2, Zenon
    <3> QED  BY <1>4, <3>1, <3>3
  <2>2. CASE ~(k < 2 * Period)
    <3>1. LastSpent(d, e) = E
      <4> d >= 2 * Period - 1
        BY <2>2, Capacities
      <4> QED  BY LastSpentIs DEF E
    <3>2. LastSpent(k, f) = f \div Period
      <4> k >= 2 * Period - 1
        BY <2>2, Capacities
      <4> HIDE DEF k
      <4> QED  BY <1>1, LastSpentIs
    <3>3. Single(k, f) = (k - Period - (f % Period)) \div Period
      BY <2>2 DEF Single
    <3>4. d >= 2 * Period => Single(d, e) = (d - Period - m) \div Period
      BY Capacities DEF Single, m
    <3>5. CASE f % Period = m + 1 /\ f \div Period = E
      <4>1. Slots * LastSpent(d, e) = Slots * LastSpent(k, f)
        BY <3>1, <3>2, <3>5, Zenon
      <4>2. CASE d >= 2 * Period
        <5>1. k - Period - (m + 1) = d - Period - m
          BY <1>2, Capacities
        <5>2. Single(k, f) = Single(d, e)
          BY <3>3, <3>4, <3>5, <4>2, <5>1, Zenon
        <5> QED  BY <1>4, <4>1, <5>2
      <4>3. CASE d < 2 * Period
        <5>1. k - Period - (m + 1) = Period - (m + 1) /\ Period - (m + 1) \in 0 .. Period - 1
          BY <1>2, <2>2, <4>3, Capacities
        <5>2. (Period * 0 + (Period - (m + 1))) \div Period = 0
          BY <5>1, Quotient, Capacities
        <5>3. Period * 0 + (Period - (m + 1)) = Period - (m + 1)
          BY <1>2, Capacities
        <5>4. Single(k, f) = 0
          BY <3>3, <3>5, <5>1, <5>2, <5>3, Zenon
        <5> QED  BY <1>4, <4>1, <5>4, <4>3 DEF Single
      <4> QED  BY <4>2, <4>3, Capacities
    <3>6. CASE m = Period - 1 /\ f % Period = 0 /\ f \div Period = E + 1
      <4>1. Slots * LastSpent(d, e) + Slots <= Slots * LastSpent(k, f)
        BY <1>2, <1>4, <3>1, <3>2, <3>6, SlotsMore
      <4>2. Single(k, f) <= Single(d, e) + 1
        <5> DEFINE x == k - Period - Period
        <5>1. x \in Nat /\ k - Period - 0 = x + Period
          BY <2>2, Capacities
        <5>2. d - Period - (Period - 1) = x
          BY Capacities
        <5> HIDE DEF x, k
        <5>3. (x + Period) \div Period = x \div Period + 1 /\ x \div Period \in Nat
          BY <5>1, Division, Capacities
        <5>4. Single(k, f) = x \div Period + 1
          BY <3>3, <3>6, <5>1, <5>3, Zenon
        <5>5. CASE d >= 2 * Period
          <6> Single(d, e) = x \div Period
            BY <3>4, <3>6, <5>2, <5>5, Zenon
          <6> QED  BY <5>4, <5>3
        <5>6. CASE d < 2 * Period
          <6>1. x = 0
            BY <2>2, <5>2, <5>6, Capacities DEF k
          <6>2. (Period * 0 + 0) \div Period = 0
            <7> 0 \in Nat /\ 0 \in 0 .. Period - 1
              BY Capacities
            <7> QED  BY Quotient, Capacities
          <6>3. Period * 0 + 0 = 0
            BY Capacities
          <6>4. Single(k, f) = 1
            BY <5>4, <6>1, <6>2, <6>3
          <6> QED  BY <1>4, <6>4
        <5> QED  BY <5>5, <5>6, Capacities
      <4> QED  BY <1>4, <4>1, <4>2, SlotsPositive
    <3> QED  BY <1>3, <3>5, <3>6
  <2> QED  BY <2>1, <2>2
<1> HIDE DEF k
<1>6. Room(d, e) + 0 <= Room(k, f)
  BY <1>1, <1>5, RoomCompare
<1>7. Room(k, f) <= Room(c, f)
  BY <1>1, RoomOfLess
<1>8. Room(d, e) \in Int /\ Room(k, f) \in Int /\ Room(c, f) \in Int
  BY <1>1, RoomTypes
<1> QED  BY <1>6, <1>7, <1>8 DEF f

\* A window that opens has room for every sleeper there can be.
LEMMA RoomAtStart ==
    ASSUME NEW q \in Bursts, NEW c \in 0 .. q * Period
    PROVE  /\ 0 <= q - 1 + Room(c, 0)
           /\ c < Period => Slots <= q - 1 + Room(c, 0)
<1>0. q \in Nat \ {0} /\ q * Period \in Nat /\ c \in Nat /\ c <= q * Period
  BY Capacities
<1>1. /\ LastSpent(c, 0) \in Nat /\ Single(c, 0) \in Nat
      /\ Slots * LastSpent(c, 0) \in Nat
  BY <1>0, RoomTypes
<1>2. Single(c, 0) <= q - 1
  <2>1. CASE c < 2 * Period
    BY <1>0, <2>1, Capacities DEF Single
  <2>2. CASE ~(c < 2 * Period)
    <3>1. 0 % Period = 0
      <4>1. (Period * 0 + 0) % Period = 0
        <5> 0 \in Nat /\ 0 \in 0 .. Period - 1
          BY Capacities
        <5> QED  BY Quotient, Capacities
      <4>2. Period * 0 + 0 = 0
        BY Capacities
      <4> QED  BY <4>1, <4>2, Zenon
    <3> DEFINE x == c - Period
               y == Period * (q - 1) + 0
    <3>2. Single(c, 0) = x \div Period
      <4> c - Period - 0 = x
        BY Capacities
      <4> QED  BY <2>2, <3>1, Zenon DEF Single
    <3>3. x \in Nat /\ y \in Nat /\ x <= y
      <4>1. \A p, b \in Nat : b >= 1 => /\ p * (b - 1) + 0 = b * p - p
                                        /\ p * (b - 1) + 0 \in Nat
        BY SMT
      <4>2. y = q * Period - Period /\ y \in Nat
        BY <1>0, <4>1, Capacities
      <4> QED  BY <1>0, <2>2, <4>2, Capacities
    <3>4. y \div Period = q - 1
      <4> q - 1 \in Nat /\ 0 \in 0 .. Period - 1
        BY <1>0, Capacities
      <4> QED  BY Quotient, Capacities
    <3> HIDE DEF x, y
    <3>5. x \div Period <= y \div Period
      BY <3>3, DivisionGrows, Capacities
    <3> QED  BY <3>2, <3>4, <3>5
  <2> QED  BY <2>1, <2>2
<1>3. ASSUME c < Period
      PROVE  Slots <= Slots * LastSpent(c, 0)
  <2> DEFINE x == Period - 1 - c
  <2>1. x \in Nat /\ 2 * Period - 1 + 0 - c = x + Period /\ c < 2 * Period
    BY <1>3, Capacities
  <2>2. LastSpent(c, 0) = (x + Period) \div Period
    <3>1. c \in Nat /\ 0 \in Nat
      BY Capacities
    <3>2. LastSpent(c, 0) = (2 * Period - 1 + 0 - c) \div Period
      BY <2>1, <3>1, LastSpentIs
    <3> QED  BY <2>1, <3>2, Zenon
  <2> HIDE DEF x
  <2>3. (x + Period) \div Period = x \div Period + 1 /\ x \div Period \in Nat
    BY <2>1, Division, Capacities
  <2>4. Slots * 0 + Slots <= Slots * LastSpent(c, 0)
    BY <1>1, <2>2, <2>3, SlotsMore
  <2> QED  BY <2>4, SlotsPositive
<1> QED  BY <1>0, <1>1, <1>2, <1>3, SlotsPositive DEF Room

\* However the credit stands, there is no more room than the bound.
LEMMA RoomBounded ==
    ASSUME NEW c \in Nat, NEW e \in Nat
    PROVE  Room(c, e) <= Slots * (e \div Period + 2)
<1> DEFINE a == 2 * Period - 1 + e - AtMost(c, 2 * Period - 1)
           E == e \div Period
<1>1. a \in Nat /\ e + Period \in Nat /\ a <= (e + Period) + Period
  BY Capacities DEF AtMost
<1>2. LastSpent(c, e) = a \div Period
  BY Zenon DEF LastSpent
<1>3. E \in Nat /\ (e + Period) \div Period = E + 1
  BY Division, Capacities
<1> HIDE DEF a, E
<1>4. ((e + Period) + Period) \div Period = E + 2
  <2>1. ((e + Period) + Period) \div Period = (e + Period) \div Period + 1
    BY <1>1, Division, Capacities
  <2> QED  BY <1>3, <2>1
<1>5. a \div Period <= ((e + Period) + Period) \div Period
  <2> (e + Period) + Period \in Nat
    BY Capacities
  <2> QED  BY <1>1, DivisionGrows, Capacities
<1>6. LastSpent(c, e) \in Nat /\ Single(c, e) \in Nat /\ Slots * LastSpent(c, e) \in Nat
  BY RoomTypes
<1>7. Slots * LastSpent(c, e) <= Slots * (E + 2) /\ Slots * (E + 2) \in Nat
  <2>1. \A s, x, y \in Nat : x <= y => s * x <= s * y /\ s * y \in Nat
    BY SMT
  <2>2. LastSpent(c, e) <= E + 2 /\ E + 2 \in Nat
    BY <1>2, <1>3, <1>4, <1>5
  <2> QED  BY <1>6, <2>1, <2>2, SlotsPositive
<1>8. Room(c, e) <= Slots * (E + 2)
  BY <1>6, <1>7, Capacities DEF Room
<1> QED  BY <1>8 DEF E

-----------------------------------------------------------------------------
\* Through saves that overlap and writes that fail the credit stays a credit: a
\* take() never leaves less than none, and neither a take() nor clamp() leaves
\* more than the greatest bucket holds.
THEOREM RateTypes == Spec => []TypeOK
<1>1. Init => TypeOK
  <2> SUFFICES ASSUME Init
               PROVE  TypeOK
    OBVIOUS
  <2>1. tokens \in 0 .. Capacity
    BY Capacities DEF Init
  <2> QED  BY <2>1, Capacities, BoundsAssumption DEF Init, TypeOK, Capacity
<1>2. TypeOK /\ [Next]_vars => TypeOK'
  <2> SUFFICES ASSUME TypeOK, [Next]_vars
               PROVE  TypeOK'
    OBVIOUS
  <2> DEFINE cap == burst * Period
  <2>1. /\ burst \in Bursts /\ cap \in Nat /\ Period <= cap /\ cap <= Capacity
        /\ Capacity \in Nat /\ Period \in Nat \ {0}
        /\ saving \in 0 .. MaxSaves /\ peak \in Bursts
        /\ tokens \in 0 .. Capacity /\ since \in 0 .. Capacity
        /\ phase \in [Workers -> {"idle", "asleep", "working"}]
        /\ remaining \in [Workers -> 0 .. Period]
        /\ elapsed \in 0 .. MaxElapsed /\ granted \in Nat
        /\ MaxElapsed \in Nat /\ MaxSaves \in Nat
    BY Capacities, BoundsAssumption DEF TypeOK, Capacity
  <2>2. Refilled = AtMost(tokens + since, cap)
    BY Zenon DEF Refilled
  <2>3. TypeOK' <=> /\ burst' \in Bursts
                    /\ saving' \in 0 .. MaxSaves
                    /\ tokens' \in 0 .. Capacity
                    /\ since' \in 0 .. Capacity
                    /\ phase' \in [Workers -> {"idle", "asleep", "working"}]
                    /\ remaining' \in [Workers -> 0 .. Period]
                    /\ elapsed' \in 0 .. MaxElapsed
                    /\ granted' \in Nat
                    /\ peak' \in Bursts
    BY DEF TypeOK, Capacity
  <2> HIDE DEF cap
  <2>4. Refilled \in 0 .. cap
    BY <2>1, <2>2 DEF AtMost
  <2>5. ASSUME Take
        PROVE  tokens' \in 0 .. Capacity /\ since' \in 0 .. Capacity
    BY <2>1, <2>4, <2>5 DEF Take
  <2>6. ASSUME NEW w \in Workers, Ask(w)
        PROVE  TypeOK'
    BY <2>1, <2>3, <2>4, <2>5, <2>6 DEF Ask
  <2>7. ASSUME NEW w \in Workers, Wake(w)
        PROVE  TypeOK'
    BY <2>1, <2>3, <2>5, <2>7 DEF Wake
  <2>8. ASSUME NEW w \in Workers, Finish(w)
        PROVE  TypeOK'
    BY <2>1, <2>3, <2>8 DEF Finish, wvars
  <2>9. ASSUME NEW b \in Bursts, SetBurst(b)
        PROVE  TypeOK'
    BY <2>1, <2>3, <2>9 DEF SetBurst
  <2>10. CASE Clamp
    <3>1. tokens' \in 0 .. Capacity
      <4>1. tokens' = AtMost(tokens, cap)
        BY <2>10 DEF Clamp, cap
      <4> QED  BY <2>1, <4>1 DEF AtMost
    <3> QED  BY <2>1, <2>3, <2>10, <3>1 DEF Clamp, wvars
  <2>11. CASE SaveFails
    BY <2>1, <2>3, <2>11 DEF SaveFails, wvars
  <2>12. CASE Tick
    <3>1. since' \in 0 .. Capacity
      BY <2>1, <2>12 DEF Tick, AtMost, Capacity
    <3>2. remaining' \in [Workers -> 0 .. Period]
      BY <2>1, <2>12 DEF Tick
    <3>3. elapsed' \in 0 .. MaxElapsed
      BY <2>1, <2>12 DEF Tick
    <3> QED  BY <2>1, <2>3, <2>12, <3>1, <3>2, <3>3 DEF Tick
  <2>13. CASE Observe
    BY <2>1, <2>3, <2>13 DEF Observe
  <2>14. CASE UNCHANGED vars
    BY <2>1, <2>3, <2>14 DEF vars, wvars
  <2> QED
    BY <2>6, <2>7, <2>8, <2>9, <2>10, <2>11, <2>12, <2>13, <2>14 DEF Next
<1> QED  BY <1>1, <1>2, PTL DEF Spec

-----------------------------------------------------------------------------
\* Counting slots.
LEMMA SlotSets ==
    ASSUME NEW S \in SUBSET Workers
    PROVE  /\ Cardinality(S) \in 0 .. Slots
           /\ \A w \in Workers : w \notin S => Cardinality(S) + 1 <= Slots
           /\ \A T \in SUBSET S : Cardinality(T) <= Cardinality(S)
           /\ \A w \in S : Cardinality(S \ {w}) + 1 = Cardinality(S)
<1>1. IsFiniteSet(S) /\ Cardinality(S) \in Nat /\ Cardinality(S) <= Slots
  BY FS_Subset, FS_CardinalityType, WorkersAssumption DEF Slots
<1>2. ASSUME NEW w \in Workers, w \notin S
      PROVE  Cardinality(S) + 1 <= Slots
  <2>1. IsFiniteSet(S \cup {w}) /\ Cardinality(S \cup {w}) = Cardinality(S) + 1
    BY <1>1, <1>2, FS_AddElement
  <2>2. S \cup {w} \in SUBSET Workers
    OBVIOUS
  <2>3. Cardinality(S \cup {w}) <= Slots
    BY <2>2, FS_Subset, WorkersAssumption DEF Slots
  <2> QED  BY <2>1, <2>3
<1>3. \A T \in SUBSET S : Cardinality(T) <= Cardinality(S)
  BY <1>1, FS_Subset
<1>4. ASSUME NEW w \in S
      PROVE  Cardinality(S \ {w}) + 1 = Cardinality(S)
  <2>1. Cardinality(S \ {w}) = Cardinality(S) - 1
    BY <1>1, FS_RemoveElement, Zenon
  <2> QED  BY <1>1, <2>1
<1> QED  BY <1>1, <1>2, <1>3, <1>4, SlotsPositive

\* The states of the proof: Refilled and Credit as far as a token is concerned.
LEMMA CreditFacts ==
    ASSUME TypeOK, NEW q \in Bursts, burst <= q
    PROVE  /\ Credit(q) \in 0 .. q * Period /\ Credit(q) \in Nat
           /\ Refilled \in 0 .. burst * Period
           /\ Refilled <= Credit(q)
           /\ Refilled < Period => Refilled = tokens + since /\ Credit(q) = tokens + since
           /\ Period <= Refilled => Period <= tokens + since /\ Period <= Credit(q)
           /\ Credit(q) < Period <=> tokens + since < Period
           /\ Period <= tokens + since => Uncovered = {}
           /\ Cardinality(Uncovered) \in 0 .. Slots
           /\ Room(Credit(q), elapsed) \in Int
<1>1. /\ burst * Period \in Nat /\ Period <= burst * Period
      /\ q * Period \in Nat /\ burst * Period <= q * Period /\ Period \in Nat \ {0}
      /\ tokens \in Nat /\ since \in 0 .. Capacity
      /\ remaining \in [Workers -> 0 .. Period] /\ elapsed \in Nat
  <2>1. \A x, y, p \in Nat : x <= y => x * p <= y * p
    BY SMT
  <2>2. burst \in Nat /\ q \in Nat /\ burst \in Bursts
    BY BurstsAssumption DEF TypeOK
  <2>3. tokens \in Nat /\ since \in 0 .. Capacity
    BY Capacities DEF TypeOK, Capacity
  <2>4. remaining \in [Workers -> 0 .. Period] /\ elapsed \in Nat
    BY BoundsAssumption DEF TypeOK
  <2> QED  BY <2>1, <2>2, <2>3, <2>4, Capacities
<1>2. /\ Credit(q) = IF tokens + since < q * Period THEN tokens + since ELSE q * Period
      /\ Refilled = IF tokens + since < burst * Period THEN tokens + since ELSE burst * Period
  BY Zenon DEF Credit, Refilled, AtMost
<1>3. Credit(q) \in 0 .. q * Period /\ Credit(q) \in Nat /\ Refilled \in 0 .. burst * Period /\ Refilled <= Credit(q)
  BY <1>1, <1>2
<1>4. Period <= tokens + since => Uncovered = {}
  BY <1>1 DEF Uncovered
<1>5. Cardinality(Uncovered) \in 0 .. Slots
  <2> Uncovered \in SUBSET Workers
    BY DEF Uncovered
  <2> QED  BY SlotSets
<1>6. Room(Credit(q), elapsed) \in Int
  <2> Credit(q) \in Nat
    BY <1>1, <1>3
  <2> QED  BY <1>1, RoomTypes
<1> QED  BY <1>1, <1>2, <1>3, <1>4, <1>5, <1>6

\* A start that finds a token, of a slot w that is not asleep afterwards.
LEMMA SpendKeepsLedger ==
    ASSUME TypeOK, TypeOK', NEW q \in Bursts, burst <= q, LedgerOf(q), NEW w \in Workers,
           Take, Period <= Refilled, w \notin Uncovered',
           granted' = granted + 1, elapsed' = elapsed
    PROVE  LedgerOf(q)'
<1>1. tokens' = Refilled - Period /\ since' = 0
  BY CreditFacts DEF Take, TypeOK
<1>2. /\ Refilled <= Credit(q) /\ Credit(q) \in 0 .. q * Period /\ Period <= Credit(q)
      /\ Refilled \in Nat /\ Period \in Nat \ {0} /\ q \in Nat /\ Credit(q) \in Nat
      /\ Cardinality(Uncovered) = 0 /\ Room(Credit(q), elapsed) \in Int
  <2>1. /\ Refilled <= Credit(q) /\ Credit(q) \in 0 .. q * Period /\ Period <= Credit(q)
        /\ Refilled \in 0 .. burst * Period /\ Uncovered = {}
        /\ Room(Credit(q), elapsed) \in Int
    BY CreditFacts
  <2>2. burst * Period \in Nat
    BY Capacities DEF TypeOK
  <2> QED  BY <2>1, <2>2, Capacities, FS_EmptySet
<1>3. Credit(q)' = tokens' /\ tokens' \in Nat /\ tokens' <= Credit(q) - Period
  BY <1>1, <1>2 DEF Credit, AtMost
<1>4. granted \in Nat /\ elapsed \in Nat
  BY BoundsAssumption DEF TypeOK
<1>5. granted <= q - 1 + Room(Credit(q), elapsed)
  BY <1>2, <1>4 DEF LedgerOf
<1>6. /\ Cardinality(Uncovered') \in 0 .. Slots
      /\ Cardinality(Uncovered') + 1 <= Slots
  <2> Uncovered' \in SUBSET Workers
    BY DEF Uncovered
  <2> QED  BY SlotSets
<1>7. Room(tokens', elapsed) \in Int
  BY <1>3, <1>4, RoomTypes
<1>8. granted + 1 + Cardinality(Uncovered') <= q - 1 + Room(tokens', elapsed)
  <2>1. CASE tokens' < Period
    <3>1. Room(Credit(q), elapsed) + Slots <= Room(tokens', elapsed)
      BY <1>2, <1>3, <1>4, <2>1, RoomOfLast
    <3> QED  BY <1>2, <1>4, <1>5, <1>6, <1>7, <3>1, SlotsPositive
  <2>2. CASE ~(tokens' < Period)
    <3>1. Room(Credit(q), elapsed) + 1 <= Room(tokens', elapsed)
      BY <1>2, <1>3, <1>4, RoomOfSpend
    <3>2. Cardinality(Uncovered') = 0
      <4>1. Period <= tokens' + since'
        BY <1>1, <1>2, <1>3, <2>2
      <4>2. Uncovered' = {}
        <5>1. ASSUME NEW v \in Workers
              PROVE  ~(tokens' + since' + remaining'[v] < Period)
          <6> remaining'[v] \in Nat
            BY Capacities DEF TypeOK
          <6> QED  BY <1>1, <1>2, <1>3, <4>1
        <5> QED  BY <5>1 DEF Uncovered
      <4> QED  BY <4>2, FS_EmptySet
    <3> QED  BY <1>2, <1>4, <1>5, <1>7, <3>1, <3>2
  <2> QED  BY <2>1, <2>2
<1>9. LedgerOf(q)' <=> granted' + Cardinality(Uncovered') <= q - 1 + Room(Credit(q)', elapsed')
  BY Zenon DEF LedgerOf
<1> QED  BY <1>3, <1>8, <1>9

\* The other steps: no start but that of an uncovered sleeper, no less room.
LEMMA RestKeepsLedger ==
    ASSUME TypeOK, TypeOK', NEW q \in Bursts, burst <= q, LedgerOf(q),
           Uncovered' \subseteq Uncovered,
           \/ granted' = granted
           \/ \E w \in Uncovered : granted' = granted + 1 /\ Uncovered' \subseteq Uncovered \ {w},
           Room(Credit(q), elapsed) <= Room(Credit(q)', elapsed')
    PROVE  LedgerOf(q)'
<1>1. Uncovered \in SUBSET Workers /\ Uncovered' \in SUBSET Workers
  BY DEF Uncovered
<1>2. /\ Cardinality(Uncovered) \in Nat /\ Cardinality(Uncovered') \in Nat
      /\ Cardinality(Uncovered') <= Cardinality(Uncovered)
  BY <1>1, SlotSets, SlotsPositive
<1>3. granted' + Cardinality(Uncovered') <= granted + Cardinality(Uncovered)
  <2>1. CASE granted' = granted
    BY <1>2, <2>1 DEF TypeOK
  <2>2. CASE granted' # granted
    <3>1. PICK w \in Uncovered : granted' = granted + 1 /\ Uncovered' \subseteq Uncovered \ {w}
      BY <2>2
    <3>2. Cardinality(Uncovered') <= Cardinality(Uncovered \ {w})
      <4> Uncovered \ {w} \in SUBSET Workers /\ Uncovered' \in SUBSET (Uncovered \ {w})
        BY <1>1, <3>1
      <4> QED  BY SlotSets
    <3>3. Cardinality(Uncovered \ {w}) + 1 = Cardinality(Uncovered)
      BY <1>1, SlotSets
    <3>4. Cardinality(Uncovered \ {w}) \in Nat
      <4> Uncovered \ {w} \in SUBSET Workers
        BY <1>1
      <4> QED  BY SlotSets, SlotsPositive
    <3> QED  BY <1>2, <3>1, <3>2, <3>3, <3>4 DEF TypeOK
  <2> QED  BY <2>1, <2>2
<1>4. Room(Credit(q), elapsed) \in Int
  BY CreditFacts
<1>5. Room(Credit(q)', elapsed') \in Int
  <2>1. Credit(q)' \in Nat /\ elapsed' \in Nat
    <3>1. tokens' \in Nat /\ since' \in Nat
      BY Capacities DEF TypeOK, Capacity
    <3>2. Credit(q)' \in Nat
      <4>1. Credit(q)' = IF tokens' + since' < q * Period THEN tokens' + since' ELSE q * Period
        BY Zenon DEF Credit, AtMost
      <4>2. q * Period \in Nat /\ tokens' + since' \in Nat
        <5>1. q * Period \in Nat
          BY Capacities, Zenon
        <5>2. \A x, y \in Nat : x + y \in Nat
          BY SMT
        <5> QED  BY <3>1, <5>1, <5>2, Zenon
      <4>3. CASE tokens' + since' < q * Period
        BY <4>1, <4>2, <4>3, Zenon
      <4>4. CASE ~(tokens' + since' < q * Period)
        BY <4>1, <4>2, <4>4, Zenon
      <4> QED  BY <4>3, <4>4
    <3>3. elapsed' \in Nat
      BY BoundsAssumption DEF TypeOK
    <3> QED  BY <3>2, <3>3
  <2> QED  BY <2>1, RoomTypes
<1>6. LedgerOf(q)' <=> granted' + Cardinality(Uncovered') <= q - 1 + Room(Credit(q)', elapsed')
  BY Zenon DEF LedgerOf
<1>7. granted \in Nat /\ granted' \in Nat /\ q \in Nat
  BY Capacities DEF TypeOK
<1> QED  BY <1>2, <1>3, <1>4, <1>5, <1>6, <1>7 DEF LedgerOf

\* A window may open at any time: there is room for the sleepers there are.
LEMMA WindowOpens ==
    ASSUME TypeOK, NEW q \in Bursts, burst <= q, Observe
    PROVE  LedgerOf(q)'
<1>1. elapsed' = 0 /\ granted' = 0 /\ UNCHANGED <<tokens, since, burst, phase, remaining>>
  BY DEF Observe
<1>2. Credit(q)' = Credit(q) /\ Uncovered' = Uncovered
  BY <1>1 DEF Credit, Uncovered
<1>3. /\ Credit(q) \in 0 .. q * Period /\ Credit(q) \in Nat
      /\ Cardinality(Uncovered) \in 0 .. Slots
      /\ Credit(q) < Period <=> tokens + since < Period
      /\ Period <= tokens + since => Uncovered = {}
      /\ tokens \in Nat /\ since \in Nat /\ Period \in Nat
  BY CreditFacts, Capacities DEF TypeOK, Capacity
<1>4. 0 <= q - 1 + Room(Credit(q), 0) /\ (Credit(q) < Period => Slots <= q - 1 + Room(Credit(q), 0))
  BY <1>3, RoomAtStart
<1>5. ~(Credit(q) < Period) => Cardinality(Uncovered) = 0
  BY <1>3, FS_EmptySet
<1>6. Room(Credit(q), 0) \in Int
  <2> Credit(q) \in Nat /\ 0 \in Nat
    BY <1>3
  <2> QED  BY RoomTypes
<1>7. Cardinality(Uncovered) <= q - 1 + Room(Credit(q), 0)
  BY <1>3, <1>4, <1>5, <1>6, SlotsPositive, Capacities
<1>8. 0 + Cardinality(Uncovered) = Cardinality(Uncovered)
  BY <1>3, SlotsPositive
<1>9. LedgerOf(q)' <=> granted' + Cardinality(Uncovered') <= q - 1 + Room(Credit(q)', elapsed')
  BY Zenon DEF LedgerOf
<1> QED  BY <1>1, <1>2, <1>7, <1>8, <1>9

\* No step leaves less room than it starts jobs, and none but a new window makes
\* a smaller setting count.
LEMMA StepKeepsLedger ==
    ASSUME TypeOK, TypeOK', NEW q \in Bursts, burst <= q, LedgerOf(q), [Next]_vars
    PROVE  LedgerOf(q)'
<1> USE Capacities
<1>0. q \in Nat \ {0} /\ q * Period \in Nat /\ Period <= q * Period
  OBVIOUS
<1>1. /\ burst * Period \in Nat /\ Period <= burst * Period
      /\ tokens \in Nat /\ since \in Nat /\ since <= Capacity
      /\ remaining \in [Workers -> 0 .. Period] /\ elapsed \in Nat /\ granted \in Nat
      /\ phase \in [Workers -> {"idle", "asleep", "working"}]
      /\ tokens' \in Nat /\ since' \in Nat
  BY BoundsAssumption DEF TypeOK, Capacity
<1>2. /\ Credit(q) \in 0 .. q * Period /\ Credit(q) \in Nat /\ Refilled \in Nat
      /\ Refilled < Period => Refilled = tokens + since /\ Credit(q) = tokens + since
      /\ Credit(q) < Period <=> tokens + since < Period
      /\ Period <= tokens + since => Uncovered = {}
      /\ Room(Credit(q), elapsed) \in Int
  BY <1>1, CreditFacts
<1>3. ASSUME Take, Refilled < Period
      PROVE  tokens' + since' = tokens + since /\ Credit(q)' = Credit(q)
  <2>1. tokens' = tokens + since /\ since' = 0
    BY <1>1, <1>2, <1>3 DEF Take
  <2> QED  BY <1>1, <2>1 DEF Credit
<1>3a. ASSUME UNCHANGED <<tokens, since, phase, remaining, elapsed, granted>>
       PROVE  LedgerOf(q)'
  <2> Credit(q)' = Credit(q) /\ Uncovered' = Uncovered /\ granted' = granted /\ elapsed' = elapsed
    BY <1>3a DEF Credit, Uncovered
  <2> QED  BY Zenon DEF LedgerOf
<1>4. ASSUME NEW w \in Workers, Ask(w)
      PROVE  LedgerOf(q)'
  <2>1. CASE Period <= Refilled
    <3>1. phase'[w] = "working" /\ granted' = granted + 1 /\ Take /\ elapsed' = elapsed
      BY <1>1, <1>2, <1>4, <2>1 DEF Ask
    <3>2. w \notin Uncovered'
      BY <3>1 DEF Uncovered
    <3> QED  BY <2>1, <3>1, <3>2, SpendKeepsLedger
  <2>2. CASE Refilled < Period
    <3>1. /\ phase' = [phase EXCEPT ![w] = "asleep"]
          /\ remaining' = [remaining EXCEPT ![w] = Period - Refilled]
          /\ granted' = granted /\ elapsed' = elapsed /\ Take
      BY <1>1, <1>2, <1>4, <2>2 DEF Ask
    <3>2. tokens' + since' = tokens + since /\ Credit(q)' = Credit(q)
      BY <1>3, <2>2, <3>1
    <3>3. Uncovered' \subseteq Uncovered
      <4>1. ASSUME NEW v \in Uncovered'
            PROVE  v \in Uncovered
        <5>1. v \in Workers /\ phase'[v] = "asleep" /\ tokens' + since' + remaining'[v] < Period
          BY <4>1 DEF Uncovered
        <5>2. v # w
          <6>1. remaining'[w] = Period - Refilled
            BY <1>1, <3>1
          <6>2. tokens' + since' = Refilled /\ Period - Refilled \in Nat
            BY <1>2, <2>2, <3>2
          <6>3. ~(tokens' + since' + remaining'[w] < Period)
            BY <1>2, <6>1, <6>2
          <6> QED  BY <5>1, <6>3
        <5>3. phase[v] = "asleep" /\ remaining[v] = remaining'[v]
          BY <1>1, <3>1, <5>1, <5>2
        <5> QED  BY <3>2, <5>1, <5>3 DEF Uncovered
      <4> QED  BY <4>1
    <3> QED  BY <1>2, <3>1, <3>2, <3>3, RestKeepsLedger
  <2> QED  BY <1>2, <2>1, <2>2
<1>5. ASSUME NEW w \in Workers, Wake(w)
      PROVE  LedgerOf(q)'
  <2>1. /\ phase' = [phase EXCEPT ![w] = "working"] /\ granted' = granted + 1 /\ Take
        /\ elapsed' = elapsed /\ remaining' = remaining
        /\ phase[w] = "asleep" /\ remaining[w] = 0
    BY <1>5 DEF Wake
  <2>2. w \notin Uncovered'
    BY <1>1, <2>1 DEF Uncovered
  <2>3. CASE Period <= Refilled
    BY <2>1, <2>2, <2>3, SpendKeepsLedger
  <2>4. CASE Refilled < Period
    <3>1. tokens' + since' = tokens + since /\ Credit(q)' = Credit(q)
      BY <1>3, <2>1, <2>4
    <3>2. w \in Uncovered
      BY <1>1, <1>2, <2>1, <2>4 DEF Uncovered
    <3>3. Uncovered' \subseteq Uncovered \ {w}
      BY <1>1, <2>1, <2>2, <3>1 DEF Uncovered
    <3> QED  BY <1>2, <2>1, <3>1, <3>2, <3>3, RestKeepsLedger
  <2> QED  BY <1>2, <2>3, <2>4
<1>6. ASSUME NEW w \in Workers, Finish(w)
      PROVE  LedgerOf(q)'
  <2>1. /\ phase' = [phase EXCEPT ![w] = "idle"]
        /\ UNCHANGED <<tokens, since, burst, remaining, elapsed, granted>>
    BY <1>6 DEF Finish, wvars
  <2>2. Credit(q)' = Credit(q)
    BY <2>1 DEF Credit
  <2>3. Uncovered' \subseteq Uncovered
    BY <1>1, <2>1 DEF Uncovered
  <2> QED  BY <1>2, <2>1, <2>2, <2>3, RestKeepsLedger
<1>7. ASSUME NEW b \in Bursts, SetBurst(b)
      PROVE  LedgerOf(q)'
  <2>1. UNCHANGED <<tokens, since, phase, remaining, elapsed, granted>>
    BY <1>7 DEF SetBurst
  <2> QED  BY <1>3a, <2>1
<1>8. CASE Clamp
  <2>1. /\ tokens' = AtMost(tokens, burst * Period)
        /\ UNCHANGED <<since, phase, remaining, elapsed, granted>>
    BY <1>8 DEF Clamp, wvars
  <2>2. tokens' <= tokens /\ (tokens' # tokens => Period <= tokens')
    BY <1>1, <2>1 DEF AtMost
  <2>3. Credit(q)' \in Nat /\ Credit(q)' <= Credit(q)
    BY <1>0, <1>1, <2>1, <2>2 DEF Credit, AtMost
  <2>4. Room(Credit(q), elapsed) <= Room(Credit(q)', elapsed')
    <3> Credit(q) \in Nat /\ elapsed' = elapsed
      BY <1>2, <2>1
    <3> QED  BY <1>1, <2>3, RoomOfLess
  <2>5. Uncovered' \subseteq Uncovered
    <3>1. CASE tokens' = tokens
      BY <2>1, <3>1 DEF Uncovered
    <3>2. CASE tokens' # tokens
      <4>1. ASSUME NEW v \in Workers
            PROVE  ~(tokens' + since' + remaining'[v] < Period)
        <5> remaining'[v] \in Nat
          BY <1>1, <2>1
        <5> QED  BY <1>1, <2>1, <2>2, <3>2
      <4> QED  BY <4>1 DEF Uncovered
    <3> QED  BY <3>1, <3>2
  <2> QED  BY <1>3, <1>8, <2>1, <2>4, <2>5, RestKeepsLedger
<1>9. CASE SaveFails
  BY <1>9, <1>3a DEF SaveFails, wvars
<1>10. CASE Tick
  <2>1. /\ elapsed' = elapsed + 1 /\ since' = AtMost(since + 1, Capacity)
        /\ remaining' = [v \in Workers |-> IF remaining[v] > 0 THEN remaining[v] - 1 ELSE 0]
        /\ UNCHANGED <<tokens, burst, phase, granted>>
    BY <1>10 DEF Tick, Capacity
  <2>2. Credit(q)' \in Nat /\ Credit(q)' <= Credit(q) + 1
    BY <1>0, <1>1, <2>1 DEF Credit, AtMost
  <2>3. Room(Credit(q), elapsed) <= Room(Credit(q)', elapsed')
    <3> Credit(q) \in Nat
      BY <1>2
    <3> QED  BY <1>1, <2>1, <2>2, RoomOfTick
  <2>4. Uncovered' \subseteq Uncovered
    <3>1. ASSUME NEW v \in Workers, tokens' + since' + remaining'[v] < Period
          PROVE  tokens + since + remaining[v] < Period
      <4>1. remaining[v] \in Nat /\ remaining'[v] \in Nat /\ remaining[v] <= remaining'[v] + 1
        BY <1>1, <2>1
      <4>2. Period <= Capacity
        BY <1>1
      <4>3. since' = since + 1
        BY <1>1, <2>1, <3>1, <4>1, <4>2 DEF AtMost
      <4> QED  BY <1>1, <2>1, <3>1, <4>1, <4>3
    <3> QED  BY <2>1, <3>1 DEF Uncovered
  <2> QED  BY <2>1, <2>3, <2>4, RestKeepsLedger
<1>11. CASE Observe
  BY <1>11, WindowOpens
<1>12. CASE UNCHANGED vars
  BY <1>3a, <1>12 DEF vars, wvars
<1> QED
  BY <1>4, <1>5, <1>6, <1>7, <1>8, <1>9, <1>10, <1>11, <1>12 DEF Next

\* The ledger is kept: whoever raises the burst raises the peak with it.
LEMMA LedgerKept == TypeOK /\ TypeOK' /\ Ledger /\ [Next]_vars => Ledger'
<1> SUFFICES ASSUME TypeOK, TypeOK', Ledger, [Next]_vars
             PROVE  Ledger'
  OBVIOUS
<1>1. /\ burst \in Nat /\ peak \in Nat /\ burst' \in Nat /\ peak' \in Nat
      /\ \A b \in Bursts : b \in Nat
  BY Capacities DEF TypeOK
<1>2. burst <= peak
  BY DEF Ledger
<1>3. burst' <= peak' /\ (Observe \/ peak <= peak')
  <2>1. CASE Observe
    BY <1>1, <2>1 DEF Observe
  <2>2. CASE \E b \in Bursts : SetBurst(b)
    BY <1>1, <2>2 DEF SetBurst
  <2>3. CASE UNCHANGED <<burst, peak>>
    BY <1>1, <1>2, <2>3
  <2> QED  BY <2>1, <2>2, <2>3 DEF Next, Ask, Wake, Finish, Clamp, SaveFails, Tick, vars, wvars
<1>4. ASSUME NEW q \in Bursts, peak' <= q
      PROVE  LedgerOf(q)'
  <2>1. CASE Observe
    <3>1. burst <= q
      BY <1>1, <1>4, <2>1 DEF Observe
    <3> QED  BY <2>1, <3>1, WindowOpens
  <2>2. CASE peak <= peak'
    <3>1. peak <= q /\ burst <= q
      BY <1>1, <1>2, <1>4, <2>2
    <3>2. LedgerOf(q)
      BY <3>1 DEF Ledger
    <3> QED  BY <3>1, <3>2, StepKeepsLedger
  <2> QED  BY <1>3, <2>1, <2>2
<1> QED  BY <1>3, <1>4 DEF Ledger

\* Over any window the lane starts one full burst of those in force in it and one
\* job per slot for each token that accrues, with two tokens of slack for the
\* sleepers and the part of a period the window opens with: what beforeRun() and
\* take() keep of the rate cap, however saves of the burst overlap or fail.
THEOREM RateSafe == Spec => []RateHeldPerSlot
<1>1. Init => Ledger
  <2> SUFFICES ASSUME Init
               PROVE  Ledger
    OBVIOUS
  <2>1. Uncovered = {} /\ granted = 0 /\ elapsed = 0 /\ peak = burst /\ burst \in Nat
    BY Capacities DEF Init, Uncovered
  <2>2. tokens \in Nat /\ since = 0
    BY Capacities DEF Init
  <2>3. ASSUME NEW q \in Bursts
        PROVE  LedgerOf(q)
    <3>1. Credit(q) \in 0 .. q * Period
      BY <2>2, Capacities DEF Credit, AtMost
    <3>2. 0 <= q - 1 + Room(Credit(q), 0)
      BY <3>1, RoomAtStart
    <3>3. 0 + Cardinality(Uncovered) = 0
      BY <2>1, FS_EmptySet
    <3> QED  BY <2>1, <3>2, <3>3 DEF LedgerOf
  <2> QED  BY <2>1, <2>3 DEF Ledger
<1>2. TypeOK /\ Ledger => RateHeldPerSlot
  <2> SUFFICES ASSUME TypeOK, Ledger
               PROVE  RateHeldPerSlot
    OBVIOUS
  <2>1. peak \in Bursts /\ burst <= peak /\ peak \in Nat /\ LedgerOf(peak)
    BY Capacities DEF TypeOK, Ledger
  <2>2. /\ elapsed \in Nat /\ granted \in Nat /\ Credit(peak) \in Nat
        /\ Cardinality(Uncovered) \in Nat /\ Room(Credit(peak), elapsed) \in Int
    BY <2>1, CreditFacts, SlotsPositive, BoundsAssumption DEF TypeOK
  <2>3. Room(Credit(peak), elapsed) <= Slots * (elapsed \div Period + 2)
    BY <2>2, RoomBounded
  <2>4. Slots * (elapsed \div Period + 2) \in Nat
    <3>1. \A x, y \in Nat : x * y \in Nat
      BY SMT
    <3>2. elapsed \div Period + 2 \in Nat
      <4>1. elapsed \in Nat /\ Period \in Nat \ {0}
        BY <2>2, PeriodAssumption
      <4>2. elapsed \div Period \in Nat
        BY <4>1, Division
      <4> QED  BY <4>2
    <3> QED  BY <3>1, <3>2, SlotsPositive
  <2>5. granted <= peak + Slots * (elapsed \div Period + 2)
    BY <2>1, <2>2, <2>3, <2>4 DEF LedgerOf
  <2> QED  BY <2>5 DEF RateHeldPerSlot, Slots
<1>3. Spec => []TypeOK
  BY RateTypes
<1> QED  BY <1>1, <1>2, <1>3, LedgerKept, PTL DEF Spec
=============================================================================
