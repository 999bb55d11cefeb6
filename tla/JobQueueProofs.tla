--------------------------- MODULE JobQueueProofs ---------------------------
(***************************************************************************)
(* Proofs about JobQueue for any set of jobs, priorities and caps.          *)
(*                                                                         *)
(* TypeOK, Accounting and Sorted are inductive together; NoStall needs also *)
(* that every cap is at least one.  The array is handled through two facts  *)
(* about where InsertAt and RemoveAt leave each element; what pump() does to *)
(* a well-formed array is stated once, in PumpWellFormed.                   *)
(***************************************************************************)
EXTENDS JobQueue, FiniteSetTheorems, TLAPS

InArray(q, j) == \E i \in 1 .. Len(q) : q[i] = j

\* An array of different jobs, ordered by the priorities prio.
OrderedArray(q, prio) ==
    /\ q \in Seq(Jobs)
    /\ \A i, k \in 1 .. Len(q) : q[i] = q[k] => i = k
    /\ \A i, k \in 1 .. Len(q) : i < k => prio[q[i]] <= prio[q[k]]

\* The array, the counter and the phases of the jobs agree.
WellFormed(q, r, ph, prio) ==
    /\ OrderedArray(q, prio)
    /\ ph \in [Jobs -> Phases]
    /\ \A j \in Jobs : ph[j] = "queued" <=> InArray(q, j)
    /\ r = Cardinality(Started(ph))

-----------------------------------------------------------------------------
\* Where InsertAt leaves each element.
LEMMA InsertAtElements ==
    ASSUME NEW q \in Seq(Jobs), NEW j \in Jobs, NEW k \in 1 .. Len(q) + 1
    PROVE  /\ InsertAt(q, k, j) \in Seq(Jobs)
           /\ Len(InsertAt(q, k, j)) = Len(q) + 1
           /\ \A i \in 1 .. Len(q) + 1 :
                 InsertAt(q, k, j)[i] = IF i < k THEN q[i]
                                        ELSE IF i = k THEN j ELSE q[i - 1]
<1> DEFINE front == SubSeq(q, 1, k - 1)
           back  == SubSeq(q, k, Len(q))
<1>1. /\ front \in Seq(Jobs)
      /\ Len(front) = k - 1
      /\ \A i \in 1 .. k - 1 : front[i] = q[i]
  OBVIOUS
<1>2. /\ back \in Seq(Jobs)
      /\ Len(back) = Len(q) - k + 1
      /\ \A i \in 1 .. Len(q) - k + 1 : back[i] = q[k + i - 1]
  OBVIOUS
<1> HIDE DEF front, back
<1> DEFINE mid == front \o <<j>>
<1>3. /\ mid \in Seq(Jobs)
      /\ Len(mid) = k
      /\ \A i \in 1 .. k : mid[i] = IF i < k THEN q[i] ELSE j
  BY <1>1
<1> HIDE DEF mid
<1>4. InsertAt(q, k, j) = mid \o back
  BY <1>1, <1>2 DEF InsertAt, mid, front, back
<1>5. ASSUME NEW i \in 1 .. Len(q) + 1
      PROVE  (mid \o back)[i] = IF i < k THEN q[i] ELSE IF i = k THEN j ELSE q[i - 1]
  <2>1. CASE i <= k
    BY <1>2, <1>3, <2>1
  <2>2. CASE i > k
    <3>1. i - k \in 1 .. Len(q) - k + 1 /\ k + (i - k) - 1 = i - 1
      BY <2>2
    <3>2. (mid \o back)[i] = back[i - k]
      BY <1>2, <1>3, <2>2
    <3>3. back[i - k] = q[k + (i - k) - 1]
      BY <1>2, <3>1
    <3>4. QED BY <2>2, <3>1, <3>2, <3>3
  <2>3. i <= k \/ i > k
    OBVIOUS
  <2>4. QED BY <2>1, <2>2, <2>3
<1>6. mid \o back \in Seq(Jobs) /\ Len(mid \o back) = Len(q) + 1
  BY <1>2, <1>3
<1>7. QED BY <1>4, <1>5, <1>6

\* Where RemoveAt leaves each element.
LEMMA RemoveAtElements ==
    ASSUME NEW q \in Seq(Jobs), NEW n \in 1 .. Len(q)
    PROVE  /\ RemoveAt(q, n) \in Seq(Jobs)
           /\ Len(RemoveAt(q, n)) = Len(q) - 1
           /\ \A i \in 1 .. Len(q) - 1 :
                 RemoveAt(q, n)[i] = IF i < n THEN q[i] ELSE q[i + 1]
<1> DEFINE front == SubSeq(q, 1, n - 1)
           back  == SubSeq(q, n + 1, Len(q))
<1>1. /\ front \in Seq(Jobs)
      /\ Len(front) = n - 1
      /\ \A i \in 1 .. n - 1 : front[i] = q[i]
  OBVIOUS
<1>2. /\ back \in Seq(Jobs)
      /\ Len(back) = Len(q) - n
      /\ \A i \in 1 .. Len(q) - n : back[i] = q[n + i]
  OBVIOUS
<1> HIDE DEF front, back
<1>3. RemoveAt(q, n) = front \o back
  BY DEF RemoveAt, front, back
<1>4. ASSUME NEW i \in 1 .. Len(q) - 1
      PROVE  (front \o back)[i] = IF i < n THEN q[i] ELSE q[i + 1]
  <2>1. CASE i < n
    BY <1>1, <1>2, <2>1
  <2>2. CASE i >= n
    <3>1. i - (n - 1) \in 1 .. Len(q) - n /\ n + (i - (n - 1)) = i + 1
      BY <2>2
    <3>2. (front \o back)[i] = back[i - (n - 1)]
      BY <1>1, <1>2, <2>2
    <3>3. back[i - (n - 1)] = q[n + (i - (n - 1))]
      BY <1>2, <3>1
    <3>4. QED BY <2>2, <3>1, <3>2, <3>3
  <2>3. i < n \/ i >= n
    OBVIOUS
  <2>4. QED BY <2>1, <2>2, <2>3
<1>5. front \o back \in Seq(Jobs) /\ Len(front \o back) = Len(q) - 1
  BY <1>1, <1>2
<1>6. QED BY <1>3, <1>4, <1>5

\* A job put at one of its slots keeps the array ordered.
LEMMA InsertOrdered ==
    ASSUME NEW q, NEW prio \in [Jobs -> Priorities], OrderedArray(q, prio),
           NEW j \in Jobs, ~InArray(q, j), NEW p \in Priorities,
           NEW k \in Slots(q, p, prio)
    PROVE  /\ OrderedArray(InsertAt(q, k, j), [prio EXCEPT ![j] = p])
           /\ \A b \in Jobs : InArray(InsertAt(q, k, j), b) <=> (b = j \/ InArray(q, b))
           /\ InsertAt(q, k, j) # <<>>
<1> DEFINE new == InsertAt(q, k, j)
           np  == [prio EXCEPT ![j] = p]
<1>1. /\ q \in Seq(Jobs)
      /\ k \in 1 .. Len(q) + 1
      /\ \A i \in 1 .. k - 1 : prio[q[i]] <= p
      /\ \A i \in k .. Len(q) : p < prio[q[i]]
  BY PrioritiesAssumption DEF OrderedArray, Slots
<1>2. /\ new \in Seq(Jobs)
      /\ Len(new) = Len(q) + 1
      /\ \A i \in 1 .. Len(q) + 1 :
            new[i] = IF i < k THEN q[i] ELSE IF i = k THEN j ELSE q[i - 1]
  <2>1. q \in Seq(Jobs) /\ k \in 1 .. Len(q) + 1 /\ j \in Jobs
    BY <1>1
  <2> HIDE DEF np
  <2>2. new \in Seq(Jobs) /\ Len(new) = Len(q) + 1
    BY ONLY <2>1, InsertAtElements DEF new
  <2>3. ASSUME NEW i \in 1 .. Len(q) + 1
        PROVE  new[i] = IF i < k THEN q[i] ELSE IF i = k THEN j ELSE q[i - 1]
    BY ONLY <2>1, <2>3, InsertAtElements DEF new
  <2>4. QED BY ONLY <2>2, <2>3
<1> HIDE DEF new
<1>3. \A i \in 1 .. Len(q) : q[i] \in Jobs /\ q[i] # j
  BY <1>1 DEF InArray
<1>4. \A i \in 1 .. Len(q) : np[q[i]] = prio[q[i]] /\ prio[q[i]] \in Nat
  BY <1>1, <1>3, PrioritiesAssumption
<1>5. np[j] = p /\ p \in Nat
  BY PrioritiesAssumption
<1>6. \A i, m \in 1 .. Len(q) : /\ q[i] = q[m] => i = m
                                /\ i < m => prio[q[i]] <= prio[q[m]]
  BY DEF OrderedArray
<1>7. ASSUME NEW i \in 1 .. Len(new), NEW m \in 1 .. Len(new), i < m
      PROVE  new[i] # new[m] /\ np[new[i]] <= np[new[m]]
  <2> HIDE DEF np
  <2>1. i \in 1 .. Len(q) + 1 /\ m \in 1 .. Len(q) + 1
    BY <1>1, <1>2
  <2>2. i < k => i \in 1 .. Len(q) /\ i \in 1 .. k - 1 /\ new[i] = q[i]
    BY <1>1, <1>2, <2>1
  <2>3. m < k => m \in 1 .. Len(q) /\ new[m] = q[m]
    BY <1>1, <1>2, <2>1
  <2>4. i = k => new[i] = j
    BY <1>2, <2>1
  <2>5. m = k => new[m] = j
    BY <1>2, <2>1
  <2>6. i > k => i - 1 \in 1 .. Len(q) /\ new[i] = q[i - 1]
    BY <1>1, <1>2, <2>1
  <2>7. m > k => m - 1 \in 1 .. Len(q) /\ m - 1 \in k .. Len(q) /\ new[m] = q[m - 1]
    BY <1>1, <1>2, <2>1
  <2>8. CASE m < k
    <3>1. i < k /\ i # m
      BY <1>1, <1>7, <2>1, <2>8
    <3>2. i \in 1 .. Len(q) /\ m \in 1 .. Len(q) /\ new[i] = q[i] /\ new[m] = q[m]
      BY <2>2, <2>3, <2>8, <3>1
    <3>3. q[i] # q[m] /\ prio[q[i]] <= prio[q[m]]
      BY <1>6, <1>7, <3>1, <3>2
    <3>4. QED BY <1>4, <3>2, <3>3
  <2>9. CASE m = k
    BY <1>1, <1>3, <1>4, <1>5, <1>7, <2>2, <2>5, <2>9
  <2>10. CASE k < m /\ i < k
    <3>1. prio[q[i]] <= p /\ p < prio[q[m - 1]]
      BY <1>1, <2>2, <2>7, <2>10
    <3>2. i \in 1 .. Len(q) /\ m - 1 \in 1 .. Len(q) /\ i # m - 1
      BY <2>1, <1>1, <2>2, <2>7, <2>10
    <3>3. new[i] = q[i] /\ new[m] = q[m - 1]
      BY <2>2, <2>7, <2>10
    <3>4. q[i] # q[m - 1]
      BY <1>6, <3>2
    <3>5. prio[q[i]] <= prio[q[m - 1]]
      <4>1. prio[q[i]] \in Nat /\ prio[q[m - 1]] \in Nat /\ p \in Nat
        BY <1>4, <1>5, <3>2
      <4>2. QED BY <4>1, <3>1
    <3>6. np[q[i]] = prio[q[i]] /\ np[q[m - 1]] = prio[q[m - 1]]
      BY <1>4, <3>2
    <3>7. QED BY <3>3, <3>4, <3>5, <3>6
  <2>11. CASE k < m /\ i = k
    BY <1>1, <1>3, <1>4, <1>5, <2>4, <2>7, <2>11
  <2>12. CASE k < m /\ k < i
    <3> DEFINE a == i - 1
               b == m - 1
    <3>1. a < b /\ a # b
      BY <1>7, <2>1
    <3>2. a \in 1 .. Len(q) /\ b \in 1 .. Len(q) /\ new[i] = q[a] /\ new[m] = q[b]
      BY <2>6, <2>7, <2>12
    <3> HIDE DEF a, b
    <3>3. q[a] # q[b] /\ prio[q[a]] <= prio[q[b]]
      BY <1>6, <3>1, <3>2
    <3>4. QED BY <1>4, <3>2, <3>3
  <2>13. QED BY <1>1, <2>1, <2>8, <2>9, <2>10, <2>11, <2>12
<1>8. ASSUME NEW b \in Jobs
      PROVE  InArray(new, b) <=> (b = j \/ InArray(q, b))
  <2>1. ASSUME InArray(new, b) PROVE b = j \/ InArray(q, b)
    BY <1>1, <1>2, <2>1 DEF InArray
  <2>2. ASSUME b = j PROVE InArray(new, b)
    BY <1>1, <1>2, <2>2 DEF InArray
  <2>3. ASSUME NEW i \in 1 .. Len(q), q[i] = b PROVE InArray(new, b)
    <3>1. CASE i < k
      BY <1>1, <1>2, <2>3, <3>1 DEF InArray
    <3>2. CASE i >= k
      <4>1. i + 1 \in 1 .. Len(new) /\ new[i + 1] = b
        BY <1>1, <1>2, <2>3, <3>2
      <4>2. QED BY <4>1 DEF InArray
    <3>3. QED BY <1>1, <3>1, <3>2
  <2>4. QED BY <2>1, <2>2, <2>3 DEF InArray
<1>9. new # <<>>
  BY <1>1, <1>2
<1>10. \A i, m \in 1 .. Len(new) : /\ new[i] = new[m] => i = m
                                   /\ i < m => np[new[i]] <= np[new[m]]
  <2>1. ASSUME NEW i \in 1 .. Len(new), NEW m \in 1 .. Len(new), new[i] = new[m], i # m
        PROVE  FALSE
    <3>1. i < m \/ m < i
      BY <2>1
    <3>2. QED BY <1>7, <2>1, <3>1
  <2>2. QED BY <1>7, <2>1
<1>11. OrderedArray(new, np)
  <2> HIDE DEF np
  <2>1. new \in Seq(Jobs)
    BY <1>2
  <2>2. QED BY <2>1, <1>10 DEF OrderedArray
<1>12. QED BY <1>8, <1>9, <1>11 DEF new

\* Taking a job out keeps the array ordered and leaves only the others.
LEMMA RemoveOrdered ==
    ASSUME NEW q, NEW prio \in [Jobs -> Priorities], OrderedArray(q, prio),
           NEW n \in 1 .. Len(q)
    PROVE  /\ OrderedArray(RemoveAt(q, n), prio)
           /\ \A b \in Jobs : InArray(RemoveAt(q, n), b) <=> (b # q[n] /\ InArray(q, b))
<1> DEFINE new == RemoveAt(q, n)
<1>1. /\ q \in Seq(Jobs)
      /\ new \in Seq(Jobs)
      /\ Len(new) = Len(q) - 1
      /\ \A i \in 1 .. Len(q) - 1 : new[i] = IF i < n THEN q[i] ELSE q[i + 1]
  BY RemoveAtElements DEF OrderedArray
<1> HIDE DEF new
<1>2. \A i, m \in 1 .. Len(q) : /\ q[i] = q[m] => i = m
                                /\ i < m => prio[q[i]] <= prio[q[m]]
  BY DEF OrderedArray
<1>3. ASSUME NEW b \in Jobs
      PROVE  InArray(new, b) <=> (b # q[n] /\ InArray(q, b))
  <2>1. ASSUME NEW i \in 1 .. Len(new), new[i] = b PROVE b # q[n] /\ InArray(q, b)
    BY <1>1, <2>1 DEF OrderedArray, InArray
  <2>2. ASSUME NEW i \in 1 .. Len(q), q[i] = b, b # q[n] PROVE InArray(new, b)
    <3>1. CASE i < n
      <4>1. i \in 1 .. Len(new) /\ new[i] = b
        BY <1>1, <2>2, <3>1
      <4>2. QED BY <4>1 DEF InArray
    <3>2. CASE i > n
      <4>1. i - 1 \in 1 .. Len(new) /\ new[i - 1] = b
        BY <1>1, <2>2, <3>2
      <4>2. QED BY <4>1 DEF InArray
    <3>3. QED BY <1>1, <2>2, <3>1, <3>2
  <2>3. QED BY <2>1, <2>2 DEF InArray
<1>4. \A i, m \in 1 .. Len(new) : /\ new[i] = new[m] => i = m
                                  /\ i < m => prio[new[i]] <= prio[new[m]]
  <2> DEFINE old(i) == IF i < n THEN i ELSE i + 1
  <2>1. \A i \in 1 .. Len(new) : old(i) \in 1 .. Len(q) /\ new[i] = q[old(i)]
    BY <1>1
  <2>2. \A i, m \in 1 .. Len(new) : /\ old(i) = old(m) => i = m
                                    /\ i < m => old(i) < old(m)
    BY <1>1
  <2> HIDE DEF old
  <2>3. QED BY <1>2, <2>1, <2>2
<1>5. OrderedArray(new, prio)
  <2>1. new \in Seq(Jobs)
    BY <1>1
  <2>2. QED BY <2>1, <1>4 DEF OrderedArray
<1>6. QED BY <1>3, <1>5 DEF new

\* The started jobs are finitely many.
LEMMA StartedFinite ==
    ASSUME NEW ph
    PROVE  IsFiniteSet(Started(ph)) /\ Cardinality(Started(ph)) \in Nat
<1>1. Started(ph) \subseteq Jobs
  BY DEF Started
<1>2. IsFiniteSet(Started(ph))
  BY <1>1, JobsAssumption, FS_Subset
<1>3. QED BY <1>2, FS_CardinalityType

\* pump() takes a well-formed queue to a well-formed queue, never leaves it
\* waiting with nobody running, and starts the most urgent job it holds.
LEMMA PumpWellFormed ==
    ASSUME NEW q, NEW r, NEW ph, NEW prio \in [Jobs -> Priorities],
           WellFormed(q, r, ph, prio), cap \in Caps, Pump(q, r, ph)
    PROVE  /\ WellFormed(queue', running', phase', prio)
           /\ queue' # <<>> => running' > 0
           /\ (\E b \in Jobs : ph[b] # "throttled" /\ phase'[b] = "throttled") => running' <= cap
           /\ running' <= r + 1
           /\ \A a, b \in Jobs :
                 (phase'[a] = "queued" /\ ph[b] # "throttled" /\ phase'[b] = "throttled")
                 => prio[b] <= prio[a]
           /\ \A a \in Jobs : phase'[a] = ph[a] \/ (ph[a] = "queued" /\ phase'[a] = "throttled")
<1>1. /\ q \in Seq(Jobs)
      /\ \A i, m \in 1 .. Len(q) : q[i] = q[m] => i = m
      /\ \A i, m \in 1 .. Len(q) : i < m => prio[q[i]] <= prio[q[m]]
      /\ ph \in [Jobs -> Phases]
      /\ \A j \in Jobs : ph[j] = "queued" <=> InArray(q, j)
      /\ r = Cardinality(Started(ph))
      /\ r \in Nat
      /\ cap \in Nat \ {0}
  BY StartedFinite, CapsAssumption DEF WellFormed, OrderedArray
<1>2. CASE CanStart(q, r)
  <2> DEFINE h == Head(q)
  <2>1. /\ q # <<>>
        /\ queue' = Tail(q)
        /\ running' = r + 1
        /\ phase' = [ph EXCEPT ![h] = "throttled"]
        /\ r < cap
    BY <1>2 DEF Pump, CanStart
  <2>2. /\ h \in Jobs
        /\ h = q[1]
        /\ Len(q) \in Nat \ {0}
        /\ queue' \in Seq(Jobs)
        /\ Len(queue') = Len(q) - 1
        /\ \A i \in 1 .. Len(q) - 1 : queue'[i] = q[i + 1]
    BY <1>1, <2>1
  <2> HIDE DEF h
  <2>3. OrderedArray(queue', prio)
    <3> DEFINE old(i) == i + 1
    <3>1. \A i \in 1 .. Len(queue') : old(i) \in 1 .. Len(q) /\ queue'[i] = q[old(i)]
      BY <2>2
    <3>2. \A i, m \in 1 .. Len(queue') : (old(i) = old(m) => i = m)
                                         /\ (i < m => old(i) < old(m))
      BY <2>2
    <3> HIDE DEF old
    <3>3. \A i, m \in 1 .. Len(queue') : queue'[i] = queue'[m] => i = m
      BY <1>1, <3>1, <3>2
    <3>4. ASSUME NEW i \in 1 .. Len(queue'), NEW m \in 1 .. Len(queue'), i < m
          PROVE  prio[queue'[i]] <= prio[queue'[m]]
      <4>1. old(i) \in 1 .. Len(q) /\ old(m) \in 1 .. Len(q) /\ old(i) < old(m)
        BY <3>1, <3>2, <3>4
      <4>2. prio[q[old(i)]] <= prio[q[old(m)]]
        BY <1>1, <4>1
      <4>3. QED BY <3>1, <4>2
    <3>5. QED BY <2>2, <3>3, <3>4 DEF OrderedArray
  <2>4. ph[h] = "queued"
    BY <1>1, <2>2 DEF InArray
  <2>5. phase' \in [Jobs -> Phases]
    BY <1>1, <2>1 DEF Phases
  <2>6. ASSUME NEW b \in Jobs
        PROVE  phase'[b] = "queued" <=> InArray(queue', b)
    <3>1. CASE b = h
      <4>1. phase'[b] # "queued"
        BY <1>1, <2>1, <3>1
      <4>2. \A i \in 1 .. Len(queue') : queue'[i] # h
        <5> SUFFICES ASSUME NEW i \in 1 .. Len(queue'), queue'[i] = h PROVE FALSE
          OBVIOUS
        <5>1. i + 1 \in 1 .. Len(q) /\ q[i + 1] = q[1] /\ 1 \in 1 .. Len(q)
          BY <2>2
        <5>2. i + 1 = 1
          BY <1>1, <5>1
        <5>3. QED BY <2>2, <5>2
      <4>3. QED BY <3>1, <4>1, <4>2 DEF InArray
    <3>2. CASE b # h
      <4>1. phase'[b] = ph[b]
        BY <1>1, <2>1, <3>2
      <4>2. ASSUME NEW i \in 1 .. Len(q), q[i] = b PROVE InArray(queue', b)
        <5>1. i - 1 \in 1 .. Len(queue') /\ queue'[i - 1] = b
          <6>1. i # 1
            BY <2>2, <3>2, <4>2
          <6>2. i - 1 \in 1 .. Len(q) - 1 /\ (i - 1) + 1 = i
            BY <6>1, <2>2
          <6>3. QED BY <2>2, <4>2, <6>2
        <5>2. QED BY <5>1 DEF InArray
      <4>3. ASSUME NEW i \in 1 .. Len(queue'), queue'[i] = b PROVE InArray(q, b)
        <5>1. i + 1 \in 1 .. Len(q) /\ q[i + 1] = b
          BY <2>2, <4>3
        <5>2. QED BY <5>1 DEF InArray
      <4>4. QED BY <1>1, <4>1, <4>2, <4>3 DEF InArray
    <3>3. QED BY <3>1, <3>2
  <2>7. running' = Cardinality(Started(phase'))
    <3>1. Started(phase') = Started(ph) \cup {h} /\ h \notin Started(ph)
      BY <1>1, <2>1, <2>2, <2>4 DEF Started
    <3>2. QED BY <1>1, <2>1, <3>1, StartedFinite, FS_AddElement
  <2>8. ASSUME NEW a \in Jobs, NEW b \in Jobs,
               phase'[a] = "queued", ph[b] # "throttled", phase'[b] = "throttled"
        PROVE  prio[b] <= prio[a]
    <3>1. b = h /\ ph[a] = "queued" /\ a # h
      BY <1>1, <2>1, <2>8
    <3>2. PICK i \in 1 .. Len(q) : q[i] = a
      BY <1>1, <3>1 DEF InArray
    <3>3. 1 \in 1 .. Len(q) /\ 1 < i
      BY <2>2, <3>1, <3>2
    <3>4. QED BY <1>1, <2>2, <3>1, <3>2, <3>3
  <2>9. WellFormed(queue', running', phase', prio)
    BY <2>3, <2>5, <2>6, <2>7 DEF WellFormed
  <2>10. running' > 0 /\ running' <= cap /\ running' <= r + 1
    BY <1>1, <2>1
  <2>11. \A a \in Jobs : phase'[a] = ph[a] \/ (ph[a] = "queued" /\ phase'[a] = "throttled")
    BY <1>1, <2>1, <2>4
  <2>12. QED BY <2>8, <2>9, <2>10, <2>11
<1>3. CASE ~CanStart(q, r)
  <2>1. queue' = q /\ running' = r /\ phase' = ph
    BY <1>3 DEF Pump
  <2>2. q = <<>> \/ r >= cap
    BY <1>1, <1>3 DEF CanStart
  <2>3. QED BY <1>1, <2>1, <2>2
<1>4. QED BY <1>2, <1>3

-----------------------------------------------------------------------------
\* What every reachable state satisfies.
IInv ==
    /\ WellFormed(queue, running, phase, priority)
    /\ cap \in Caps
    /\ priority \in [Jobs -> Priorities]
    /\ ticket \in [Jobs -> Priorities]
    /\ NoStall

LEMMA InitIInv == Init => IInv
<1> SUFFICES ASSUME Init PROVE IInv
  OBVIOUS
<1>1. OrderedArray(queue, priority)
  BY DEF Init, OrderedArray
<1>2. \A j \in Jobs : phase[j] = "queued" <=> InArray(queue, j)
  BY DEF Init, InArray
<1>3. Started(phase) = {}
  BY DEF Init, Started
<1>4. running = Cardinality(Started(phase))
  BY <1>3, FS_EmptySet DEF Init
<1>5. phase \in [Jobs -> Phases]
  BY DEF Init, Phases
<1>6. QED BY <1>1, <1>2, <1>4, <1>5 DEF Init, IInv, WellFormed, NoStall

\* Pushing: the array gains the job and is pumped.
LEMMA PushStep ==
    ASSUME IInv, NEW j \in Jobs, NEW p \in Priorities, Push(j, p)
    PROVE  /\ IInv'
           /\ (\E b \in Jobs : phase[b] # "throttled" /\ phase'[b] = "throttled") => running' <= cap
           /\ \A a, b \in Jobs :
                 (phase'[a] = "queued" /\ phase[b] # "throttled" /\ phase'[b] = "throttled")
                 => priority'[b] <= priority'[a]
           /\ phase'[j] \in {"queued", "throttled"}
           /\ \A a \in Jobs : a # j =>
                 phase'[a] = phase[a] \/ (phase[a] = "queued" /\ phase'[a] = "throttled")
<1> DEFINE ph == [phase EXCEPT ![j] = "queued"]
<1>1. PICK k \in Slots(queue, p, priority) :
         Pump(InsertAt(queue, k, j), running, ph)
  BY DEF Push
<1> DEFINE q == InsertAt(queue, k, j)
<1>2. /\ phase[j] = "idle"
      /\ priority' = [priority EXCEPT ![j] = p]
      /\ ticket' = [ticket EXCEPT ![j] = p]
      /\ cap' = cap
  BY DEF Push
<1>3. phase \in [Jobs -> Phases] /\ ~InArray(queue, j)
  BY <1>2 DEF IInv, WellFormed
<1>4. /\ OrderedArray(q, priority')
      /\ \A b \in Jobs : InArray(q, b) <=> (b = j \/ InArray(queue, b))
  BY <1>2, <1>3, InsertOrdered DEF IInv, WellFormed
<1>5. priority' \in [Jobs -> Priorities] /\ ticket' \in [Jobs -> Priorities]
  BY <1>2 DEF IInv
<1>6. ph \in [Jobs -> Phases] /\ Started(ph) = Started(phase)
  BY <1>2, <1>3 DEF Phases, Started
<1> HIDE DEF q
<1>7. WellFormed(q, running, ph, priority')
  <2>1. \A b \in Jobs : ph[b] = "queued" <=> InArray(q, b)
    BY <1>3, <1>4 DEF IInv, WellFormed
  <2>2. running = Cardinality(Started(ph))
    BY <1>6 DEF IInv, WellFormed
  <2>3. QED BY <1>4, <1>6, <2>1, <2>2 DEF WellFormed
<1>8. Pump(q, running, ph) /\ cap \in Caps
  BY <1>1 DEF q, IInv
<1> HIDE DEF ph
<1>9. /\ WellFormed(queue', running', phase', priority')
      /\ queue' # <<>> => running' > 0
      /\ (\E b \in Jobs : ph[b] # "throttled" /\ phase'[b] = "throttled") => running' <= cap
      /\ \A a, b \in Jobs :
            (phase'[a] = "queued" /\ ph[b] # "throttled" /\ phase'[b] = "throttled")
            => priority'[b] <= priority'[a]
      /\ \A a \in Jobs : phase'[a] = ph[a] \/ (ph[a] = "queued" /\ phase'[a] = "throttled")
  BY <1>5, <1>7, <1>8, PumpWellFormed
<1>10. \A b \in Jobs : phase[b] # "throttled" => ph[b] # "throttled"
  BY <1>3 DEF ph
<1>11. IInv'
  BY <1>2, <1>5, <1>8, <1>9 DEF IInv, NoStall
<1>12. \A b \in Jobs : ph[b] = IF b = j THEN "queued" ELSE phase[b]
  BY <1>3 DEF ph
<1>13. QED BY <1>9, <1>10, <1>11, <1>12

\* Finishing: one slot is released and the array is pumped.
LEMMA FinishStep ==
    ASSUME IInv, NEW j \in Jobs, Finish(j)
    PROVE  /\ IInv'
           /\ (\E b \in Jobs : phase[b] # "throttled" /\ phase'[b] = "throttled") => running' <= cap
           /\ \A a, b \in Jobs :
                 (phase'[a] = "queued" /\ phase[b] # "throttled" /\ phase'[b] = "throttled")
                 => priority'[b] <= priority'[a]
           /\ phase'[j] = "idle"
           /\ \A a \in Jobs : a # j =>
                 phase'[a] = phase[a] \/ (phase[a] = "queued" /\ phase'[a] = "throttled")
<1> DEFINE ph == [phase EXCEPT ![j] = "idle"]
           r  == running - 1
<1>1. /\ phase[j] = "working"
      /\ Pump(queue, r, ph)
      /\ cap' = cap /\ priority' = priority /\ ticket' = ticket
  BY DEF Finish
<1>2. /\ phase \in [Jobs -> Phases]
      /\ running = Cardinality(Started(phase))
      /\ cap \in Caps
      /\ OrderedArray(queue, priority)
      /\ \A b \in Jobs : phase[b] = "queued" <=> InArray(queue, b)
  BY DEF IInv, WellFormed
<1>3. ph \in [Jobs -> Phases]
  BY <1>2 DEF Phases
<1>4. r = Cardinality(Started(ph))
  <2>1. Started(ph) = Started(phase) \ {j} /\ j \in Started(phase)
    BY <1>1, <1>2 DEF Started
  <2>2. QED BY <1>2, <2>1, StartedFinite, FS_RemoveElement
<1>5. \A b \in Jobs : ph[b] = "queued" <=> InArray(queue, b)
  BY <1>1, <1>2
<1>6. WellFormed(queue, r, ph, priority)
  BY <1>2, <1>3, <1>4, <1>5 DEF WellFormed
<1>7. \A b \in Jobs : phase[b] # "throttled" => ph[b] # "throttled"
  BY <1>2
<1>8. priority \in [Jobs -> Priorities] /\ \A b \in Jobs : ph[b] = IF b = j THEN "idle" ELSE phase[b]
  BY <1>2 DEF IInv
<1> HIDE DEF ph, r
<1>9. /\ WellFormed(queue', running', phase', priority)
      /\ queue' # <<>> => running' > 0
      /\ (\E b \in Jobs : ph[b] # "throttled" /\ phase'[b] = "throttled") => running' <= cap
      /\ \A a, b \in Jobs :
           (phase'[a] = "queued" /\ ph[b] # "throttled" /\ phase'[b] = "throttled")
           => priority[b] <= priority[a]
      /\ \A a \in Jobs : phase'[a] = ph[a] \/ (ph[a] = "queued" /\ phase'[a] = "throttled")
  BY <1>1, <1>2, <1>6, <1>8, PumpWellFormed
<1>10. IInv'
  BY <1>1, <1>9 DEF IInv, NoStall
<1>11. QED BY <1>1, <1>7, <1>8, <1>9, <1>10

\* Hurrying a job: a queued one is taken out and put back at its new slot.
LEMMA BoostStep ==
    ASSUME IInv, NEW j \in Jobs, NEW p \in Priorities, Boost(j, p)
    PROVE  IInv'
<1>1. /\ ticket' = [ticket EXCEPT ![j] = p]
      /\ running' = running /\ cap' = cap /\ phase' = phase
  BY DEF Boost
<1>2. CASE phase[j] # "queued"
  <2>1. priority' = priority /\ queue' = queue
    BY <1>2 DEF Boost
  <2>2. QED BY <1>1, <2>1 DEF IInv, NoStall
<1>3. CASE phase[j] = "queued"
  <2>1. PICK n \in DOMAIN queue : /\ queue[n] = j
                                  /\ \E k \in Slots(RemoveAt(queue, n), p, priority) :
                                        queue' = InsertAt(RemoveAt(queue, n), k, j)
    BY <1>3 DEF Boost
  <2>2. PICK k \in Slots(RemoveAt(queue, n), p, priority) :
           queue' = InsertAt(RemoveAt(queue, n), k, j)
    BY <2>1
  <2>3. priority' = [priority EXCEPT ![j] = p]
    BY <1>3 DEF Boost
  <2>4. n \in 1 .. Len(queue) /\ OrderedArray(queue, priority) /\ priority \in [Jobs -> Priorities]
    BY DEF IInv, WellFormed, OrderedArray
  <2> DEFINE rest == RemoveAt(queue, n)
  <2>5. /\ OrderedArray(rest, priority)
        /\ \A b \in Jobs : InArray(rest, b) <=> (b # j /\ InArray(queue, b))
    BY <2>1, <2>4, RemoveOrdered
  <2> HIDE DEF rest
  <2>6. /\ OrderedArray(queue', priority')
        /\ \A b \in Jobs : InArray(queue', b) <=> (b = j \/ InArray(rest, b))
    BY <2>2, <2>3, <2>4, <2>5, InsertOrdered DEF rest
  <2>7. InArray(queue, j)
    BY <2>1, <2>4 DEF InArray
  <2>8. \A b \in Jobs : InArray(queue', b) <=> InArray(queue, b)
    BY <2>5, <2>6, <2>7
  <2>9. WellFormed(queue', running', phase', priority')
    BY <1>1, <2>6, <2>8 DEF IInv, WellFormed
  <2>10. queue # <<>>
    BY <2>4
  <2>11. running' > 0
    BY <1>1, <2>10 DEF IInv, NoStall
  <2>12. QED BY <1>1, <2>3, <2>9, <2>11 DEF IInv, NoStall
<1>4. QED BY <1>2, <1>3

LEMMA AdmitStep ==
    ASSUME IInv, NEW j \in Jobs, Admit(j)
    PROVE  IInv'
<1>1. phase[j] = "throttled" /\ phase' = [phase EXCEPT ![j] = "working"]
      /\ UNCHANGED <<queue, running, cap, priority, ticket>>
  BY DEF Admit
<1>2. phase \in [Jobs -> Phases]
  BY DEF IInv, WellFormed
<1>3. phase' \in [Jobs -> Phases] /\ Started(phase') = Started(phase)
  BY <1>1, <1>2 DEF Phases, Started
<1>4. \A b \in Jobs : phase'[b] = "queued" <=> phase[b] = "queued"
  BY <1>1, <1>2
<1>5. QED BY <1>1, <1>3, <1>4 DEF IInv, WellFormed, NoStall

LEMMA NextIInv == IInv /\ [Next]_qvars => IInv'
<1> SUFFICES ASSUME IInv, [Next]_qvars PROVE IInv'
  OBVIOUS
<1>1. CASE \E j \in Jobs, p \in Priorities : Push(j, p)
  BY <1>1, PushStep
<1>2. CASE \E j \in Jobs : Admit(j)
  BY <1>2, AdmitStep
<1>3. CASE \E j \in Jobs : Finish(j)
  BY <1>3, FinishStep
<1>4. CASE \E j \in Jobs, p \in Priorities : Boost(j, p)
  BY <1>4, BoostStep
<1>5. CASE \E c \in Caps : SetCap(c)
  BY <1>5 DEF SetCap, IInv, NoStall
<1>6. CASE UNCHANGED qvars
  BY <1>6 DEF qvars, IInv, NoStall
<1>7. QED BY <1>1, <1>2, <1>3, <1>4, <1>5, <1>6 DEF Next

LEMMA SpecIInv == Spec => []IInv
<1>1. QED BY InitIInv, NextIInv, PTL DEF Spec

-----------------------------------------------------------------------------
\* The invariant says the types.
LEMMA InvTyped == IInv => TypeOK
BY StartedFinite DEF IInv, WellFormed, OrderedArray, TypeOK

\* The variables of the queue keep their types for any jobs and any caps.
THEOREM QueueTypes == Spec => []TypeOK
BY InvTyped, SpecIInv, PTL

\* The counter pump() trusts is the number of jobs in progress, and the array
\* holds every waiting job exactly once.
THEOREM QueueAccounting == Spec => []Accounting
<1>1. IInv => Accounting
  BY DEF IInv, WellFormed, OrderedArray, InArray, Accounting
<1>2. QED BY <1>1, SpecIInv, PTL

\* The array is always in the order of the priorities.
THEOREM QueueSorted == Spec => []Sorted
<1>1. IInv => Sorted
  BY DEF IInv, WellFormed, OrderedArray, Sorted
<1>2. QED BY <1>1, SpecIInv, PTL

\* A waiting job always has a running one whose finish will pump the queue.
THEOREM QueueNeverStalls == Spec => []NoStall
<1>1. IInv => NoStall
  BY DEF IInv
<1>2. QED BY <1>1, SpecIInv, PTL

\* Whichever step starts a job, a push or a finish that hands its slot on, the
\* jobs then in progress are within the cap in force, lowered or not.
THEOREM QueueCapHeld == Spec => CapHeld
<1> DEFINE Within == (\E j \in Jobs : phase[j] # "throttled" /\ phase'[j] = "throttled")
                       => Cardinality(Started(phase')) <= cap
<1>1. IInv /\ [Next]_qvars => [Within]_qvars
  <2> SUFFICES ASSUME IInv, Next, \E j \in Jobs : phase[j] # "throttled" /\ phase'[j] = "throttled"
               PROVE  Cardinality(Started(phase')) <= cap
    BY DEF qvars
  <2>1. running' <= cap
    <3>1. CASE \E j \in Jobs, p \in Priorities : Push(j, p)
      BY <3>1, PushStep
    <3>2. CASE \E j \in Jobs : Finish(j)
      BY <3>2, FinishStep
    <3>3. CASE \E j \in Jobs : Admit(j)
      <4>1. phase \in [Jobs -> Phases]
        BY DEF IInv, WellFormed
      <4>2. QED BY <3>3, <4>1 DEF Admit
    <3>4. QED BY <3>1, <3>2, <3>3 DEF Next, Boost, SetCap
  <2>2. running' = Cardinality(Started(phase'))
    BY NextIInv DEF IInv, WellFormed
  <2>3. QED BY <2>1, <2>2
<1>2. QED BY <1>1, SpecIInv, PTL DEF Spec, CapHeld

\* A job never starts while a strictly more urgent one waits.
THEOREM QueueNoOvertake == Spec => NoOvertake
<1> DEFINE Fair == \A a, b \in Jobs :
               (phase'[a] = "queued" /\ phase[b] # "throttled" /\ phase'[b] = "throttled")
               => priority'[b] <= priority'[a]
<1>1. IInv /\ [Next]_qvars => [Fair]_qvars
  <2> SUFFICES ASSUME IInv, Next PROVE Fair
    BY DEF qvars
  <2>1. CASE \E j \in Jobs, p \in Priorities : Push(j, p)
    BY <2>1, PushStep
  <2>2. CASE \E j \in Jobs : Finish(j)
    BY <2>2, FinishStep
  <2>3. CASE \E j \in Jobs : Admit(j)
    <3>1. phase \in [Jobs -> Phases]
      BY DEF IInv, WellFormed
    <3>2. QED BY <2>3, <3>1 DEF Admit
  <2>4. CASE phase' = phase
    BY <2>4
  <2>5. QED BY <2>1, <2>2, <2>3, <2>4 DEF Next, Boost, SetCap
<1>2. QED BY <1>1, SpecIInv, PTL DEF Spec, NoOvertake

\* Only a raised cap leaves a job waiting beside a free slot: each finish puts one
\* job in the place of one, and a push finds the slots full or the array empty.
THEOREM QueueKeepsFull == Spec => KeepsFull
<1> DEFINE Full == queue # <<>> => running >= cap
           Stays == (Full /\ cap' <= cap) => (queue' # <<>> => running' >= cap')
<1>1. IInv /\ [Next]_qvars => [Stays]_qvars
  <2> SUFFICES ASSUME IInv, Next, Full, cap' <= cap, queue' # <<>>
               PROVE  running' >= cap'
    BY DEF qvars
  <2>1. /\ running \in Nat /\ cap \in Nat \ {0} /\ queue \in Seq(Jobs)
    BY StartedFinite, CapsAssumption DEF IInv, WellFormed, OrderedArray
  <2>2. ASSUME NEW j \in Jobs, NEW p \in Priorities, Push(j, p)
        PROVE  running' >= cap'
    <3>1. PICK k \in Slots(queue, p, priority) :
             Pump(InsertAt(queue, k, j), running, [phase EXCEPT ![j] = "queued"])
      BY <2>2 DEF Push
    <3> DEFINE q == InsertAt(queue, k, j)
    <3>2. k \in 1 .. Len(queue) + 1 /\ cap' = cap
      BY <2>2 DEF Push, Slots
    <3>3. q \in Seq(Jobs) /\ Len(q) = Len(queue) + 1
      BY <2>1, <3>2, InsertAtElements
    <3>4. Pump(q, running, [phase EXCEPT ![j] = "queued"])
      BY <3>1
    <3> HIDE DEF q
    <3>5. CASE CanStart(q, running)
      <4>1. running < cap /\ queue' = Tail(q)
        BY <3>4, <3>5 DEF Pump, CanStart
      <4>2. queue = <<>>
        BY <2>1, <4>1
      <4>3. Len(queue') = 0 /\ queue' \in Seq(Jobs)
        BY <3>3, <4>1, <4>2
      <4> QED  BY <4>3
    <3>6. CASE ~CanStart(q, running)
      <4>1. running' = running /\ q # <<>>
        BY <2>1, <3>3, <3>4, <3>6 DEF Pump
      <4> QED  BY <2>1, <3>2, <3>6, <4>1 DEF CanStart
    <3> QED  BY <3>5, <3>6
  <2>3. ASSUME NEW j \in Jobs, Finish(j)
        PROVE  running' >= cap'
    <3>1. Pump(queue, running - 1, [phase EXCEPT ![j] = "idle"]) /\ cap' = cap
      BY <2>3 DEF Finish
    <3>2. CASE queue = <<>>
      BY <3>1, <3>2 DEF Pump, CanStart
    <3>3. CASE queue # <<>>
      BY <2>1, <3>1, <3>3 DEF Pump, CanStart
    <3> QED  BY <3>2, <3>3
  <2>4. ASSUME NEW j \in Jobs, NEW p \in Priorities, Boost(j, p)
        PROVE  running' >= cap'
    <3>1. running' = running /\ cap' = cap /\ queue # <<>>
      BY <2>1, <2>4 DEF Boost
    <3> QED  BY <3>1
  <2>5. CASE queue' = queue /\ running' = running /\ cap' \in Caps
    <3>1. cap' \in Nat
      BY <2>5, CapsAssumption
    <3> QED  BY <2>1, <2>5, <3>1
  <2> QED  BY <2>2, <2>3, <2>4, <2>5 DEF Next, Admit, SetCap, IInv
<1>2. QED BY <1>1, SpecIInv, PTL DEF Spec, KeepsFull
=============================================================================
