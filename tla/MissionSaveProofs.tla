------------------------- MODULE MissionSaveProofs -------------------------
(***************************************************************************)
(* Theorems about MissionSave, for any tabs, plans, decisions and bounds.    *)
(*                                                                         *)
(* The inductive invariant has four parts.  Types.  Serialised: the server   *)
(* runs one save at a time, and what the first save of the chain was checked *)
(* against is still on disk when it is written, since no other save writes   *)
(* in between.  OneEach: a tab awaits one save, and the head of its chain is *)
(* the document of that save, so a success that arrives is about that        *)
(* document.  AllKept: the documents a tab shows, is opening or is being told *)
(* are saved are kept by the file.  GoesOn is transitive and an accepted      *)
(* write goes on from the file it replaces, so whatever was kept stays kept.  *)
(***************************************************************************)
EXTENDS MissionSave, FiniteSetTheorems, SequenceTheorems, TLAPS

\* e has the plan of d, its events and perhaps more, and a clock no earlier.
GoesOn(d, e) ==
    /\ d \in Actives /\ e \in Actives
    /\ d.plan = e.plan
    /\ Len(d.events) <= Len(e.events)
    /\ \A i \in 1 .. Len(d.events) : d.events[i] = e.events[i]
    /\ d.now <= e.now

\* The fields of an active document.
LEMMA ActiveFields ==
    ASSUME NEW d \in Actives
    PROVE  /\ d.state = "active" /\ d.plan \in Plans
           /\ d.events \in Seq(Decisions) /\ Len(d.events) \in 0 .. MaxEvents
           /\ d.now \in 0 .. MaxNow
<1>1. d.events \in BoundedSeq(Decisions, MaxEvents)
  BY DEF Actives
<1>2. PICK m \in 0 .. MaxEvents : d.events \in [1 .. m -> Decisions]
  BY <1>1 DEF BoundedSeq, SeqOf
<1>3. d.events \in Seq(Decisions) /\ Len(d.events) = m
  BY <1>2, BoundsAssumption
<1>4. QED
  BY <1>3 DEF Actives

\* A document or its absence is active exactly if it is in Actives.
LEMMA ActiveDocs ==
    ASSUME NEW d \in Docs \cup {NoDoc}
    PROVE  /\ IsActive(d) <=> d \in Actives
           /\ d \in Docs /\ ~IsActive(d) => d \in Drafts
<1>1. ASSUME d = NoDoc PROVE ~IsActive(d) /\ d \notin Docs
  BY <1>1, NoDocAssumption DEF IsActive
<1>2. ASSUME d \in Drafts PROVE ~IsActive(d) /\ d \notin Actives
  BY <1>2 DEF Drafts, Actives, IsActive
<1>3. ASSUME d \in Actives PROVE IsActive(d)
  BY <1>3, NoDocAssumption DEF Actives, IsActive, Docs
<1>4. QED
  BY <1>1, <1>2, <1>3 DEF Docs

\* A prefix, element by element.
LEMMA PrefixElements ==
    ASSUME NEW s \in Seq(Decisions), NEW t \in Seq(Decisions)
    PROVE  Ledger!IsPrefix(s, t) <=>
              /\ Len(s) <= Len(t)
              /\ \A i \in 1 .. Len(s) : s[i] = t[i]
<1> SUFFICES ASSUME Len(s) <= Len(t)
             PROVE  SubSeq(s, 1, Len(s)) = SubSeq(t, 1, Len(s))
                    <=> \A i \in 1 .. Len(s) : s[i] = t[i]
  BY DEF Ledger!IsPrefix
<1> DEFINE a == SubSeq(s, 1, Len(s))
           b == SubSeq(t, 1, Len(s))
<1>1. a \in Seq(Decisions) /\ Len(a) = Len(s) /\ \A i \in 1 .. Len(s) : a[i] = s[i]
  OBVIOUS
<1>2. b \in Seq(Decisions) /\ Len(b) = Len(s) /\ \A i \in 1 .. Len(s) : b[i] = t[i]
  OBVIOUS
<1> HIDE DEF a, b
<1>3. a = b <=> \A i \in 1 .. Len(s) : a[i] = b[i]
  <2>1. ASSUME \A i \in 1 .. Len(s) : a[i] = b[i] PROVE a = b
    BY <1>1, <1>2, <2>1, SeqEqual
  <2>2. QED BY <2>1
<1>4. QED
  BY <1>1, <1>2, <1>3 DEF a, b

\* The transition the server accepts over an active record.
LEMMA ContinuesMeans ==
    ASSUME NEW d \in Docs, NEW e \in Docs
    PROVE  Ledger!Continues(d, e) <=> GoesOn(d, e)
<1>1. d.state = "active" <=> d \in Actives
  BY DEF Docs, Drafts, Actives
<1>2. e.state = "active" <=> e \in Actives
  BY DEF Docs, Drafts, Actives
<1>3. CASE d \in Actives /\ e \in Actives
  BY <1>1, <1>2, <1>3, ActiveFields, PrefixElements DEF Ledger!Continues, GoesOn
<1>4. QED
  BY <1>1, <1>2, <1>3 DEF Ledger!Continues, GoesOn

\* Going on is reflexive and transitive.
LEMMA GoesOnReflexive ==
    ASSUME NEW d \in Actives PROVE GoesOn(d, d)
BY ActiveFields DEF GoesOn

LEMMA GoesOnTransitive ==
    ASSUME NEW d, NEW e, NEW f, GoesOn(d, e), GoesOn(e, f)
    PROVE  GoesOn(d, f)
<1>1. d \in Actives /\ e \in Actives /\ f \in Actives
  BY DEF GoesOn
<1>2. /\ Len(d.events) \in Nat /\ Len(e.events) \in Nat /\ Len(f.events) \in Nat
      /\ d.now \in Nat /\ e.now \in Nat /\ f.now \in Nat
  BY <1>1, ActiveFields, BoundsAssumption
<1>3. QED
  BY <1>1, <1>2 DEF GoesOn

-----------------------------------------------------------------------------
\* What is left of a sequence without its first element.
LEMMA FirstRemoved ==
    ASSUME NEW S, NEW q \in Seq(S), q # <<>>
    PROVE  /\ RemoveAt(q, 1) \in Seq(S)
           /\ Len(RemoveAt(q, 1)) = Len(q) - 1
           /\ DOMAIN RemoveAt(q, 1) = 1 .. Len(q) - 1
           /\ \A i \in 1 .. Len(q) - 1 : RemoveAt(q, 1)[i] = q[i + 1]
<1>1. PICK n \in Nat \ {0} : n = Len(q)
  BY EmptySeq
<1> DEFINE back == SubSeq(q, 2, n)
<1>2. \A i \in 2 .. n : q[i] \in S
  BY <1>1, ElementOfSeq
<1>3. /\ back \in Seq(S)
      /\ Len(back) = IF 2 <= n THEN n - 2 + 1 ELSE 0
      /\ \A i \in 1 .. n - 2 + 1 : back[i] = q[2 + i - 1]
  BY <1>2, SubSeqProperties
<1> HIDE DEF back
<1>4. Len(back) = n - 1
  BY <1>3
<1>5. ASSUME NEW i \in 1 .. n - 1 PROVE back[i] = q[i + 1]
  <2>1. i \in 1 .. n - 2 + 1 /\ 2 + i - 1 = i + 1
    OBVIOUS
  <2>2. QED BY <1>3, <2>1
<1>6. RemoveAt(q, 1) = back
  <2>1. SubSeq(q, 1, 1 - 1) = <<>>
    BY SubSeqEmpty
  <2>2. <<>> \o back = back
    BY <1>3
  <2>3. QED BY <1>1, <2>1, <2>2 DEF RemoveAt, back
<1>7. DOMAIN back = 1 .. n - 1
  BY <1>3, <1>4, LenProperties
<1>8. QED
  BY <1>1, <1>3, <1>4, <1>5, <1>6, <1>7

\* The types of all variables.
Types ==
    /\ file \in Records \cup {NoDoc}
    /\ clock \in Times
    /\ pending \in Seq(Saves)
    /\ reply \in [Tabs -> Replies \cup {NoReply}]
    /\ base \in [Tabs -> Docs \cup {NoDoc}]
    /\ last \in [Tabs -> Times \cup {NoTime}]
    /\ work \in [Tabs -> Seq(Docs)]
    /\ stepped \in [Tabs -> Actives \cup {NoDoc}]
    /\ opening \in [Tabs -> Openings \cup {NoDoc}]

\* Only the first save of the chain has passed its checks, and still would.
Serialised ==
    \A i \in DOMAIN pending : pending[i].checked => i = 1 /\ Accepts(pending[i])

\* Saves of a tab that it still waits for.
Heard(t) == {i \in DOMAIN pending : pending[i].tab = t /\ pending[i].heard}

\* A tab awaits one save at a time, the one at the head of its chain.
OneEach ==
    \A t \in Tabs :
        /\ \A i, k \in Heard(t) : i = k
        /\ reply[t] # NoReply => Heard(t) = {} /\ work[t] # <<>>
        /\ \A i \in Heard(t) : work[t] # <<>> /\ pending[i].doc = Head(work[t])

\* The record on disk is d or has grown out of it, if d is active.
Kept(d) == IsActive(d) => file # NoDoc /\ GoesOn(d, file.doc)

\* What a tab shows, is opening or is being told is saved is kept.
AllKept ==
    \A t \in Tabs :
        /\ Kept(base[t])
        /\ opening[t] # NoDoc => Kept(opening[t].doc)
        /\ reply[t] # NoReply /\ reply[t].ok => Kept(Head(work[t]))

\* The inductive invariant.
IInv == Types /\ Serialised /\ OneEach /\ AllKept

\* It holds at the start.
LEMMA InitInv == Init => IInv
<1> SUFFICES ASSUME Init PROVE IInv
  OBVIOUS
<1> USE DEF Init
<1>1. Types
  BY BoundsAssumption DEF Types, Times
<1>2. Serialised
  BY DEF Serialised
<1>3. OneEach
  BY DEF OneEach, Heard
<1>4. AllKept
  BY DEF AllKept, Kept, IsActive
<1>5. QED
  BY <1>1, <1>2, <1>3, <1>4 DEF IInv

\* A chain of saves grows at its end.
LEMMA PersistHead ==
    ASSUME NEW t \in Tabs, NEW d, work \in [Tabs -> Seq(Docs)], Persist(t, d)
    PROVE  /\ work' = [work EXCEPT ![t] = Append(work[t], d)]
           /\ \A u \in Tabs : work[u] # <<>> => work'[u] # <<>> /\ Head(work'[u]) = Head(work[u])
<1>1. work' = [work EXCEPT ![t] = Append(work[t], d)]
  BY DEF Persist
<1> DEFINE S == Docs \cup {d}
<1>2. work[t] \in Seq(S) /\ d \in S
  OBVIOUS
<1> HIDE DEF S
<1>3. work[t] # <<>> => Append(work[t], d) # <<>> /\ Head(Append(work[t], d)) = Head(work[t])
  BY <1>2
<1>4. QED
  BY <1>1, <1>3

\* ... and stays a chain of documents.
LEMMA PersistWork ==
    ASSUME NEW t \in Tabs, NEW d \in Docs, work \in [Tabs -> Seq(Docs)], Persist(t, d)
    PROVE  work' \in [Tabs -> Seq(Docs)]
<1>1. Append(work[t], d) \in Seq(Docs)
  BY AppendProperties
<1>2. work' = [work EXCEPT ![t] = Append(work[t], d)]
  BY PersistHead
<1>3. QED
  BY <1>1, <1>2

\* The documents that tabs make.
LEMMA MadeDocs ==
    ASSUME NEW d \in Docs, IsActive(d)
    PROVE  /\ \A e \in Decisions : Len(d.events) < MaxEvents
                 => [d EXCEPT !.events = Append(@, e)] \in Actives
           /\ d.now < MaxNow => [d EXCEPT !.now = @ + 1] \in Actives
<1>1. d \in Actives
  BY ActiveDocs
<1>2. d = [state |-> "active", plan |-> d.plan, events |-> d.events, now |-> d.now]
  BY <1>1 DEF Actives
<1>3. ASSUME NEW e \in Decisions, Len(d.events) < MaxEvents
      PROVE  [d EXCEPT !.events = Append(@, e)] \in Actives
  <2> DEFINE log == Append(d.events, e)
             n == Len(d.events) + 1
  <2>0. d.events \in Seq(Decisions) /\ Len(d.events) \in Nat /\ MaxEvents \in Nat
    BY <1>1, ActiveFields, BoundsAssumption
  <2>a. n \in 0 .. MaxEvents
    BY <2>0, <1>3
  <2>b. log \in Seq(Decisions) /\ Len(log) = n
    BY <2>0
  <2> HIDE DEF log, n
  <2>1. log \in [1 .. n -> Decisions]
    BY <2>b, ElementOfSeq, LenProperties
  <2>2. log \in BoundedSeq(Decisions, MaxEvents)
    BY <2>a, <2>1 DEF BoundedSeq, SeqOf
  <2>3. [d EXCEPT !.events = log] = [state |-> "active", plan |-> d.plan, events |-> log, now |-> d.now]
    BY <1>2
  <2>4. [d EXCEPT !.events = log] \in Actives
    BY <2>2, <2>3, <1>1, ActiveFields DEF Actives
  <2>5. QED
    BY <2>4 DEF log
<1>4. ASSUME d.now < MaxNow PROVE [d EXCEPT !.now = @ + 1] \in Actives
  <2>1. d.now + 1 \in 0 .. MaxNow
    BY <1>1, <1>4, ActiveFields, BoundsAssumption
  <2>2. [d EXCEPT !.now = @ + 1] = [state |-> "active", plan |-> d.plan, events |-> d.events, now |-> d.now + 1]
    BY <1>2
  <2>3. QED
    BY <2>1, <2>2, <1>1 DEF Actives
<1>5. QED
  BY <1>3, <1>4

-----------------------------------------------------------------------------
\* What the answer of the first save does to the chain and the answers.
LEMMA AnswerTypes ==
    ASSUME Types, Turn(1), NEW ok \in BOOLEAN, Answer(1, ok)
    PROVE  /\ pending' \in Seq(Saves)
           /\ reply' \in [Tabs -> Replies \cup {NoReply}]
<1>1. pending # <<>> /\ pending \in Seq(Saves) /\ pending[1] \in Saves
  BY DEF Turn, Types
<1>2. pending' \in Seq(Saves)
  BY <1>1, FirstRemoved DEF Answer
<1>3. [ok |-> ok, savedAt |-> IF ok THEN pending[1].savedAt ELSE NoTime] \in Replies
  BY <1>1 DEF Saves, Replies
<1>4. reply' \in [Tabs -> Replies \cup {NoReply}]
  BY <1>1, <1>3 DEF Answer, Types, Saves
<1>5. QED BY <1>2, <1>4

\* Every step keeps the types.
LEMMA TypesKept == Types /\ OneEach /\ [Next]_vars => Types'
<1> SUFFICES ASSUME Types, OneEach, [Next]_vars PROVE Types'
  OBVIOUS
<1>u. /\ file \in Records \cup {NoDoc}
      /\ clock \in Times
      /\ pending \in Seq(Saves)
      /\ reply \in [Tabs -> Replies \cup {NoReply}]
      /\ base \in [Tabs -> Docs \cup {NoDoc}]
      /\ last \in [Tabs -> Times \cup {NoTime}]
      /\ work \in [Tabs -> Seq(Docs)]
      /\ stepped \in [Tabs -> Actives \cup {NoDoc}]
      /\ opening \in [Tabs -> Openings \cup {NoDoc}]
  BY DEF Types
<1>a. Actives \subseteq Docs
  BY DEF Docs
<1> USE DEF Types
<1>1. ASSUME NEW t \in Tabs, NEW p \in Plans, SaveStep(t, p) PROVE Types'
  <2> DEFINE d == [state |-> "draft", plan |-> p]
  <2>1. d \in Docs
    BY DEF Docs, Drafts
  <2> HIDE DEF d
  <2>2. Persist(t, d) /\ base' = [base EXCEPT ![t] = d] /\ UNCHANGED <<server, reply, last, stepped, opening>>
    BY <1>1 DEF SaveStep, d
  <2>3. QED BY <1>u, <2>1, <2>2, PersistWork DEF server
<1>2. ASSUME NEW t \in Tabs, Activate(t) PROVE Types'
  <2> DEFINE d == [state |-> "active", plan |-> base[t].plan, events |-> <<>>, now |-> 0]
  <2>1. base[t] \in Drafts
    BY <1>2, <1>u, ActiveDocs DEF Activate, IsActive
  <2>2. <<>> \in BoundedSeq(Decisions, MaxEvents)
    <3>1. 0 \in 0 .. MaxEvents /\ <<>> \in [1 .. 0 -> Decisions]
      BY BoundsAssumption
    <3>2. QED BY <3>1 DEF BoundedSeq, SeqOf
  <2>3. d \in Docs
    BY <2>1, <2>2, BoundsAssumption DEF Docs, Actives, Drafts
  <2>4. Persist(t, d) /\ UNCHANGED <<server, reply, base, last, stepped, opening>>
    BY <1>2 DEF Activate
  <2> HIDE DEF d
  <2>5. QED BY <1>u, <2>3, <2>4, PersistWork DEF server
<1>3. ASSUME NEW t \in Tabs, NEW e \in Decisions, Decide(t, e) PROVE Types'
  <2> DEFINE d == [base[t] EXCEPT !.events = Append(@, e)]
  <2>1. base[t] \in Docs /\ IsActive(base[t]) /\ Len(base[t].events) < MaxEvents
    BY <1>3, <1>u, ActiveDocs, <1>a DEF Decide
  <2>2. d \in Docs
    BY <2>1, MadeDocs, <1>a
  <2>3. Persist(t, d) /\ UNCHANGED <<server, reply, base, last, stepped, opening>>
    BY <1>3 DEF Decide
  <2> HIDE DEF d
  <2>4. QED BY <1>u, <2>2, <2>3, PersistWork DEF server
<1>4. ASSUME NEW t \in Tabs, BeginStep(t) PROVE Types'
  <2> DEFINE d == [base[t] EXCEPT !.now = @ + 1]
  <2>1. base[t] \in Docs /\ IsActive(base[t]) /\ base[t].now < MaxNow
    BY <1>4, <1>u, ActiveDocs, <1>a DEF BeginStep
  <2>2. d \in Actives
    BY <2>1, MadeDocs
  <2>3. stepped' = [stepped EXCEPT ![t] = d] /\ UNCHANGED <<server, reply, base, last, work, opening>>
    BY <1>4 DEF BeginStep
  <2> HIDE DEF d
  <2>4. QED BY <1>u, <2>2, <2>3 DEF server
<1>5. ASSUME NEW t \in Tabs, EndStep(t) PROVE Types'
  <2>1. stepped[t] \in Docs
    BY <1>5, <1>u, <1>a DEF EndStep
  <2>2. work' \in [Tabs -> Seq(Docs)]
    BY <1>5, <1>u, <2>1, PersistWork DEF EndStep
  <2>3. QED BY <1>5, <1>u, <2>2 DEF EndStep, server
<1>6. ASSUME NEW t \in Tabs, Open(t) PROVE Types'
  <2>1. file \in Records
    BY <1>6, <1>u DEF Open
  <2>2. [savedAt |-> file.savedAt, doc |-> file.doc, applying |-> FALSE] \in Openings
    BY <2>1 DEF Records, Openings
  <2>3. QED BY <1>6, <1>u, <2>2 DEF Open, server
<1>7. ASSUME NEW t \in Tabs, Apply(t) PROVE Types'
  <2>1. opening[t] \in Openings
    BY <1>7, <1>u DEF Apply
  <2>2. [opening[t] EXCEPT !.applying = TRUE] \in Openings /\ opening[t].savedAt \in Times
    BY <2>1 DEF Openings
  <2>3. QED BY <1>7, <1>u, <2>2 DEF Apply, server
<1>8. ASSUME NEW t \in Tabs, Opened(t) PROVE Types'
  <2>1. opening[t] \in Openings
    BY <1>8, <1>u DEF Opened, Resuming
  <2>2. opening[t].doc \in Docs
    BY <2>1 DEF Openings
  <2>3. QED BY <1>8, <1>u, <2>2 DEF Opened, server
<1>9. ASSUME NEW t \in Tabs, Send(t) PROVE Types'
  <2>1. Head(work[t]) \in Docs
    BY <1>9, <1>u DEF Send
  <2>2. [tab |-> t, doc |-> Head(work[t]), expected |-> last[t],
         savedAt |-> clock, heard |-> TRUE, checked |-> FALSE] \in Saves
    BY <2>1, <1>u DEF Saves
  <2>3. pending' \in Seq(Saves)
    BY <1>9, <1>u, <2>2 DEF Send
  <2>4. QED BY <1>9, <1>u, <2>3 DEF Send, tab
<1>10. ASSUME NEW t \in Tabs, Receive(t), work[t] # <<>> PROVE Types'
  <2>1. reply[t] \in Replies /\ Head(work[t]) \in Docs /\ Tail(work[t]) \in Seq(Docs)
    BY <1>10, <1>u DEF Receive
  <2>2. last' \in [Tabs -> Times \cup {NoTime}]
    BY <1>10, <1>u, <2>1 DEF Receive, Replies
  <2>3. base' \in [Tabs -> Docs \cup {NoDoc}]
    BY <1>10, <1>u, <2>1 DEF Receive
  <2>4. work' \in [Tabs -> Seq(Docs)]
    BY <1>10, <1>u, <2>1 DEF Receive
  <2>5. reply' \in [Tabs -> Replies \cup {NoReply}]
    BY <1>10, <1>u DEF Receive
  <2>6. UNCHANGED <<file, clock, pending, stepped, opening>>
    BY <1>10 DEF Receive, server
  <2>7. QED BY <1>u, <2>2, <2>3, <2>4, <2>5, <2>6
<1>11. ASSUME NEW t \in Tabs, Disconnect(t) PROVE Types'
  <2>1. Tail(work[t]) \in Seq(Docs)
    BY <1>11, <1>u DEF Disconnect
  <2>2. pending' \in Seq(Saves)
    <3>1. ASSUME NEW i \in DOMAIN pending PROVE [pending[i] EXCEPT !.heard = FALSE] \in Saves
      <4>1. pending[i] \in Saves
        BY <1>u
      <4>2. QED BY <4>1 DEF Saves
    <3>2. pending' = [i \in 1 .. Len(pending) |->
             IF pending[i].tab = t THEN [pending[i] EXCEPT !.heard = FALSE] ELSE pending[i]]
      BY <1>11, <1>u DEF Disconnect
    <3>3. QED BY <1>u, <3>1, <3>2, IsASeq
  <2>3. work' \in [Tabs -> Seq(Docs)] /\ reply' \in [Tabs -> Replies \cup {NoReply}]
    BY <1>11, <1>u, <2>1 DEF Disconnect
  <2>4. UNCHANGED <<file, clock, base, last, stepped, opening>>
    BY <1>11 DEF Disconnect
  <2>5. QED BY <1>u, <2>2, <2>3, <2>4
<1>12. ASSUME NEW i \in DOMAIN pending, Check(i) PROVE Types'
  <2>1. i = 1 /\ Turn(1) /\ UNCHANGED <<file, clock, base, last, work, stepped, opening>>
    BY <1>12 DEF Check, Turn, tab
  <2>2. CASE Answer(1, FALSE)
    BY <1>u, <2>1, <2>2, AnswerTypes
  <2>3. CASE pending' = [pending EXCEPT ![1].checked = TRUE] /\ UNCHANGED reply
    <3>1. pending[1] \in Saves /\ 1 \in DOMAIN pending
      BY <1>12, <1>u, <2>1
    <3>2. [pending[1] EXCEPT !.checked = TRUE] \in Saves
      BY <3>1 DEF Saves
    <3>3. pending' \in Seq(Saves)
      BY <1>u, <2>3, <3>1, <3>2, ExceptSeq
    <3>4. QED BY <1>u, <2>1, <2>3, <3>3
  <2>4. QED BY <1>12, <2>1, <2>2, <2>3 DEF Check
<1>13. ASSUME NEW i \in DOMAIN pending, Write(i) PROVE Types'
  <2>1. i = 1 /\ Turn(1) /\ Answer(1, TRUE) /\ UNCHANGED <<clock, base, last, work, stepped, opening>>
    BY <1>13 DEF Write, Turn, tab
  <2>2. pending[1] \in Saves
    BY <1>13, <1>u, <2>1
  <2>3. file' \in Records
    BY <1>13, <2>1, <2>2 DEF Write, Records, Saves
  <2>4. QED BY <1>u, <2>1, <2>3, AnswerTypes
<1>14. ASSUME NEW i \in DOMAIN pending, WriteFails(i) PROVE Types'
  <2>1. i = 1 /\ Turn(1) /\ Answer(1, FALSE) /\ UNCHANGED <<file, clock, base, last, work, stepped, opening>>
    BY <1>14 DEF WriteFails, Turn, tab
  <2>2. QED BY <1>u, <2>1, AnswerTypes
<1>15. ASSUME Restart PROVE Types'
  <2>1. [ok |-> FALSE, savedAt |-> NoTime] \in Replies
    BY DEF Replies
  <2>2. pending' \in Seq(Saves) /\ reply' \in [Tabs -> Replies \cup {NoReply}]
    BY <1>15, <1>u, <2>1 DEF Restart
  <2>3. UNCHANGED <<file, clock, base, last, work, stepped, opening>>
    BY <1>15 DEF Restart, tab
  <2>4. QED BY <1>u, <2>2, <2>3
<1>16. ASSUME NEW c \in Times, SetClock(c) PROVE Types'
  BY <1>16, <1>u DEF SetClock, tab
<1>17. ASSUME UNCHANGED vars PROVE Types'
  BY <1>17, <1>u DEF vars, server, tab
<1>18. QED
  BY <1>1, <1>2, <1>3, <1>4, <1>5, <1>6, <1>7, <1>8, <1>9, <1>10, <1>11, <1>12, <1>13,
     <1>14, <1>15, <1>16, <1>17 DEF Next, OneEach, Receive

-----------------------------------------------------------------------------
\* The steps that neither touch the file nor the chain of the server.
LEMMA TabSteps ==
    ASSUME NEW t \in Tabs,
           \/ \E p \in Plans : SaveStep(t, p)
           \/ \E e \in Decisions : Decide(t, e)
           \/ Activate(t) \/ BeginStep(t) \/ EndStep(t) \/ Open(t) \/ Apply(t)
           \/ Opened(t) \/ Receive(t)
    PROVE  UNCHANGED <<file, pending>>
BY DEF SaveStep, Decide, Activate, BeginStep, EndStep, Open, Apply, Opened, Receive, server

\* How the first save leaves the chain.
LEMMA AnswerChain ==
    ASSUME Types, Turn(1), NEW ok, Answer(1, ok)
    PROVE  /\ 1 \in DOMAIN pending
           /\ \A i \in DOMAIN pending' : i \in Nat \ {0} /\ i + 1 \in DOMAIN pending /\ pending'[i] = pending[i + 1]
<1>1. pending # <<>> /\ pending \in Seq(Saves)
  BY DEF Turn, Types
<1>2. QED BY <1>1, FirstRemoved DEF Answer

\* Every step keeps the server's saves in order: only the first is checked,
\* and no step changes the file between its check and its write.
LEMMA SerialisedKept == Types /\ Serialised /\ [Next]_vars => Serialised'
<1> SUFFICES ASSUME Types, Serialised, [Next]_vars PROVE Serialised'
  OBVIOUS
<1>u. pending \in Seq(Saves)
  BY DEF Types
<1>1. ASSUME UNCHANGED <<file, pending>> PROVE Serialised'
  BY <1>1 DEF Serialised, Accepts
<1>2. ASSUME NEW t \in Tabs, Send(t) PROVE Serialised'
  <2> DEFINE r == [tab |-> t, doc |-> Head(work[t]), expected |-> last[t],
                   savedAt |-> clock, heard |-> TRUE, checked |-> FALSE]
  <2>1. pending' = Append(pending, r) /\ file' = file
    BY <1>2 DEF Send
  <2>2. ~r.checked
    OBVIOUS
  <2> HIDE DEF r
  <2>3. \A i \in DOMAIN pending' : pending'[i].checked => i \in DOMAIN pending /\ pending'[i] = pending[i]
    BY <1>u, <2>1, <2>2
  <2>4. QED BY <2>1, <2>3 DEF Serialised, Accepts
<1>3. ASSUME NEW t \in Tabs, Disconnect(t) PROVE Serialised'
  <2>1. file' = file /\ DOMAIN pending' = DOMAIN pending
    BY <1>3 DEF Disconnect
  <2>2. ASSUME NEW i \in DOMAIN pending
        PROVE  /\ pending'[i].checked = pending[i].checked
               /\ pending'[i].expected = pending[i].expected
               /\ pending'[i].savedAt = pending[i].savedAt
               /\ pending'[i].doc = pending[i].doc
    <3>1. pending[i] \in Saves
      BY <1>u
    <3>2. pending'[i] = IF pending[i].tab = t THEN [pending[i] EXCEPT !.heard = FALSE] ELSE pending[i]
      BY <1>3 DEF Disconnect
    <3>3. QED BY <3>1, <3>2 DEF Saves
  <2>3. QED BY <2>1, <2>2 DEF Serialised, Accepts
<1>4. ASSUME Turn(1), NEW ok, Answer(1, ok) PROVE Serialised'
  <2>1. \A i \in DOMAIN pending' : ~pending'[i].checked
    <3> SUFFICES ASSUME NEW i \in DOMAIN pending' PROVE ~pending'[i].checked
      OBVIOUS
    <3>1. i \in Nat \ {0} /\ i + 1 \in DOMAIN pending /\ pending'[i] = pending[i + 1]
      BY <1>4, AnswerChain
    <3>2. QED BY <3>1 DEF Serialised
  <2>2. QED BY <2>1 DEF Serialised
<1>5. ASSUME NEW i \in DOMAIN pending, Check(i) PROVE Serialised'
  <2>1. i = 1 /\ Turn(1) /\ file' = file
    BY <1>5 DEF Check, Turn
  <2>2. CASE Answer(1, FALSE)
    BY <2>1, <2>2, <1>4
  <2>3. CASE Accepts(pending[1]) /\ pending' = [pending EXCEPT ![1].checked = TRUE]
    <3>1. DOMAIN pending' = DOMAIN pending /\ \A k \in DOMAIN pending : k # 1 => pending'[k] = pending[k]
      BY <2>3
    <3>2. pending[1] \in Saves /\ pending'[1] = [pending[1] EXCEPT !.checked = TRUE]
      BY <1>5, <1>u, <2>1, <2>3
    <3>3. /\ pending'[1].expected = pending[1].expected
          /\ pending'[1].savedAt = pending[1].savedAt
          /\ pending'[1].doc = pending[1].doc
      BY <3>2 DEF Saves
    <3>4. Accepts(pending[1])' <=> Accepts(pending[1])
      BY <2>1, <3>3 DEF Accepts
    <3>5. \A k \in DOMAIN pending : k # 1 => ~pending[k].checked
      BY DEF Serialised
    <3>6. QED BY <2>3, <3>1, <3>4, <3>5 DEF Serialised
  <2>4. QED BY <1>5, <2>1, <2>2, <2>3 DEF Check
<1>6. ASSUME NEW i \in DOMAIN pending, Write(i) \/ WriteFails(i) PROVE Serialised'
  BY <1>4, <1>6 DEF Write, WriteFails, Turn
<1>7. ASSUME Restart PROVE Serialised'
  BY <1>7 DEF Restart, Serialised
<1>8. ASSUME NEW c \in Times, SetClock(c) PROVE Serialised'
  BY <1>1, <1>8 DEF SetClock
<1>9. ASSUME UNCHANGED vars PROVE Serialised'
  BY <1>1, <1>9 DEF vars, server
<1>10. QED
  BY <1>1, <1>2, <1>3, <1>5, <1>6, <1>7, <1>8, <1>9, TabSteps DEF Next

-----------------------------------------------------------------------------
\* Every step keeps the tabs and the saves they await together.
LEMMA OneEachKept == Types /\ OneEach /\ [Next]_vars => OneEach'
<1> SUFFICES ASSUME Types, OneEach, [Next]_vars PROVE OneEach'
  OBVIOUS
<1>u. /\ pending \in Seq(Saves) /\ work \in [Tabs -> Seq(Docs)]
      /\ reply \in [Tabs -> Replies \cup {NoReply}]
  BY DEF Types
<1>1. ASSUME UNCHANGED <<pending, reply>>,
             \A t \in Tabs : work[t] # <<>> => work'[t] # <<>> /\ Head(work'[t]) = Head(work[t])
      PROVE  OneEach'
  BY <1>1 DEF OneEach, Heard
<1>2. ASSUME NEW t \in Tabs, NEW d, Persist(t, d), UNCHANGED <<pending, reply>>
      PROVE  OneEach'
  BY <1>1, <1>2, <1>u, PersistHead
<1>3. ASSUME NEW t \in Tabs, Send(t) PROVE OneEach'
  <2> DEFINE r == [tab |-> t, doc |-> Head(work[t]), expected |-> last[t],
                   savedAt |-> clock, heard |-> TRUE, checked |-> FALSE]
             n == Len(pending) + 1
  <2>1. pending' = Append(pending, r) /\ UNCHANGED <<reply, work>> /\ ~Waiting(t) /\ work[t] # <<>>
    BY <1>3 DEF Send, tab
  <2>2. r.tab = t /\ r.heard /\ r.doc = Head(work[t])
    OBVIOUS
  <2> HIDE DEF r
  <2>3. /\ DOMAIN pending' = 1 .. n /\ DOMAIN pending = 1 .. n - 1 /\ n \in Nat
        /\ pending'[n] = r /\ \A i \in 1 .. n - 1 : pending'[i] = pending[i]
    BY <1>u, <2>1
  <2> HIDE DEF n
  <2>4. Heard(t) = {} /\ reply[t] = NoReply
    BY <2>1 DEF Waiting, Heard
  <2>5. \A i \in Heard(t)' : i = n
    <3> SUFFICES ASSUME NEW i \in DOMAIN pending', pending'[i].tab = t, pending'[i].heard, i # n
                 PROVE  FALSE
      BY DEF Heard
    <3>1. i \in DOMAIN pending /\ pending'[i] = pending[i]
      BY <2>3
    <3>2. QED BY <2>4, <3>1 DEF Heard
  <2>6. \A u \in Tabs \ {t} : Heard(u)' = Heard(u) /\ \A i \in Heard(u) : pending'[i] = pending[i]
    BY <2>2, <2>3 DEF Heard
  <2>7. /\ \A i, k \in Heard(t)' : i = k
        /\ reply'[t] = NoReply
        /\ \A i \in Heard(t)' : work'[t] # <<>> /\ pending'[i].doc = Head(work'[t])
    BY <2>1, <2>2, <2>3, <2>4, <2>5
  <2>8. ASSUME NEW u \in Tabs \ {t}
        PROVE  /\ \A i, k \in Heard(u)' : i = k
               /\ reply'[u] # NoReply => Heard(u)' = {} /\ work'[u] # <<>>
               /\ \A i \in Heard(u)' : work'[u] # <<>> /\ pending'[i].doc = Head(work'[u])
    <3>1. /\ Heard(u)' = Heard(u) /\ reply'[u] = reply[u] /\ work'[u] = work[u]
          /\ \A i \in Heard(u) : pending'[i] = pending[i]
      BY <2>1, <2>6
    <3>2. /\ \A i, k \in Heard(u) : i = k
          /\ reply[u] # NoReply => Heard(u) = {} /\ work[u] # <<>>
          /\ \A i \in Heard(u) : work[u] # <<>> /\ pending[i].doc = Head(work[u])
      BY DEF OneEach
    <3>3. QED BY <3>1, <3>2
  <2>9. QED BY <2>7, <2>8 DEF OneEach
<1>4. ASSUME NEW t \in Tabs, Receive(t) PROVE OneEach'
  <2>1. pending' = pending /\ Heard(t) = {} /\ reply'[t] = NoReply
    BY <1>4, <1>u DEF Receive, server, OneEach
  <2>2. \A u \in Tabs \ {t} : reply'[u] = reply[u] /\ work'[u] = work[u]
    BY <1>4, <1>u DEF Receive
  <2>3. QED BY <2>1, <2>2 DEF OneEach, Heard
<1>5. ASSUME NEW t \in Tabs, Disconnect(t) PROVE OneEach'
  <2>1. DOMAIN pending' = DOMAIN pending
    BY <1>5 DEF Disconnect
  <2>2. ASSUME NEW i \in DOMAIN pending
        PROVE  /\ pending'[i].tab = pending[i].tab /\ pending'[i].doc = pending[i].doc
               /\ pending[i].tab = t => ~pending'[i].heard
               /\ pending[i].tab # t => pending'[i].heard = pending[i].heard
    <3>1. pending[i] \in Saves
      BY <1>u
    <3>2. pending'[i] = IF pending[i].tab = t THEN [pending[i] EXCEPT !.heard = FALSE] ELSE pending[i]
      BY <1>5 DEF Disconnect
    <3>3. QED BY <3>1, <3>2 DEF Saves
  <2>3. Heard(t)' = {} /\ \A u \in Tabs \ {t} : Heard(u)' = Heard(u)
    BY <2>1, <2>2 DEF Heard
  <2>4. reply'[t] = NoReply /\ \A u \in Tabs \ {t} : reply'[u] = reply[u] /\ work'[u] = work[u]
    BY <1>5, <1>u DEF Disconnect
  <2>5. \A u \in Tabs : \A i \in Heard(u) : pending'[i].doc = pending[i].doc
    BY <2>2 DEF Heard
  <2>6. QED BY <2>3, <2>4, <2>5 DEF OneEach
<1>6. ASSUME Turn(1), NEW ok \in BOOLEAN, Answer(1, ok), UNCHANGED work PROVE OneEach'
  <2> DEFINE r == pending[1]
  <2>1. 1 \in DOMAIN pending /\ r \in Saves
    BY <1>6, <1>u, AnswerChain
  <2>2. ASSUME NEW u \in Tabs, NEW i \in Heard(u)'
        PROVE  i + 1 \in Heard(u) /\ i \in Nat \ {0} /\ pending'[i].doc = pending[i + 1].doc
    BY <1>6, AnswerChain DEF Heard
  <2>3. ASSUME NEW u \in Tabs, r.heard, r.tab = u PROVE Heard(u)' = {} /\ work[u] # <<>>
    <3>1. 1 \in Heard(u)
      BY <2>1, <2>3 DEF Heard
    <3>2. \A i \in Heard(u) : i = 1
      BY <3>1 DEF OneEach
    <3>3. \A i \in Heard(u)' : FALSE
      BY <2>2, <3>2
    <3>4. QED BY <3>1, <3>3 DEF OneEach
  <2>4. ASSUME NEW u \in Tabs, ~(r.heard /\ r.tab = u) PROVE reply'[u] = reply[u]
    BY <1>6, <1>u, <2>1, <2>4 DEF Answer, Saves
  <2>5. ASSUME NEW u \in Tabs PROVE \A i, k \in Heard(u)' : i = k
    BY <2>2 DEF OneEach
  <2>6. ASSUME NEW u \in Tabs, reply'[u] # NoReply PROVE Heard(u)' = {} /\ work'[u] # <<>>
    <3>1. CASE r.heard /\ r.tab = u
      BY <1>6, <2>3, <3>1
    <3>2. CASE ~(r.heard /\ r.tab = u)
      <4>1. Heard(u) = {} /\ work[u] # <<>>
        BY <2>4, <2>6, <3>2 DEF OneEach
      <4>2. Heard(u)' = {}
        BY <2>2, <4>1
      <4>3. QED BY <1>6, <4>1, <4>2
    <3>3. QED BY <3>1, <3>2
  <2>7. ASSUME NEW u \in Tabs, NEW i \in Heard(u)' PROVE work'[u] # <<>> /\ pending'[i].doc = Head(work'[u])
    BY <1>6, <2>2 DEF OneEach
  <2>8. QED BY <2>5, <2>6, <2>7 DEF OneEach
<1>7. ASSUME NEW i \in DOMAIN pending, Check(i) PROVE OneEach'
  <2>1. i = 1 /\ Turn(1) /\ UNCHANGED work
    BY <1>7 DEF Check, Turn, tab
  <2>2. CASE Answer(1, FALSE)
    BY <2>1, <2>2, <1>6
  <2>3. CASE pending' = [pending EXCEPT ![1].checked = TRUE] /\ UNCHANGED reply
    <3>1. DOMAIN pending' = DOMAIN pending /\ \A k \in DOMAIN pending : k # 1 => pending'[k] = pending[k]
      BY <2>3
    <3>2. pending[1] \in Saves /\ pending'[1] = [pending[1] EXCEPT !.checked = TRUE]
      BY <1>7, <1>u, <2>1, <2>3
    <3>3. pending'[1].tab = pending[1].tab /\ pending'[1].doc = pending[1].doc /\ pending'[1].heard = pending[1].heard
      BY <3>2 DEF Saves
    <3>4. QED BY <2>1, <2>3, <3>1, <3>3 DEF OneEach, Heard
  <2>4. QED BY <1>7, <2>1, <2>2, <2>3 DEF Check
<1>8. ASSUME NEW i \in DOMAIN pending, Write(i) \/ WriteFails(i) PROVE OneEach'
  BY <1>6, <1>8 DEF Write, WriteFails, Turn, tab
<1>9. ASSUME Restart PROVE OneEach'
  <2>1. pending' = <<>> /\ UNCHANGED work
    BY <1>9 DEF Restart, tab
  <2>2. \A u \in Tabs : Heard(u)' = {}
    BY <2>1 DEF Heard
  <2>3. ASSUME NEW u \in Tabs, reply'[u] # NoReply PROVE work[u] # <<>>
    <3>1. CASE \E i \in DOMAIN pending : pending[i].tab = u /\ pending[i].heard
      BY <3>1 DEF OneEach, Heard
    <3>2. CASE ~\E i \in DOMAIN pending : pending[i].tab = u /\ pending[i].heard
      <4>1. reply'[u] = reply[u]
        BY <1>9, <3>2 DEF Restart
      <4>2. QED BY <2>3, <4>1 DEF OneEach
    <3>3. QED BY <3>1, <3>2
  <2>4. QED BY <2>1, <2>2, <2>3 DEF OneEach
<1>10. ASSUME NEW t \in Tabs,
              \/ \E p \in Plans : SaveStep(t, p)
              \/ \E e \in Decisions : Decide(t, e)
              \/ Activate(t) \/ EndStep(t)
      PROVE OneEach'
  <2>1. UNCHANGED <<pending, reply>>
    BY <1>10 DEF SaveStep, Decide, Activate, EndStep, server
  <2>2. UNCHANGED work \/ \E d : Persist(t, d)
    BY <1>10 DEF SaveStep, Decide, Activate, EndStep
  <2>3. QED BY <1>1, <1>2, <2>1, <2>2
<1>11. ASSUME NEW t \in Tabs, BeginStep(t) \/ Open(t) \/ Apply(t) \/ Opened(t) PROVE OneEach'
  <2>1. UNCHANGED <<pending, reply, work>>
    BY <1>11 DEF BeginStep, Open, Apply, Opened, server
  <2>2. QED BY <1>1, <2>1
<1>12. ASSUME NEW c \in Times, SetClock(c) PROVE OneEach'
  BY <1>1, <1>12 DEF SetClock, tab
<1>13. ASSUME UNCHANGED vars PROVE OneEach'
  BY <1>1, <1>13 DEF vars, server, tab
<1>14. QED
  BY <1>3, <1>4, <1>5, <1>7, <1>8, <1>9, <1>10, <1>11, <1>12, <1>13 DEF Next

-----------------------------------------------------------------------------
\* The file changes only by a write that is still accepted when it happens.
LEMMA FileStep ==
    IInv /\ [Next]_vars =>
        \/ UNCHANGED file
        \/ \E i \in DOMAIN pending :
              Write(i) /\ i = 1 /\ Accepts(pending[1]) /\ pending[1] \in Saves /\ file' \in Records
<1> SUFFICES ASSUME IInv, [Next]_vars,
                    ~UNCHANGED file
             PROVE  \E i \in DOMAIN pending :
                       Write(i) /\ i = 1 /\ Accepts(pending[1]) /\ pending[1] \in Saves /\ file' \in Records
  OBVIOUS
<1>1. PICK i \in DOMAIN pending : Write(i)
  <2>1. ASSUME NEW t \in Tabs, Send(t) \/ Disconnect(t) PROVE UNCHANGED file
    BY <2>1 DEF Send, Disconnect
  <2>2. ASSUME NEW i \in DOMAIN pending, Check(i) \/ WriteFails(i) PROVE UNCHANGED file
    BY <2>2 DEF Check, WriteFails
  <2>3. ASSUME Restart \/ (\E c \in Times : SetClock(c)) \/ UNCHANGED vars PROVE UNCHANGED file
    BY <2>3 DEF Restart, SetClock, vars, server
  <2>4. QED
    BY <2>1, <2>2, <2>3, TabSteps DEF Next
<1>2. i = 1 /\ Accepts(pending[1])
  BY <1>1 DEF Write, IInv, Serialised
<1>3. pending[1] \in Saves
  BY <1>1, <1>2 DEF IInv, Types
<1>4. file' \in Records
  BY <1>1, <1>2, <1>3 DEF Write, Saves, Records
<1>5. QED
  BY <1>1, <1>2, <1>3, <1>4

\* A step of the file leads from its document to one that goes on from it.
LEMMA FileGrows ==
    ASSUME IInv, [Next]_vars, file # NoDoc, IsActive(file.doc)
    PROVE  file' # NoDoc /\ file.doc \in Actives /\ GoesOn(file.doc, file'.doc)
<1>1. file \in Records /\ file.doc \in Docs
  BY DEF IInv, Types, Records
<1>2. file.doc \in Actives
  BY <1>1, ActiveDocs
<1>3. CASE UNCHANGED file
  BY <1>2, <1>3, GoesOnReflexive
<1>4. CASE ~UNCHANGED file
  <2>1. PICK i \in DOMAIN pending :
           Write(i) /\ i = 1 /\ Accepts(pending[1]) /\ pending[1] \in Saves /\ file' \in Records
    BY <1>4, FileStep
  <2>2. Ledger!Continues(file.doc, pending[1].doc) /\ pending[1].doc \in Docs
    BY <2>1 DEF Accepts, Saves
  <2>3. file'.doc = pending[1].doc /\ file' # NoDoc
    BY <2>1, NoDocAssumption DEF Write
  <2>4. QED
    BY <1>1, <1>2, <2>2, <2>3, ContinuesMeans
<1>5. QED BY <1>3, <1>4

\* What is kept by the file is kept by the next one.
LEMMA KeptOn ==
    ASSUME NEW d, IInv, [Next]_vars, Kept(d)
    PROVE  IsActive(d) => file' # NoDoc /\ GoesOn(d, file'.doc)
<1> SUFFICES ASSUME IsActive(d) PROVE file' # NoDoc /\ GoesOn(d, file'.doc)
  OBVIOUS
<1>1. file # NoDoc /\ GoesOn(d, file.doc)
  BY DEF Kept
<1>2. file.doc \in Actives
  BY <1>1 DEF GoesOn
<1>3. IsActive(file.doc)
  BY <1>2, ActiveDocs, NoDocAssumption DEF Docs
<1>4. QED
  BY <1>1, <1>3, FileGrows, GoesOnTransitive

-----------------------------------------------------------------------------
\* What the steps have to show: the documents a tab shows, is opening, or has
\* been told are saved were kept before, or are the file's own.
LEMMA AllKeptFrom ==
    ASSUME IInv, [Next]_vars,
           \A t \in Tabs :
              /\ IsActive(base'[t]) => Kept(base'[t])
              /\ opening'[t] # NoDoc => Kept(opening'[t].doc)
              /\ reply'[t] # NoReply /\ reply'[t].ok => Kept(Head(work'[t]))
    PROVE  AllKept'
<1>1. ASSUME NEW t \in Tabs
      PROVE  /\ IsActive(base'[t]) => file' # NoDoc /\ GoesOn(base'[t], file'.doc)
             /\ opening'[t] # NoDoc =>
                   (IsActive(opening'[t].doc) => file' # NoDoc /\ GoesOn(opening'[t].doc, file'.doc))
             /\ reply'[t] # NoReply /\ reply'[t].ok =>
                   (IsActive(Head(work'[t])) => file' # NoDoc /\ GoesOn(Head(work'[t]), file'.doc))
  <2>1. IsActive(base'[t]) => file' # NoDoc /\ GoesOn(base'[t], file'.doc)
    BY KeptOn
  <2>2. opening'[t] # NoDoc =>
           (IsActive(opening'[t].doc) => file' # NoDoc /\ GoesOn(opening'[t].doc, file'.doc))
    BY KeptOn
  <2>3. reply'[t] # NoReply /\ reply'[t].ok =>
           (IsActive(Head(work'[t])) => file' # NoDoc /\ GoesOn(Head(work'[t]), file'.doc))
    BY KeptOn
  <2>4. QED BY <2>1, <2>2, <2>3
<1>2. QED
  BY <1>1 DEF AllKept, Kept, IsActive, GoesOn

\* Every step keeps what the tabs rely on.
LEMMA AllKeptKept == IInv /\ [Next]_vars => AllKept'
<1> SUFFICES ASSUME IInv, [Next]_vars PROVE AllKept'
  OBVIOUS
<1>u. /\ pending \in Seq(Saves) /\ work \in [Tabs -> Seq(Docs)]
      /\ reply \in [Tabs -> Replies \cup {NoReply}]
      /\ base \in [Tabs -> Docs \cup {NoDoc}]
      /\ opening \in [Tabs -> Openings \cup {NoDoc}]
  BY DEF IInv, Types
<1>k. \A t \in Tabs :
         /\ Kept(base[t])
         /\ opening[t] # NoDoc => Kept(opening[t].doc)
         /\ reply[t] # NoReply /\ reply[t].ok => Kept(Head(work[t]))
  BY DEF IInv, AllKept
<1>w. \A t \in Tabs : reply[t] # NoReply => work[t] # <<>>
  BY DEF IInv, OneEach
<1>1. ASSUME UNCHANGED <<base, opening>>,
             \A t \in Tabs : reply'[t] # NoReply /\ reply'[t].ok =>
                reply[t] # NoReply /\ reply[t].ok /\ Head(work'[t]) = Head(work[t])
      PROVE  AllKept'
  BY <1>1, <1>k, AllKeptFrom
<1>2. ASSUME NEW t \in Tabs, NEW p \in Plans, SaveStep(t, p) PROVE AllKept'
  <2> DEFINE d == [state |-> "draft", plan |-> p]
  <2>1. ~IsActive(d)
    BY DEF IsActive
  <2> HIDE DEF d
  <2>2. Persist(t, d) /\ base' = [base EXCEPT ![t] = d] /\ UNCHANGED <<reply, opening>>
    BY <1>2 DEF SaveStep, d
  <2>3. \A u \in Tabs : IsActive(base'[u]) => Kept(base'[u])
    BY <1>u, <1>k, <2>1, <2>2
  <2>4. \A u \in Tabs : work[u] # <<>> => Head(work'[u]) = Head(work[u])
    BY <1>u, <2>2, PersistHead
  <2>5. QED BY <1>k, <1>w, <2>2, <2>3, <2>4, AllKeptFrom
<1>3. ASSUME NEW t \in Tabs, Activate(t) \/ BeginStep(t) \/ EndStep(t) \/ \E e \in Decisions : Decide(t, e)
      PROVE  AllKept'
  <2>1. UNCHANGED <<base, opening, reply>>
    BY <1>3 DEF Activate, BeginStep, EndStep, Decide
  <2>2. UNCHANGED work \/ \E d : Persist(t, d)
    BY <1>3 DEF Activate, BeginStep, EndStep, Decide
  <2>3. \A u \in Tabs : work[u] # <<>> => Head(work'[u]) = Head(work[u])
    BY <1>u, <2>2, PersistHead
  <2>4. QED BY <1>1, <1>w, <2>1, <2>3
<1>4. ASSUME NEW t \in Tabs, Open(t) PROVE AllKept'
  <2>1. UNCHANGED <<base, reply, work>> /\ file # NoDoc
    BY <1>4 DEF Open
  <2>2. opening'[t].doc = file.doc /\ \A u \in Tabs \ {t} : opening'[u] = opening[u]
    BY <1>4, <1>u DEF Open
  <2>3. file.doc \in Docs
    BY <2>1 DEF IInv, Types, Records
  <2>4. Kept(file.doc)
    BY <2>1, <2>3, ActiveDocs, GoesOnReflexive DEF Kept
  <2>5. \A u \in Tabs : opening'[u] # NoDoc => Kept(opening'[u].doc)
    BY <1>k, <2>2, <2>4
  <2>6. QED BY <1>k, <2>1, <2>5, AllKeptFrom
<1>5. ASSUME NEW t \in Tabs, Apply(t) PROVE AllKept'
  <2>1. UNCHANGED <<base, reply, work>>
    BY <1>5 DEF Apply
  <2>2. opening[t] \in Openings /\ opening[t] # NoDoc
    BY <1>5, <1>u DEF Apply
  <2>3. opening'[t].doc = opening[t].doc /\ \A u \in Tabs \ {t} : opening'[u] = opening[u]
    BY <1>5, <1>u, <2>2 DEF Apply, Openings
  <2>4. QED BY <1>k, <2>1, <2>2, <2>3, AllKeptFrom
<1>6. ASSUME NEW t \in Tabs, Opened(t) PROVE AllKept'
  <2>1. UNCHANGED <<reply, work>> /\ opening[t] # NoDoc
    BY <1>6 DEF Opened, Resuming
  <2>2. \A u \in Tabs : Kept(base'[u])
    BY <1>6, <1>u, <1>k, <2>1 DEF Opened
  <2>3. opening'[t] = NoDoc /\ \A u \in Tabs \ {t} : opening'[u] = opening[u]
    BY <1>6, <1>u DEF Opened
  <2>4. QED BY <1>k, <2>1, <2>2, <2>3, AllKeptFrom
<1>7. ASSUME NEW t \in Tabs, Send(t) PROVE AllKept'
  <2>1. UNCHANGED <<base, opening, reply, work>>
    BY <1>7 DEF Send, tab
  <2>2. QED BY <1>1, <2>1
<1>8. ASSUME NEW t \in Tabs, Receive(t) PROVE AllKept'
  <2>1. \A u \in Tabs : Kept(base'[u])
    BY <1>8, <1>u, <1>k DEF Receive
  <2>2. reply'[t] = NoReply /\ opening' = opening
    BY <1>8, <1>u DEF Receive
  <2>3. \A u \in Tabs \ {t} : reply'[u] = reply[u] /\ work'[u] = work[u]
    BY <1>8, <1>u DEF Receive
  <2>4. QED BY <1>k, <2>1, <2>2, <2>3, AllKeptFrom
<1>9. ASSUME NEW t \in Tabs, Disconnect(t) PROVE AllKept'
  <2>1. UNCHANGED <<base, opening>> /\ reply'[t] = NoReply
    BY <1>9, <1>u DEF Disconnect
  <2>2. \A u \in Tabs \ {t} : reply'[u] = reply[u] /\ work'[u] = work[u]
    BY <1>9, <1>u DEF Disconnect
  <2>3. QED BY <1>1, <2>1, <2>2
<1>10. ASSUME Turn(1), Answer(1, FALSE), UNCHANGED <<base, opening, work>> PROVE AllKept'
  <2>1. \A u \in Tabs : reply'[u] # NoReply /\ reply'[u].ok => reply'[u] = reply[u]
    BY <1>10, <1>u DEF Answer
  <2>2. QED BY <1>1, <1>10, <2>1
<1>11. ASSUME NEW i \in DOMAIN pending, Check(i) PROVE AllKept'
  <2>1. i = 1 /\ Turn(1) /\ UNCHANGED <<base, opening, work>>
    BY <1>11 DEF Check, Turn, tab
  <2>2. CASE Answer(1, FALSE)
    BY <1>10, <2>1, <2>2
  <2>3. CASE UNCHANGED reply
    BY <1>1, <2>1, <2>3
  <2>4. QED BY <1>11, <2>1, <2>2, <2>3 DEF Check
<1>12. ASSUME NEW i \in DOMAIN pending, Write(i) PROVE AllKept'
  <2>1. i = 1 /\ Turn(1) /\ Answer(1, TRUE) /\ UNCHANGED <<base, opening, work>> /\ 1 \in DOMAIN pending
    BY <1>12 DEF Write, Turn, tab
  <2>2. pending[1] \in Saves
    BY <1>u, <2>1
  <2>3. file'.doc = pending[1].doc /\ file' # NoDoc
    <3>1. file' \in Records
      BY <1>12, <2>1, <2>2 DEF Write, Records, Saves
    <3>2. QED BY <1>12, <2>1, <3>1, NoDocAssumption DEF Write
  <2>4. ASSUME NEW u \in Tabs
        PROVE  /\ IsActive(base'[u]) => file' # NoDoc /\ GoesOn(base'[u], file'.doc)
               /\ opening'[u] # NoDoc =>
                     (IsActive(opening'[u].doc) => file' # NoDoc /\ GoesOn(opening'[u].doc, file'.doc))
    BY <1>k, <2>1, KeptOn
  <2>5. ASSUME NEW u \in Tabs, reply'[u] # NoReply, reply'[u].ok, IsActive(Head(work'[u]))
        PROVE  file' # NoDoc /\ GoesOn(Head(work'[u]), file'.doc)
    <3>1. CASE pending[1].heard /\ pending[1].tab = u
      <4>1. 1 \in Heard(u)
        BY <2>1, <3>1 DEF Heard
      <4>2. pending[1].doc = Head(work[u]) /\ pending[1].doc \in Docs
        BY <2>2, <4>1 DEF IInv, OneEach, Saves
      <4>3. file'.doc = Head(work'[u]) /\ file'.doc \in Actives
        BY <2>1, <2>3, <2>5, <4>2, ActiveDocs
      <4>4. QED BY <2>3, <4>3, GoesOnReflexive
    <3>2. CASE ~(pending[1].heard /\ pending[1].tab = u)
      <4>1. reply'[u] = reply[u]
        BY <1>u, <2>1, <2>2, <3>2 DEF Answer, Saves
      <4>2. Kept(Head(work[u]))
        BY <1>k, <2>5, <4>1
      <4>3. QED BY <2>1, <2>5, <4>2, KeptOn
    <3>3. QED BY <3>1, <3>2
  <2>6. QED BY <2>4, <2>5 DEF AllKept, Kept, IsActive, GoesOn
<1>13. ASSUME NEW i \in DOMAIN pending, WriteFails(i) PROVE AllKept'
  BY <1>10, <1>13 DEF WriteFails, Turn, tab
<1>14. ASSUME Restart PROVE AllKept'
  <2>1. UNCHANGED <<base, opening, work>>
    BY <1>14 DEF Restart, tab
  <2>2. \A u \in Tabs : reply'[u] # NoReply /\ reply'[u].ok => reply'[u] = reply[u]
    BY <1>14 DEF Restart
  <2>3. QED BY <1>1, <2>1, <2>2
<1>15. ASSUME NEW c \in Times, SetClock(c) PROVE AllKept'
  BY <1>1, <1>15 DEF SetClock, tab
<1>16. ASSUME UNCHANGED vars PROVE AllKept'
  BY <1>1, <1>16 DEF vars, tab
<1>17. QED
  BY <1>2, <1>3, <1>4, <1>5, <1>6, <1>7, <1>8, <1>9, <1>11, <1>12, <1>13, <1>14, <1>15, <1>16 DEF Next

\* Every step keeps the invariant.
LEMMA Inductive == IInv /\ [Next]_vars => IInv'
<1> SUFFICES ASSUME IInv, [Next]_vars PROVE IInv'
  OBVIOUS
<1>1. Types' /\ Serialised' /\ OneEach'
  BY TypesKept, SerialisedKept, OneEachKept DEF IInv
<1>2. AllKept'
  BY AllKeptKept
<1>3. QED
  BY <1>1, <1>2 DEF IInv

\* So it holds in every state.
LEMMA AlwaysIInv == Spec => []IInv
BY InitInv, Inductive, PTL DEF Spec

-----------------------------------------------------------------------------
\* Every variable has its type in every state, the saves under way included.
THEOREM MissionTypes == Spec => []TypeOK
<1>1. IInv => TypeOK
  BY DEF IInv, Types, TypeOK
<1>2. QED
  BY <1>1, AlwaysIInv, PTL

\* An active mission that a tab shows is on disk, as shown or further on.
THEOREM MissionConfirmed == Spec => []ConfirmedKept
<1>1. IInv => ConfirmedKept
  <2> SUFFICES ASSUME IInv, NEW t \in Tabs, IsActive(base[t])
               PROVE  file # NoDoc /\ Ledger!Continues(base[t], file.doc)
    BY DEF ConfirmedKept
  <2>1. file # NoDoc /\ GoesOn(base[t], file.doc)
    BY DEF IInv, AllKept, Kept
  <2>2. base[t] \in Docs /\ file.doc \in Docs
    BY <2>1 DEF GoesOn, Docs
  <2>3. QED BY <2>1, <2>2, ContinuesMeans
<1>2. QED
  BY <1>1, AlwaysIInv, PTL

\* A tab waits for at most one save, and the answer is that save's.
THEOREM MissionOneSave == Spec => []OneSaveAtATime
<1>1. IInv => OneSaveAtATime
  <2> SUFFICES ASSUME IInv, NEW t \in Tabs
               PROVE  /\ Cardinality(Heard(t)) + (IF reply[t] # NoReply THEN 1 ELSE 0) <= 1
                      /\ Waiting(t) => work[t] # <<>>
                      /\ \A i \in Heard(t) : pending[i].doc = Head(work[t])
    BY DEF OneSaveAtATime, Heard
  <2>1. /\ \A i, k \in Heard(t) : i = k
        /\ reply[t] # NoReply => Heard(t) = {} /\ work[t] # <<>>
        /\ \A i \in Heard(t) : work[t] # <<>> /\ pending[i].doc = Head(work[t])
    BY DEF IInv, OneEach
  <2>2. Heard(t) = {} \/ \E i : Heard(t) = {i}
    BY <2>1
  <2>3. /\ Heard(t) = {} => Cardinality(Heard(t)) = 0
        /\ Heard(t) # {} => Cardinality(Heard(t)) = 1
    BY <2>2, FS_EmptySet, FS_Singleton
  <2>4. Cardinality(Heard(t)) + (IF reply[t] # NoReply THEN 1 ELSE 0) <= 1
    <3>1. CASE Heard(t) = {}
      BY <2>3, <3>1
    <3>2. CASE Heard(t) # {}
      BY <2>1, <2>3, <3>2
    <3>3. QED BY <3>1, <3>2
  <2>5. Waiting(t) => work[t] # <<>>
    BY <2>1 DEF Waiting, Heard
  <2>6. QED BY <2>1, <2>4, <2>5
<1>2. QED
  BY <1>1, AlwaysIInv, PTL

\* The version of the record never goes back and the record never disappears,
\* although saves are stamped before they wait and the clock may be set back.
THEOREM MissionVersions == Spec => SavedAtMonotone
<1>1. ASSUME IInv, [Next]_vars, file # NoDoc, file' # file
      PROVE  file' # NoDoc /\ file'.savedAt >= file.savedAt
  <2>1. PICK i \in DOMAIN pending :
           Write(i) /\ i = 1 /\ Accepts(pending[1]) /\ pending[1] \in Saves /\ file' \in Records
    BY <1>1, FileStep
  <2>2. pending[1].savedAt >= file.savedAt
    BY <1>1, <2>1 DEF Accepts
  <2>3. file'.savedAt = pending[1].savedAt
    BY <2>1 DEF Write
  <2>4. QED BY <2>1, <2>2, <2>3, NoDocAssumption
<1>2. IInv /\ [Next]_vars => [file # NoDoc => file' # NoDoc /\ file'.savedAt >= file.savedAt]_file
  BY <1>1
<1>3. QED
  BY <1>2, AlwaysIInv, PTL DEF Spec, SavedAtMonotone

\* Refinement: the file lives the life MissionLedger promises.
THEOREM MissionKeepsLedger == Spec => KeepsLedger
<1> DEFINE saved == IF file = NoDoc THEN NoDoc ELSE file.doc
<1>1. Init => Ledger!Init
  BY DEF Init, Ledger!Init
<1>2. ASSUME IInv, [Next]_vars PROVE [Ledger!Next]_saved
  <2>1. CASE UNCHANGED file
    BY <2>1
  <2>2. CASE ~UNCHANGED file
    <3>1. PICK i \in DOMAIN pending :
             Write(i) /\ i = 1 /\ Accepts(pending[1]) /\ pending[1] \in Saves /\ file' \in Records
      BY <1>2, <2>2, FileStep
    <3>2. file' # NoDoc /\ file'.doc \in Docs /\ file'.doc = pending[1].doc
      BY <3>1, NoDocAssumption DEF Write, Saves
    <3>3. file'.doc \in Ledger!Docs
      <4>1. CASE file'.doc \in Drafts
        BY <4>1 DEF Drafts, Ledger!Docs, Ledger!Drafts
      <4>2. CASE file'.doc \in Actives
        <5>1. file'.doc.events \in Seq(Decisions) /\ file'.doc.now \in Nat
          BY <4>2, ActiveFields, BoundsAssumption
        <5>2. QED BY <4>2, <5>1 DEF Actives, Ledger!Docs, Ledger!Actives
      <4>3. QED BY <3>2, <4>1, <4>2 DEF Docs
    <3>4. CASE file = NoDoc
      BY <3>2, <3>3, <3>4 DEF Ledger!Next, Ledger!Replace
    <3>5. CASE file # NoDoc /\ file.doc.state = "draft"
      BY <3>2, <3>3, <3>5 DEF Ledger!Next, Ledger!Replace
    <3>6. CASE file # NoDoc /\ file.doc.state # "draft"
      <4>1. file.doc \in Docs
        BY <1>2, <3>6 DEF IInv, Types, Records
      <4>2. file.doc \in Actives /\ IsActive(file.doc) /\ file.doc # NoDoc /\ file.doc.state = "active"
        BY <3>6, <4>1, ActiveDocs, NoDocAssumption DEF Docs, Drafts, Actives, IsActive
      <4>3. Ledger!Continues(file.doc, file'.doc)
        BY <3>1, <3>2, <3>6, <4>2 DEF Accepts
      <4>4. QED BY <3>2, <3>3, <3>6, <4>2, <4>3 DEF Ledger!Next, Ledger!Extend
    <3>7. QED BY <3>4, <3>5, <3>6
  <2>3. QED BY <2>1, <2>2
<1>3. QED
  BY <1>1, <1>2, AlwaysIInv, PTL DEF Spec, KeepsLedger, Ledger!Spec
=============================================================================
