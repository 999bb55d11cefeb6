------------------------------ MODULE JobQueue ------------------------------
(***************************************************************************)
(* The upstream work queue of server/job-queue.mjs: a concurrency cap, a    *)
(* priority order and priority inheritance.  A job is a closure handed to   *)
(* push(); `ticket' is the object the caller keeps to hurry the job later.  *)
(*                                                                          *)
(* JavaScript runs every synchronous stretch to its end, so push() together *)
(* with the pump() it calls is one step, and so is the `finally' of a       *)
(* finished job together with its pump().  The steps that interleave are    *)
(* the ones separated by an await: a started job first awaits beforeRun()   *)
(* (the token bucket) and then its own fn().                                *)
(*                                                                          *)
(* A job identity may be pushed again after it has left the queue: the      *)
(* server makes such a queue once and feeds it for as long as it runs.      *)
(***************************************************************************)
EXTENDS Naturals, FiniteSets, Sequences, SequencesExt

CONSTANTS
    Jobs,        \* the jobs that callers may push
    Priorities,  \* the priorities in use; a smaller number is more urgent
    Caps         \* the values the user may give the concurrency setting

ASSUME JobsAssumption == IsFiniteSet(Jobs)
ASSUME PrioritiesAssumption == Priorities \subseteq Nat
\* core/settings.mjs gives `concurrency' and `tapeConcurrency' min: 1.
ASSUME CapsAssumption == Caps \subseteq Nat \ {0}

VARIABLES
    queue,     \* the array of jobs not started yet, most urgent first
    running,   \* the counter of started and unfinished jobs
    cap,       \* what concurrency() returns now
    priority,  \* job.priority, meaningful while the job is in the array
    ticket,    \* ticket.priority of the ticket the job was pushed with
    phase      \* where each job is

qvars == <<queue, running, cap, priority, ticket, phase>>

Phases == {"idle", "queued", "throttled", "working"}

Started(ph) == {j \in Jobs : ph[j] \in {"throttled", "working"}}

\* The positions at which a stable sort by priority leaves a job of priority p
\* that was appended to a sorted array q: behind every job at least as urgent.
SlotsAnywhere(q, p, prio) == 1 .. Len(q) + 1
SlotsBeforeEquals(q, p, prio) ==
    {k \in 1 .. Len(q) + 1 : /\ \A i \in 1 .. k - 1 : prio[q[i]] < p
                             /\ \A i \in k .. Len(q) : prio[q[i]] >= p}
Slots(q, p, prio) ==
    {k \in 1 .. Len(q) + 1 : /\ \A i \in 1 .. k - 1 : prio[q[i]] <= p
                             /\ \A i \in k .. Len(q) : prio[q[i]] > p}

\* Whether pump() starts one more job, given the array and the counter.
CanStart(q, r) == q # <<>> /\ r < cap

\* pump(): start the head of the array q if the cap allows it, with r jobs
\* running; otherwise leave both as they are.
Pump(q, r, ph) ==
    IF CanStart(q, r)
    THEN /\ queue' = Tail(q)
         /\ running' = r + 1
         /\ phase' = [ph EXCEPT ![Head(q)] = "throttled"]
    ELSE /\ queue' = q
         /\ running' = r
         /\ phase' = ph

JustLeave(q, r, ph) ==
    /\ queue' = q
    /\ running' = r
    /\ phase' = ph

Init ==
    /\ queue = <<>>
    /\ running = 0
    /\ cap \in Caps
    /\ priority \in [Jobs -> Priorities]
    /\ ticket = priority
    /\ phase = [j \in Jobs |-> "idle"]

\* push(fn, p, ticket): append, sort, pump.
Push(j, p) ==
    /\ phase[j] = "idle"
    /\ priority' = [priority EXCEPT ![j] = p]
    /\ ticket' = [ticket EXCEPT ![j] = p]
    /\ \E k \in Slots(queue, p, priority) :
          Pump(InsertAt(queue, k, j), running, [phase EXCEPT ![j] = "queued"])
    /\ UNCHANGED cap

\* beforeRun() resolves: the job's turn at the token bucket has come.
Admit(j) ==
    /\ phase[j] = "throttled"
    /\ phase' = [phase EXCEPT ![j] = "working"]
    /\ UNCHANGED <<queue, running, cap, priority, ticket>>

\* fn() settles, either way: resolve or reject, decrement, pump.
FinishWithoutPump(j) ==
    /\ phase[j] = "working"
    /\ JustLeave(queue, running - 1, [phase EXCEPT ![j] = "idle"])
    /\ UNCHANGED <<cap, priority, ticket>>
FinishWithoutRelease(j) ==
    /\ phase[j] = "working"
    /\ Pump(queue, running, [phase EXCEPT ![j] = "idle"])
    /\ UNCHANGED <<cap, priority, ticket>>
FinishCountedTwice(j) ==
    /\ phase[j] = "working"
    /\ Pump(queue, running - 2, [phase EXCEPT ![j] = "idle"])
    /\ UNCHANGED <<cap, priority, ticket>>
\* The slot goes to the head of the array whatever the cap is by then.
FinishReplacing(j) ==
    /\ phase[j] = "working"
    /\ \/ /\ queue = <<>>
          /\ JustLeave(queue, running - 1, [phase EXCEPT ![j] = "idle"])
       \/ /\ queue # <<>>
          /\ JustLeave(Tail(queue), running,
                       [phase EXCEPT ![j] = "idle", ![Head(queue)] = "throttled"])
    /\ UNCHANGED <<cap, priority, ticket>>
Finish(j) ==
    /\ phase[j] = "working"
    /\ Pump(queue, running - 1, [phase EXCEPT ![j] = "idle"])
    /\ UNCHANGED <<cap, priority, ticket>>

\* boost(ticket, p): only a more urgent caller changes the ticket, and only a
\* job still in the array moves.  The owner of a ticket may hurry it before,
\* between or after the jobs it pushes with it.
BoostWithoutSort(j, p) ==
    /\ p < ticket[j]
    /\ ticket' = [ticket EXCEPT ![j] = p]
    /\ priority' = IF phase[j] = "queued" THEN [priority EXCEPT ![j] = p] ELSE priority
    /\ UNCHANGED <<queue, running, cap, phase>>
Boost(j, p) ==
    /\ p < ticket[j]
    /\ ticket' = [ticket EXCEPT ![j] = p]
    /\ \/ /\ phase[j] = "queued"
          /\ priority' = [priority EXCEPT ![j] = p]
          /\ \E n \in DOMAIN queue :
                /\ queue[n] = j
                /\ \E k \in Slots(RemoveAt(queue, n), p, priority) :
                      queue' = InsertAt(RemoveAt(queue, n), k, j)
       \/ /\ phase[j] # "queued"
          /\ UNCHANGED <<priority, queue>>
    /\ UNCHANGED <<running, cap, phase>>

\* The user saves another concurrency setting; nothing is pumped.
SetCap(c) ==
    /\ c # cap
    /\ cap' = c
    /\ UNCHANGED <<queue, running, priority, ticket, phase>>

Next ==
    \/ \E j \in Jobs, p \in Priorities : Push(j, p)
    \/ \E j \in Jobs : Admit(j)
    \/ \E j \in Jobs : Finish(j)
    \/ \E j \in Jobs, p \in Priorities : Boost(j, p)
    \/ \E c \in Caps : SetCap(c)

\* beforeRun() is a timer and fn() is a fetch that an AbortController ends
\* after timeoutMs, so both settle; callers and the user owe nothing.
Fairness == \A j \in Jobs : WF_qvars(Admit(j)) /\ WF_qvars(Finish(j))

Spec == Init /\ [][Next]_qvars
FairSpec == Spec /\ Fairness

-----------------------------------------------------------------------------
\* The types of the variables; the array holds no job twice.
TypeOK ==
    /\ queue \in Seq(Jobs)
    /\ running \in Nat
    /\ cap \in Caps
    /\ priority \in [Jobs -> Priorities]
    /\ ticket \in [Jobs -> Priorities]
    /\ phase \in [Jobs -> Phases]

\* The counter that pump() trusts is the number of jobs that are really in
\* progress, and the array is exactly the jobs not started, each once: no
\* order of pushes, boosts, failures and cap changes leaks a slot or a job.
Accounting ==
    /\ running = Cardinality(Started(phase))
    /\ \A j \in Jobs : phase[j] = "queued" <=> \E i \in DOMAIN queue : queue[i] = j
    /\ \A i, k \in DOMAIN queue : queue[i] = queue[k] => i = k

\* The array is ordered by priority, which is what lets pump() take its head.
Sorted ==
    \A i, k \in DOMAIN queue : i < k => priority[queue[i]] <= priority[queue[k]]

\* Each finish pumps once and nothing else restarts the queue, so a waiting
\* job needs a running one to wake it: there is always one.
NoStall == queue # <<>> => running > 0

\* When a job starts, the jobs really in progress with it are no more than the
\* cap then in force allows: a finish does not hand its slot on while the cap,
\* lowered under running jobs, is still exceeded without the finished one.
CapHeld ==
    [][(\E j \in Jobs : phase[j] # "throttled" /\ phase'[j] = "throttled")
          => Cardinality(Started(phase')) <= cap]_qvars

\* No job starts while a strictly more urgent one is left waiting, whatever
\* was pushed or boosted in between.
NoOvertake ==
    [][\A a, b \in Jobs :
          (phase'[a] = "queued" /\ phase[b] # "throttled" /\ phase'[b] = "throttled")
          => priority'[b] <= priority'[a]]_qvars

\* The slots stay full: only raising the cap can leave a job waiting beside a
\* free slot (pump() is not called when the setting changes, and each finish
\* replaces one job by one).
KeepsFull ==
    [][((queue # <<>> => running >= cap) /\ cap' <= cap)
         => (queue' # <<>> => running' >= cap')]_qvars

\* The bug the module was made for: a job of the most urgent class, pushed so
\* or boosted to it, is started in spite of endless other work.
MostUrgent(p) == \A q \in Priorities : p <= q
UrgentServed ==
    \A j \in Jobs :
        (phase[j] = "queued" /\ MostUrgent(priority[j])) ~> (phase[j] # "queued")
=============================================================================
