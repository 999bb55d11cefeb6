------------------------------ MODULE RateLane ------------------------------
(***************************************************************************)
(* The token bucket of one lane (server/rate-lanes.mjs) under the jobs that *)
(* server.mjs lets through it: beforeRun() takes a token or sleeps as long   *)
(* as the bucket says, takes again, and runs whatever the second answer was. *)
(*                                                                         *)
(* Time is counted in ticks and a token is Period ticks of credit, so that   *)
(* the fractional tokens of the code are whole numbers here.  The bucket is  *)
(* refilled only when somebody takes from it: `since' is the time that the   *)
(* next take() will turn into credit.                                       *)
(*                                                                         *)
(* A request that saves the settings puts them in force at once, then awaits *)
(* the file, and cuts the credit to the burst only after that, and not at all *)
(* if the write failed: the lane goes on in between with more credit counted *)
(* than the bucket holds, and what keeps it from being spent is take().      *)
(***************************************************************************)
EXTENDS Naturals, FiniteSets, FiniteSetsExt

CONSTANTS
    Workers,     \* the slots of the lane's queue: its `concurrency'
    Period,      \* the ticks in which one token accrues: 1 / rate
    Bursts,      \* the values the user may give the burst setting
    MaxSaves,    \* how many saves may await the file at once (a bound for TLC)
    MaxElapsed   \* how long a window is watched (a bound for TLC)

ASSUME WorkersAssumption == IsFiniteSet(Workers) /\ Workers # {}
ASSUME PeriodAssumption == Period \in Nat \ {0}
ASSUME BurstsAssumption == IsFiniteSet(Bursts) /\ Bursts # {} /\ Bursts \subseteq Nat \ {0}
ASSUME BoundsAssumption == MaxElapsed \in Nat /\ MaxSaves \in Nat

VARIABLES
    tokens,     \* the credit left by the last take()
    since,      \* ticks since the last take()
    burst,      \* the capacity in force: the setting as limits() reads it
    saving,     \* the requests that changed the settings and await the file
    phase,      \* "idle", "asleep" (in beforeRun) or "working", per slot
    remaining,  \* ticks until the timer of a sleeping slot is due
    elapsed,    \* the length of the window under observation
    granted,    \* the requests started in that window
    peak        \* the highest burst that was in force in that window

\* What only watches the lane, and the lane itself.
wvars == <<elapsed, granted, peak>>
vars == <<tokens, since, burst, saving, phase, remaining, wvars>>

MaxBurst == Max(Bursts)
AtMost(n, limit) == IF n < limit THEN n ELSE limit

\* The credit a take() finds.  Wrong: the burst is the one the bucket was made with.
RefilledAsMade == AtMost(tokens + since, MaxBurst * Period)
Refilled == AtMost(tokens + since, burst * Period)

\* take(): a token is spent if there is one; `since' starts again either way.
TakeOwing ==
    /\ tokens' = Refilled - Period
    /\ since' = 0
Take ==
    /\ tokens' = IF Refilled >= Period THEN Refilled - Period ELSE Refilled
    /\ since' = 0

\* The bucket is made while the settings are the defaults; loadSettings() then
\* puts those of the file in force and leaves the credit as it is.
Init ==
    /\ burst \in Bursts
    /\ \E made \in Bursts : tokens = made * Period
    /\ since = 0
    /\ saving = 0
    /\ phase = [w \in Workers |-> "idle"]
    /\ remaining = [w \in Workers |-> 0]
    /\ elapsed = 0
    /\ granted = 0
    /\ peak = burst

\* pump() gives a slot a job and beforeRun() asks for a token.
Ask(w) ==
    /\ phase[w] = "idle"
    /\ Take
    /\ \/ /\ Refilled >= Period
          /\ phase' = [phase EXCEPT ![w] = "working"]
          /\ granted' = granted + 1
          /\ UNCHANGED remaining
       \/ /\ Refilled < Period
          /\ phase' = [phase EXCEPT ![w] = "asleep"]
          /\ remaining' = [remaining EXCEPT ![w] = Period - Refilled]
          /\ UNCHANGED granted
    /\ UNCHANGED <<burst, saving, elapsed, peak>>

\* The sleep is over: take() again, and run without looking at its answer.
Wake(w) ==
    /\ phase[w] = "asleep"
    /\ remaining[w] = 0
    /\ Take
    /\ phase' = [phase EXCEPT ![w] = "working"]
    /\ granted' = granted + 1
    /\ UNCHANGED <<burst, saving, remaining, elapsed, peak>>

\* The request settles and the slot is free for the next job.
Finish(w) ==
    /\ phase[w] = "working"
    /\ phase' = [phase EXCEPT ![w] = "idle"]
    /\ UNCHANGED <<tokens, since, burst, saving, remaining, wvars>>

\* The user saves the settings: the burst is in force before the file is written.
SetBurst(b) ==
    /\ saving < MaxSaves
    /\ saving' = saving + 1
    /\ burst' = b
    /\ peak' = IF b > peak THEN b ELSE peak
    /\ UNCHANGED <<tokens, since, phase, remaining, elapsed, granted>>

\* The file is written: clamp() cuts the credit to the burst now in force, which
\* another request may have changed meanwhile.
Clamp ==
    /\ saving > 0
    /\ saving' = saving - 1
    /\ tokens' = AtMost(tokens, burst * Period)
    /\ UNCHANGED <<since, burst, phase, remaining, wvars>>

\* The file could not be written: the request fails and the burst stays in force.
SaveFails ==
    /\ saving > 0
    /\ saving' = saving - 1
    /\ UNCHANGED <<tokens, since, burst, phase, remaining, wvars>>

\* A timer may fire late but never early.  Beyond a full bucket the exact
\* value of `since' makes no difference, so it is counted up to there.
Tick ==
    /\ elapsed < MaxElapsed
    /\ elapsed' = elapsed + 1
    /\ since' = AtMost(since + 1, MaxBurst * Period)
    /\ remaining' = [w \in Workers |-> IF remaining[w] > 0 THEN remaining[w] - 1 ELSE 0]
    /\ UNCHANGED <<tokens, burst, saving, phase, granted, peak>>

\* A new window of observation starts; it changes nothing in the lane.
Observe ==
    /\ elapsed > 0 \/ granted > 0 \/ peak # burst
    /\ elapsed' = 0
    /\ granted' = 0
    /\ peak' = burst
    /\ UNCHANGED <<tokens, since, burst, saving, phase, remaining>>

Next ==
    \/ \E w \in Workers : Ask(w) \/ Wake(w) \/ Finish(w)
    \/ \E b \in Bursts : SetBurst(b)
    \/ Clamp
    \/ SaveFails
    \/ Tick
    \/ Observe

Spec == Init /\ [][Next]_vars

-----------------------------------------------------------------------------
\* The types; the credit is never negative, and never above the greatest bucket.
TypeOK ==
    /\ burst \in Bursts
    /\ saving \in 0 .. MaxSaves
    /\ tokens \in 0 .. MaxBurst * Period
    /\ since \in 0 .. MaxBurst * Period
    /\ phase \in [Workers -> {"idle", "asleep", "working"}]
    /\ remaining \in [Workers -> 0 .. Period]
    /\ elapsed \in 0 .. MaxElapsed
    /\ granted \in Nat
    /\ peak \in Bursts

\* What the settings call the rate cap (core/settings.mjs:96) and the help page
\* says the local server enforces (ui/help-texts/tools.mjs:21): over any window
\* the lane starts no more than a full burst and what accrues meanwhile.
RateHeld == granted * Period <= MaxBurst * Period + elapsed

\* What the code does keep.  Slots that slept for the same token all go, so each
\* token that accrues in a window may bring one start per slot, and no more; the
\* window may also open with every slot asleep and in the middle of a token.
\* Beside that the lane starts one full burst, of those in force in the window:
\* credit counted under a greater one before is not spent, whether the save that
\* made the bucket smaller is still under way, is done, or has failed.
RateHeldPerSlot ==
    granted <= peak + Cardinality(Workers) * (elapsed \div Period + 2)
=============================================================================
