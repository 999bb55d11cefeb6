------------------------------- MODULE Picture -------------------------------
(***************************************************************************)
(* The course of the day: a sample per step, kept in memory and appended   *)
(* to the file of the day. Whoever first asks for the samples, a round of  *)
(* the watch loop or a request, reads the file. A sample is its second,    *)
(* and a step is PictureStep of them.                                      *)
(***************************************************************************)
EXTENDS Naturals

CONSTANTS
    Rounds,       \* rounds of the watch loop: each may add a sample
    Views,        \* requests for the course of the day
    PictureStep,  \* PICTURE_STEP_SEC
    MaxNow        \* bound: seconds of the day

ASSUME PictureStepAssumption == PictureStep \in Nat \ {0}

VARIABLES
    now,
    samples,   \* pictureRec.samples, or NoSamples
    lastAt,    \* pictureRec.lastAt, 0 for never
    asker,     \* who reads the file, since which second, and what it read
    under,     \* samples on their way to the file
    picFile,   \* samples in the file of the day
    misread    \* two have read the file at once, or it could not be read

pvars == <<now, samples, lastAt, asker, under, picFile, misread>>

NoSamples == {0}   \* null: no sample is of second 0
Idle == [stage |-> "idle", at |-> 0, text |-> {}]
Askers == Rounds \cup Views

PictureInit ==
    /\ now = PictureStep /\ samples = NoSamples /\ lastAt = 0
    /\ asker = [a \in Askers |-> Idle]
    /\ under = {} /\ picFile = {} /\ misread = FALSE

Tick == now < MaxNow /\ now' = now + 1 /\ UNCHANGED <<samples, lastAt, asker, under, picFile, misread>>

\* The second of the last sample.
LastOf(text) == IF text = {} THEN 0 ELSE CHOOSE s \in text : \A t \in text : t <= s

\* recordPicture() once it has the samples: one of the second it began in joins
\* them when a step has gone by.
Sample(known, last, second) ==
    IF second - last >= PictureStep
    THEN samples' = known \cup {second} /\ lastAt' = second /\ under' = under \cup {second}
    ELSE samples' = known /\ lastAt' = last /\ UNCHANGED under

\* A round that finds the samples in memory.
SampleKnown(a) ==
    /\ a \in Rounds /\ samples # NoSamples /\ asker[a] = Idle
    /\ Sample(samples, lastAt, now)
    /\ UNCHANGED <<now, asker, picFile, misread>>

\* pictureSamples() up to the read.
AskSamples(a) ==
    /\ samples = NoSamples /\ asker[a] = Idle
    /\ asker' = [asker EXCEPT ![a] = [stage |-> "reading", at |-> now, text |-> {}]]
    /\ misread' = (misread \/ \E b \in Askers : asker[b] # Idle)
    /\ UNCHANGED <<now, samples, lastAt, under, picFile>>

\* A file that cannot be read counts as empty; of a day without samples there is
\* none.
ReadSamples(a, readable) ==
    /\ asker[a].stage = "reading"
    /\ asker' = [asker EXCEPT ![a] =
         [stage |-> "read", at |-> @.at, text |-> IF readable THEN picFile ELSE {}]]
    /\ misread' = (misread \/ ~readable)
    /\ UNCHANGED <<now, samples, lastAt, under, picFile>>

\* Mutant of TakeSamples: the step is counted from the start of the process.
TakeSamplesFromStart(a) ==
    LET text == asker[a].text IN
    /\ asker[a].stage = "read"
    /\ asker' = [asker EXCEPT ![a] = Idle]
    /\ IF a \in Rounds THEN Sample(text, 0, asker[a].at)
       ELSE samples' = text /\ lastAt' = 0 /\ UNCHANGED under
    /\ UNCHANGED <<now, picFile, misread>>

\* What was read takes the place of what is in memory, and a round goes on.
TakeSamples(a) ==
    LET text == asker[a].text IN
    /\ asker[a].stage = "read"
    /\ asker' = [asker EXCEPT ![a] = Idle]
    /\ IF a \in Rounds THEN Sample(text, LastOf(text), asker[a].at)
       ELSE samples' = text /\ lastAt' = LastOf(text) /\ UNCHANGED under
    /\ UNCHANGED <<now, picFile, misread>>

\* The append ends, with the line or without: it failed, or the line joined a
\* piece of one before it.
AppendSample(s) ==
    /\ s \in under /\ under' = under \ {s}
    /\ picFile' \in {picFile, picFile \cup {s}}
    /\ UNCHANGED <<now, samples, lastAt, asker, misread>>

PictureNext ==
    \/ Tick
    \/ \E a \in Askers : \/ SampleKnown(a) \/ AskSamples(a) \/ TakeSamples(a)
                         \/ ReadSamples(a, TRUE) \/ ReadSamples(a, FALSE)
    \/ \E s \in under : AppendSample(s)

PictureRestart ==
    /\ samples' = NoSamples /\ lastAt' = 0
    /\ asker' = [a \in Askers |-> Idle]
    /\ under' = {}
    /\ UNCHANGED <<now, picFile, misread>>

\* One sample per step goes to the file of the day, and the samples in memory
\* lack none of the file, whatever starts anew or fails on the way to the file.
\* This needs that a round and a request did not read the file at once and that
\* it could be read.
PictureKept ==
    \/ misread
    \/ /\ \A s, t \in picFile \cup under : s < t => t - s >= PictureStep
       /\ samples # NoSamples => picFile \cup under \subseteq samples
=============================================================================
