----------------------------- MODULE Playground -----------------------------
(***************************************************************************)
(* The playground of a model page (frontend/src/features/models/           *)
(* PlaygroundPanel.tsx): one prompt at a time goes to the model, streamed  *)
(* or not, and the answer appears as it arrives. A run is a loop over the  *)
(* events of its answer; all runs write to the same state of the panel.    *)
(* Stop forgets the loop without ending it (the request was never given    *)
(* the signal), so loops of several runs may be alive at a time.           *)
(* Left out: the prompt and its check, metrics, leaving the page.          *)
(***************************************************************************)
EXTENDS Naturals

CONSTANTS
    MaxRuns,        \* runs started in all
    MaxDeltas       \* pieces of a streamed answer

ASSUME PlaygroundAssumption == MaxRuns \in Nat /\ MaxDeltas \in Nat

VARIABLES
    loop,           \* each run: how far its loop is, what it has read
    latest,         \* the run started last, 0 before the first
    running,        \* the Run button spins and Stop is offered
    text,           \* streamedText: whose, and how many pieces
    result,         \* the run whose result is set, or 0
    error,          \* the run whose error is set, or 0
    abort,          \* abortRef: the run Stop would abort, or 0
    mixed           \* history: a run began while an earlier loop was alive

vars == <<loop, latest, running, text, result, error, abort, mixed>>

Runs == 1 .. MaxRuns

\* What there is to know of a run: where it is, how it asked, what it read.
Loop == [at : {"unused", "asking", "reading", "falling back", "ended"},
         stream : BOOLEAN, read : 0 .. MaxDeltas]

\* Text of a run, or of none.
Text == [by : 0 .. MaxRuns, pieces : 0 .. MaxDeltas]

TypeOK ==
    /\ loop \in [Runs -> Loop]
    /\ latest \in 0 .. MaxRuns
    /\ running \in BOOLEAN /\ mixed \in BOOLEAN
    /\ text \in Text
    /\ result \in 0 .. MaxRuns /\ error \in 0 .. MaxRuns /\ abort \in 0 .. MaxRuns

Alive(r) == loop[r].at \notin {"unused", "ended"}

NoText == [by |-> 0, pieces |-> 0]

-----------------------------------------------------------------------------
\* Mutant: the answer of the last run is left on the screen.
Run_AnswerKept(stream) ==
    /\ ~ running /\ latest < MaxRuns
    /\ latest' = latest + 1
    /\ running' = TRUE
    /\ error' = 0 /\ text' = NoText
    /\ abort' = IF stream THEN latest' ELSE abort
    /\ loop' = [loop EXCEPT ![latest'] = [at |-> "asking", stream |-> stream, read |-> 0]]
    /\ mixed' = (mixed \/ \E r \in Runs : Alive(r))
    /\ UNCHANGED result

\* run, up to its first await. The button is disabled while it spins.
Run(stream) ==
    /\ ~ running /\ latest < MaxRuns
    /\ latest' = latest + 1
    /\ running' = TRUE
    /\ error' = 0 /\ result' = 0 /\ text' = NoText
    /\ abort' = IF stream THEN latest' ELSE abort
    /\ loop' = [loop EXCEPT ![latest'] = [at |-> "asking", stream |-> stream, read |-> 0]]
    /\ mixed' = (mixed \/ \E r \in Runs : Alive(r))

\* Mutant: no finally block.
Finish_StillRunning(r) ==
    /\ running' = running
    /\ abort' = abort
    /\ loop' = [loop EXCEPT ![r].at = "ended", ![r].read = 0]

\* The end of a loop, the finally block included.
Finish(r) ==
    /\ running' = FALSE
    /\ abort' = IF loop[r].stream THEN 0 ELSE abort
    /\ loop' = [loop EXCEPT ![r].at = "ended", ![r].read = 0]

Succeed(r) ==
    /\ Finish(r)
    /\ result' = r
    /\ UNCHANGED <<latest, text, error, mixed>>

Fail(r) ==
    /\ Finish(r)
    /\ error' = r
    /\ UNCHANGED <<latest, text, result, mixed>>

\* The answer of a run without stream, or of the fallback of one with.
Answer(r) ==
    /\ (loop[r].at = "asking" /\ ~ loop[r].stream) \/ loop[r].at = "falling back"
    /\ Succeed(r) \/ Fail(r)

StreamOpens(r) ==
    /\ loop[r].at = "asking" /\ loop[r].stream
    /\ \/ /\ loop' = [loop EXCEPT ![r].at = "reading"]
          /\ UNCHANGED <<latest, running, text, result, error, abort, mixed>>
       \/ Fail(r)

\* Mutant: events keep coming without end.
Delta_Endless(r) ==
    /\ loop[r].at = "reading"
    /\ loop' = [loop EXCEPT ![r].read = 1 - @]
    /\ text' = [by |-> r, pieces |-> 1 - loop[r].read]
    /\ UNCHANGED <<latest, running, result, error, abort, mixed>>

\* Mutant: pieces are counted that were never read.
Delta_OffByOne(r) ==
    /\ loop[r].at = "reading"
    /\ loop' = [loop EXCEPT ![r].read = @ + 1]
    /\ text' = [by |-> r, pieces |-> loop[r].read + 1]
    /\ UNCHANGED <<latest, running, result, error, abort, mixed>>

\* A piece of the answer; the loop shows all it has read so far.
Delta(r) ==
    /\ loop[r].at = "reading" /\ loop[r].read < MaxDeltas
    /\ loop' = [loop EXCEPT ![r].read = @ + 1]
    /\ text' = [by |-> r, pieces |-> loop[r].read + 1]
    /\ UNCHANGED <<latest, running, result, error, abort, mixed>>

\* The stream ends well, breaks off, or ends with an error event, whereupon
\* the whole answer is asked for once.
StreamEnds(r) ==
    /\ loop[r].at = "reading"
    /\ \/ Succeed(r)
       \/ Fail(r)
       \/ /\ loop' = [loop EXCEPT ![r].at = "falling back"]
          /\ UNCHANGED <<latest, running, text, result, error, abort, mixed>>

\* Aborting a controller nobody listens to: the loop goes on.
Stop ==
    /\ running
    /\ running' = FALSE /\ abort' = 0
    /\ UNCHANGED <<loop, latest, text, result, error, mixed>>

-----------------------------------------------------------------------------
Init ==
    /\ loop = [r \in Runs |-> [at |-> "unused", stream |-> FALSE, read |-> 0]]
    /\ latest = 0 /\ running = FALSE /\ mixed = FALSE
    /\ text = NoText /\ result = 0 /\ error = 0 /\ abort = 0

Arrives(r) == Answer(r) \/ StreamOpens(r) \/ Delta(r) \/ StreamEnds(r)

Next ==
    \/ \E stream \in BOOLEAN : Run(stream)
    \/ Stop
    \/ \E r \in Runs : Arrives(r)

\* The API answers every call, with an error if the provider does not.
Spec == Init /\ [][Next]_vars /\ \A r \in Runs : WF_vars(Arrives(r))

-----------------------------------------------------------------------------
\* While no two loops were ever alive together, whatever is on the screen is
\* the last run's: the answer, the text behind it, the error. When its loop
\* is over there is one of answer and error, also if it was stopped.
ShowsTheLastRun ==
    ~ mixed =>
        /\ {text.by, result, error} \subseteq {0, latest}
        /\ latest > 0 /\ ~ Alive(latest) => {result, error} = {0, latest}

\* A spinning button stands for a loop that will stop it, whatever Stop and
\* the loops that outlived it did; and so does the Stop that is offered.
SpinnerHasALoop == running => Alive(latest)

\* Every run stops spinning.
RunsEnd == running ~> ~ running
=============================================================================
