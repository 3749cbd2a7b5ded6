-------------------------- MODULE PlaygroundProofs --------------------------
(* Proofs about the playground, for any number of runs and pieces.         *)
EXTENDS Playground, TLAPS

\* Only the last run spins, and its loop is alive.
SpinnerInv == running => latest \in Runs /\ Alive(latest)

\* As long as no two loops were alive together, the loop alive is the last
\* run's, and nothing has been concluded while it is.
ScreenInv ==
    ~ mixed =>
        /\ \A r \in Runs : Alive(r) => r = latest
        /\ \A r \in Runs : Alive(r) => result = 0 /\ error = 0
        /\ {text.by, result, error} \subseteq {0, latest}
        /\ latest > 0 /\ ~ Alive(latest) => {result, error} = {0, latest}

PlaygroundInv == TypeOK /\ SpinnerInv /\ ScreenInv

LEMMA InitInv == Init => PlaygroundInv
<1> SUFFICES ASSUME Init PROVE PlaygroundInv
  OBVIOUS
<1>1. TypeOK
  <2>1. [at |-> "unused", stream |-> FALSE, read |-> 0] \in Loop /\ NoText \in Text
    BY PlaygroundAssumption DEF Loop, Text, NoText
  <2>2. 0 \in 0 .. MaxRuns
    BY PlaygroundAssumption
  <2> QED BY <2>1, <2>2 DEF Init, TypeOK
<1>2. SpinnerInv
  BY DEF Init, SpinnerInv
<1>3. \A r \in Runs : ~ Alive(r)
  BY DEF Init, Alive
<1>4. ScreenInv
  BY <1>3 DEF Init, ScreenInv, NoText
<1> QED BY <1>1, <1>2, <1>4 DEF PlaygroundInv

\* A step of a loop is a step of one that was alive.
LEMMA ArrivesAlive == ASSUME NEW r \in Runs, Arrives(r) PROVE Alive(r)
BY DEF Arrives, Answer, StreamOpens, Delta, StreamEnds, Alive

\* The five things a step can do to a loop.
LEMMA ArrivesCases ==
  ASSUME NEW r \in Runs, Arrives(r)
  PROVE  \/ Succeed(r)
         \/ Fail(r)
         \/ Delta(r)
         \/ \E at \in {"reading", "falling back"} :
              /\ loop' = [loop EXCEPT ![r].at = at]
              /\ UNCHANGED <<latest, running, text, result, error, abort, mixed>>
BY DEF Arrives, Answer, StreamOpens, StreamEnds

LEMMA RunInv == ASSUME PlaygroundInv, NEW stream \in BOOLEAN, Run(stream) PROVE PlaygroundInv'
<1> USE DEF PlaygroundInv
<1>a. latest \in 0 .. MaxRuns /\ latest < MaxRuns /\ latest' = latest + 1
  BY DEF Run, TypeOK
<1>0. latest \in Nat /\ latest' = latest + 1 /\ latest' \in Runs
  BY <1>a, PlaygroundAssumption DEF Runs
<1>1. TypeOK'
  <2>1. [at |-> "asking", stream |-> stream, read |-> 0] \in Loop /\ NoText \in Text
    BY PlaygroundAssumption DEF Loop, Text, NoText
  <2>2. 0 \in 0 .. MaxRuns /\ latest' \in 0 .. MaxRuns
    BY <1>0, PlaygroundAssumption DEF Runs
  <2>3. loop' \in [Runs -> Loop]
    BY <1>0, <2>1 DEF Run, TypeOK
  <2>4. abort' \in 0 .. MaxRuns
    BY <2>2 DEF Run, TypeOK
  <2> QED BY <2>1, <2>2, <2>3, <2>4 DEF Run, TypeOK
<1>2. Alive(latest)'
  BY <1>0 DEF Run, TypeOK, Loop, Alive
<1>3. SpinnerInv'
  BY <1>0, <1>2 DEF SpinnerInv
<1>4. ScreenInv'
  <2> SUFFICES ASSUME ~ mixed' PROVE ScreenInv'
    BY DEF ScreenInv
  <2>1. ~ \E r \in Runs : Alive(r)
    BY DEF Run
  <2>2. \A r \in Runs : Alive(r)' => r = latest'
    BY <1>0, <2>1 DEF Run, TypeOK, Loop, Alive
  <2> QED
    BY <1>0, <1>2, <2>2 DEF Run, ScreenInv, NoText
<1> QED BY <1>1, <1>3, <1>4

LEMMA StopInv == ASSUME PlaygroundInv, Stop PROVE PlaygroundInv'
<1> USE DEF PlaygroundInv, Stop
<1>0. 0 \in 0 .. MaxRuns
  BY PlaygroundAssumption
<1>1. TypeOK'
  BY <1>0 DEF TypeOK
<1>2. SpinnerInv'
  BY DEF SpinnerInv
<1>3. ScreenInv'
  BY DEF ScreenInv, Alive
<1> QED BY <1>1, <1>2, <1>3

\* Other loops are as they were.
LEMMA OthersStay ==
  ASSUME TypeOK, NEW r \in Runs, Arrives(r)
  PROVE  \A q \in Runs : q # r => (Alive(q)' <=> Alive(q))
<1> USE DEF TypeOK, Loop, Alive
<1>1. CASE Succeed(r) BY <1>1 DEF Succeed, Finish
<1>2. CASE Fail(r) BY <1>2 DEF Fail, Finish
<1>3. CASE Delta(r) BY <1>3 DEF Delta
<1>4. CASE \E at \in {"reading", "falling back"} : loop' = [loop EXCEPT ![r].at = at]
  BY <1>4
<1> QED BY <1>1, <1>2, <1>3, <1>4, ArrivesCases

\* A loop that ends is a loop still.
LEMMA EndedLoops ==
  ASSUME TypeOK, NEW r \in Runs
  PROVE  [loop EXCEPT ![r].at = "ended", ![r].read = 0] \in [Runs -> Loop]
<1>1. 0 \in 0 .. MaxDeltas
  BY PlaygroundAssumption
<1>2. loop[r] \in Loop
  BY DEF TypeOK
<1>3. [loop[r] EXCEPT !.at = "ended", !.read = 0] \in Loop
  BY <1>1, <1>2 DEF Loop
<1> QED BY <1>3 DEF TypeOK

LEMMA ArrivesInv == ASSUME PlaygroundInv, NEW r \in Runs, Arrives(r) PROVE PlaygroundInv'
<1> USE DEF PlaygroundInv
<1>0. Alive(r) /\ latest \in Nat /\ r \in Nat /\ r > 0 /\ r \in 0 .. MaxRuns
  <2>1. Alive(r)
    BY ArrivesAlive
  <2>2. r \in Nat /\ r > 0 /\ r \in 0 .. MaxRuns
    BY PlaygroundAssumption DEF Runs
  <2>3. latest \in Nat
    BY PlaygroundAssumption DEF TypeOK
  <2> QED BY <2>1, <2>2, <2>3
<1>1. CASE Succeed(r)
  <2>1. TypeOK'
    <3>1. loop' \in [Runs -> Loop]
      BY <1>1, EndedLoops DEF Succeed, Finish
    <3>2. 0 \in 0 .. MaxRuns
      BY PlaygroundAssumption
    <3> QED BY <1>0, <1>1, <3>1, <3>2 DEF Succeed, Finish, TypeOK
  <2>2. ~ Alive(r)'
    BY <1>1 DEF Succeed, Finish, TypeOK, Loop, Alive
  <2>3. SpinnerInv'
    BY <1>1 DEF Succeed, Finish, SpinnerInv
  <2>4. ScreenInv'
    BY <1>0, <1>1, <2>2, OthersStay DEF Succeed, ScreenInv
  <2> QED BY <2>1, <2>3, <2>4
<1>2. CASE Fail(r)
  <2>1. TypeOK'
    <3>1. loop' \in [Runs -> Loop]
      BY <1>2, EndedLoops DEF Fail, Finish
    <3>2. 0 \in 0 .. MaxRuns
      BY PlaygroundAssumption
    <3> QED BY <1>0, <1>2, <3>1, <3>2 DEF Fail, Finish, TypeOK
  <2>2. ~ Alive(r)'
    BY <1>2 DEF Fail, Finish, TypeOK, Loop, Alive
  <2>3. SpinnerInv'
    BY <1>2 DEF Fail, Finish, SpinnerInv
  <2>4. ScreenInv'
    BY <1>0, <1>2, <2>2, OthersStay DEF Fail, ScreenInv
  <2> QED BY <2>1, <2>3, <2>4
<1>3. CASE Delta(r)
  <2>1. TypeOK'
    <3>1. loop[r] \in Loop /\ loop[r].read + 1 \in 0 .. MaxDeltas
      <4>1. loop[r] \in Loop
        BY DEF TypeOK
      <4>2. loop[r].read \in 0 .. MaxDeltas /\ loop[r].read < MaxDeltas
        BY <1>3, <4>1 DEF Delta, Loop
      <4> QED BY <4>1, <4>2, PlaygroundAssumption
    <3>2. [loop[r] EXCEPT !.read = @ + 1] \in Loop
      BY <3>1 DEF Loop
    <3>3. loop' \in [Runs -> Loop]
      BY <1>3, <3>2 DEF Delta, TypeOK
    <3>4. text' \in Text
      BY <1>0, <1>3, <3>1 DEF Delta, Text
    <3> QED BY <1>3, <3>3, <3>4 DEF Delta, TypeOK
  <2>2. Alive(r)'
    BY <1>3 DEF Delta, TypeOK, Loop, Alive
  <2>3. SpinnerInv'
    BY <1>3, <2>2, OthersStay DEF Delta, SpinnerInv
  <2>4. ScreenInv'
    BY <1>0, <1>3, <2>2, OthersStay DEF Delta, ScreenInv
  <2> QED BY <2>1, <2>3, <2>4
<1>4. ASSUME NEW at \in {"reading", "falling back"},
             loop' = [loop EXCEPT ![r].at = at],
             UNCHANGED <<latest, running, text, result, error, abort, mixed>>
      PROVE  PlaygroundInv'
  <2>1. TypeOK'
    <3>1. [loop[r] EXCEPT !.at = at] \in Loop
      BY DEF TypeOK, Loop
    <3> QED BY <1>4, <3>1 DEF TypeOK
  <2>2. Alive(r)'
    BY <1>4 DEF TypeOK, Loop, Alive
  <2>3. SpinnerInv'
    BY <1>4, <2>2, OthersStay DEF SpinnerInv
  <2>4. ScreenInv'
    BY <1>0, <1>4, <2>2, OthersStay DEF ScreenInv
  <2> QED BY <2>1, <2>3, <2>4
<1> QED BY <1>1, <1>2, <1>3, <1>4, ArrivesCases

LEMMA NextInv == PlaygroundInv /\ [Next]_vars => PlaygroundInv'
<1> SUFFICES ASSUME PlaygroundInv, [Next]_vars PROVE PlaygroundInv'
  OBVIOUS
<1>1. CASE UNCHANGED vars
  BY <1>1 DEF vars, PlaygroundInv, TypeOK, SpinnerInv, ScreenInv, Alive, Runs
<1>2. CASE Next
  BY <1>2, RunInv, StopInv, ArrivesInv DEF Next
<1> QED BY <1>1, <1>2

\* The inductive invariant of the panel's state: which loops can be alive and
\* what they may have concluded.
THEOREM PlaygroundInvariant == Spec => []PlaygroundInv
BY InitInv, NextInv, PTL DEF Spec

\* The state of the panel keeps its types: no piece is counted twice.
THEOREM PlaygroundTypeCorrect == Spec => []TypeOK
<1>1. PlaygroundInv => TypeOK
  BY DEF PlaygroundInv
<1> QED BY <1>1, PlaygroundInvariant, PTL

\* A spinning Run button always has a loop that will stop it.
THEOREM SpinnersEndTheorem == Spec => []SpinnerHasALoop
<1>1. PlaygroundInv => SpinnerHasALoop
  BY DEF PlaygroundInv, SpinnerInv, SpinnerHasALoop
<1> QED BY <1>1, PlaygroundInvariant, PTL

\* What is on the screen is the last run's, unless loops overlapped.
THEOREM LastRunTheorem == Spec => []ShowsTheLastRun
<1>1. PlaygroundInv => ShowsTheLastRun
  BY DEF PlaygroundInv, ScreenInv, ShowsTheLastRun
<1> QED BY <1>1, PlaygroundInvariant, PTL
=============================================================================
