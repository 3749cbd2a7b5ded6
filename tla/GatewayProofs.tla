---------------------------- MODULE GatewayProofs ----------------------------
(***************************************************************************)
(* The safety of the gateway for any number of requests, keys and          *)
(* candidates and any size of the pool.                                    *)
(*                                                                         *)
(* LedgerBalances speaks of committed rows only, so it is not inductive:   *)
(* what a commit publishes was built row by row in the transaction.  The   *)
(* invariant below therefore follows a request through its phases.         *)
(***************************************************************************)
EXTENDS Gateway, TLAPS

\* Phases before the ClientRequest row exists, and phases of the loop.
Before == {"arrived", "admission", "locking", "routing", "opening"}
InLoop == {"choose", "calling", "observing", "closing"}

\* Attempts are numbered apart, name different candidates, and only a failure
\* that may be retried is followed by another attempt.
Consecutive(as) ==
  \A a, b \in as :
    /\ a # b => a.number # b.number /\ a.candidate # b.candidate
    /\ a.number < b.number => Retryable(a.error)

Injective(s) == \A i, j \in DOMAIN s : s[i] = s[j] => i = j

\* The attempts of a request still in the loop: failures, in the order tried.
LoopAttempts(r) ==
  \A a \in txn[r].attempts :
    /\ a.error # "none" /\ a.tokens = 0
    /\ a.number <= tried[r]
    /\ a.number \in DOMAIN order[r] /\ a.candidate = order[r][a.number]

InLoopOK(r) ==
  /\ pc[r] \in InLoop => txn[r].row.state = "pending" /\ LoopAttempts(r)
  /\ pc[r] \in {"calling", "observing"} =>
       tried[r] \in DOMAIN order[r] /\ bytes[r] \subseteq {Current(r)}
  /\ pc[r] = "choose" =>
       bytes[r] = {} /\ \A a \in txn[r].attempts : Retryable(a.error)
  /\ pc[r] = "calling" =>
       \A a \in txn[r].attempts : a.number < tried[r] /\ Retryable(a.error)
  /\ pc[r] = "observing" =>
       \A a \in txn[r].attempts : a.number < tried[r] => Retryable(a.error)

\* What the client holds agrees with the rows it is about to be billed by.
AnswerAgrees(r, row) ==
  /\ answer[r] = "ok" => row.state = "succeeded"
  /\ answer[r] = "error" => row.state = "failed"
  /\ answer[r] = "none" => Stream(r)

PhaseOK(r) ==
  /\ pc[r] # "done" => ledger[r] = Nothing
  /\ pc[r] \in Before \cup {"done"} => txn[r] = Nothing
  /\ pc[r] \in Before => bytes[r] = {}
  /\ pc[r] \in InLoop \cup {"opening"} => Injective(order[r])
  /\ ~Stream(r) => bytes[r] = {}
  /\ pc[r] \notin {"committing", "done"} => answer[r] = "none"
  /\ pc[r] = "answering" => txn[r].row.state \in {"succeeded", "failed"}
  /\ pc[r] = "committing" => txn[r].row # NoRow /\ AnswerAgrees(r, txn[r].row)

RequestOK(r) ==
  /\ Balanced(txn[r]) /\ Consecutive(txn[r].attempts)
  /\ Balanced(ledger[r]) /\ Consecutive(ledger[r].attempts)
  /\ \A c, d \in bytes[r] : c = d
  /\ PhaseOK(r)
  /\ InLoopOK(r)
  /\ ledger[r].row # NoRow => AnswerAgrees(r, ledger[r].row)

Inv == TypeOK /\ \A r \in Requests : RequestOK(r)

-----------------------------------------------------------------------------
(* Types. *)

\* An order of candidates, as Orders gives them, is a sequence of candidates.
LEMMA OrdersAreSequences ==
  ASSUME NEW s \in Orders
  PROVE  s \in Seq(Candidates) /\ Injective(s)
<1>1. PICK n \in 1..MaxCandidates : s \in [1..n -> Candidates]
  BY DEF Orders
<1>2. s \in Seq(Candidates)
  BY <1>1, GatewayAssumption
<1>3. Injective(s)
  <2> SUFFICES ASSUME NEW i \in DOMAIN s, NEW j \in DOMAIN s, s[i] = s[j], i # j
               PROVE  FALSE
    BY DEF Injective
  <2>1. i \in Int /\ j \in Int
    BY <1>1
  <2>2. i < j \/ j < i
    BY <2>1
  <2>3. QED
    BY <2>2 DEF Orders
<1>4. QED
  BY <1>2, <1>3

\* The rows the actions write are rows of the two tables.
LEMMA RowTypes ==
  ASSUME TypeOK, NEW r \in Requests
  PROVE  /\ Nothing \in Rows
         /\ \A row \in Row \cup {NoRow} : [txn EXCEPT ![r].row = row] \in [Requests -> Rows]
         /\ \A a \in Attempt :
              [txn EXCEPT ![r].attempts = @ \cup {a}] \in [Requests -> Rows]
         /\ \A row \in Row, a \in Attempt :
              [txn EXCEPT ![r] = [row |-> row, attempts |-> @.attempts \cup {a}]]
                \in [Requests -> Rows]
<1>1. txn \in [Requests -> Rows]
  BY DEF TypeOK
<1>2. Nothing \in Rows
  BY DEF Nothing, Rows
<1>3. ASSUME NEW row \in Row \cup {NoRow}
      PROVE  [txn EXCEPT ![r].row = row] \in [Requests -> Rows]
  BY <1>1 DEF Rows
<1>4. ASSUME NEW a \in Attempt
      PROVE  [txn EXCEPT ![r].attempts = @ \cup {a}] \in [Requests -> Rows]
  BY <1>1, <1>4 DEF Rows
<1>5. ASSUME NEW row \in Row, NEW a \in Attempt
      PROVE  [txn EXCEPT ![r] = [row |-> row, attempts |-> @.attempts \cup {a}]]
               \in [Requests -> Rows]
  BY <1>1 DEF Rows
<1>6. QED
  BY <1>2, <1>3, <1>4, <1>5

\* A gateway that has served nobody is well typed.
LEMMA InitTypeOK == Init => TypeOK
  BY DEF Init, TypeOK, Phases, Rows, Nothing, Statuses

\* The candidate a call is made to is one of the candidates.
LEMMA CurrentIsCandidate ==
  ASSUME Inv, NEW r \in Requests, pc[r] \in {"calling", "observing"}
  PROVE  Current(r) \in Candidates
<1>1. order[r] \in Seq(Candidates) /\ tried[r] \in DOMAIN order[r]
  BY DEF Inv, TypeOK, RequestOK, InLoopOK
<1>2. QED
  BY <1>1 DEF Current

\* Rolling a transaction back leaves phases and pending rows well typed.
LEMMA RollBackTypes ==
  ASSUME TypeOK, NEW r \in Requests, RollBack(r)
  PROVE  pc' \in [Requests -> Phases] /\ txn' \in [Requests -> Rows]
<1>1. Nothing \in Rows
  BY RowTypes
<1>2. pc \in [Requests -> Phases] /\ txn \in [Requests -> Rows]
  BY DEF TypeOK
<1>3. QED
  BY <1>1, <1>2 DEF RollBack, Goto, Phases

\* Every step of a request keeps the types.
LEMMA TypeOKStep ==
  ASSUME Inv, NEW r \in Requests, Step(r) \/ Emit(r) \/ Disconnect(r)
  PROVE  TypeOK'
<1> USE DEF Inv
<1>1. CASE Connect(r) \/ ConnectTimesOut(r) \/ Admit(r) \/ Touch(r)
  BY <1>1 DEF TypeOK, Connect, ConnectTimesOut, Admit, Touch, Goto, Phases
<1>2. CASE Reject(r) \/ StreamFindsNothing(r) \/ OpenConflicts(r)
  BY <1>2, RollBackTypes DEF TypeOK, Reject, StreamFindsNothing, OpenConflicts, Raise
<1>3. CASE Resolve(r)
  BY <1>3, OrdersAreSequences DEF TypeOK, Resolve, Goto, Phases
<1>4. CASE OpenClientRequest(r)
  <2>1. [state |-> "pending", count |-> 0, tokens |-> 0, error |-> "none"] \in Row
    BY DEF Row
  <2>2. QED
    BY <1>4, <2>1, RowTypes DEF TypeOK, OpenClientRequest, Goto, Phases
<1>5. CASE SkipCandidate(r) \/ CallCandidate(r) \/ DeadlinePassed(r)
  <2>1. tried' = [tried EXCEPT ![r] = @ + 1]
    BY <1>5 DEF SkipCandidate, CallCandidate, DeadlinePassed
  <2>2. tried' \in [Requests -> Nat]
    BY <2>1 DEF TypeOK
  <2>3. pc' \in [Requests -> Phases]
    BY <1>5 DEF TypeOK, SkipCandidate, CallCandidate, DeadlinePassed, Goto, Phases
  <2>4. QED
    BY <1>5, <2>2, <2>3 DEF TypeOK, SkipCandidate, CallCandidate, DeadlinePassed
<1>6. CASE DecryptFails(r)
  BY <1>6, RollBackTypes DEF TypeOK, DecryptFails, Raise
<1>7. CASE AttemptSucceeds(r)
  <2>0. \A t \in IF call[r].kind = "chat" THEN 0..MaxTokens ELSE {0} : t \in Nat
    BY GatewayAssumption
  <2>1. PICK t \in Nat :
          txn' = [txn EXCEPT ![r] =
                    [row |-> [state |-> "succeeded", count |-> tried[r],
                              tokens |-> t, error |-> "none"],
                     attempts |-> @.attempts \cup {RecordAttempt(r, TRUE, "none", t)}]]
    BY <1>7, <2>0 DEF AttemptSucceeds
  <2>2. [state |-> "succeeded", count |-> tried[r], tokens |-> t, error |-> "none"] \in Row
    BY DEF Row, TypeOK
  <2>3. RecordAttempt(r, TRUE, "none", t) \in Attempt
    BY <1>7, CurrentIsCandidate DEF RecordAttempt, Attempt, TypeOK, AttemptSucceeds
  <2>4. QED
    BY <1>7, <2>1, <2>2, <2>3, RowTypes DEF TypeOK, AttemptSucceeds, Goto, Phases
<1>8. CASE AttemptFails(r)
  <2>1. PICK code \in ErrorCodes :
          txn' = [txn EXCEPT ![r].attempts =
                    @ \cup {RecordAttempt(r, FinalOnFailure(r, code), code, 0)}]
    BY <1>8, GatewayAssumption DEF AttemptFails
  <2>2. RecordAttempt(r, FinalOnFailure(r, code), code, 0) \in Attempt
    BY <1>8, CurrentIsCandidate
    DEF RecordAttempt, Attempt, TypeOK, AttemptFails, FinalOnFailure
  <2>3. QED
    BY <1>8, <2>1, <2>2, RowTypes DEF TypeOK, AttemptFails, Goto, Phases
<1>9. CASE StreamBreaks(r) \/ CommitFails(r)
  BY <1>9, RollBackTypes DEF TypeOK, StreamBreaks, CommitFails
<1>10. CASE Observe(r)
  <2>1. \A code : health_for(code) \in Statuses
    BY DEF health_for, Statuses
  <2>2. PICK a \in LastAttempt(r) :
          /\ health' = [health EXCEPT ![a.candidate] = health_for(a.error)]
          /\ AfterFailure(r, a.error)
    BY <1>10 DEF Observe
  <2>3. pc' \in [Requests -> Phases]
    BY <2>2 DEF TypeOK, AfterFailure, Goto, Phases
  <2>4. health' \in [Candidates -> Statuses]
    BY <2>1, <2>2 DEF TypeOK
  <2>5. QED
    BY <1>10, <2>3, <2>4 DEF TypeOK, Observe
<1>11. CASE ObservationLost(r)
  BY <1>11 DEF TypeOK, ObservationLost, AfterFailure, Goto, Phases
<1>12. CASE CloseFailed(r)
  <2>1. [state |-> "failed", count |-> tried[r], tokens |-> 0,
         error |-> IF txn[r].attempts = {} THEN "gateway" ELSE "upstream"] \in Row
    BY DEF Row, TypeOK
  <2>2. QED
    BY <1>12, <2>1, RowTypes DEF TypeOK, CloseFailed, Goto, Phases
<1>13. CASE Answer(r) \/ Disconnect(r)
  BY <1>13 DEF TypeOK, Answer, Disconnect, Goto, Phases
<1>14. CASE Commit(r)
  BY <1>14, RollBackTypes DEF TypeOK, Commit
<1>15. CASE Emit(r)
  BY <1>15, CurrentIsCandidate DEF TypeOK, Emit
<1>16. QED
  BY <1>1, <1>2, <1>3, <1>4, <1>5, <1>6, <1>7, <1>8, <1>9, <1>10, <1>11, <1>12,
     <1>13, <1>14, <1>15
  DEF Step, Admission, Loop, Ending

-----------------------------------------------------------------------------
(* A step of one request leaves the others alone. *)

Same(q) ==
  /\ call'[q] = call[q] /\ pc'[q] = pc[q] /\ order'[q] = order[q]
  /\ tried'[q] = tried[q] /\ txn'[q] = txn[q] /\ ledger'[q] = ledger[q]
  /\ bytes'[q] = bytes[q] /\ answer'[q] = answer[q]

\* RequestOK(q) reads nothing but the state of q.
LEMMA Frame ==
  ASSUME NEW q \in Requests, RequestOK(q), Same(q)
  PROVE  RequestOK(q)'
<1> USE DEF Same, Stream, Current
<1>1. PhaseOK(q)' /\ (ledger[q].row # NoRow => AnswerAgrees(q, ledger[q].row))'
  BY DEF RequestOK, PhaseOK, AnswerAgrees
<1>2. InLoopOK(q)'
  BY DEF RequestOK, InLoopOK, LoopAttempts
<1>3. QED
  BY <1>1, <1>2 DEF RequestOK

\* A step of one request changes nothing of another one.
LEMMA OthersStay ==
  ASSUME TypeOK, NEW r \in Requests, Step(r) \/ Emit(r) \/ Disconnect(r),
         NEW q \in Requests, q # r
  PROVE  Same(q)
<1> USE DEF TypeOK, Same, Goto
<1>1. CASE Admission(r)
  BY <1>1 DEF Admission, Connect, ConnectTimesOut, Reject, Admit, Touch, Resolve,
              StreamFindsNothing, OpenClientRequest, OpenConflicts, Raise, RollBack
<1>2. CASE SkipCandidate(r) \/ CallCandidate(r) \/ DeadlinePassed(r) \/ DecryptFails(r)
           \/ StreamBreaks(r)
  BY <1>2 DEF SkipCandidate, CallCandidate, DeadlinePassed, DecryptFails, StreamBreaks,
              Raise, RollBack
<1>3. CASE AttemptSucceeds(r) \/ AttemptFails(r) \/ CloseFailed(r)
  BY <1>3 DEF AttemptSucceeds, AttemptFails, CloseFailed
<1>4. CASE Observe(r) \/ ObservationLost(r)
  BY <1>4 DEF Observe, ObservationLost, AfterFailure
<1>5. CASE Ending(r) \/ Emit(r) \/ Disconnect(r)
  BY <1>5 DEF Ending, Answer, Commit, CommitFails, RollBack, Emit, Disconnect
<1>6. QED
  BY <1>1, <1>2, <1>3, <1>4, <1>5 DEF Step, Loop

-----------------------------------------------------------------------------
(* What each step does to the request that takes it. *)

\* No rows at all tell a consistent story.
LEMMA EmptyRows == Balanced(Nothing) /\ Consecutive(Nothing.attempts)
  BY DEF Balanced, Consecutive, Nothing, NoRow

\* A request whose transaction is rolled back leaves nothing behind.
LEMMA Dropped ==
  ASSUME NEW r \in Requests, RequestOK(r), pc[r] # "done",
         pc'[r] = "done", txn'[r] = Nothing, ledger'[r] = ledger[r],
         bytes'[r] = bytes[r], call'[r] = call[r]
  PROVE  RequestOK(r)'
<1>1. ledger'[r] = Nothing
  BY DEF RequestOK, PhaseOK
<1>2. PhaseOK(r)'
  BY DEF RequestOK, PhaseOK, Before, InLoop, Stream
<1>3. InLoopOK(r)'
  BY DEF InLoopOK, InLoop
<1>4. \A c, d \in bytes'[r] : c = d
  BY DEF RequestOK
<1>5. Nothing.row = NoRow
  BY DEF Nothing
<1>6. QED
  BY <1>1, <1>2, <1>3, <1>4, <1>5, EmptyRows DEF RequestOK

\* A request whose transaction is rolled back keeps its part of the invariant.
LEMMA RolledBack ==
  ASSUME Inv, NEW r \in Requests,
         \/ ConnectTimesOut(r) \/ Reject(r) \/ StreamFindsNothing(r)
         \/ OpenConflicts(r) \/ DecryptFails(r) \/ StreamBreaks(r) \/ CommitFails(r)
  PROVE  RequestOK(r)'
<1>1. TypeOK /\ RequestOK(r)
  BY DEF Inv
<1>2. CASE ConnectTimesOut(r)
  BY <1>1, <1>2, Dropped
  DEF ConnectTimesOut, Goto, TypeOK, RequestOK, PhaseOK, Before
<1>3. CASE Reject(r) \/ StreamFindsNothing(r) \/ OpenConflicts(r) \/ DecryptFails(r)
           \/ StreamBreaks(r) \/ CommitFails(r)
  <2>1. pc[r] # "done" /\ RollBack(r)
    BY <1>3 DEF Reject, StreamFindsNothing, OpenConflicts, DecryptFails, StreamBreaks,
                CommitFails, Raise, MoreCandidates
  <2>2. UNCHANGED <<ledger, bytes, call>>
    BY <1>3 DEF Reject, StreamFindsNothing, OpenConflicts, DecryptFails, StreamBreaks,
                CommitFails
  <2>3. pc'[r] = "done" /\ txn'[r] = Nothing
    BY <1>1, <2>1 DEF RollBack, Goto, TypeOK
  <2>4. QED
    BY <1>1, <2>1, <2>2, <2>3, Dropped
<1>4. QED
  BY <1>2, <1>3

\* The queries before the first attempt keep the part of the request.
LEMMA Admitted ==
  ASSUME Inv, NEW r \in Requests,
         Connect(r) \/ Admit(r) \/ Touch(r) \/ Resolve(r) \/ OpenClientRequest(r)
  PROVE  RequestOK(r)'
<1>1. TypeOK /\ RequestOK(r)
  BY DEF Inv
<1>2. CASE Connect(r) \/ Admit(r) \/ Touch(r)
  <2>1. /\ pc[r] \in Before /\ pc'[r] \in Before \ {"opening"}
        /\ UNCHANGED <<call, order, tried, txn, ledger, bytes, answer>>
    BY <1>1, <1>2 DEF Connect, Admit, Touch, Goto, TypeOK, Before
  <2>2. PhaseOK(r)' /\ InLoopOK(r)'
    BY <1>1, <2>1 DEF RequestOK, PhaseOK, InLoopOK, Before, InLoop, Stream
  <2>3. QED
    BY <1>1, <2>1, <2>2 DEF RequestOK, AnswerAgrees, Stream
<1>3. CASE Resolve(r)
  <2>1. /\ pc[r] = "routing" /\ pc'[r] = "opening" /\ Injective(order'[r])
        /\ UNCHANGED <<call, tried, txn, ledger, bytes, answer>>
    BY <1>1, <1>3, OrdersAreSequences DEF Resolve, Goto, TypeOK
  <2>2. PhaseOK(r)' /\ InLoopOK(r)'
    BY <1>1, <2>1 DEF RequestOK, PhaseOK, InLoopOK, Before, InLoop, Stream, Injective
  <2>3. QED
    BY <1>1, <2>1, <2>2 DEF RequestOK, AnswerAgrees, Stream
<1>4. CASE OpenClientRequest(r)
  <2> DEFINE row == [state |-> "pending", count |-> 0, tokens |-> 0, error |-> "none"]
  <2>1. /\ pc[r] = "opening" /\ pc'[r] = "choose"
        /\ txn' = [txn EXCEPT ![r].row = row]
        /\ UNCHANGED <<call, order, tried, ledger, bytes, answer>>
    BY <1>1, <1>4 DEF OpenClientRequest, Goto, TypeOK
  <2>2. txn[r] = Nothing /\ txn \in [Requests -> Rows]
    BY <1>1, <2>1 DEF RequestOK, PhaseOK, Before, TypeOK
  <2>3. txn'[r] = [row |-> row, attempts |-> {}]
    BY <2>1, <2>2 DEF Nothing
  <2>4. Balanced(txn'[r]) /\ Consecutive(txn'[r].attempts)
    BY <2>3 DEF Balanced, Consecutive, NoRow
  <2>5. PhaseOK(r)' /\ InLoopOK(r)'
    BY <1>1, <2>1, <2>3 DEF RequestOK, PhaseOK, InLoopOK, LoopAttempts, Before, InLoop,
                            Stream, Injective
  <2>6. QED
    BY <1>1, <2>1, <2>4, <2>5 DEF RequestOK, AnswerAgrees, Stream, Balanced, Consecutive
<1>5. QED
  BY <1>2, <1>3, <1>4

\* Going from one candidate to the next, and a chunk sent, keep the part of the
\* request.
LEMMA Advanced ==
  ASSUME Inv, NEW r \in Requests,
         SkipCandidate(r) \/ CallCandidate(r) \/ DeadlinePassed(r) \/ Emit(r)
  PROVE  RequestOK(r)'
<1>1. TypeOK /\ RequestOK(r)
  BY DEF Inv
<1>2. order[r] \in Seq(Candidates) /\ tried[r] \in Nat
  BY <1>1 DEF TypeOK
<1>3. UNCHANGED <<call, order, txn, ledger, answer>>
  BY DEF SkipCandidate, CallCandidate, DeadlinePassed, Emit
<1>4. CASE SkipCandidate(r) \/ CallCandidate(r) \/ DeadlinePassed(r)
  <2>1. /\ pc[r] = "choose" /\ pc'[r] \in {"choose", "calling", "closing"}
        /\ tried'[r] = tried[r] + 1 /\ bytes'[r] = bytes[r]
        /\ tried[r] < Len(order[r])
    BY <1>1, <1>4 DEF SkipCandidate, CallCandidate, DeadlinePassed, MoreCandidates, Goto, TypeOK
  <2>2. tried'[r] \in DOMAIN order[r]
    BY <1>2, <2>1
  <2>3. bytes[r] = {} /\ LoopAttempts(r) /\ \A a \in txn[r].attempts : Retryable(a.error)
    BY <1>1, <2>1 DEF RequestOK, InLoopOK, InLoop
  <2>4. \A a \in txn[r].attempts : a.number < tried'[r] /\ a.number <= tried'[r]
    <3> SUFFICES ASSUME NEW a \in txn[r].attempts
                 PROVE  a.number < tried'[r] /\ a.number <= tried'[r]
      OBVIOUS
    <3>1. a.number \in DOMAIN order[r] /\ a.number <= tried[r]
      BY <2>3 DEF LoopAttempts
    <3>2. QED
      BY <1>2, <2>1, <3>1
  <2>5. LoopAttempts(r)'
    BY <1>3, <2>3, <2>4 DEF LoopAttempts
  <2>6. InLoopOK(r)'
    BY <1>1, <1>3, <2>1, <2>2, <2>3, <2>4, <2>5 DEF RequestOK, InLoopOK, InLoop
  <2>7. PhaseOK(r)'
    BY <1>1, <1>3, <2>1 DEF RequestOK, PhaseOK, Before, InLoop, Stream, Injective
  <2>8. QED
    BY <1>1, <1>3, <2>1, <2>6, <2>7 DEF RequestOK, AnswerAgrees, Stream
<1>5. CASE Emit(r)
  <2>1. /\ pc[r] = "calling" /\ pc' = pc /\ tried' = tried /\ Stream(r)
        /\ bytes'[r] = bytes[r] \cup {Current(r)}
    BY <1>1, <1>5 DEF Emit, TypeOK
  <2>2. bytes'[r] = {Current(r)} /\ Current(r)' = Current(r)
    BY <1>1, <1>3, <2>1 DEF RequestOK, InLoopOK, Current
  <2>3. InLoopOK(r)'
    BY <1>1, <1>3, <2>1, <2>2 DEF RequestOK, InLoopOK, InLoop, LoopAttempts
  <2>4. PhaseOK(r)'
    BY <1>1, <1>3, <2>1 DEF RequestOK, PhaseOK, Before, InLoop, Stream, Injective
  <2>5. QED
    BY <1>1, <1>3, <2>2, <2>3, <2>4 DEF RequestOK, AnswerAgrees, Stream
<1>6. QED
  BY <1>4, <1>5

\* A successful attempt keeps the part of the request.
LEMMA Succeeded ==
  ASSUME Inv, NEW r \in Requests, AttemptSucceeds(r)
  PROVE  RequestOK(r)'
<1>1. TypeOK /\ RequestOK(r)
  BY DEF Inv
<1>2. /\ pc[r] = "calling" /\ pc'[r] = "answering"
      /\ UNCHANGED <<call, order, tried, ledger, bytes, answer>>
  BY <1>1 DEF AttemptSucceeds, Goto, TypeOK
<1>3. PICK t :
        txn' = [txn EXCEPT ![r] =
                  [row |-> [state |-> "succeeded", count |-> tried[r],
                            tokens |-> t, error |-> "none"],
                   attempts |-> @.attempts \cup {RecordAttempt(r, TRUE, "none", t)}]]
  BY DEF AttemptSucceeds
<1> DEFINE new == RecordAttempt(r, TRUE, "none", t)
           row == [state |-> "succeeded", count |-> tried[r], tokens |-> t, error |-> "none"]
<1>4. txn'[r] = [row |-> row, attempts |-> txn[r].attempts \cup {new}]
  BY <1>1, <1>3 DEF TypeOK
<1>5. /\ new.number = tried[r] /\ new.candidate = Current(r) /\ new.final = TRUE
      /\ new.error = "none" /\ new.tokens = t
  BY DEF RecordAttempt
<1>6. /\ LoopAttempts(r) /\ tried[r] \in DOMAIN order[r] /\ Injective(order[r])
      /\ \A a \in txn[r].attempts : a.number < tried[r] /\ Retryable(a.error)
      /\ Consecutive(txn[r].attempts)
  BY <1>1, <1>2 DEF RequestOK, PhaseOK, InLoopOK, InLoop
<1>7. tried[r] \in Nat
  BY <1>1 DEF TypeOK
<1> HIDE DEF new
<1>8. \A a \in txn[r].attempts :
        /\ a.error # "none" /\ a.tokens = 0 /\ a.number # tried[r]
        /\ a.number < tried[r] /\ a.candidate # Current(r) /\ ~(tried[r] < a.number)
  <2> SUFFICES ASSUME NEW a \in txn[r].attempts
               PROVE  /\ a.error # "none" /\ a.tokens = 0 /\ a.number # tried[r]
                      /\ a.number < tried[r] /\ a.candidate # Current(r)
                      /\ ~(tried[r] < a.number)
    OBVIOUS
  <2>1. /\ a.error # "none" /\ a.tokens = 0
        /\ a.number \in DOMAIN order[r] /\ a.candidate = order[r][a.number]
    BY <1>6 DEF LoopAttempts
  <2>2. a.number \in Nat
    BY <1>1, <2>1 DEF TypeOK
  <2>3. a.number < tried[r]
    BY <1>6
  <2>4. a.number # tried[r] /\ ~(tried[r] < a.number)
    BY <2>2, <2>3, <1>7
  <2>5. a.candidate # Current(r)
    BY <1>6, <2>1, <2>4 DEF Injective, Current
  <2>6. QED
    BY <2>1, <2>3, <2>4, <2>5
<1>9. Balanced([row |-> row, attempts |-> txn[r].attempts \cup {new}])
  BY <1>5, <1>8 DEF Balanced, NoRow
<1>10. Consecutive(txn[r].attempts \cup {new})
  BY <1>5, <1>6, <1>7, <1>8 DEF Consecutive
<1>11. PhaseOK(r)'
  BY <1>1, <1>2, <1>4 DEF RequestOK, PhaseOK, Before, InLoop, Stream
<1>12. InLoopOK(r)'
  BY <1>2 DEF InLoopOK, InLoop
<1>13. QED
  BY <1>1, <1>2, <1>4, <1>9, <1>10, <1>11, <1>12 DEF RequestOK, AnswerAgrees, Stream

\* A failed attempt keeps the part of the request.
LEMMA Failed ==
  ASSUME Inv, NEW r \in Requests, AttemptFails(r)
  PROVE  RequestOK(r)'
<1>1. TypeOK /\ RequestOK(r)
  BY DEF Inv
<1>2. /\ pc[r] = "calling" /\ pc'[r] = "observing"
      /\ UNCHANGED <<call, order, tried, ledger, bytes, answer>>
  BY <1>1 DEF AttemptFails, Goto, TypeOK
<1>3. PICK code \in Failures :
        txn' = [txn EXCEPT ![r].attempts =
                  @ \cup {RecordAttempt(r, FinalOnFailure(r, code), code, 0)}]
  BY DEF AttemptFails
<1> DEFINE new == RecordAttempt(r, FinalOnFailure(r, code), code, 0)
<1>4. txn'[r].row = txn[r].row /\ txn'[r].attempts = txn[r].attempts \cup {new}
  BY <1>1, <1>3 DEF TypeOK, Rows
<1>5. new.number = tried[r] /\ new.candidate = Current(r) /\ new.tokens = 0
  BY DEF RecordAttempt
<1>6. new.error # "none"
  <2>1. new.error = code
    BY DEF RecordAttempt
  <2>2. code # "none"
    BY GatewayAssumption DEF ErrorCodes
  <2>3. QED
    BY <2>1, <2>2
<1> HIDE DEF new
<1>7. /\ LoopAttempts(r) /\ tried[r] \in DOMAIN order[r] /\ Injective(order[r])
      /\ \A a \in txn[r].attempts : a.number < tried[r] /\ Retryable(a.error)
      /\ Consecutive(txn[r].attempts) /\ txn[r].row.state = "pending"
  BY <1>1, <1>2 DEF RequestOK, PhaseOK, InLoopOK, InLoop
<1>8. tried[r] \in Nat
  BY <1>1 DEF TypeOK
<1>9. \A a \in txn[r].attempts :
        /\ a.number < tried[r] /\ a.number # tried[r] /\ ~(tried[r] < a.number)
        /\ a.number <= tried[r] /\ a.candidate # Current(r)
  <2> SUFFICES ASSUME NEW a \in txn[r].attempts
               PROVE  /\ a.number < tried[r] /\ a.number # tried[r] /\ ~(tried[r] < a.number)
                      /\ a.number <= tried[r] /\ a.candidate # Current(r)
    OBVIOUS
  <2>1. a.number \in DOMAIN order[r] /\ a.candidate = order[r][a.number]
    BY <1>7 DEF LoopAttempts
  <2>2. a.number \in Nat
    BY <1>1, <2>1 DEF TypeOK
  <2>3. a.number < tried[r]
    BY <1>7
  <2>4. a.number # tried[r] /\ ~(tried[r] < a.number) /\ a.number <= tried[r]
    BY <2>2, <2>3, <1>8
  <2>5. QED
    BY <1>7, <2>1, <2>3, <2>4 DEF Injective, Current
<1>10. LoopAttempts(r)'
  BY <1>2, <1>4, <1>5, <1>6, <1>7, <1>8, <1>9 DEF LoopAttempts, Current
<1>11. Consecutive(txn'[r].attempts)
  BY <1>4, <1>5, <1>7, <1>8, <1>9 DEF Consecutive
<1>12. Balanced(txn'[r])
  <2>1. txn'[r].row.state = "pending" /\ txn'[r].row # NoRow
    BY <1>1, <1>4, <1>7 DEF NoRow
  <2>2. \A a \in txn'[r].attempts : a.error # "none" /\ a.tokens = 0
    BY <1>4, <1>5, <1>6, <1>7 DEF LoopAttempts
  <2>3. QED
    BY <2>1, <2>2 DEF Balanced
<1>13. InLoopOK(r)'
  <2>1. txn'[r].row.state = "pending"
    BY <1>4, <1>7
  <2>2. bytes'[r] \subseteq {Current(r)'}
    BY <1>1, <1>2 DEF RequestOK, InLoopOK, Current
  <2>3. \A a \in txn'[r].attempts : a.number < tried'[r] => Retryable(a.error)
    BY <1>2, <1>4, <1>5, <1>7, <1>8
  <2>4. QED
    BY <1>2, <1>7, <1>10, <2>1, <2>2, <2>3 DEF InLoopOK, InLoop
<1>14. PhaseOK(r)'
  BY <1>1, <1>2 DEF RequestOK, PhaseOK, Before, InLoop, Stream
<1>15. QED
  BY <1>1, <1>2, <1>11, <1>12, <1>13, <1>14 DEF RequestOK, AnswerAgrees, Stream

\* The health observation after a failure keeps the part of the request, whether
\* it is stored or lost.
LEMMA Observed ==
  ASSUME Inv, NEW r \in Requests, Observe(r) \/ ObservationLost(r)
  PROVE  RequestOK(r)'
<1>1. TypeOK /\ RequestOK(r)
  BY DEF Inv
<1>2. pc[r] = "observing" /\ UNCHANGED <<call, order, tried, txn, ledger, bytes, answer>>
  BY DEF Observe, ObservationLost
<1>3. PICK a \in LastAttempt(r) : AfterFailure(r, a.error)
  BY DEF Observe, ObservationLost
<1>4. a \in txn[r].attempts /\ a.number = tried[r]
  BY <1>3 DEF LastAttempt
<1>5. /\ pc'[r] \in {"choose", "closing"}
      /\ pc'[r] = "choose" => Retryable(a.error) /\ ~(Stream(r) /\ Emitted(r))
  BY <1>1, <1>3 DEF AfterFailure, Goto, TypeOK
<1>6. /\ LoopAttempts(r) /\ txn[r].row.state = "pending"
      /\ Consecutive(txn[r].attempts) /\ tried[r] \in Nat
      /\ bytes[r] \subseteq {Current(r)} /\ (~Stream(r) => bytes[r] = {})
      /\ \A b \in txn[r].attempts : b.number < tried[r] => Retryable(b.error)
  BY <1>1, <1>2 DEF RequestOK, PhaseOK, InLoopOK, InLoop, TypeOK
<1>7. pc'[r] = "choose" => \A b \in txn[r].attempts : Retryable(b.error)
  <2> SUFFICES ASSUME pc'[r] = "choose", NEW b \in txn[r].attempts, b # a
               PROVE  Retryable(b.error)
    BY <1>5
  <2>1. b.number # tried[r] /\ b.number <= tried[r] /\ b.number \in DOMAIN order[r]
    BY <1>4, <1>6 DEF Consecutive, LoopAttempts
  <2>2. b.number \in Nat
    BY <1>1, <2>1 DEF TypeOK
  <2>3. b.number < tried[r]
    BY <1>6, <2>1, <2>2
  <2>4. QED
    BY <1>6, <2>3
<1>8. pc'[r] = "choose" => bytes[r] = {}
  BY <1>5, <1>6 DEF Emitted
<1>9. InLoopOK(r)'
  BY <1>2, <1>5, <1>6, <1>7, <1>8 DEF InLoopOK, InLoop, LoopAttempts
<1>10. PhaseOK(r)'
  BY <1>1, <1>2, <1>5 DEF RequestOK, PhaseOK, Before, InLoop, Stream, Injective
<1>11. QED
  BY <1>1, <1>2, <1>9, <1>10 DEF RequestOK, AnswerAgrees, Stream

\* Closing a client request as failed keeps the part of the request.
LEMMA ClosedFailed ==
  ASSUME Inv, NEW r \in Requests, CloseFailed(r)
  PROVE  RequestOK(r)'
<1>1. TypeOK /\ RequestOK(r)
  BY DEF Inv
<1>2. /\ pc[r] \in {"choose", "closing"} /\ pc'[r] = "answering"
      /\ UNCHANGED <<call, order, tried, ledger, bytes, answer>>
  BY <1>1 DEF CloseFailed, Goto, TypeOK
<1> DEFINE row == [state |-> "failed", count |-> tried[r], tokens |-> 0,
                   error |-> IF txn[r].attempts = {} THEN "gateway" ELSE "upstream"]
<1>3. txn' = [txn EXCEPT ![r].row = row]
  BY DEF CloseFailed
<1>4. txn'[r].row = row /\ txn'[r].attempts = txn[r].attempts
  BY <1>1, <1>3 DEF TypeOK, Rows
<1>5. row.state = "failed" /\ row.count = tried[r]
  OBVIOUS
<1> HIDE DEF row
<1>6. LoopAttempts(r) /\ Consecutive(txn[r].attempts)
  BY <1>1, <1>2 DEF RequestOK, InLoopOK, InLoop
<1>7. txn'[r].row # NoRow
  BY <1>4, <1>5 DEF NoRow
<1>8. Balanced(txn'[r])
  BY <1>4, <1>5, <1>6, <1>7 DEF Balanced, LoopAttempts
<1>9. PhaseOK(r)'
  BY <1>1, <1>2, <1>4, <1>5 DEF RequestOK, PhaseOK, Before, InLoop, Stream
<1>10. InLoopOK(r)'
  BY <1>2 DEF InLoopOK, InLoop
<1>11. QED
  BY <1>1, <1>2, <1>4, <1>6, <1>8, <1>9, <1>10 DEF RequestOK, AnswerAgrees, Stream

\* Answering, losing the client and committing keep the part of the request.
LEMMA Ended ==
  ASSUME Inv, NEW r \in Requests, Answer(r) \/ Disconnect(r) \/ Commit(r)
  PROVE  RequestOK(r)'
<1>1. TypeOK /\ RequestOK(r)
  BY DEF Inv
<1>2. CASE Answer(r) \/ Disconnect(r)
  <2>1. /\ pc[r] \in {"calling", "observing", "answering"} /\ pc'[r] = "committing"
        /\ UNCHANGED <<call, order, tried, txn, ledger, bytes>>
        /\ answer[r] = "none"
    BY <1>1, <1>2 DEF Answer, Disconnect, Goto, TypeOK, RequestOK, PhaseOK
  <2>2. txn[r].row.state \in {"pending", "succeeded", "failed"}
    BY <1>1, <2>1 DEF RequestOK, PhaseOK, InLoopOK, InLoop
  <2>3. /\ answer'[r] = "ok" => txn[r].row.state = "succeeded"
        /\ answer'[r] = "error" => txn[r].row.state = "failed"
        /\ answer'[r] = "none" => Stream(r)
    <3>1. CASE Answer(r)
      BY <1>1, <3>1 DEF Answer, TypeOK, RequestOK, PhaseOK
    <3>2. CASE Disconnect(r)
      BY <2>1, <3>2 DEF Disconnect
    <3>3. QED
      BY <1>2, <3>1, <3>2
  <2>4. PhaseOK(r)'
    BY <1>1, <2>1, <2>2, <2>3
    DEF RequestOK, PhaseOK, Before, InLoop, Stream, AnswerAgrees, NoRow
  <2>5. InLoopOK(r)'
    BY <2>1 DEF InLoopOK, InLoop
  <2>6. ledger[r].row = NoRow
    BY <1>1, <2>1 DEF RequestOK, PhaseOK, Nothing
  <2>7. QED
    BY <1>1, <2>1, <2>4, <2>5, <2>6 DEF RequestOK
<1>3. CASE Commit(r)
  <2>1. /\ pc[r] = "committing" /\ pc'[r] = "done" /\ ledger'[r] = txn[r]
        /\ txn'[r] = Nothing /\ UNCHANGED <<call, order, tried, bytes, answer>>
    BY <1>1, <1>3 DEF Commit, RollBack, Goto, TypeOK
  <2>2. PhaseOK(r)' /\ InLoopOK(r)'
    BY <1>1, <2>1 DEF RequestOK, PhaseOK, InLoopOK, Before, InLoop, Stream
  <2>3. AnswerAgrees(r, ledger[r].row)'
    BY <1>1, <2>1 DEF RequestOK, PhaseOK, AnswerAgrees, Stream
  <2>4. QED
    BY <1>1, <2>1, <2>2, <2>3, EmptyRows DEF RequestOK
<1>4. QED
  BY <1>2, <1>3

-----------------------------------------------------------------------------
(* The invariant is inductive. *)

\* The invariant holds before the first request.
LEMMA InvInit == Init => Inv
<1> SUFFICES ASSUME Init PROVE Inv
  OBVIOUS
<1>1. TypeOK
  BY InitTypeOK
<1>2. ASSUME NEW r \in Requests PROVE RequestOK(r)
  <2>1. /\ pc[r] = "arrived" /\ txn[r] = Nothing /\ ledger[r] = Nothing
        /\ bytes[r] = {} /\ answer[r] = "none"
    BY DEF Init
  <2>2. PhaseOK(r) /\ InLoopOK(r)
    BY <2>1 DEF PhaseOK, InLoopOK, Before, InLoop
  <2>3. QED
    BY <2>1, <2>2, EmptyRows DEF RequestOK, Nothing
<1>3. QED
  BY <1>1, <1>2 DEF Inv

\* A crash rolls every open transaction back and keeps the invariant.
LEMMA CrashKeepsInv == Inv /\ Crash => Inv'
<1> SUFFICES ASSUME Inv, Crash PROVE Inv'
  OBVIOUS
<1>1. TypeOK'
  BY DEF Inv, TypeOK, Crash, Phases, Rows, Nothing
<1>2. ASSUME NEW q \in Requests PROVE RequestOK(q)'
  <2>1. TypeOK /\ RequestOK(q)
    BY DEF Inv
  <2>2. /\ pc'[q] = IF Connected(q) THEN "done" ELSE pc[q]
        /\ txn'[q] = Nothing
        /\ UNCHANGED <<call, order, tried, ledger, bytes, answer>>
    BY DEF Crash
  <2>3. CASE Connected(q)
    BY <2>1, <2>2, <2>3, Dropped DEF Connected
  <2>4. CASE ~Connected(q)
    BY <2>1, <2>2, <2>4, Frame DEF Connected, Same, RequestOK, PhaseOK, Before
  <2>5. QED
    BY <2>3, <2>4
<1>3. QED
  BY <1>1, <1>2 DEF Inv

\* Every step of the gateway keeps the invariant.
LEMMA InvNext == Inv /\ [Next]_vars => Inv'
<1> SUFFICES ASSUME Inv, [Next]_vars PROVE Inv'
  OBVIOUS
<1>1. ASSUME NEW r \in Requests, Step(r) \/ Emit(r) \/ Disconnect(r)
      PROVE  Inv'
  <2>1. TypeOK'
    BY <1>1, TypeOKStep
  <2>2. ASSUME NEW q \in Requests, q # r PROVE RequestOK(q)'
    BY <1>1, <2>2, OthersStay, Frame DEF Inv
  <2>3. RequestOK(r)'
    BY <1>1, RolledBack, Admitted, Advanced, Succeeded, Failed, Observed, ClosedFailed,
       Ended
    DEF Step, Admission, Loop, Ending
  <2>4. QED
    BY <2>1, <2>2, <2>3 DEF Inv
<1>2. CASE Crash
  BY <1>2, CrashKeepsInv
<1>3. CASE UNCHANGED vars
  <2>1. TypeOK'
    BY <1>3 DEF Inv, TypeOK, vars
  <2>2. ASSUME NEW q \in Requests PROVE RequestOK(q)'
    BY <1>3, Frame DEF Inv, Same, vars
  <2>3. QED
    BY <2>1, <2>2 DEF Inv
<1>4. QED
  BY <1>1, <1>2, <1>3 DEF Next, Finished

-----------------------------------------------------------------------------
(* Why a request is given up.  What justifies the failure is gathered in the *)
(* loop: every candidate behind the current one was tried or cannot stream.  *)

\* Candidate i of r has a failed attempt among the rows, or cannot stream.
Behind(r, rows, i) ==
  \/ \E a \in rows.attempts : a.number = i /\ a.candidate = order[r][i]
  \/ Stream(r) /\ order[r][i] \in NonStreaming

\* The attempt with number n, the last one, forbids another.
Hopeless(r, rows, n) ==
  \E a \in rows.attempts : a.number = n /\ (~Retryable(a.error) \/ a.candidate \in bytes[r])

\* The deadline passed after attempt n was counted and before it was made.
OutOfTime(r, rows, n) ==
  call[r].kind = "chat" /\ \A a \in rows.attempts : a.number < n

\* What FailedForCause says of the committed rows, of any rows.
Cause(r, rows) ==
  \/ Hopeless(r, rows, rows.row.count)
  \/ OutOfTime(r, rows, rows.row.count)
  \/ \A i \in DOMAIN order[r] : Behind(r, rows, i)

\* Phase by phase, what is known of the candidates behind r and of its failure.
CauseOK(r) ==
  /\ pc[r] \in Before => tried[r] = 0
  /\ pc[r] = "choose" =>
       \A i \in DOMAIN order[r] : i <= tried[r] => Behind(r, txn[r], i)
  /\ pc[r] \in {"calling", "observing"} =>
       \A i \in DOMAIN order[r] : i < tried[r] => Behind(r, txn[r], i)
  /\ pc[r] = "closing" =>
       Hopeless(r, txn[r], tried[r]) \/ OutOfTime(r, txn[r], tried[r])
  /\ pc[r] \in {"answering", "committing"} /\ txn[r].row.state = "failed" =>
       Cause(r, txn[r])
  /\ ledger[r].row.state = "failed" => Cause(r, ledger[r])

CauseInv == \A r \in Requests : CauseOK(r)

\* A request that still runs has committed nothing.
LEMMA NothingCommitted ==
  ASSUME Inv, NEW r \in Requests, pc[r] # "done"
  PROVE  ledger[r].row.state # "failed"
  BY DEF Inv, RequestOK, PhaseOK, Nothing, NoRow

\* CauseOK(q) reads nothing but the state of q.
LEMMA CauseFrame ==
  ASSUME NEW q \in Requests, CauseOK(q), Same(q)
  PROVE  CauseOK(q)'
  BY DEF CauseOK, Cause, Behind, Hopeless, OutOfTime, Same, Stream

\* Whoever is dropped is not given up: nothing of it is committed.
LEMMA DroppedWithoutCause ==
  ASSUME Inv, NEW r \in Requests,
         \/ ConnectTimesOut(r) \/ Reject(r) \/ StreamFindsNothing(r)
         \/ OpenConflicts(r) \/ DecryptFails(r) \/ StreamBreaks(r) \/ CommitFails(r)
  PROVE  CauseOK(r)'
<1>1. pc[r] # "done" /\ ledger' = ledger /\ DOMAIN pc = Requests
  BY DEF ConnectTimesOut, Reject, StreamFindsNothing, OpenConflicts, DecryptFails,
         StreamBreaks, CommitFails, MoreCandidates, Inv, TypeOK
<1>2. pc'[r] = "done"
  BY <1>1 DEF ConnectTimesOut, Reject, StreamFindsNothing, OpenConflicts, DecryptFails,
              StreamBreaks, CommitFails, Raise, RollBack, Goto
<1>3. ledger'[r].row.state # "failed"
  BY <1>1, NothingCommitted
<1>4. QED
  BY <1>2, <1>3 DEF CauseOK, Before

\* Before the loop no attempt has been counted, and so none is behind.
LEMMA AdmittedWithoutAttempt ==
  ASSUME Inv, NEW r \in Requests, CauseOK(r),
         Connect(r) \/ Admit(r) \/ Touch(r) \/ Resolve(r) \/ OpenClientRequest(r)
  PROVE  CauseOK(r)'
<1>1. TypeOK /\ pc[r] \in Before /\ tried' = tried /\ ledger' = ledger
  BY DEF Inv, Connect, Admit, Touch, Resolve, OpenClientRequest, Before
<1>2. pc'[r] \in Before \cup {"choose"}
  BY <1>1 DEF Connect, Admit, Touch, Resolve, OpenClientRequest, Goto, TypeOK, Before
<1>3. tried'[r] = 0
  BY <1>1 DEF CauseOK
<1>4. ledger'[r].row.state # "failed"
  BY <1>1, NothingCommitted DEF Before
<1>5. \A i \in DOMAIN order'[r] : ~(i <= tried'[r])
  <2>1. order'[r] \in Seq(Candidates)
    BY TypeOKStep DEF TypeOK, Step, Admission
  <2>2. QED
    BY <1>3, <2>1
<1>6. QED
  BY <1>2, <1>3, <1>4, <1>5 DEF CauseOK, Before

\* A candidate is left behind when it cannot stream; the next one is called, or
\* the deadline stops the loop.
LEMMA MovedOn ==
  ASSUME Inv, NEW r \in Requests, CauseOK(r),
         SkipCandidate(r) \/ CallCandidate(r) \/ DeadlinePassed(r) \/ Emit(r)
  PROVE  CauseOK(r)'
<1>1. /\ TypeOK /\ pc[r] \in {"choose", "calling"} /\ RequestOK(r)
      /\ UNCHANGED <<call, order, txn, ledger>>
  BY DEF Inv, SkipCandidate, CallCandidate, DeadlinePassed, Emit, MoreCandidates
<1>2. ledger'[r].row.state # "failed"
  BY <1>1, NothingCommitted
<1>3. tried[r] \in Nat /\ \A i \in DOMAIN order[r] : i \in Nat
  BY <1>1 DEF TypeOK
<1>4. CASE SkipCandidate(r)
  <2>1. /\ pc[r] = "choose" /\ pc'[r] = "choose" /\ tried'[r] = tried[r] + 1
        /\ Stream(r) /\ order[r][tried[r] + 1] \in NonStreaming
    BY <1>1, <1>4 DEF SkipCandidate, MoreCandidates, Skipped, TypeOK
  <2>2. ASSUME NEW i \in DOMAIN order[r], i <= tried'[r] PROVE Behind(r, txn[r], i)
    <3>1. i <= tried[r] \/ i = tried[r] + 1
      BY <1>3, <2>1, <2>2
    <3>2. QED
      BY <2>1, <3>1 DEF CauseOK, Behind
  <2>3. QED
    BY <1>1, <1>2, <2>1, <2>2 DEF CauseOK, Before, Behind, Stream
<1>5. CASE CallCandidate(r)
  <2>1. pc[r] = "choose" /\ pc'[r] = "calling" /\ tried'[r] = tried[r] + 1
    BY <1>1, <1>5 DEF CallCandidate, MoreCandidates, Goto, TypeOK
  <2>2. \A i \in DOMAIN order[r] : i < tried'[r] => Behind(r, txn[r], i)
    BY <1>3, <2>1 DEF CauseOK
  <2>3. QED
    BY <1>1, <1>2, <2>1, <2>2 DEF CauseOK, Before, Behind, Stream
<1>6. CASE DeadlinePassed(r)
  <2>1. /\ pc[r] = "choose" /\ pc'[r] = "closing" /\ tried'[r] = tried[r] + 1
        /\ call[r].kind = "chat"
    BY <1>1, <1>6 DEF DeadlinePassed, MoreCandidates, Goto, TypeOK
  <2>2. \A a \in txn[r].attempts : a.number < tried'[r]
    <3> SUFFICES ASSUME NEW a \in txn[r].attempts PROVE a.number < tried[r] + 1
      BY <2>1
    <3>1. a.number <= tried[r] /\ a.number \in Nat
      BY <1>1, <1>3, <2>1 DEF RequestOK, InLoopOK, InLoop, LoopAttempts
    <3>2. QED
      BY <1>3, <3>1
  <2>3. OutOfTime(r, txn[r], tried[r])'
    BY <1>1, <2>1, <2>2 DEF OutOfTime
  <2>4. QED
    BY <1>2, <2>1, <2>3 DEF CauseOK, Before
<1>7. CASE Emit(r)
  <2>1. pc[r] = "calling" /\ UNCHANGED <<pc, tried>>
    BY <1>7 DEF Emit
  <2>2. QED
    BY <1>1, <1>2, <2>1 DEF CauseOK, Before, Behind, Stream
<1>8. QED
  BY <1>4, <1>5, <1>6, <1>7

\* An attempt ends: what is behind stays behind, and a success needs no cause.
LEMMA AttemptEnded ==
  ASSUME Inv, NEW r \in Requests, CauseOK(r), AttemptSucceeds(r) \/ AttemptFails(r)
  PROVE  CauseOK(r)'
<1>1. /\ TypeOK /\ pc[r] = "calling"
      /\ UNCHANGED <<call, order, tried, ledger, bytes>>
  BY DEF Inv, AttemptSucceeds, AttemptFails
<1>2. ledger'[r].row.state # "failed"
  BY <1>1, NothingCommitted
<1>3. CASE AttemptSucceeds(r)
  <2>1. pc'[r] = "answering" /\ txn'[r].row.state = "succeeded"
    BY <1>1, <1>3 DEF AttemptSucceeds, Goto, TypeOK
  <2>2. QED
    BY <1>2, <2>1 DEF CauseOK, Before
<1>4. CASE AttemptFails(r)
  <2>1. pc'[r] = "observing" /\ txn[r].attempts \subseteq txn'[r].attempts
    BY <1>1, <1>4 DEF AttemptFails, Goto, TypeOK, Rows
  <2>2. \A i \in DOMAIN order[r] : i < tried[r] => Behind(r, txn[r], i)
    BY <1>1 DEF CauseOK
  <2>3. \A i \in DOMAIN order[r] : Behind(r, txn[r], i) => Behind(r, txn[r], i)'
    BY <1>1, <2>1 DEF Behind, Stream
  <2>4. QED
    BY <1>1, <1>2, <2>1, <2>2, <2>3 DEF CauseOK, Before
<1>5. QED
  BY <1>3, <1>4

\* After a failure the candidate is behind, or the failure is the cause.
LEMMA FailureIsCause ==
  ASSUME Inv, NEW r \in Requests, CauseOK(r), Observe(r) \/ ObservationLost(r)
  PROVE  CauseOK(r)'
<1>1. /\ TypeOK /\ RequestOK(r) /\ pc[r] = "observing"
      /\ UNCHANGED <<call, order, tried, txn, ledger, bytes>>
  BY DEF Inv, Observe, ObservationLost
<1>2. ledger'[r].row.state # "failed"
  BY <1>1, NothingCommitted
<1>3. PICK a \in LastAttempt(r) : AfterFailure(r, a.error)
  BY DEF Observe, ObservationLost
<1>4. a \in txn[r].attempts /\ a.number = tried[r] /\ a.candidate = order[r][tried[r]]
  BY <1>1, <1>3 DEF LastAttempt, RequestOK, InLoopOK, InLoop, LoopAttempts
<1>5. \/ pc'[r] = "choose"
      \/ pc'[r] = "closing" /\ (~Retryable(a.error) \/ Emitted(r))
  BY <1>1, <1>3 DEF AfterFailure, Goto, TypeOK
<1>6. tried[r] \in Nat /\ \A i \in DOMAIN order[r] : i \in Nat
  BY <1>1 DEF TypeOK
<1>7. CASE pc'[r] = "choose"
  <2>1. ASSUME NEW i \in DOMAIN order[r], i <= tried[r] PROVE Behind(r, txn[r], i)
    <3>1. i < tried[r] \/ i = tried[r]
      BY <1>6, <2>1
    <3>2. QED
      BY <1>1, <1>4, <3>1 DEF CauseOK, Behind
  <2>2. QED
    BY <1>1, <1>2, <1>7, <2>1 DEF CauseOK, Before, Behind, Stream
<1>8. CASE pc'[r] = "closing" /\ (~Retryable(a.error) \/ Emitted(r))
  <2>1. Hopeless(r, txn[r], tried[r])
    BY <1>4, <1>8 DEF Hopeless, Emitted, Current
  <2>2. Hopeless(r, txn[r], tried[r])'
    BY <1>1, <2>1 DEF Hopeless
  <2>3. QED
    BY <1>2, <1>8, <2>2 DEF CauseOK, Before
<1>9. QED
  BY <1>5, <1>7, <1>8

\* A request closed as failed has its cause in its rows.
LEMMA ClosedForCause ==
  ASSUME Inv, NEW r \in Requests, CauseOK(r), CloseFailed(r)
  PROVE  CauseOK(r)'
<1>1. /\ TypeOK /\ pc[r] \in {"choose", "closing"} /\ pc'[r] = "answering"
      /\ UNCHANGED <<call, order, tried, ledger, bytes>>
  BY DEF Inv, TypeOK, CloseFailed, Goto
<1>2. ledger'[r].row.state # "failed"
  BY <1>1, NothingCommitted
<1> DEFINE new == [state |-> "failed", count |-> tried[r], tokens |-> 0,
                   error |-> IF txn[r].attempts = {} THEN "gateway" ELSE "upstream"]
<1>3. txn' = [txn EXCEPT ![r].row = new] /\ new.count = tried[r]
  BY DEF CloseFailed
<1> HIDE DEF new
<1>4. txn'[r].attempts = txn[r].attempts /\ txn'[r].row.count = tried[r]
  BY <1>1, <1>3 DEF TypeOK, Rows
<1>5. CASE pc[r] = "closing"
  <2>1. \/ Hopeless(r, txn'[r], tried[r])
        \/ OutOfTime(r, txn'[r], tried[r])
    BY <1>4, <1>5 DEF CauseOK, Hopeless, OutOfTime
  <2>2. Cause(r, txn[r])'
    BY <1>1, <1>4, <2>1 DEF Cause, Hopeless, OutOfTime
  <2>3. QED
    BY <1>1, <1>2, <2>2 DEF CauseOK, Before
<1>6. CASE pc[r] = "choose"
  <2>1. tried[r] >= Len(order[r])
    BY <1>6 DEF CloseFailed
  <2>2. \A i \in DOMAIN order[r] : i <= tried[r]
    BY <1>1, <2>1 DEF TypeOK
  <2>3. \A i \in DOMAIN order[r] : Behind(r, txn'[r], i)
    BY <1>4, <1>6, <2>2 DEF CauseOK, Behind
  <2>4. Cause(r, txn[r])'
    BY <1>1, <2>3 DEF Cause, Behind, Stream
  <2>5. QED
    BY <1>1, <1>2, <2>4 DEF CauseOK, Before
<1>7. QED
  BY <1>1, <1>5, <1>6

\* The cause is committed with the rows.
LEMMA CauseCommitted ==
  ASSUME Inv, NEW r \in Requests, CauseOK(r), Answer(r) \/ Disconnect(r) \/ Commit(r)
  PROVE  CauseOK(r)'
<1>1. TypeOK /\ RequestOK(r) /\ UNCHANGED <<call, order, tried, bytes>>
  BY DEF Inv, Answer, Disconnect, Commit
<1>2. CASE Answer(r) \/ Disconnect(r)
  <2>1. /\ pc[r] \in {"calling", "observing", "answering"} /\ pc'[r] = "committing"
        /\ UNCHANGED <<txn, ledger>>
    BY <1>1, <1>2 DEF Answer, Disconnect, Goto, TypeOK
  <2>2. ledger'[r].row.state # "failed"
    BY <2>1, NothingCommitted
  <2>3. txn[r].row.state = "failed" => Cause(r, txn[r])
    BY <1>1, <2>1 DEF CauseOK, RequestOK, InLoopOK, InLoop
  <2>4. Cause(r, txn[r]) => Cause(r, txn[r])'
    BY <1>1, <2>1 DEF Cause, Hopeless, OutOfTime, Behind, Stream
  <2>5. QED
    BY <2>1, <2>2, <2>3, <2>4 DEF CauseOK, Before
<1>3. CASE Commit(r)
  <2>1. /\ pc[r] = "committing" /\ pc'[r] = "done" /\ ledger'[r] = txn[r]
    BY <1>1, <1>3 DEF Commit, RollBack, Goto, TypeOK
  <2>2. txn[r].row.state = "failed" => Cause(r, txn[r])
    BY <2>1 DEF CauseOK
  <2>3. Cause(r, txn[r]) => Cause(r, ledger[r])'
    BY <1>1, <2>1 DEF Cause, Hopeless, OutOfTime, Behind, Stream
  <2>4. QED
    BY <2>1, <2>2, <2>3 DEF CauseOK, Before
<1>4. QED
  BY <1>2, <1>3

\* Every step of the gateway keeps the causes.
LEMMA CauseNext == Inv /\ CauseInv /\ [Next]_vars => CauseInv'
<1> SUFFICES ASSUME Inv, CauseInv, [Next]_vars PROVE CauseInv'
  OBVIOUS
<1>1. ASSUME NEW r \in Requests, Step(r) \/ Emit(r) \/ Disconnect(r)
      PROVE  CauseInv'
  <2>1. ASSUME NEW q \in Requests, q # r PROVE CauseOK(q)'
    BY <1>1, <2>1, OthersStay, CauseFrame DEF Inv, CauseInv
  <2>2. CauseOK(r)
    BY DEF CauseInv
  <2>3. CauseOK(r)'
    BY <1>1, <2>2, DroppedWithoutCause, AdmittedWithoutAttempt, MovedOn, AttemptEnded,
       FailureIsCause, ClosedForCause, CauseCommitted
    DEF Step, Admission, Loop, Ending
  <2>4. QED
    BY <2>1, <2>3 DEF CauseInv
<1>2. CASE Crash
  <2> SUFFICES ASSUME NEW q \in Requests PROVE CauseOK(q)'
    BY DEF CauseInv
  <2>1. /\ pc'[q] = IF Connected(q) THEN "done" ELSE pc[q]
        /\ UNCHANGED <<call, order, tried, ledger, bytes, answer>>
    BY <1>2 DEF Crash
  <2>2. CASE Connected(q)
    BY <2>1, <2>2, NothingCommitted DEF CauseOK, Connected, Before
  <2>3. CASE ~Connected(q)
    <3>1. Same(q)
      BY <1>2, <2>1, <2>3 DEF Connected, Same, Crash, Inv, RequestOK, PhaseOK, Before
    <3>2. QED
      BY <3>1, CauseFrame DEF CauseInv
  <2>4. QED
    BY <2>2, <2>3
<1>3. CASE UNCHANGED vars
  BY <1>3, CauseFrame DEF CauseInv, Same, vars
<1>4. QED
  BY <1>1, <1>2, <1>3 DEF Next, Finished

-----------------------------------------------------------------------------
(* The theorems. *)

\* Inv holds in every state the gateway can reach.
THEOREM InvHolds == Spec => []Inv
  BY InvInit, InvNext, PTL DEF Spec

\* Every variable keeps its type, whatever the requests do.
THEOREM TypeCorrect == Spec => []TypeOK
<1>1. Inv => TypeOK
  BY DEF Inv
<1>2. QED
  BY <1>1, InvHolds, PTL

\* services/gateway.py: a committed ClientRequest and its committed UsageRecords
\* always tell the same story.
THEOREM LedgerAlwaysBalances == Spec => []LedgerBalances
<1>1. Inv => LedgerBalances
  BY DEF Inv, RequestOK, LedgerBalances
<1>2. QED
  BY <1>1, InvHolds, PTL

\* services/gateway.py: no candidate is tried twice, and none is tried after a
\* failure that may not be retried.
THEOREM FailoverStops == Spec => []NoFailoverAfterHardFailure
<1>1. Inv => NoFailoverAfterHardFailure
  BY DEF Inv, RequestOK, Consecutive, NoFailoverAfterHardFailure
<1>2. QED
  BY <1>1, InvHolds, PTL

\* services/gateway.py stream_chat_completion: one stream, one provider's text.
THEOREM StreamsSpeakWithOneVoice == Spec => []OneVoice
<1>1. Inv => OneVoice
  BY DEF Inv, RequestOK, OneVoice
<1>2. QED
  BY <1>1, InvHolds, PTL

\* services/gateway.py: what the client was told is what was committed.
THEOREM AnswersMatch == Spec => []AnswerMatchesLedger
<1>1. Inv => AnswerMatchesLedger
  BY DEF Inv, RequestOK, AnswerAgrees, AnswerMatchesLedger
<1>2. QED
  BY <1>1, InvHolds, PTL

\* database/session.py: a transaction is published whole, once, and a committed
\* request is never rewritten, whatever crashes, conflicts or cancellations do.
THEOREM CommittedRowsStay == Spec => CommittedIsImmutable
<1>1. Inv /\ [Next]_vars => [CommittedOnce]_vars
  <2> SUFFICES ASSUME Inv, [Next]_vars PROVE [CommittedOnce]_vars
    OBVIOUS
  <2> USE DEF CommittedOnce
  <2>1. ASSUME NEW r \in Requests, Commit(r) PROVE CommittedOnce
    BY <2>1 DEF Commit, Inv, RequestOK, PhaseOK, TypeOK
  <2>2. CASE ledger' = ledger
    BY <2>2
  <2>3. ASSUME NEW r \in Requests, Step(r) \/ Emit(r) \/ Disconnect(r), ~Commit(r)
        PROVE  ledger' = ledger
    BY <2>3
    DEF Step, Admission, Loop, Ending, Emit, Disconnect, Connect, ConnectTimesOut, Reject,
        Admit, Touch, Resolve, StreamFindsNothing, OpenClientRequest, OpenConflicts,
        SkipCandidate, CallCandidate, DeadlinePassed, DecryptFails, AttemptSucceeds,
        AttemptFails, StreamBreaks, Observe, ObservationLost, CloseFailed, Answer,
        CommitFails
  <2>4. QED
    BY <2>1, <2>2, <2>3 DEF Next, Crash, Finished, vars
<1>2. QED
  BY <1>1, InvHolds, PTL DEF Spec, CommittedIsImmutable

\* Behind a failure there is its cause, in every reachable state.
THEOREM CausesHold == Spec => []CauseInv
<1>1. Init => CauseInv
  BY DEF Init, CauseInv, CauseOK, Before, Nothing, NoRow
<1>2. QED
  BY <1>1, CauseNext, InvHolds, PTL DEF Spec

\* services/gateway.py: a committed FAILED request shows the failure that may not be
\* retried, the stream cut after its first bytes, the deadline, or that every
\* candidate was tried or could not stream.
THEOREM FailsOnlyForCause == Spec => []GivenUpForCause
<1>1. CauseInv => GivenUpForCause
  BY DEF CauseInv, CauseOK, Cause, Hopeless, OutOfTime, Behind, GivenUpForCause,
         FailedForCause
<1>2. QED
  BY <1>1, CausesHold, PTL
=============================================================================
