-------------------------- MODULE SourceReadProofs --------------------------
(***************************************************************************)
(* Proofs about SourceRead, for any number of attempts, any backoff and    *)
(* any Retry-After headers.  The argument: round, reads and warned are the *)
(* same number up to where the call is in its loop (Counted), so the loop  *)
(* bound on round bounds all three; and every backoff adds at most         *)
(* CapDelay to what was waited (Paid).                                     *)
(***************************************************************************)
EXTENDS SourceRead, TLAPS

\* Where the call is tells how many rounds it read and warned of.
Counted ==
  /\ round <= attempts
  /\ pc = "check" => reads = round /\ warned = round
  /\ pc \in {"reading", "body", "returned"} =>
       reads = round + 1 /\ warned = round
  /\ pc = "backoff" =>
       reads = round + 1 /\ warned = round + 1 /\ round < attempts
  /\ pc = "thrown" =>
       /\ reads \in {round, round + 1} /\ warned \in {round, round + 1}
       /\ reads <= warned + 1 /\ warned <= attempts

Paid == owed <= waited /\ waited <= warned * CapDelay

\* A call that was not aborted threw because of its last round's failure.
Explained ==
  pc = "thrown" /\ ~aborted =>
    /\ reads = round + 1
    /\ code = toCode(resolveKind(failure))
    /\ isRetryable(resolveKind(failure)) => Spent

IInv == TypeOK /\ Counted /\ Paid /\ Explained

\* Multiplication by a natural number is monotone.
LEMMA TimesMonotone ==
  ASSUME NEW a \in Nat, NEW b \in Nat, NEW c \in Nat, a <= b
  PROVE  a * c <= b * c
<1>1. PICK k \in Nat : b = a + k
  <2>1. b - a \in Nat /\ b = a + (b - a)
    BY SMT
  <2> QED BY <2>1
<1>2. b * c = a * c + k * c
  BY <1>1, SMT
<1>3. k * c \in Nat /\ a * c \in Nat
  BY <1>1, SMT
<1> QED BY <1>2, <1>3, SMT

LEMMA AttemptsNat == attempts \in Nat
  BY AttemptsAssumption DEF attempts, noRetryAttempts

\* A resolved delay is at most the cap, and at least what a rate-limited
\* answer asked for, as far as the cap allows.
LEMMA DelayBounds ==
  ASSUME NEW r, NEW kind, NEW d \in fullJitterDelay(r), NEW asked \in Nat
  PROVE  /\ resolveDelay(kind, d, asked) \in 0 .. CapDelay
         /\ kind = "rate_limited" =>
              Smaller(asked, CapDelay) <= resolveDelay(kind, d, asked)
         /\ Smaller(asked, CapDelay) \in Nat
  BY DelayAssumption DEF fullJitterDelay, resolveDelay, Smaller, Larger

LEMMA InitIInv == Init => IInv
<1> SUFFICES ASSUME Init PROVE IInv
  OBVIOUS
<1> USE DEF Init
<1>1. TypeOK
  BY DEF TypeOK, Transports, Phases, Pcs
<1>2. Counted
  BY AttemptsNat DEF Counted
<1>3. Paid
  BY DelayAssumption DEF Paid
<1>4. Explained
  BY DEF Explained
<1> QED BY <1>1, <1>2, <1>3, <1>4 DEF IInv

\* An error that leaves the call keeps the invariant.
LEMMA ThrowKeeps ==
  ASSUME IInv, NEW f \in Failures, Throw(f), pc \notin Ended,
         ~aborted => /\ reads = round + 1
                     /\ isRetryable(resolveKind(f)) => Spent
  PROVE  IInv'
<1> USE DEF IInv, Throw, client, history
<1>1. TypeOK'
  BY DEF TypeOK, Pcs, Ended, Failures, Statuses, Errors, Bodies, toCode,
         toFetchCode, toByteCode,
         resolveKind
<1>2. Counted'
  BY AttemptsNat DEF Counted, TypeOK, attempts, noRetryAttempts, Pcs, Ended
<1>3. Paid'
  BY DEF Paid
<1>4. Explained'
  BY DEF Explained, toCode, toFetchCode, toByteCode, Spent, attempts,
         noRetryAttempts
<1> QED BY <1>1, <1>2, <1>3, <1>4

\* So does a failure that is retried.
LEMMA BackOffKeeps ==
  ASSUME IInv, NEW f \in Failures, NEW asked \in Nat, BackOff(f, asked),
         ~Spent, pc \in {"reading", "body"}
  PROVE  IInv'
<1> DEFINE kind == resolveKind(f)
<1>1. PICK d \in fullJitterDelay(round) :
        waited' = waited + resolveDelay(kind, d, asked)
  BY DEF BackOff
<1> DEFINE delay == resolveDelay(kind, d, asked)
<1>2. /\ delay \in 0 .. CapDelay /\ Smaller(asked, CapDelay) \in Nat
      /\ kind = "rate_limited" => Smaller(asked, CapDelay) <= delay
  BY <1>1, DelayBounds
<1>3. /\ waited' = waited + delay /\ warned' = warned + 1
      /\ owed' = IF kind = "rate_limited"
                   THEN owed + Smaller(asked, CapDelay) ELSE owed
      /\ pc' = "backoff" /\ failure' = f
      /\ UNCHANGED <<transport, phase, round, aborted, text, code, reads>>
  BY <1>1 DEF BackOff, client, result
<1> HIDE DEF delay, kind
<1>4. TypeOK'
  BY <1>2, <1>3, DelayAssumption
  DEF IInv, TypeOK, Pcs, Ended, Failures, Statuses, Errors, Bodies
<1>5. Counted'
  BY <1>3, AttemptsNat DEF IInv, Counted, TypeOK, Spent, attempts,
                           noRetryAttempts
<1>6. Paid'
  <2>1. owed' <= waited'
    BY <1>2, <1>3, DelayAssumption DEF IInv, Paid, TypeOK
  <2>2. (warned + 1) * CapDelay = warned * CapDelay + CapDelay
    BY DelayAssumption DEF IInv, TypeOK
  <2>3. warned * CapDelay \in Nat
    BY DelayAssumption DEF IInv, TypeOK
  <2>4. waited' <= warned * CapDelay + CapDelay
    BY <1>2, <1>3, <2>3, DelayAssumption DEF IInv, Paid, TypeOK
  <2> QED BY <1>3, <2>1, <2>2, <2>4 DEF Paid
<1>7. Explained'
  BY <1>3 DEF Explained
<1> QED BY <1>4, <1>5, <1>6, <1>7 DEF IInv

\* Both branches of the catch.
LEMMA CaughtKeeps ==
  ASSUME IInv, NEW f \in Failures, NEW asked \in Nat, Caught(f, asked),
         pc \in {"reading", "body"}
  PROVE  IInv'
<1>1. CASE isRetryable(resolveKind(f)) /\ ~Spent /\ BackOff(f, asked)
  BY <1>1, BackOffKeeps
<1>2. CASE (~isRetryable(resolveKind(f)) \/ Spent) /\ Throw(f)
  <2>1. reads = round + 1 /\ pc \notin Ended
    BY DEF IInv, Counted, Ended
  <2> QED BY <1>2, <2>1, ThrowKeeps
<1> QED BY <1>1, <1>2 DEF Caught

\* A text that leaves the call keeps the invariant.
LEMMA ReturnKeeps ==
  ASSUME IInv, NEW body \in Bodies, Return(body), pc \in {"reading", "body"}
  PROVE  IInv'
<1> USE DEF IInv, Return, client, history
<1>1. TypeOK'
  BY DEF TypeOK, Pcs, Bodies
<1>2. Counted'
  BY DEF Counted, attempts, noRetryAttempts
<1>3. Paid'
  BY DEF Paid
<1>4. Explained'
  BY DEF Explained
<1> QED BY <1>1, <1>2, <1>3, <1>4

\* Steps that only move the call along.
LEMMA MoveKeeps ==
  ASSUME IInv, Abort \/ Issue \/ Accept \/ Wake
  PROVE  IInv'
<1> USE DEF IInv, client, result, history, MayGoOn
<1>1. CASE Abort
  <2>1. TypeOK' /\ Paid' /\ Explained'
    BY <1>1 DEF Abort, TypeOK, Paid, Explained
  <2>2. Counted'
    BY <1>1 DEF Abort, Counted, attempts, noRetryAttempts
  <2> QED BY <2>1, <2>2
<1>2. CASE Issue
  <2>1. TypeOK'
    BY <1>2 DEF Issue, TypeOK, Pcs, Bodies
  <2>2. Paid' /\ Explained'
    BY <1>2 DEF Issue, Paid, Explained
  <2>3. Counted'
    BY <1>2, AttemptsNat DEF Issue, Counted, attempts, noRetryAttempts, TypeOK
  <2> QED BY <2>1, <2>2, <2>3
<1>3. CASE Accept
  <2>1. TypeOK'
    BY <1>3 DEF Accept, TypeOK, Pcs, Bodies
  <2>2. Paid' /\ Explained'
    BY <1>3 DEF Accept, Paid, Explained
  <2>3. Counted'
    BY <1>3 DEF Accept, Counted, attempts, noRetryAttempts
  <2> QED BY <2>1, <2>2, <2>3
<1>4. CASE Wake
  <2>1. TypeOK'
    BY <1>4 DEF Wake, TypeOK, Pcs, Bodies
  <2>2. Paid' /\ Explained'
    BY <1>4 DEF Wake, Paid, Explained
  <2>3. Counted'
    <3>1. /\ pc' = "check" /\ round' = round + 1
          /\ reads = round + 1 /\ warned = round + 1 /\ round < attempts
      BY <1>4 DEF Wake, Counted
    <3>2. UNCHANGED <<phase, reads, warned>> /\ attempts' = attempts
      BY <1>4 DEF Wake, attempts, noRetryAttempts
    <3>3. round \in Nat
      BY DEF TypeOK
    <3> QED BY <3>1, <3>2, <3>3, AttemptsNat DEF Counted
  <2> QED BY <2>1, <2>2, <2>3
<1> QED BY <1>1, <1>2, <1>3, <1>4

LEMMA NextIInv == IInv /\ [Next]_vars => IInv'
<1> SUFFICES ASSUME IInv, [Next]_vars PROVE IInv'
  OBVIOUS
<1> USE DEF Failures, Statuses, Errors, Bodies
<1>1. CASE Abort \/ Issue \/ Accept \/ Wake
  BY <1>1, MoveKeeps
<1>2. CASE ThrowIfAborted \/ AbortSleep
  BY <1>2, ThrowKeeps DEF ThrowIfAborted, AbortSleep, Ended
<1>3. CASE \E status \in Statuses, asked \in RetryAfters : Refuse(status, asked)
  <2>1. PICK status \in Statuses, asked \in RetryAfters : Refuse(status, asked)
    BY <1>3
  <2>2. asked \in Nat /\ status \in Failures
    BY DelayAssumption
  <2>3. Caught(status, asked) /\ pc \in {"reading", "body"}
    BY <2>1 DEF Refuse
  <2> QED BY <2>2, <2>3, CaughtKeeps
<1>4. CASE \E body \in Bodies : ReadBody(body) \/ ReadOutput(body)
  <2>1. PICK body \in Bodies : ReadBody(body) \/ ReadOutput(body)
    BY <1>4
  <2>2. /\ pc \in {"reading", "body"}
        /\ Caught("challenge", 0) \/ Return(body)
    BY <2>1 DEF ReadBody, ReadOutput
  <2>3. "challenge" \in Failures /\ 0 \in Nat
    OBVIOUS
  <2> QED BY <2>2, <2>3, CaughtKeeps, ReturnKeeps
<1>5. CASE \E f \in Errors : Break(f)
  <2>1. PICK f \in Errors : Break(f)
    BY <1>5
  <2>2. f \in Failures /\ 0 \in Nat /\ Caught(f, 0) /\ pc \in {"reading", "body"}
    BY <2>1 DEF Break
  <2> QED BY <2>2, CaughtKeeps
<1>6. CASE Timeout
  <2>1. TimeoutFailure \in Failures /\ 0 \in Nat
    BY DEF TimeoutFailure
  <2> QED BY <1>6, <2>1, CaughtKeeps DEF Timeout
<1>7. CASE AbortRead
  <2>1. "AbortError" \in Failures /\ 0 \in Nat
    OBVIOUS
  <2> QED BY <1>7, <2>1, CaughtKeeps DEF AbortRead
<1>8. CASE Stopped \/ UNCHANGED vars
  <2> USE <1>8 DEF Stopped, vars, client, result, history, IInv
  <2>1. TypeOK'
    BY DEF TypeOK
  <2>2. Counted'
    BY DEF Counted, attempts, noRetryAttempts
  <2>3. Paid' /\ Explained'
    BY DEF Paid, Explained, toCode, toFetchCode, toByteCode, Spent, attempts,
           noRetryAttempts
  <2> QED BY <2>1, <2>2, <2>3
<1> QED
  BY <1>1, <1>2, <1>3, <1>4, <1>5, <1>6, <1>7, <1>8
  DEF Next, SourceStep, ClientStep

LEMMA Invariance == Spec => []IInv
  BY InitIInv, NextIInv, PTL DEF Spec

\* Every variable has its type, and a call that ended has a result: fetchText
\* rejects with an error that has a code.
THEOREM TypeCorrect == Spec => []TypeOK
<1>1. IInv => TypeOK
  BY DEF IInv
<1> QED BY <1>1, Invariance, PTL

\* withRetry asks the source at most attempts + 1 times, and announces every
\* retry through onRetry.
THEOREM ReadsAreBounded == Spec => []ReadsBounded
<1>1. IInv => ReadsBounded
  BY AttemptsNat DEF IInv, Counted, TypeOK, Pcs, ReadsBounded
<1> QED BY <1>1, Invariance, PTL

\* resolveDelay's cap bounds the whole call: whatever the headers ask, it waits
\* attempts times the cap at most, and no less than they asked up to the cap.
THEOREM NeverPinned == Spec => []WorkerNotPinned
<1>1. IInv => WorkerNotPinned
  <2> SUFFICES ASSUME IInv PROVE WorkerNotPinned
    OBVIOUS
  <2>1. warned \in Nat /\ attempts \in Nat /\ CapDelay \in Nat
    BY AttemptsNat, DelayAssumption DEF IInv, TypeOK
  <2>2. warned <= attempts
    BY AttemptsNat DEF IInv, Counted, TypeOK, Pcs
  <2>3. warned * CapDelay <= attempts * CapDelay
    BY <2>1, <2>2, TimesMonotone
  <2>4. waited \in Nat /\ owed <= waited /\ waited <= warned * CapDelay
    BY DEF IInv, TypeOK, Paid
  <2>5. warned * CapDelay \in Int /\ attempts * CapDelay \in Int
    BY <2>1
  <2> QED BY <2>3, <2>4, <2>5 DEF WorkerNotPinned
<1> QED BY <1>1, Invariance, PTL

\* A recoverable code leaves the client only after attempts + 1 reads, unless
\* the caller aborted.
THEOREM SpentBeforeGivingUp == Spec => []GivesUpOnlyWhenSpent
<1>1. IInv => GivesUpOnlyWhenSpent
  <2> SUFFICES ASSUME IInv, pc = "thrown", ~aborted,
                      code \in {"rate_limited", "source_transient"}
               PROVE  reads = attempts + 1
    BY DEF GivesUpOnlyWhenSpent
  <2>1. reads = round + 1 /\ code = toCode(resolveKind(failure))
    BY DEF IInv, Explained
  <2>2. isRetryable(resolveKind(failure))
    BY <2>1 DEF toCode, toFetchCode, toByteCode, isRetryable
  <2>3. Spent
    BY <2>2 DEF IInv, Explained
  <2> QED
    BY <2>1, <2>3, AttemptsNat DEF IInv, Counted, TypeOK, Spent
<1> QED BY <1>1, Invariance, PTL

\* A fetch that its timer aborted is read again until the rounds are spent.
THEOREM TimeoutsAreRetried == Spec => []TimeoutIsRetried
<1>1. IInv => TimeoutIsRetried
  <2> SUFFICES ASSUME IInv, pc = "thrown", ~aborted, failure = "AbortError"
               PROVE  reads = attempts + 1
    BY DEF TimeoutIsRetried
  <2>1. reads = round + 1 /\ Spent
    BY DEF IInv, Explained, resolveKind, isRetryable
  <2> QED BY <2>1, AttemptsNat DEF IInv, Counted, TypeOK, Spent
<1> QED BY <1>1, Invariance, PTL

\* Once the caller has aborted, the source is not read again.
THEOREM AbortIsFinal == Spec => NoReadAfterAbort
<1>1. [Next]_vars => [aborted => reads' = reads]_vars
  <2> SUFFICES ASSUME Next, aborted PROVE reads' = reads
    OBVIOUS
  <2> USE DEF client, result, history, Throw, Return, BackOff, Caught
  <2>1. CASE SourceStep
    BY <2>1 DEF SourceStep, Refuse, Accept, ReadBody, ReadOutput, Break
  <2>2. CASE ClientStep
    BY <2>2 DEF ClientStep, Issue, MayGoOn, ThrowIfAborted, Timeout, AbortRead,
                Wake, AbortSleep
  <2>3. CASE Abort \/ Stopped
    BY <2>3 DEF Abort, Stopped, vars
  <2> QED BY <2>1, <2>2, <2>3 DEF Next
<1> QED BY <1>1, PTL DEF Spec, NoReadAfterAbort
-----------------------------------------------------------------------------
(* A call runs out of steps.  What is left of it is counted by the rounds  *)
(* that remain, the place in the round and the abort that may still come.  *)

place == [check |-> 4, reading |-> 3, body |-> 2, backoff |-> 1,
          returned |-> 0, thrown |-> 0]

StepsLeft ==
  IF pc \in Ended THEN 0
  ELSE 5 * (attempts - round) + place[pc] + IF aborted THEN 0 ELSE 1

\* What is left is a natural number, and nothing only at the end.
LEMMA StepsLeftType ==
  ASSUME IInv
  PROVE  StepsLeft \in Nat /\ (pc \notin Ended => StepsLeft > 0)
<1>1. attempts \in Nat /\ round \in Nat /\ round <= attempts
  BY AttemptsNat DEF IInv, TypeOK, Counted
<1>2. pc \notin Ended => place[pc] \in Nat \ {0}
  BY DEF IInv, TypeOK, Pcs, Ended, place
<1>3. 5 * (attempts - round) \in Nat
  BY <1>1
<1> QED
  BY <1>2, <1>3 DEF StepsLeft

\* A step that ends the call leaves nothing.
LEMMA EndLowers ==
  ASSUME IInv, pc \notin Ended, pc' \in Ended
  PROVE  StepsLeft' < StepsLeft
<1>1. StepsLeft' = 0
  BY DEF StepsLeft
<1> QED
  BY <1>1, StepsLeftType

\* A step that stays in its round goes on in it, or meets the abort.
LEMMA PlaceLowers ==
  ASSUME IInv, pc \notin Ended, pc' \in Pcs \ Ended,
         UNCHANGED <<phase, round>>,
         \/ place[pc'] < place[pc] /\ aborted' = aborted
         \/ pc' = pc /\ ~aborted /\ aborted' = TRUE
  PROVE  StepsLeft' < StepsLeft
<1>1. attempts' = attempts /\ attempts \in Nat /\ round \in Nat /\ round <= attempts
  BY AttemptsNat DEF attempts, noRetryAttempts, IInv, TypeOK, Counted
<1>2. place[pc] \in Nat /\ place[pc'] \in Nat
  BY DEF IInv, TypeOK, Pcs, place
<1>3. 5 * (attempts - round) \in Nat
  BY <1>1
<1>4. aborted \in BOOLEAN
  BY DEF IInv, TypeOK
<1>5. StepsLeft = 5 * (attempts - round) + place[pc] + IF aborted THEN 0 ELSE 1
  BY DEF StepsLeft
<1>6. StepsLeft' = 5 * (attempts - round) + place[pc'] + IF aborted' THEN 0 ELSE 1
  BY <1>1 DEF StepsLeft
<1> QED
  BY <1>2, <1>3, <1>4, <1>5, <1>6

\* The next round has less left than the backoff before it.
LEMMA WakeLowers ==
  ASSUME IInv, Wake
  PROVE  StepsLeft' < StepsLeft
<1>1. /\ pc = "backoff" /\ pc' = "check" /\ round' = round + 1 /\ aborted' = aborted
      /\ phase' = phase
  BY DEF Wake, client
<1>2. /\ attempts' = attempts /\ attempts \in Nat /\ round \in Nat
      /\ aborted \in BOOLEAN
  BY <1>1, AttemptsNat DEF attempts, noRetryAttempts, IInv, TypeOK
<1>3. StepsLeft = 5 * (attempts - round) + 1 + IF aborted THEN 0 ELSE 1
  BY <1>1 DEF StepsLeft, Ended, place
<1>4. StepsLeft' = 5 * (attempts - (round + 1)) + 4 + IF aborted THEN 0 ELSE 1
  BY <1>1, <1>2 DEF StepsLeft, Ended, place
<1> QED
  BY <1>2, <1>3, <1>4

\* A failure that is caught ends the call or its round.
LEMMA CaughtLowers ==
  ASSUME IInv, NEW f, NEW asked, Caught(f, asked), pc \in {"reading", "body"}
  PROVE  StepsLeft' < StepsLeft
<1>1. pc \notin Ended
  BY DEF Ended
<1>2. CASE Throw(f)
  BY <1>1, <1>2, EndLowers DEF Throw, Ended
<1>3. CASE BackOff(f, asked)
  <2>1. pc' = "backoff" /\ aborted' = aborted /\ UNCHANGED <<phase, round>>
    BY <1>3 DEF BackOff, client
  <2>2. place[pc'] < place[pc] /\ pc' \in Pcs \ Ended
    BY <2>1 DEF place, Pcs, Ended
  <2> QED
    BY <1>1, <2>1, <2>2, PlaceLowers
<1> QED
  BY <1>2, <1>3 DEF Caught

\* Whatever the source answers, and whether or not the caller aborts, every step
\* of a call leaves it less to do: it makes at most 5 * (attempts + 1) of them
\* (the loop bound of withRetry), so it ends unless it is never scheduled.
THEOREM CallRunsOut == Spec => [](StepsLeft \in Nat) /\ [][StepsLeft' < StepsLeft]_vars
<1>1. IInv => StepsLeft \in Nat
  BY StepsLeftType
<1>2. IInv /\ [Next]_vars => [StepsLeft' < StepsLeft]_vars
  <2> SUFFICES ASSUME IInv, Next, ~UNCHANGED vars PROVE StepsLeft' < StepsLeft
    OBVIOUS
  <2>1. CASE Abort
    BY <2>1, PlaceLowers DEF Abort, client, IInv, TypeOK
  <2>2. CASE Issue
    BY <2>2, PlaceLowers DEF Issue, client, place, Pcs, Ended
  <2>3. CASE Accept
    BY <2>3, PlaceLowers DEF Accept, client, place, Pcs, Ended
  <2>4. CASE ThrowIfAborted \/ AbortSleep
    BY <2>4, EndLowers DEF ThrowIfAborted, AbortSleep, Throw, Ended
  <2>5. ASSUME NEW status, NEW asked, Refuse(status, asked)
        PROVE  StepsLeft' < StepsLeft
    BY <2>5, CaughtLowers DEF Refuse
  <2>6. ASSUME NEW body, ReadBody(body) \/ ReadOutput(body)
        PROVE  StepsLeft' < StepsLeft
    <3>1. CASE Caught("challenge", 0) /\ pc = "body"
      BY <3>1, CaughtLowers
    <3>2. CASE Return(body) /\ pc \in {"reading", "body"}
      BY <3>2, EndLowers DEF Return, Ended
    <3> QED
      BY <2>6, <3>1, <3>2 DEF ReadBody, ReadOutput
  <2>7. ASSUME NEW f, Break(f) PROVE StepsLeft' < StepsLeft
    BY <2>7, CaughtLowers DEF Break
  <2>8. CASE Timeout \/ AbortRead
    BY <2>8, CaughtLowers DEF Timeout, AbortRead
  <2> QED
    BY <2>1, <2>2, <2>3, <2>4, <2>5, <2>6, <2>7, <2>8, WakeLowers
    DEF Next, SourceStep, ClientStep, Stopped
<1> QED
  BY <1>1, <1>2, Invariance, PTL DEF Spec
=============================================================================
