----------------------------- MODULE SourceRead -----------------------------
(***************************************************************************)
(* One read of the source: fetchText or fetchBytes of a source client,     *)
(* over HTTP or through `ssh host curl`.  Every round races the answer     *)
(* against the per-round timeout and the caller's abort; a failure is      *)
(* classified, and a retryable one is read again after a backoff that may  *)
(* be aborted too, at most `attempts` times.                               *)
(*                                                                         *)
(* The source may answer anything, at any time, or never.  Milliseconds    *)
(* are counted in a coarser unit.                                          *)
(***************************************************************************)
EXTENDS Integers

CONSTANTS
  Attempts,     \* SourceConfig.sourceRetryAttempts
  BaseDelay,    \* baseDelayMs
  CapDelay,     \* capDelayMs, which is retryAfterCapMs too
  RetryAfters,  \* the delays a Retry-After header may ask for; 0 for no header
  Cancellable   \* whether the caller passes an AbortSignal it may abort

ASSUME AttemptsAssumption == Attempts \in Nat
ASSUME DelayAssumption ==
  /\ BaseDelay \in Nat \ {0} /\ CapDelay \in Nat \ {0}
  /\ RetryAfters \subseteq Nat /\ 0 \in RetryAfters
ASSUME CancelAssumption == Cancellable \in BOOLEAN

VARIABLES
  transport,  \* of the client: sourceTransport
  phase,      \* of the read: SourceReadPhase
  pc,         \* where the call is
  round,      \* withRetry's round
  aborted,    \* the caller's signal
  failure,    \* the error last caught, or thrown
  text,       \* what the call returned
  code,       \* the code of the error it threw
  reads,      \* history: rounds that reached the wire
  warned,     \* history: onRetry calls
  waited,     \* history: backoff resolved so far
  owed        \* history: what Retry-After headers asked for, each capped

client  == <<transport, phase>>
result  == <<text, code>>
history == <<reads, warned, waited, owed>>
vars    == <<client, pc, round, aborted, failure, result, history>>

-----------------------------------------------------------------------------
Transports == {"direct", "ssh"}
Phases     == {"list", "detail", "bytes"}
Pcs        == {"check", "reading", "body", "backoff", "returned", "thrown"}
Ended      == {"returned", "thrown"}

\* HTTP statuses that are not ok, one of each class the classifier tells apart.
Statuses == {"429", "408", "5xx", "4xx", "3xx"}
\* "challenge" is a page of Cloudflare's, with a cf-ray header and a marker.
Bodies == {"page", "challenge"}
\* "coded" has a network, TLS or undici code, "exit" is a command that exited
\* with a status, "killed" one that its timeout ended, "AbortError" an abort.
Errors == {"coded", "uncoded", "exit", "killed", "AbortError"}
Failures == Statuses \cup Errors \cup {"challenge"}

\* Mutant: an aborted fetch is not recognised by its name.
resolveKindNameless(f) ==
  IF f = "429" THEN "rate_limited"
  ELSE IF f \in {"challenge", "408", "5xx", "coded"} THEN "transient"
  ELSE "permanent"
resolveKind(f) ==
  IF f = "429" THEN "rate_limited"
  ELSE IF f \in {"challenge", "408", "5xx", "coded", "AbortError"}
    THEN "transient"
  ELSE "permanent"

isRetryable(kind) == kind \in {"transient", "rate_limited"}

\* The error code that leaves the client.
toFetchCode(kind) ==
  IF kind = "rate_limited" THEN "rate_limited"
  ELSE IF kind = "transient" THEN "source_transient"
  ELSE "source_unavailable"
toByteCode(kind) ==
  IF kind = "rate_limited" THEN "rate_limited" ELSE "fetch_failed"
toCode(kind) == IF phase = "bytes" THEN toByteCode(kind) ELSE toFetchCode(kind)

\* storeRawReplay passes no options with its byte reads: they get no retry.
noRetryAttempts == 0
attempts == IF phase = "bytes" THEN noRetryAttempts ELSE Attempts

\* Mutant: one round too many.
SpentLate == round > attempts
\* Mutant: one round too few.
SpentEarly == round + 1 >= attempts
Spent == round >= attempts

\* Math.floor(random() * Math.min(base * 2 ** r, cap))
fullJitterDelay(r) == {d \in 0 .. CapDelay - 1 : d < BaseDelay * 2 ^ r}

Smaller(a, b) == IF a <= b THEN a ELSE b
Larger(a, b)  == IF a <= b THEN b ELSE a

\* Mutant: the header is trusted.
resolveDelayUncapped(kind, backoff, asked) ==
  IF kind = "rate_limited" THEN Larger(backoff, asked) ELSE backoff
resolveDelay(kind, backoff, asked) ==
  IF kind = "rate_limited" THEN Smaller(Larger(backoff, asked), CapDelay)
                           ELSE backoff

-----------------------------------------------------------------------------
Init ==
  /\ transport \in Transports /\ phase \in Phases
  /\ pc = "check" /\ round = 0
  /\ aborted = FALSE
  /\ failure = "none" /\ text = "none" /\ code = "none"
  /\ reads = 0 /\ warned = 0 /\ waited = 0 /\ owed = 0

\* The caller's signal; a byte read is given none.
Abort ==
  /\ Cancellable /\ phase # "bytes"
  /\ pc \notin Ended /\ ~aborted
  /\ aborted' = TRUE
  /\ UNCHANGED <<client, pc, round, failure, result, history>>

\* Mutant: the error leaves the client as it was caught.
ThrowUnwrapped(f) ==
  /\ pc' = "thrown"
  /\ failure' = f
  /\ UNCHANGED <<client, round, aborted, result, history>>
Throw(f) ==
  /\ pc' = "thrown"
  /\ failure' = f
  /\ code' = toCode(resolveKind(f))
  /\ UNCHANGED <<client, round, aborted, text, history>>

Return(body) ==
  /\ pc' = "returned"
  /\ text' = body
  /\ UNCHANGED <<client, round, aborted, failure, code, history>>

\* A failure that is retried: the delay is resolved and onRetry is called.
BackOff(f, asked) ==
  LET kind == resolveKind(f) IN
    /\ pc' = "backoff"
    /\ failure' = f
    /\ warned' = warned + 1
    /\ \E d \in fullJitterDelay(round) :
         waited' = waited + resolveDelay(kind, d, asked)
    /\ owed' = IF kind = "rate_limited" THEN owed + Smaller(asked, CapDelay)
                                        ELSE owed
    /\ UNCHANGED <<client, round, aborted, result, reads>>

\* The catch branch of the loop.
Caught(f, asked) ==
  \/ isRetryable(resolveKind(f)) /\ ~Spent /\ BackOff(f, asked)
  \/ (~isRetryable(resolveKind(f)) \/ Spent) /\ Throw(f)

\* Mutant: the signal is not consulted.
MayGoOnRegardless == TRUE
MayGoOn == ~aborted

-----------------------------------------------------------------------------
\* The loop head: throwIfAborted, then the round's read.
Issue ==
  /\ pc = "check" /\ MayGoOn
  /\ pc' = "reading"
  /\ reads' = reads + 1
  /\ UNCHANGED <<client, round, aborted, failure, result, warned, waited, owed>>

ThrowIfAborted == pc = "check" /\ aborted /\ Throw("AbortError")

\* A response that is not ok is a failure before its body is read.
Refuse(status, asked) ==
  /\ transport = "direct" /\ pc = "reading" /\ ~aborted
  /\ asked \in (IF status = "429" THEN RetryAfters ELSE {0})
  /\ Caught(status, asked)

\* An ok response: the body follows, under the same timeout.
Accept ==
  /\ transport = "direct" /\ pc = "reading" /\ ~aborted
  /\ pc' = "body"
  /\ UNCHANGED <<client, round, aborted, failure, result, history>>

\* List and detail pages are looked through for a challenge, bytes are not.
ReadBody(body) ==
  /\ transport = "direct" /\ pc = "body" /\ ~aborted
  /\ \/ body = "challenge" /\ phase # "bytes" /\ Caught("challenge", 0)
     \/ (body = "page" \/ phase = "bytes") /\ Return(body)

\* The command's output is the text, whatever it is.
ReadOutput(body) ==
  /\ transport = "ssh" /\ pc = "reading" /\ ~aborted
  /\ Return(body)

\* The connection, or the command, fails.  A status that is not ok makes curl
\* exit with one of its own.
Break(f) ==
  /\ pc \in {"reading", "body"} /\ ~aborted
  /\ f \in {"coded", "uncoded"} \/ (f = "exit" /\ transport = "ssh")
  /\ Caught(f, 0)

\* The per-round timer aborts the fetch; execFile's kills the command.
TimeoutFailure == IF transport = "direct" THEN "AbortError" ELSE "killed"

\* Mutant: the command runs without a time limit.
TimeoutOfFetch ==
  /\ pc \in {"reading", "body"} /\ ~aborted
  /\ transport = "direct"
  /\ Caught(TimeoutFailure, 0)
Timeout ==
  /\ pc \in {"reading", "body"} /\ ~aborted
  /\ Caught(TimeoutFailure, 0)

\* The caller's abort reaches the fetch or the command.
AbortRead ==
  /\ pc \in {"reading", "body"} /\ aborted
  /\ Caught("AbortError", 0)

\* The backoff is over: the next round.
Wake ==
  /\ pc = "backoff" /\ MayGoOn
  /\ pc' = "check"
  /\ round' = round + 1
  /\ UNCHANGED <<client, aborted, failure, result, history>>

\* abortableSleep: the signal wins the race against the sleep.
AbortSleep == pc = "backoff" /\ aborted /\ Throw("AbortError")

Stopped == pc \in Ended /\ UNCHANGED vars

-----------------------------------------------------------------------------
SourceStep ==
  \/ \E status \in Statuses, asked \in RetryAfters : Refuse(status, asked)
  \/ Accept
  \/ \E body \in Bodies : ReadBody(body) \/ ReadOutput(body)
  \/ \E f \in Errors : Break(f)

ClientStep ==
  \/ Issue \/ ThrowIfAborted \/ Timeout \/ AbortRead \/ Wake \/ AbortSleep

Next == Abort \/ SourceStep \/ ClientStep \/ Stopped

Spec == Init /\ [][Next]_vars

\* Timers fire and the event loop runs; nothing obliges the source to answer.
FairSpec == Spec /\ WF_vars(ClientStep)

-----------------------------------------------------------------------------
(* What a read promises.                                                   *)

\* Every variable has its type, and a call that ended has a result: a text, or
\* an error with a code (fetchText rejects with a SourceFetchError only).
TypeOK ==
  /\ transport \in Transports /\ phase \in Phases /\ pc \in Pcs
  /\ round \in Nat /\ aborted \in BOOLEAN
  /\ failure \in Failures \cup {"none"}
  /\ text \in Bodies \cup {"none"}
  /\ code \in {"none", "rate_limited", "source_transient",
               "source_unavailable", "fetch_failed"}
  /\ reads \in Nat /\ warned \in Nat /\ waited \in Nat /\ owed \in Nat
  /\ (pc = "returned" <=> text # "none") /\ (pc = "thrown" <=> code # "none")

\* Whatever mix of failures arrives, the source is asked at most attempts + 1
\* times, and never again without onRetry having said so.
ReadsBounded == reads <= attempts + 1 /\ reads <= warned + 1

\* A read gives up with a recoverable code only when its rounds are spent: a
\* resumable run is one whose source really was asked attempts + 1 times.
GivesUpOnlyWhenSpent ==
  pc = "thrown" /\ ~aborted /\ code \in {"rate_limited", "source_transient"}
    => reads = attempts + 1

\* A direct read that times out in every round spends them all: a hung source
\* is retried, not taken for a permanent failure (transientErrorNames).
TimeoutIsRetried ==
  transport = "direct" /\ pc = "thrown" /\ failure = "AbortError" /\ ~aborted
    => reads = attempts + 1

\* No mix of headers makes the call wait longer than its rounds times the cap,
\* and none is retried earlier than it asked, up to the cap (resolveDelay).
WorkerNotPinned == owed <= waited /\ waited <= attempts * CapDelay

\* An aborted call does not touch the source again, whether the abort met the
\* fetch, the backoff or neither (throwIfAborted, abortableSleep).
NoReadAfterAbort == [][aborted => reads' = reads]_vars

\* A call ends, though the source may never answer.
CallEnds == <>(pc \in Ended)
=============================================================================
