-------------------------------- MODULE Watch --------------------------------
(***************************************************************************)
(* The always-on command `watch`: it lists page 1 again and again, reads   *)
(* the detail page of every row that is not staged yet, stores and stages  *)
(* the candidates, writes a heartbeat and sleeps, until a signal asks it   *)
(* to stop.  A pacer spaces the list reads of successive cycles, a delay   *)
(* the reads within one.                                                   *)
(*                                                                         *)
(* Time is counted in ticks.  The loop only compares times with the        *)
(* spacing, so an age stops growing at Spacing: it means "that long or     *)
(* longer, or never".  A read is one step: module SourceRead opens it up,  *)
(* as IngestStore does the storing and staging of a candidate.             *)
(***************************************************************************)
EXTENDS Integers, Sequences, Functions

CONSTANTS
  Replays,         \* every replay the source may list
  InitialListing,  \* the source's listing at the start, newest replay first
  PageSize,        \* rows on page 1
  Linkless,        \* replays whose row has no usable link
  Nameless,        \* replays whose detail page names no file
  Anonymous,       \* replays whose row has no trustworthy external id
  Spacing,         \* requestSpacingMs, in ticks
  Interval,        \* intervalMs, in ticks
  FaultKinds,      \* the kinds of fault below
  FaultBudget      \* bound: how often each kind may happen

ASSUME ListingAssumption ==
  InitialListing \in Seq(Replays) /\ PageSize \in Nat \ {0}
ASSUME RowAssumption ==
  Linkless \subseteq Replays /\ Nameless \subseteq Replays
    /\ Anonymous \subseteq Replays
ASSUME TimeAssumption == Spacing \in Nat /\ Interval \in Nat
ASSUME FaultAssumption ==
  /\ FaultKinds = {"source", "item", "database", "heartbeat"}
  /\ FaultBudget \in [FaultKinds -> Nat]

VARIABLES
  listing,   \* the source: its replays, newest first
  staged,    \* PostgreSQL: replays with a row in ingest_staging_records
  stop,      \* stopRequested of the shutdown seam
  beat,      \* whether the last cycle that began wrote the heartbeat
  pc,        \* where the loop is
  nap,       \* ticks its current sleep still lasts
  age,       \* ticks since the pacer's lastRequestAt
  rows,      \* rows of the page not yet looked at
  found,     \* candidates of the report not yet stored and staged
  reportOk,  \* report.ok
  page,      \* history: the rows this cycle's list read showed
  excused,   \* history: rows of it with a diagnostic or a failed result
  gaps,      \* history: ticks since the last list read and the one before it
  faults     \* faults that may still happen

world == <<listing, staged, stop>>
clock == <<nap, age, gaps>>
cycle == <<rows, found, reportOk, page, excused>>
vars  == <<world, beat, pc, clock, cycle, faults>>

-----------------------------------------------------------------------------
Pcs == {"top", "floor", "rows", "detail", "ingest", "between", "sleep",
        "exited"}

Smaller(a, b) == IF a <= b THEN a ELSE b
Larger(a, b)  == IF a <= b THEN b ELSE a

\* maxPages is pinned to 1.
PageOne == SubSeq(listing, 1, Smaller(PageSize, Len(listing)))

Fault(kind) ==
  /\ faults[kind] > 0
  /\ faults' = [faults EXCEPT ![kind] = @ - 1]

Later(t) == Smaller(t + 1, Spacing)

\* Mutant: the pacer measures from nothing.
RemainingForgotten == 0
\* Mutant: the operands of the difference are swapped.
RemainingSwapped == Spacing - (-age)
\* awaitFloor sleeps what the spacing lacks since it was last called.
Remaining == Spacing - age

\* Mutant: an external id that cannot be trusted is looked up all the same.
SkipUntrusted(r) == r \in staged \/ r \in Anonymous
\* shouldSkipPreDetail
Skip(r) == r \notin Anonymous /\ r \in staged

-----------------------------------------------------------------------------
Init ==
  /\ listing = InitialListing /\ staged = {} /\ stop = FALSE
  /\ beat = FALSE /\ pc = "top"
  /\ nap = 0 /\ age = Spacing /\ gaps = <<Spacing, Spacing>>
  /\ rows = <<>> /\ found = {} /\ reportOk = TRUE
  /\ page = {} /\ excused = {}
  /\ faults = FaultBudget

\* A new replay on top of the listing.
Publish(r) ==
  /\ r \in Replays \ Range(listing)
  /\ listing' = <<r>> \o listing
  /\ UNCHANGED <<staged, stop, beat, pc, clock, cycle, faults>>

\* A scheduled run-once stages a listed replay meanwhile.
StageElsewhere(r) ==
  /\ r \in Range(listing) \ (Linkless \cup Nameless)
  /\ staged' = staged \cup {r}
  /\ UNCHANGED <<listing, stop, beat, pc, clock, cycle, faults>>

\* SIGTERM or SIGINT.
RequestStop ==
  /\ pc # "exited"
  /\ stop' = TRUE
  /\ UNCHANGED <<listing, staged, beat, pc, clock, cycle, faults>>

\* Time passes, except between the end of the pacer's sleep and the list read.
Tick ==
  /\ pc # "exited" /\ ~(pc = "floor" /\ nap = 0)
  /\ nap' = IF nap > 0 THEN nap - 1 ELSE 0
  /\ age' = Later(age)
  /\ gaps' = [i \in 1 .. 2 |-> Later(gaps[i])]
  /\ UNCHANGED <<world, beat, pc, cycle, faults>>

-----------------------------------------------------------------------------
\* Mutant: shouldStop is the flag's value when the loop began.
StopSeenNever == FALSE
StopSeen == stop

\* A cycle begins with the pacer: it records the call and sleeps the rest.
BeginCycle ==
  /\ pc = "top" /\ ~StopSeen
  /\ pc' = "floor"
  /\ nap' = Remaining
  /\ age' = 0
  /\ beat' = FALSE
  /\ rows' = <<>> /\ found' = {} /\ reportOk' = TRUE
  /\ page' = {} /\ excused' = {}
  /\ UNCHANGED <<world, gaps, faults>>

Exit ==
  /\ pc \in {"top", "between"} /\ StopSeen
  /\ pc' = "exited"
  /\ UNCHANGED <<world, beat, clock, cycle, faults>>

\* The list read of the cycle leaves.
Dispatch == pc = "floor" /\ nap = 0 /\ gaps' = <<0, gaps[1]>>

ListPage ==
  /\ Dispatch
  /\ rows' = PageOne /\ page' = Range(PageOne)
  /\ pc' = "rows"
  /\ UNCHANGED <<world, beat, nap, age, found, reportOk, excused, faults>>

\* A SourceFetchError ends discovery with a report that is not ok; candidates
\* of the page it happened on are lost with it.
ListFails ==
  /\ Dispatch
  /\ Fault("source")
  /\ reportOk' = FALSE
  /\ pc' = "ingest"
  /\ UNCHANGED <<world, beat, nap, age, rows, found, page, excused>>

\* A row without a link is a diagnostic.
MalformedRow ==
  /\ pc = "rows" /\ rows # <<>> /\ Head(rows) \in Linkless
  /\ rows' = Tail(rows)
  /\ excused' = excused \cup {Head(rows)}
  /\ UNCHANGED <<world, beat, pc, clock, found, reportOk, page, faults>>

\* A staged row is skipped before its detail page is read.
SkipRow ==
  /\ pc = "rows" /\ rows # <<>> /\ Head(rows) \notin Linkless
  /\ Skip(Head(rows))
  /\ rows' = Tail(rows)
  /\ UNCHANGED <<world, beat, pc, clock, found, reportOk, page, excused, faults>>

\* Any other row's detail page is read, a full spacing after the last read.
AwaitDetail ==
  /\ pc = "rows" /\ rows # <<>> /\ Head(rows) \notin Linkless
  /\ ~Skip(Head(rows))
  /\ pc' = "detail"
  /\ nap' = Spacing
  /\ UNCHANGED <<world, beat, age, gaps, cycle, faults>>

Diagnose(r) == IF r \in Nameless THEN {r} ELSE {}

ReadDetail ==
  /\ pc = "detail" /\ nap = 0
  /\ found' = found \cup ({Head(rows)} \ Nameless)
  /\ excused' = excused \cup Diagnose(Head(rows))
  /\ rows' = Tail(rows)
  /\ pc' = "rows"
  /\ UNCHANGED <<world, beat, clock, reportOk, page, faults>>

DetailFails ==
  /\ pc = "detail" /\ nap = 0
  /\ Fault("source")
  /\ found' = {} /\ reportOk' = FALSE
  /\ pc' = "ingest"
  /\ UNCHANGED <<world, beat, clock, rows, page, excused>>

DiscoveryDone ==
  /\ pc = "rows" /\ rows = <<>>
  /\ pc' = "ingest"
  /\ UNCHANGED <<world, beat, clock, cycle, faults>>

\* The gate finds a row meanwhile staged, or the candidate is stored and
\* staged: either way it has one.
IngestCandidate(r) ==
  /\ pc = "ingest" /\ r \in found
  /\ found' = found \ {r}
  /\ staged' = staged \cup {r}
  /\ UNCHANGED <<listing, stop, beat, pc, clock, rows, reportOk, page, excused,
                 faults>>

\* It is not: a failed or conflicting result.
CandidateFails(r) ==
  /\ pc = "ingest" /\ r \in found
  /\ Fault("item")
  /\ found' = found \ {r}
  /\ excused' = excused \cup {r}
  /\ UNCHANGED <<world, beat, pc, clock, rows, reportOk, page>>

\* Mutant: the error leaves the loop.
AfterThrowExits == "exited"
\* The loop catches what a cycle throws, and goes on behind it.
AfterThrow == "between"

\* A database error of a gate, or of the classification of an existing row,
\* rejects the cycle: the siblings of the candidates it meets have settled.
CycleThrows ==
  /\ \/ pc = "ingest" /\ found # {}
     \/ pc = "rows" /\ rows # <<>> /\ Head(rows) \notin Linkless \cup Anonymous
  /\ Fault("database")
  /\ pc' = AfterThrow
  /\ UNCHANGED <<world, beat, clock, cycle>>

\* Mutant: the heartbeat is written as soon as discovery is done.
CycleDoneEarly == TRUE
CycleDone == found = {}

\* The summary is logged and the heartbeat written: also behind a report that
\* is not ok, which is no error of the cycle.
WriteHeartbeat ==
  /\ pc = "ingest" /\ CycleDone
  /\ \/ beat' = TRUE /\ UNCHANGED faults
     \/ UNCHANGED beat /\ Fault("heartbeat")
  /\ pc' = "between"
  /\ UNCHANGED <<world, clock, cycle>>

\* The loop always sleeps, if only for a turn of the event loop.
Sleep ==
  /\ pc = "between" /\ ~StopSeen
  /\ pc' = "sleep"
  /\ nap' = Interval
  /\ UNCHANGED <<world, beat, age, gaps, cycle, faults>>

Wake ==
  /\ pc = "sleep" /\ nap = 0
  /\ pc' = "top"
  /\ UNCHANGED <<world, beat, clock, cycle, faults>>

-----------------------------------------------------------------------------
LoopStep ==
  \/ BeginCycle \/ Exit \/ ListPage \/ ListFails
  \/ MalformedRow \/ SkipRow \/ AwaitDetail \/ ReadDetail \/ DetailFails
  \/ DiscoveryDone
  \/ \E r \in Replays : IngestCandidate(r) \/ CandidateFails(r)
  \/ CycleThrows \/ WriteHeartbeat \/ Sleep \/ Wake

Exited == pc = "exited" /\ UNCHANGED vars

Next ==
  \/ \E r \in Replays : Publish(r) \/ StageElsewhere(r)
  \/ RequestStop \/ Tick \/ LoopStep \/ Exited

Spec == Init /\ [][Next]_vars

\* Time passes and the loop runs: its reads are bounded by their timeouts.
FairSpec == Spec /\ WF_vars(Tick) /\ WF_vars(LoopStep)

-----------------------------------------------------------------------------
(* What the command promises.                                              *)

\* Every variable has its type, the rest of a page is made of its rows, and a
\* sleep is never longer than the spacing or the interval.
TypeOK ==
  /\ listing \in Seq(Replays) /\ staged \subseteq Replays
  /\ stop \in BOOLEAN /\ beat \in BOOLEAN /\ pc \in Pcs
  /\ nap \in 0 .. Larger(Spacing, Interval) /\ age \in 0 .. Spacing
  /\ gaps \in [1 .. 2 -> 0 .. Spacing]
  /\ rows \in Seq(Replays) /\ found \subseteq Replays
  /\ reportOk \in BOOLEAN
  /\ page \subseteq Replays /\ excused \subseteq Replays
  /\ faults \in [FaultKinds -> Nat]
  /\ pc = "detail" => rows # <<>>

\* A heartbeat behind an ok report means the whole page was dealt with: every
\* row it showed is staged, or named in a diagnostic or a failed result.
NothingVanishes ==
  beat /\ reportOk => page \subseteq staged \cup excused

\* Of three successive list reads the outer two are a spacing apart, however
\* short the cycles and the interval are: the poll rate is bounded.
PollRateIsBounded ==
  [][pc = "floor" /\ pc' # "floor" => gaps[2] >= Spacing]_vars

\* Two successive list reads are a spacing apart.
ListReadsAreSpaced ==
  [][pc = "floor" /\ pc' # "floor" => gaps[1] >= Spacing]_vars

\* A replay that is listed on page 1 and stays there is staged.
PageOneIsStaged ==
  \A r \in Replays \ (Linkless \cup Nameless) :
    r \in Range(PageOne) ~> r \in staged \/ r \notin Range(PageOne) \/ stop

\* The heartbeat goes on for as long as nobody stops the loop, whatever single
\* cycles threw.
HeartbeatGoesOn == []<>(beat \/ stop)

\* A signal ends the loop, wherever it meets it.
StopEnds == stop ~> pc = "exited"
=============================================================================
