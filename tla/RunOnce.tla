------------------------------- MODULE RunOnce -------------------------------
(***************************************************************************)
(* The scheduled command `run-once`: one process at a time (the CronJob    *)
(* forbids overlap) walks the list pages of the source from the resume     *)
(* point of its checkpoint, stores and stages every candidate of a page,   *)
(* writes the checkpoint after the page's fan-out, and stops on an empty   *)
(* page, on a page that brought nothing new, on a page that could not be   *)
(* discovered, or at the page cap.  The process may die at any point and   *)
(* the scheduler starts another one.                                       *)
(*                                                                         *)
(* Replays stand for themselves, for the bytes the source serves for them  *)
(* and for their staging row: module IngestStore opens that up.  The       *)
(* compare-and-swap under a checkpoint write is module CheckpointStore;    *)
(* here a write lands or it does not.  Module Throttle has the limiter of  *)
(* the fan-out.                                                            *)
(***************************************************************************)
EXTENDS Integers, Sequences, Throttle

CONSTANTS
  Replays,         \* every replay the source may list
  InitialListing,  \* the source's listing at the start, newest replay first
  PageSize,        \* replays on a list page
  Clamps,          \* whether the source repeats its last page beyond the end
  MaxPages,        \* the optional page cap, or NoCap
  NoCap,
  Poisoned,        \* replays whose byte endpoint never answers
  Mismatched,      \* replays whose object key holds an object of another size
  Conflicted,      \* replays whose source identity is staged with other bytes
  FaultKinds,      \* the kinds of fault below
  FaultBudget,     \* bound: how often each kind may happen
  PageHorizon      \* bound: no page beyond it is listed

ASSUME ListingAssumption ==
  /\ InitialListing \in Seq(Replays)
  /\ PageSize \in Nat \ {0}
  /\ Clamps \in BOOLEAN
ASSUME CapAssumption ==
  /\ NoCap \notin Nat
  /\ MaxPages \in Nat \cup {NoCap}
  /\ PageHorizon \in Nat
ASSUME FaultAssumption ==
  /\ Poisoned \subseteq Replays
  /\ Mismatched \subseteq Replays
  /\ Conflicted \subseteq Replays
  /\ FaultKinds = {"page", "item", "write", "crash"}
  /\ FaultBudget \in [FaultKinds -> Nat]

VARIABLES
  listing,     \* the source: its replays, newest first
  raw,         \* object storage: replays with an object under raw/sha256/
  staged,      \* PostgreSQL: replays with a row in ingest_staging_records
  checkpoint,  \* object storage: the rolling checkpoint object

  pc,          \* where the process is; "idle" when there is none
  last,        \* LoopState.lastCompletedPage
  ok,          \* LoopState.discoveryReport.ok
  cause,       \* classification of the source failure, when not ok
  seen,        \* LoopState.discoveryReport.candidates
  faulty,      \* whether rawStorage or staging hold a failure category
  throttle,    \* the run's throttle controller
  stop,        \* why the page loop stopped

  pending,     \* candidates of the page not yet stored
  held,        \* candidates of the page stored and not yet staged
  fresh,       \* candidates of the page counted as stored or staged
  broken,      \* candidates of the page counted as failed

  status,      \* RunStatus of the last run that ended
  exit,        \* its exit code
  settled,     \* history: pages whose fan-out ended in this pass
  faults       \* faults that may still happen

durable   == <<listing, raw, staged, checkpoint>>
loopState == <<last, ok, cause, seen, faulty, throttle, stop>>
fanOut    == <<pending, held, fresh, broken>>
result    == <<status, exit>>
vars      == <<durable, pc, loopState, fanOut, result, settled, faults>>

-----------------------------------------------------------------------------
NoCheckpoint == [status |-> "missing", last |-> 0]
Checkpoints  == [status : {"missing", "running", "complete"}, last : Nat]
Stops        == {"cap", "empty", "all_duplicate", "page_failed"}
Causes       == {"none", "transient", "rate_limited", "permanent"}
Statuses     == {"none", "complete", "truncated", "resumable", "partial",
                 "failed", "crashed"}
NoExit       == 1  \* the exit code of a process that died

Range(s) == {s[i] : i \in DOMAIN s}

PageCount == (Len(listing) + PageSize - 1) \div PageSize

\* The candidates of list page n; a clamping source answers with its last page
\* for every page beyond it.
Page(n) ==
  LET m == IF Clamps /\ n > PageCount THEN PageCount ELSE n
  IN  {listing[i] : i \in {j \in DOMAIN listing :
                             (m - 1) * PageSize < j /\ j <= m * PageSize}}

\* An absent cap is no bound.
WithinCap(n) == MaxPages # NoCap => n <= MaxPages

Fault(kind) ==
  /\ faults[kind] > 0
  /\ faults' = [faults EXCEPT ![kind] = @ - 1]

-----------------------------------------------------------------------------
(* Decisions of the run, as functions of what they read.                   *)

\* Mutant: the cursor is advanced twice on resume.
ResumePointSkipsAPage(c) == IF c.status = "running" THEN c.last + 1 ELSE 0
\* Mutant: every run starts at page 1.
ResumePointForgets(c) == 0
ResumePoint(c) == IF c.status = "running" THEN c.last ELSE 0

\* Mutant: only an empty page ends the corpus.
AllDuplicateNever(new, failed) == FALSE
AllDuplicate(new, failed) == new = {} /\ failed = {}

DiscoveredLastPage(isOk, done) == IF isOk THEN done ELSE done + 1

DeriveRunStatus(isOk, done, why, reason) ==
  IF isOk /\ done >= DiscoveredLastPage(isOk, done)
    THEN IF reason = "cap" THEN "truncated" ELSE "complete"
  ELSE IF why \in {"transient", "rate_limited"} THEN "resumable"
  ELSE IF done > 0 THEN "partial"
  ELSE "failed"

\* Mutant: failure categories of the items are not consulted.
RunExitCodeStatusOnly(st, summaryOk) == IF st = "complete" THEN 0 ELSE 2
RunExitCode(st, summaryOk) == IF st = "complete" /\ summaryOk THEN 0 ELSE 2

\* The summary is ok when discovery was and no failure category is held.
SummaryOk(isOk, anyFailure) == isOk /\ ~anyFailure

Stageable(isStored) == isStored

-----------------------------------------------------------------------------
Init ==
  /\ listing = InitialListing
  /\ raw = {} /\ staged = {} /\ checkpoint = NoCheckpoint
  /\ pc = "idle"
  /\ last = 0 /\ ok = TRUE /\ cause = "none" /\ seen = {} /\ faulty = FALSE
  /\ throttle = NewThrottle /\ stop = "cap"
  /\ pending = {} /\ held = {} /\ fresh = {} /\ broken = {}
  /\ status = "none" /\ exit = NoExit
  /\ settled = {}
  /\ faults = FaultBudget

\* A new replay appears on top of the listing and shifts every page.
Publish(r) ==
  /\ r \in Replays \ Range(listing)
  /\ listing' = <<r>> \o listing
  /\ UNCHANGED <<raw, staged, checkpoint, pc, loopState, fanOut, result,
                 settled, faults>>

\* The scheduler starts a process, which reads the checkpoint and builds its
\* loop state.  A read that fails otherwise than with 404 is a Crash.
StartRun ==
  /\ pc = "idle"
  /\ pc' = "list"
  /\ last' = ResumePoint(checkpoint)
  /\ ok' = TRUE /\ cause' = "none" /\ seen' = {} /\ faulty' = FALSE
  /\ throttle' = NewThrottle /\ stop' = "cap"
  /\ settled' = IF checkpoint.status = "running" THEN settled ELSE {}
  /\ UNCHANGED <<durable, fanOut, result, faults>>

\* The loop bound is exhausted: stopReason keeps its default "cap".
ReachCap ==
  /\ pc = "list"
  /\ ~WithinCap(last + 1)
  /\ pc' = "assemble"
  /\ UNCHANGED <<durable, loopState, fanOut, result, settled, faults>>

MayList == pc = "list" /\ WithinCap(last + 1)

\* Mutant: the page's candidates are not appended to the run's report.
AppendCandidatesDropped(found) == seen
AppendCandidates(found) == seen \cup found

\* An ok page with candidates: a clean window for the throttle, and its fan-out
\* starts.
ListPage ==
  /\ MayList
  /\ last < PageHorizon
  /\ Page(last + 1) # {}
  /\ seen' = AppendCandidates(Page(last + 1))
  /\ throttle' = OnCleanWindow(throttle)
  /\ pending' = Page(last + 1)
  /\ held' = {} /\ fresh' = {} /\ broken' = {}
  /\ pc' = "ingest"
  /\ UNCHANGED <<durable, last, ok, cause, faulty, stop, result, settled,
                 faults>>

\* An ok page without candidates is the end of the corpus.
ListEmptyPage ==
  /\ MayList
  /\ Page(last + 1) = {}
  /\ stop' = "empty"
  /\ pc' = "assemble"
  /\ UNCHANGED <<durable, last, ok, cause, seen, faulty, throttle, fanOut,
                 result, settled, faults>>

\* Mutant: a page that cannot be discovered leaves the report ok.
OkAfterFailureKept == TRUE
OkAfterFailure == FALSE

\* The list page or the detail page of one of its rows cannot be fetched: the
\* report is not ok and the candidates found so far on this page are dropped.
\* Only a rate-limited page is told to the throttle.
ListPageFails ==
  /\ MayList
  /\ Fault("page")
  /\ ok' = OkAfterFailure
  /\ cause' \in Causes \ {"none"}
  /\ throttle' = IF cause' = "rate_limited" THEN OnRateLimited(throttle)
                                           ELSE throttle
  /\ stop' = "page_failed"
  /\ pc' = "assemble"
  /\ UNCHANGED <<durable, last, seen, faulty, fanOut, result, settled>>

-----------------------------------------------------------------------------
(* The fan-out of a page: candidates are stored and staged in any order.   *)

\* The page counts what it stored and staged, not what was there already.
TallyNew(r, known) == IF r \in known THEN fresh ELSE fresh \cup {r}

\* storeRawReplay succeeds: HEAD finds the object (skipped) or PUT writes it.
StoreRaw(r) ==
  /\ pc = "ingest"
  /\ r \in pending \ (Poisoned \cup Mismatched)
  /\ raw' = raw \cup {r}
  /\ fresh' = TallyNew(r, raw)
  /\ pending' = pending \ {r}
  /\ held' = held \cup {r}
  /\ UNCHANGED <<listing, staged, checkpoint, pc, loopState, broken, result,
                 settled, faults>>

\* The bytes cannot be fetched or the object cannot be written: the result is
\* failed and the candidate is not stageable.
StoreRawFails(r) ==
  /\ pc = "ingest"
  /\ r \in pending
  /\ IF r \in Poisoned THEN UNCHANGED faults ELSE Fault("item")
  /\ pending' = pending \ {r}
  /\ held' = IF Stageable(FALSE) THEN held \cup {r} ELSE held
  /\ broken' = broken \cup {r}
  /\ faulty' = TRUE
  /\ UNCHANGED <<durable, pc, last, ok, cause, seen, throttle, stop, fresh,
                 result, settled>>

\* HEAD finds another object under the key: a conflict is a failure category of
\* the run, is not stageable and is tallied in no page count.
StoreRawConflicts(r) ==
  /\ pc = "ingest"
  /\ r \in (pending \cap Mismatched) \ Poisoned
  /\ pending' = pending \ {r}
  /\ held' = IF Stageable(FALSE) THEN held \cup {r} ELSE held
  /\ faulty' = TRUE
  /\ UNCHANGED <<durable, pc, last, ok, cause, seen, throttle, stop, fresh,
                 broken, result, settled, faults>>

\* The repository inserts the row, or finds the one that is already there.
Stage(r) ==
  /\ pc = "ingest"
  /\ r \in held \ Conflicted
  /\ staged' = staged \cup {r}
  /\ fresh' = TallyNew(r, staged)
  /\ held' = held \ {r}
  /\ UNCHANGED <<listing, raw, checkpoint, pc, loopState, pending, broken,
                 result, settled, faults>>

\* The source identity is staged with other bytes: a conflict is a failure
\* category of the run and is tallied in no page count.
StageConflicts(r) ==
  /\ pc = "ingest"
  /\ r \in held \cap Conflicted
  /\ held' = held \ {r}
  /\ faulty' = TRUE
  /\ UNCHANGED <<durable, pc, last, ok, cause, seen, throttle, stop, pending,
                 fresh, broken, result, settled, faults>>

StageFails(r) ==
  /\ pc = "ingest"
  /\ r \in held
  /\ Fault("item")
  /\ held' = held \ {r}
  /\ broken' = broken \cup {r}
  /\ faulty' = TRUE
  /\ UNCHANGED <<durable, pc, last, ok, cause, seen, throttle, stop, pending,
                 fresh, result, settled>>

-----------------------------------------------------------------------------
\* A checkpoint write lands, or fails and is logged: the run goes on.
WriteCheckpoint(c) ==
  \/ checkpoint' = c /\ UNCHANGED faults
  \/ UNCHANGED checkpoint /\ Fault("write")

\* Mutant: the checkpoint is written when the fan-out is started.
FanOutDoneEarly == TRUE
FanOutDone == pending = {} /\ held = {}

\* The fan-out has been gathered: the page is recorded and checkpointed, then
\* the loop decides whether this page was all duplicates.
CompletePage ==
  /\ pc = "ingest"
  /\ FanOutDone
  /\ settled' = IF pending \cup held = {} THEN settled \cup {last + 1}
                                          ELSE settled
  /\ WriteCheckpoint([status |-> "running", last |-> last + 1])
  /\ last' = last + 1
  /\ IF AllDuplicate(fresh, broken)
       THEN stop' = "all_duplicate" /\ pc' = "assemble"
       ELSE stop' = stop /\ pc' = "list"
  /\ UNCHANGED <<listing, raw, staged, ok, cause, seen, faulty, throttle, fanOut,
                 result>>

\* The run ends: a complete run writes the final checkpoint; the summary's
\* status and failure categories decide the exit code.
Assemble ==
  /\ pc = "assemble"
  /\ LET st == DeriveRunStatus(ok, last, cause, stop) IN
       /\ IF st = "complete"
            THEN WriteCheckpoint([status |-> "complete", last |-> last])
            ELSE UNCHANGED <<checkpoint, faults>>
       /\ status' = st
       /\ exit' = RunExitCode(st, SummaryOk(ok, faulty))
  /\ pc' = "idle"
  /\ UNCHANGED <<listing, raw, staged, loopState, fanOut, settled>>

\* The process dies: killed, or a programmer error is rethrown.
Crash ==
  /\ pc # "idle"
  /\ Fault("crash")
  /\ pc' = "idle"
  /\ status' = "crashed"
  /\ exit' = NoExit
  /\ UNCHANGED <<durable, loopState, fanOut, settled>>

-----------------------------------------------------------------------------
RunStep ==
  \/ ReachCap \/ ListPage \/ ListEmptyPage \/ ListPageFails
  \/ \E r \in Replays : StoreRaw(r) \/ StoreRawFails(r) \/ StoreRawConflicts(r)
  \/ \E r \in Replays : Stage(r) \/ StageConflicts(r) \/ StageFails(r)
  \/ CompletePage \/ Assemble

Next ==
  \/ \E r \in Replays : Publish(r)
  \/ StartRun
  \/ RunStep
  \/ Crash

Spec == Init /\ [][Next]_vars

\* The schedule starts a process again and again and a process that has not
\* died keeps running; nothing obliges the source to publish or a fault to
\* happen.
FairSpec == Spec /\ WF_vars(StartRun) /\ WF_vars(RunStep)
-----------------------------------------------------------------------------
(* What the command promises.                                              *)

FaultsSoFar ==
  LET used(kind) == FaultBudget[kind] - faults[kind]
  IN  used("page") + used("item") + used("write") + used("crash")

Pcs == {"idle", "list", "ingest", "assemble"}

\* Every variable has its type, and the fan-out only ever works on candidates
\* of the run's own report (processPage is given the page's candidates).
TypeOK ==
  /\ listing \in Seq(Replays)
  /\ raw \subseteq Replays /\ staged \subseteq Replays
  /\ checkpoint \in Checkpoints
  /\ pc \in Pcs
  /\ last \in Nat /\ ok \in BOOLEAN /\ cause \in Causes
  /\ seen \subseteq Replays /\ faulty \in BOOLEAN /\ stop \in Stops
  /\ throttle \in Throttles
  /\ held \subseteq Replays /\ fresh \subseteq Replays
  /\ broken \subseteq Replays
  /\ pending \subseteq Replays
  /\ pc = "ingest" => pending \cup held \subseteq seen
  /\ status \in Statuses /\ exit \in {0, 2, NoExit}
  /\ settled \subseteq Nat
  /\ faults \in [FaultKinds -> Nat]

\* A staging row never points at a raw object that was not written, whichever
\* of the two steps failed and whenever the process died between them
\* (stageRawReplay refuses what is neither stored nor skipped).
StagedHasRawObject == staged \subseteq raw

\* The checkpoint of an unfinished pass never names a page whose fan-out has
\* not been gathered, across failed writes, crashes and resumes ("written only
\* after the per-candidate fan-out completes - never mid-page").
CheckpointBehindIngest ==
  checkpoint.status = "running" => 1 .. checkpoint.last \subseteq settled

\* A run that exits 0 has left none of the candidates it discovered without a
\* staging row: nothing it saw failed, conflicted or was forgotten.
ExitZeroIsHonest == pc = "idle" /\ exit = 0 => seen \subseteq staged

\* Resuming never throws progress away: as long as a pass is unfinished its
\* checkpoint only moves forward, over any number of runs.
ProgressNeverRegresses ==
  [][checkpoint.status = "running" /\ checkpoint'.status = "running"
       => checkpoint'.last >= checkpoint.last]_vars

\* A run that exits 0 reports a finished corpus: every replay the source has
\* listed from the start has a row.
ExitZeroMeansCorpusStaged ==
  pc = "idle" /\ exit = 0 => Range(InitialListing) \subseteq staged

\* A page that brought nothing new is a natural end of the corpus: whatever is
\* listed behind it has been staged before.
AllDuplicateIsEndOfCorpus ==
  pc = "assemble" /\ stop = "all_duplicate"
    => \A i \in DOMAIN listing : i > last * PageSize => listing[i] \in staged

\* A clamping source is crawled at most one page past its end and one more for
\* each fault on the way: a small bounded number of discovery calls, never an
\* unbounded crawl.
CrawlIsBounded == last <= PageCount + 1 + FaultsSoFar

\* Whatever the source lists is staged in the end.
EveryReplayStaged ==
  \A r \in Replays : r \in Range(listing) ~> r \in staged

\* The limiter of a run keeps the configured concurrency: the page that would
\* shrink it is the one that ends the loop (applyRateLimitThrottle runs right
\* before the break), and two of them are a window.
LimiterNeverMoves ==
  throttle.concurrency = Concurrency /\ throttle.floorSteps = 0

-----------------------------------------------------------------------------
(* The checkpoint as CheckpointCell sees it.                               *)

Cell == INSTANCE CheckpointCell WITH
  persisted <- checkpoint,
  cursor    <- IF pc = "idle" THEN 0 ELSE last,
  live      <- pc # "idle"

\* Of the checkpoint the page loop needs no more than a cell: a run goes on
\* from what is persisted, and a write takes effect or is lost.
CellSpec == Cell!Spec
=============================================================================
