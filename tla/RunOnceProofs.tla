---------------------------- MODULE RunOnceProofs ----------------------------
(***************************************************************************)
(* What run-once promises for every listing, page size, cap, choice of bad *)
(* replays and budget of faults; what it promises of the whole corpus when *)
(* the source publishes little and only its pages fail; and that its       *)
(* checkpoint is a CheckpointCell.                                         *)
(***************************************************************************)
EXTENDS RunOnce, TLAPS

\* A list page holds replays of the listing.
LEMMA PageOfReplays ==
  ASSUME listing \in Seq(Replays), NEW n
  PROVE  Page(n) \subseteq Replays
  BY DEF Page

\* A replay on top of a listing makes a listing.
LEMMA PublishedListing ==
  ASSUME NEW s \in Seq(Replays), NEW r \in Replays
  PROVE  <<r>> \o s \in Seq(Replays)
  OBVIOUS

\* The cursor a run starts from is a page number, or 0.
LEMMA ResumePointType ==
  ASSUME NEW c \in Checkpoints
  PROVE  ResumePoint(c) \in Nat
  BY DEF ResumePoint, Checkpoints

\* A checkpoint write leaves a checkpoint, and spends at most one fault.
LEMMA WriteCheckpointType ==
  ASSUME NEW c \in Checkpoints, checkpoint \in Checkpoints,
         faults \in [FaultKinds -> Nat], WriteCheckpoint(c)
  PROVE  checkpoint' \in Checkpoints /\ faults' \in [FaultKinds -> Nat]
  BY FaultAssumption DEF WriteCheckpoint, Fault

\* Spending a fault leaves a budget.
LEMMA FaultType ==
  ASSUME NEW kind \in FaultKinds, faults \in [FaultKinds -> Nat], Fault(kind)
  PROVE  faults' \in [FaultKinds -> Nat]
  BY DEF Fault

\* Every fault has a budget.
LEMMA FaultKindsKnown ==
  "page" \in FaultKinds /\ "item" \in FaultKinds /\ "write" \in FaultKinds
  /\ "crash" \in FaultKinds
  BY FaultAssumption

\* A run's throttle starts from the configured concurrency.
LEMMA NewThrottleType == NewThrottle \in Throttles
  BY ConcurrencyAssumption DEF NewThrottle, Throttles, RateLimitedWindow, CleanWindow

\* A clean page keeps the throttle within its bounds (the maximum is the base).
LEMMA CleanWindowType ==
  ASSUME NEW t \in Throttles
  PROVE  OnCleanWindow(t) \in Throttles
<1>0. /\ t.concurrency \in 1 .. Concurrency /\ t.floorSteps \in Nat
      /\ t.clean \in 0 .. 3 /\ Concurrency \in Nat
      /\ t = [concurrency |-> t.concurrency, floorSteps |-> t.floorSteps,
              rateLimited |-> t.rateLimited, clean |-> t.clean]
  BY ConcurrencyAssumption DEF Throttles, CleanWindow
<1>1. CASE t.clean + 1 < 3
  <2>1. OnCleanWindow(t) = [concurrency |-> t.concurrency, floorSteps |-> t.floorSteps,
                            rateLimited |-> 0, clean |-> t.clean + 1]
    BY <1>0, <1>1 DEF OnCleanWindow, CleanWindow
  <2>2. t.clean + 1 \in 0 .. 3
    BY <1>0, <1>1
  <2> QED
    BY <1>0, <2>1, <2>2 DEF Throttles, RateLimitedWindow, CleanWindow
<1>2. CASE ~(t.clean + 1 < 3)
  <2> DEFINE next == IF t.concurrency < Concurrency THEN t.concurrency + 1
                                                    ELSE t.concurrency
  <2>1. next \in 1 .. Concurrency
    BY <1>0
  <2>2. OnCleanWindow(t) = [concurrency |-> next, floorSteps |-> t.floorSteps,
                            rateLimited |-> 0, clean |-> 0]
    BY <1>0, <1>2 DEF OnCleanWindow, CleanWindow
  <2> HIDE DEF next
  <2> QED
    BY <1>0, <2>1, <2>2 DEF Throttles, RateLimitedWindow, CleanWindow
<1> QED
  BY <1>1, <1>2

\* A rate-limited page keeps the throttle within its bounds.
LEMMA RateLimitedType ==
  ASSUME NEW t \in Throttles
  PROVE  OnRateLimited(t) \in Throttles
<1>1. /\ t.concurrency \in 1 .. Concurrency /\ t.floorSteps \in Nat
      /\ t.rateLimited \in 0 .. 2 /\ t.clean \in 0 .. 3 /\ Concurrency \in Nat
      /\ t = [concurrency |-> t.concurrency, floorSteps |-> t.floorSteps,
              rateLimited |-> t.rateLimited, clean |-> t.clean]
  BY ConcurrencyAssumption DEF Throttles, CleanWindow, RateLimitedWindow
<1>2. Halved(t.concurrency) \in 1 .. Concurrency
  BY <1>1 DEF Halved
<1>3. CASE t.rateLimited + 1 < 2
  <2>1. OnRateLimited(t) = [concurrency |-> t.concurrency, floorSteps |-> t.floorSteps,
                            rateLimited |-> t.rateLimited + 1, clean |-> 0]
    BY <1>1, <1>3 DEF OnRateLimited, RateLimitedWindow
  <2>2. t.rateLimited + 1 \in 0 .. 2
    BY <1>1, <1>3
  <2> QED
    BY <1>1, <2>1, <2>2 DEF Throttles, RateLimitedWindow, CleanWindow
<1>4. CASE ~(t.rateLimited + 1 < 2)
  <2>1. OnRateLimited(t) = [concurrency |-> Halved(t.concurrency),
                            floorSteps |-> t.floorSteps + 1,
                            rateLimited |-> 0, clean |-> 0]
    BY <1>1, <1>4 DEF OnRateLimited, RateLimitedWindow
  <2> QED
    BY <1>1, <1>2, <2>1 DEF Throttles, RateLimitedWindow, CleanWindow
<1> QED
  BY <1>3, <1>4

\* The initial state is type correct.
LEMMA InitTypeOK == Init => TypeOK
<1> SUFFICES ASSUME Init PROVE TypeOK
  OBVIOUS
<1>1. listing \in Seq(Replays) /\ faults \in [FaultKinds -> Nat]
  BY ListingAssumption, FaultAssumption DEF Init
<1>2. checkpoint \in Checkpoints
  BY DEF Init, NoCheckpoint, Checkpoints
<1>3. last \in Nat /\ ok \in BOOLEAN /\ cause \in Causes /\ faulty \in BOOLEAN
  BY DEF Init, Causes
<1>4. pc \in Pcs /\ stop \in Stops /\ status \in Statuses /\ exit \in {0, 2, NoExit}
  BY DEF Init, Pcs, Stops, Statuses
<1>5. pc # "ingest" /\ throttle \in Throttles
  BY NewThrottleType DEF Init
<1> QED
  BY <1>1, <1>2, <1>3, <1>4, <1>5 DEF Init, TypeOK

\* Every step keeps the types.
LEMMA NextTypeOK == TypeOK /\ [Next]_vars => TypeOK'
<1> SUFFICES ASSUME TypeOK, [Next]_vars PROVE TypeOK'
  OBVIOUS
<1> USE DEF durable, loopState, fanOut, result
<1>1. CASE \E r \in Replays : Publish(r)
  <2> PICK r \in Replays : Publish(r)
    BY <1>1
  <2>1. listing' \in Seq(Replays)
    BY PublishedListing DEF Publish, TypeOK
  <2> QED
    BY <2>1 DEF Publish, TypeOK
<1>2. CASE StartRun
  <2>1. last' \in Nat
    BY <1>2, ResumePointType DEF StartRun, TypeOK
  <2>2. settled' \subseteq Nat
    BY <1>2 DEF StartRun, TypeOK
  <2> QED
    BY <1>2, <2>1, <2>2, NewThrottleType DEF StartRun, TypeOK, Pcs, Causes, Stops
<1>3. CASE ReachCap
  BY <1>3 DEF ReachCap, TypeOK, Pcs
<1>4. CASE ListPage
  BY <1>4, PageOfReplays, CleanWindowType DEF ListPage, MayList, AppendCandidates, TypeOK, Pcs
<1>5. CASE ListEmptyPage
  BY <1>5 DEF ListEmptyPage, MayList, TypeOK, Pcs, Stops
<1>6. CASE ListPageFails
  BY <1>6, FaultType, FaultKindsKnown, RateLimitedType
  DEF ListPageFails, MayList, OkAfterFailure, TypeOK, Pcs, Stops, Causes
<1>7. CASE \E r \in Replays : StoreRaw(r)
  BY <1>7 DEF StoreRaw, TallyNew, TypeOK
<1>8. CASE \E r \in Replays : StoreRawFails(r)
  <2> PICK r \in Replays : StoreRawFails(r)
    BY <1>8
  <2>1. faults' \in [FaultKinds -> Nat]
    BY FaultType, FaultKindsKnown DEF StoreRawFails, TypeOK
  <2> QED
    BY <2>1 DEF StoreRawFails, Stageable, TypeOK
<1>9. CASE \E r \in Replays : StoreRawConflicts(r)
  BY <1>9 DEF StoreRawConflicts, Stageable, TypeOK
<1>10. CASE \E r \in Replays : Stage(r)
  BY <1>10 DEF Stage, TallyNew, TypeOK
<1>11. CASE \E r \in Replays : StageConflicts(r)
  BY <1>11 DEF StageConflicts, TypeOK
<1>12. CASE \E r \in Replays : StageFails(r)
  <2> PICK r \in Replays : StageFails(r)
    BY <1>12
  <2>1. faults' \in [FaultKinds -> Nat]
    BY FaultType, FaultKindsKnown DEF StageFails, TypeOK
  <2> QED
    BY <2>1 DEF StageFails, TypeOK
<1>13. CASE CompletePage
  <2>1. [status |-> "running", last |-> last + 1] \in Checkpoints
    BY DEF TypeOK, Checkpoints
  <2>2. checkpoint' \in Checkpoints /\ faults' \in [FaultKinds -> Nat]
    BY <1>13, <2>1, WriteCheckpointType DEF CompletePage, TypeOK
  <2>3. settled' \subseteq Nat /\ last' \in Nat
    BY <1>13 DEF CompletePage, TypeOK
  <2>4. stop' \in Stops /\ pc' \in {"assemble", "list"}
    BY <1>13 DEF CompletePage, TypeOK, Stops
  <2> QED
    BY <1>13, <2>2, <2>3, <2>4 DEF CompletePage, TypeOK, Pcs
<1>14. CASE Assemble
  <2>1. [status |-> "complete", last |-> last] \in Checkpoints
    BY DEF TypeOK, Checkpoints
  <2>2. checkpoint' \in Checkpoints /\ faults' \in [FaultKinds -> Nat]
    BY <1>14, <2>1, WriteCheckpointType DEF Assemble, TypeOK
  <2>3. status' \in Statuses
    BY <1>14 DEF Assemble, DeriveRunStatus, Statuses
  <2>4. exit' \in {0, 2, NoExit}
    BY <1>14 DEF Assemble, RunExitCode
  <2> QED
    BY <1>14, <2>2, <2>3, <2>4 DEF Assemble, TypeOK, Pcs
<1>15. CASE Crash
  BY <1>15, FaultType, FaultKindsKnown DEF Crash, TypeOK, Pcs, Statuses
<1>16. CASE UNCHANGED vars
  BY <1>16 DEF vars, TypeOK
<1> QED
  BY <1>1, <1>2, <1>3, <1>4, <1>5, <1>6, <1>7, <1>8, <1>9, <1>10, <1>11,
     <1>12, <1>13, <1>14, <1>15, <1>16 DEF Next, RunStep

\* Every variable keeps its type, and the fan-out only works on candidates of
\* the run's own report.
THEOREM TypeCorrect == Spec => []TypeOK
<1> QED
  BY InitTypeOK, NextTypeOK, PTL DEF Spec

-----------------------------------------------------------------------------
(* A staging row points at a raw object.  The candidates between the two   *)
(* steps are what makes it inductive: they have their object already.      *)

StoredFirst == held \subseteq raw /\ staged \subseteq raw

\* Every step keeps held and staged candidates behind the raw objects.
LEMMA NextStoredFirst == TypeOK /\ StoredFirst /\ [Next]_vars => StoredFirst'
<1> SUFFICES ASSUME TypeOK, StoredFirst, [Next]_vars PROVE StoredFirst'
  OBVIOUS
<1> USE DEF durable, loopState, fanOut, result, StoredFirst
<1>1. CASE \E r \in Replays : StoreRaw(r)
  BY <1>1 DEF StoreRaw
<1>2. CASE \E r \in Replays : StoreRawFails(r) \/ StoreRawConflicts(r)
  BY <1>2 DEF StoreRawFails, StoreRawConflicts, Stageable
<1>3. CASE \E r \in Replays : Stage(r)
  BY <1>3 DEF Stage
<1>4. CASE \E r \in Replays : StageConflicts(r) \/ StageFails(r)
  BY <1>4 DEF StageConflicts, StageFails
<1>5. CASE ListPage
  BY <1>5 DEF ListPage
<1>6. CASE UNCHANGED <<raw, staged, held>>
  BY <1>6
<1> QED
  BY <1>1, <1>2, <1>3, <1>4, <1>5, <1>6
  DEF Next, RunStep, Publish, StartRun, ReachCap, ListEmptyPage, ListPageFails,
      CompletePage, Assemble, Crash, vars

\* A staging row never points at a raw object that was not written
\* (stageRawReplay refuses what is neither stored nor skipped).
THEOREM StagedAreStored == Spec => []StagedHasRawObject
<1>1. Init => StoredFirst
  BY DEF Init, StoredFirst
<1>2. StoredFirst => StagedHasRawObject
  BY DEF StoredFirst, StagedHasRawObject
<1> QED
  BY <1>1, <1>2, NextStoredFirst, TypeCorrect, PTL DEF Spec

-----------------------------------------------------------------------------
(* The checkpoint trails the work.  What has been gathered covers both the *)
(* persisted cursor and the one a live run would persist next, and the     *)
(* live cursor is never behind the persisted one.                          *)

Trails ==
  /\ checkpoint.status = "running" => 1 .. checkpoint.last \subseteq settled
  /\ pc # "idle" => 1 .. last \subseteq settled
  /\ pc # "idle" /\ checkpoint.status = "running" => checkpoint.last <= last

\* A run takes its cursor from the checkpoint.
LEMMA StartTrails ==
  ASSUME TypeOK, Trails, StartRun
  PROVE  Trails' /\ checkpoint' = checkpoint
<1> USE DEF durable
<1>1. checkpoint' = checkpoint
  BY DEF StartRun
<1>2. CASE checkpoint.status = "running"
  <2>1. last' = checkpoint.last /\ settled' = settled
    BY <1>2 DEF StartRun, ResumePoint
  <2> QED
    BY <1>1, <1>2, <2>1 DEF Trails, TypeOK, Checkpoints
<1>3. CASE checkpoint.status # "running"
  <2>1. last' = 0
    BY <1>3 DEF StartRun, ResumePoint
  <2> QED
    BY <1>1, <1>3, <2>1 DEF Trails
<1> QED
  BY <1>2, <1>3

\* A completed page moves the cursor by one, and the checkpoint to it if at all.
LEMMA CompleteTrails ==
  ASSUME TypeOK, Trails, CompletePage
  PROVE  /\ Trails'
         /\ checkpoint.status = "running" => checkpoint'.last >= checkpoint.last
<1>1. settled' = settled \cup {last + 1} /\ last' = last + 1
  BY DEF CompletePage, FanOutDone
<1>2. 1 .. last' \subseteq settled'
  BY <1>1 DEF Trails, TypeOK, CompletePage
<1>3. CASE checkpoint' = [status |-> "running", last |-> last + 1]
  BY <1>1, <1>2, <1>3 DEF Trails, TypeOK, Checkpoints, CompletePage
<1>4. CASE checkpoint' = checkpoint
  <2>1. checkpoint.last \in Nat /\ last \in Nat
    BY DEF TypeOK, Checkpoints
  <2>2. pc # "idle"
    BY DEF CompletePage
  <2> QED
    BY <1>1, <1>2, <1>4, <2>1, <2>2 DEF Trails
<1> QED
  BY <1>3, <1>4 DEF CompletePage, WriteCheckpoint

\* Every step keeps the checkpoint behind the gathered pages.
LEMMA NextTrails ==
  TypeOK /\ Trails /\ [Next]_vars
    => /\ Trails'
       /\ checkpoint.status = "running" /\ checkpoint'.status = "running"
            => checkpoint'.last >= checkpoint.last
<1> SUFFICES ASSUME TypeOK, Trails, [Next]_vars
             PROVE  /\ Trails'
                    /\ checkpoint.status = "running" /\ checkpoint'.status = "running"
                         => checkpoint'.last >= checkpoint.last
  OBVIOUS
<1> USE DEF durable, loopState, fanOut, result
<1>0. checkpoint.last \in Nat
  BY DEF TypeOK, Checkpoints
<1>1. CASE StartRun
  BY <1>0, <1>1, StartTrails
<1>2. CASE CompletePage
  BY <1>2, CompleteTrails
<1>3. CASE Assemble
  <2>1. \/ checkpoint' = checkpoint
        \/ checkpoint' = [status |-> "complete", last |-> last]
    BY <1>3 DEF Assemble, WriteCheckpoint
  <2> QED
    BY <1>0, <1>3, <2>1 DEF Assemble, Trails
<1>4. CASE UNCHANGED <<checkpoint, last, settled>> /\ (pc = "idle" => pc' = "idle")
  BY <1>0, <1>4 DEF Trails
<1> QED
  BY <1>1, <1>2, <1>3, <1>4
  DEF Next, RunStep, Publish, ReachCap, ListPage, ListEmptyPage, ListPageFails,
      MayList, StoreRaw, StoreRawFails, StoreRawConflicts, Stage, StageConflicts,
      StageFails, Crash, vars

\* The checkpoint trails the gathered pages in every reachable state.
LEMMA AlwaysTrails == Spec => []Trails
<1>1. Init => Trails
  BY DEF Init, Trails, NoCheckpoint
<1> QED
  BY <1>1, NextTrails, TypeCorrect, PTL DEF Spec

\* The checkpoint of an unfinished pass never names a page whose fan-out has
\* not been gathered (writePageCheckpoint runs after ingestPage has settled).
THEOREM CheckpointTrails == Spec => []CheckpointBehindIngest
<1>1. Trails => CheckpointBehindIngest
  BY DEF Trails, CheckpointBehindIngest
<1> QED
  BY <1>1, AlwaysTrails, PTL

\* Over any number of runs the checkpoint of an unfinished pass only moves
\* forward (resumeFrom takes the cursor up where it was persisted).
THEOREM ProgressIsKept == Spec => ProgressNeverRegresses
<1>1. TypeOK /\ Trails /\ [Next]_vars
        => [checkpoint.status = "running" /\ checkpoint'.status = "running"
              => checkpoint'.last >= checkpoint.last]_vars
  BY NextTrails
<1> QED
  BY <1>1, TypeCorrect, AlwaysTrails, PTL DEF Spec, ProgressNeverRegresses

-----------------------------------------------------------------------------
(* An exit code of 0 is honest.  As long as no failure category is held,   *)
(* every candidate of the report has its row or is still in the fan-out.   *)

Accounted ==
  /\ pc \in {"list", "assemble"} /\ ~faulty => seen \subseteq staged
  /\ pc = "ingest" /\ ~faulty => seen \subseteq staged \cup pending \cup held
  /\ pc = "idle" /\ exit = 0 => seen \subseteq staged

\* Every step keeps each candidate of the run accounted for.
LEMMA NextAccounted == TypeOK /\ Accounted /\ [Next]_vars => Accounted'
<1> SUFFICES ASSUME TypeOK, Accounted, [Next]_vars PROVE Accounted'
  OBVIOUS
<1> USE DEF durable, loopState, fanOut, result
<1>1. CASE StartRun
  BY <1>1 DEF StartRun, Accounted
<1>2. CASE ListPage
  BY <1>2 DEF ListPage, MayList, AppendCandidates, Accounted
<1>3. CASE ReachCap \/ ListEmptyPage \/ ListPageFails
  BY <1>3 DEF ReachCap, ListEmptyPage, ListPageFails, MayList, Accounted
<1>4. CASE \E r \in Replays : StoreRaw(r)
  BY <1>4 DEF StoreRaw, Accounted
<1>5. CASE \E r \in Replays : Stage(r)
  BY <1>5 DEF Stage, Accounted
<1>6. CASE \E r \in Replays : \/ StoreRawFails(r) \/ StoreRawConflicts(r)
                              \/ StageConflicts(r) \/ StageFails(r)
  BY <1>6 DEF StoreRawFails, StoreRawConflicts, StageConflicts, StageFails,
              Accounted
<1>7. CASE CompletePage
  BY <1>7 DEF CompletePage, FanOutDone, Accounted
<1>8. CASE Assemble
  <2>1. exit' = 0 => ~faulty
    BY <1>8 DEF Assemble, RunExitCode, SummaryOk
  <2> QED
    BY <1>8, <2>1 DEF Assemble, Accounted
<1>9. CASE Crash
  BY <1>9 DEF Crash, Accounted, NoExit
<1>10. CASE UNCHANGED <<pc, seen, staged, pending, held, faulty, exit>>
  BY <1>10 DEF Accounted
<1> QED
  BY <1>1, <1>2, <1>3, <1>4, <1>5, <1>6, <1>7, <1>8, <1>9, <1>10
  DEF Next, RunStep, Publish, vars

\* A run that exits 0 has left none of the candidates it discovered without a
\* staging row (runExitCode consults the failure categories of all items).
THEOREM ExitZeroHonest == Spec => []ExitZeroIsHonest
<1>1. Init => Accounted
  BY DEF Init, Accounted, NoExit
<1>2. Accounted => ExitZeroIsHonest
  BY DEF Accounted, ExitZeroIsHonest
<1> QED
  BY <1>1, <1>2, NextAccounted, TypeCorrect, PTL DEF Spec
-----------------------------------------------------------------------------
(* The limiter stays where it was configured: a live run has not seen a    *)
(* rate-limited page, for one would have ended it.                         *)

AtBase ==
  /\ throttle.concurrency = Concurrency /\ throttle.floorSteps = 0
  /\ pc \in {"list", "ingest"} => throttle.rateLimited = 0

\* Every step leaves the limiter at its base.
LEMMA NextAtBase == TypeOK /\ AtBase /\ [Next]_vars => AtBase'
<1> SUFFICES ASSUME TypeOK, AtBase, [Next]_vars PROVE AtBase'
  OBVIOUS
<1> USE DEF durable, loopState, fanOut, result
<1>0. throttle \in Throttles
  BY DEF TypeOK
<1>1. CASE StartRun
  BY <1>1 DEF StartRun, NewThrottle, AtBase
<1>2. CASE ListPage
  <2>1. throttle' = OnCleanWindow(throttle)
    BY <1>2 DEF ListPage
  <2> QED
    BY <1>0, <2>1, ConcurrencyAssumption DEF OnCleanWindow, Throttles, AtBase
<1>3. CASE ListPageFails
  <2>1. CASE throttle' = throttle
    BY <1>3, <2>1 DEF ListPageFails, AtBase
  <2>2. CASE throttle' = OnRateLimited(throttle)
    <3>1. throttle.rateLimited = 0
      BY <1>3 DEF ListPageFails, MayList, AtBase
    <3>2. throttle' = [throttle EXCEPT !.rateLimited = 1, !.clean = 0]
      BY <2>2, <3>1 DEF OnRateLimited, RateLimitedWindow
    <3> QED
      BY <1>0, <1>3, <3>2 DEF ListPageFails, Throttles, AtBase
  <2> QED
    BY <1>3, <2>1, <2>2 DEF ListPageFails
<1>4. CASE UNCHANGED throttle /\ (pc' \in {"list", "ingest"} => pc \in {"list", "ingest"})
  BY <1>4 DEF AtBase
<1> QED
  BY <1>1, <1>2, <1>3, <1>4
  DEF Next, RunStep, Publish, ReachCap, ListEmptyPage, MayList, StoreRaw,
      StoreRawFails, StoreRawConflicts, Stage, StageConflicts, StageFails,
      CompletePage, Assemble, Crash, vars

\* The limiter of a run keeps the configured concurrency whatever pages are
\* rate-limited (applyRateLimitThrottle is followed by the break).
THEOREM LimiterKeepsBase == Spec => []LimiterNeverMoves
<1>1. Init => AtBase
  BY DEF Init, NewThrottle, AtBase
<1>2. AtBase => LimiterNeverMoves
  BY DEF AtBase, LimiterNeverMoves
<1> QED
  BY <1>1, <1>2, NextAtBase, TypeCorrect, PTL DEF Spec

-----------------------------------------------------------------------------
(* The corpus.  In a run whose only faults are pages that cannot be        *)
(* discovered, over a source whose replays are good and distinct and that  *)
(* publishes less than a page of new ones, a page without anything new     *)
(* ends the corpus and an exit code of 0 means that all of it has rows.    *)
(* The cap is any, and the source clamps or does not.                      *)

GoodReplays == Poisoned = {} /\ Mismatched = {} /\ Conflicted = {}

OnlyPageFaults ==
  FaultBudget["item"] = 0 /\ FaultBudget["write"] = 0 /\ FaultBudget["crash"] = 0

DistinctListing ==
  \A i, j \in DOMAIN InitialListing : InitialListing[i] = InitialListing[j] => i = j

CleanRun == GoodReplays /\ OnlyPageFaults /\ DistinctListing

Corpus == 1 .. Len(InitialListing)

\* How many replays have been published on top of the corpus.
Published == Len(listing) - Len(InitialListing)

FewPublished == Published < PageSize

\* The listing is what was published, then the corpus; no replay is there twice.
CorpusShifted ==
  /\ Len(listing) >= Len(InitialListing)
  /\ \A j \in Corpus : listing[Published + j] = InitialListing[j]
  /\ \A i, j \in DOMAIN listing : listing[i] = listing[j] => i = j

NothingBroken ==
  /\ faults["item"] = 0 /\ faults["write"] = 0 /\ faults["crash"] = 0
  /\ broken = {}

\* The corpus on list pages 1 to n is in the set S.
Covered(n, S) ==
  \A j \in Corpus : Published + j <= n * PageSize => InitialListing[j] \in S

AllIn(S) == \A j \in Corpus : InitialListing[j] \in S

\* What page n has not reached even without a shift is not in the set S.
Untouched(n, S) == \A j \in Corpus : j > n * PageSize => InitialListing[j] \notin S

\* Pages 1 to n have been gathered; the corpus behind them is as yet untouched,
\* unless all of it was staged before.
WalkedTo(n) == Covered(n, staged) /\ (AllIn(staged) \/ Untouched(n, raw))

InFanOut == staged \cup pending \cup held

\* The page brings something new, or there is nothing behind it.
NewOrLast == fresh # {} \/ pending \ raw # {} \/ AllIn(InFanOut)

WalkInv ==
  /\ CorpusShifted /\ NothingBroken
  /\ exit = 0 => AllIn(staged)
  /\ pc = "idle" => WalkedTo(ResumePoint(checkpoint))
  /\ pc \in {"list", "assemble"} =>
       WalkedTo(last) /\ ResumePoint(checkpoint) = last
  /\ pc \in {"list", "ingest"} => ok /\ stop = "cap"
  /\ pc = "ingest" =>
       /\ Covered(last + 1, InFanOut)
       /\ AllIn(staged) \/ Untouched(last + 1, raw \cup pending)
       /\ NewOrLast
  /\ pc = "assemble" =>
       /\ stop \in {"empty", "all_duplicate"} => AllIn(staged) /\ ok
       /\ stop = "all_duplicate" => last > 0
       /\ stop = "page_failed" => ~ok

\* The crawl, page by page.
APageListed == PageSize <= Len(InitialListing)

PageIsOld == pending \subseteq staged /\ held \subseteq staged /\ fresh = {}

CrawlInv ==
  /\ \A k \in FaultKinds : faults[k] <= FaultBudget[k]
  /\ pc = "idle" => ResumePoint(checkpoint) <= PageCount
  /\ pc = "list" => last <= PageCount
  /\ pc = "ingest" => last < PageCount \/ (last = PageCount /\ PageIsOld)
  /\ pc = "assemble" /\ stop # "all_duplicate" => last <= PageCount
  /\ last <= PageCount + 1

\* Products with the page size grow with the page.
LEMMA PagesGrow ==
  ASSUME NEW m \in Nat, NEW n \in Nat
  PROVE  /\ n * PageSize \in Nat
         /\ (n + 1) * PageSize = n * PageSize + PageSize
         /\ m <= n => m * PageSize <= n * PageSize
<1>1. PageSize \in Nat
  BY ListingAssumption
<1>2. n * PageSize \in Nat /\ (n + 1) * PageSize = n * PageSize + PageSize
  BY <1>1
<1>3. m <= n => m * PageSize <= n * PageSize
  BY <1>1
<1> QED
  BY <1>2, <1>3

\* The last page is the first one that reaches the end of the listing.
LEMMA LastPage ==
  ASSUME listing \in Seq(Replays)
  PROVE  /\ PageCount \in Nat /\ Len(listing) \in Nat
         /\ Len(listing) <= PageCount * PageSize
         /\ PageCount > 0 => (PageCount - 1) * PageSize < Len(listing)
<1>1. Len(listing) \in Nat /\ PageSize \in Nat \ {0}
  BY ListingAssumption
<1>2. ASSUME NEW a \in Nat, NEW k \in Nat \ {0}
      PROVE  LET q == (a + k - 1) \div k IN
               q \in Nat /\ a <= q * k /\ (q > 0 => (q - 1) * k < a)
  OBVIOUS
<1> QED
  BY <1>1, <1>2 DEF PageCount

\* A page number is within the page count exactly when the listing reaches it.
LEMMA PageReached ==
  ASSUME listing \in Seq(Replays), NEW n \in Nat
  PROVE  n < PageCount <=> n * PageSize < Len(listing)
<1> USE LastPage
<1>1. CASE n < PageCount
  <2>1. n <= PageCount - 1 /\ PageCount - 1 \in Nat
    BY <1>1
  <2>2. n * PageSize <= (PageCount - 1) * PageSize
    BY <2>1, PagesGrow
  <2>3. n * PageSize \in Nat /\ (PageCount - 1) * PageSize \in Nat
    BY <2>1, PagesGrow
  <2> QED
    BY <1>1, <2>2, <2>3
<1>2. CASE ~(n < PageCount)
  <2>1. PageCount * PageSize <= n * PageSize
    BY <1>2, PagesGrow
  <2>2. n * PageSize \in Nat /\ PageCount * PageSize \in Nat
    BY PagesGrow
  <2> QED
    BY <1>2, <2>1, <2>2
<1> QED
  BY <1>1, <1>2

\* Page n + 1 holds what the listing has between its bounds.
LEMMA PageHolds ==
  ASSUME listing \in Seq(Replays), NEW n \in Nat, NEW i \in DOMAIN listing,
         n * PageSize < i, i <= (n + 1) * PageSize
  PROVE  listing[i] \in Page(n + 1)
<1>0. i \in Nat /\ i <= Len(listing) /\ Len(listing) \in Nat
  OBVIOUS
<1>1. n * PageSize \in Nat
  BY PagesGrow
<1>2. n < PageCount
  BY <1>0, <1>1, PageReached
<1>3. ~(n + 1 > PageCount)
  BY <1>2, LastPage
<1>4. (n + 1) - 1 = n
  OBVIOUS
<1> QED
  BY <1>3, <1>4 DEF Page

\* Page n + 1 holds nothing that the listing has beyond its upper bound.
LEMMA PageBounded ==
  ASSUME listing \in Seq(Replays), NEW n \in Nat, NEW r \in Page(n + 1)
  PROVE  \E i \in DOMAIN listing : r = listing[i] /\ i <= (n + 1) * PageSize
<1> DEFINE m == IF Clamps /\ n + 1 > PageCount THEN PageCount ELSE n + 1
<1>1. PICK i \in DOMAIN listing : r = listing[i] /\ i <= m * PageSize
  BY DEF Page
<1>2. m \in Nat /\ m <= n + 1 /\ n + 1 \in Nat
  BY LastPage
<1> HIDE DEF m
<1>3. m * PageSize <= (n + 1) * PageSize
  BY <1>2, PagesGrow
<1>4. m * PageSize \in Nat /\ (n + 1) * PageSize \in Nat
  BY <1>2, PagesGrow
<1>5. i \in Nat
  OBVIOUS
<1> QED
  BY <1>1, <1>3, <1>4, <1>5

\* Behind an empty page there is nothing.
LEMMA EmptyPageIsTheEnd ==
  ASSUME listing \in Seq(Replays), NEW n \in Nat, Page(n + 1) = {}
  PROVE  Len(listing) <= n * PageSize
<1> SUFFICES ASSUME n * PageSize < Len(listing) PROVE FALSE
  BY PagesGrow
<1> DEFINE i == n * PageSize + 1
<1>1. n * PageSize \in Nat /\ PageSize \in Nat \ {0} /\ Len(listing) \in Nat
  BY PagesGrow, ListingAssumption
<1>2. i \in DOMAIN listing /\ n * PageSize < i
  BY <1>1
<1>3. i <= (n + 1) * PageSize
  BY <1>1, PagesGrow
<1> QED
  BY <1>2, <1>3, PageHolds

\* A page beyond the end holds only what the last page does, if anything.
LEMMA PageBeyond ==
  ASSUME listing \in Seq(Replays), NEW n \in Nat, n >= PageCount,
         NEW r \in Page(n + 1)
  PROVE  /\ PageCount > 0
         /\ \E i \in DOMAIN listing :
              r = listing[i] /\ (PageCount - 1) * PageSize < i
<1> DEFINE m == IF Clamps /\ n + 1 > PageCount THEN PageCount ELSE n + 1
<1>1. PICK i \in DOMAIN listing :
        r = listing[i] /\ (m - 1) * PageSize < i /\ i <= m * PageSize
  BY DEF Page
<1>2. i \in Nat /\ i > 0 /\ i <= Len(listing)
  OBVIOUS
<1>3. ~(n * PageSize < Len(listing)) /\ n * PageSize \in Nat /\ Len(listing) \in Nat
      /\ PageCount \in Nat
  BY PageReached, PagesGrow, LastPage
<1>4. m # n + 1
  <2> SUFFICES ASSUME m = n + 1 PROVE FALSE
    OBVIOUS
  <2>1. n * PageSize < i
    BY <1>1
  <2> QED
    BY <1>2, <1>3, <2>1
<1>5. m = PageCount
  BY <1>4
<1>6. PageCount # 0
  <2> SUFFICES ASSUME PageCount = 0 PROVE FALSE
    OBVIOUS
  <2>1. i <= 0 * PageSize
    BY <1>1, <1>5
  <2> QED
    BY <1>2, <2>1, ListingAssumption
<1> QED
  BY <1>1, <1>3, <1>5, <1>6

\* Replays published on top shift the corpus, so its pages never cover more.
LEMMA PublishWalk ==
  ASSUME TypeOK, WalkInv, NEW r \in Replays, Publish(r)
  PROVE  WalkInv'
<1>1. /\ listing \in Seq(Replays) /\ listing' = <<r>> \o listing /\ r \notin Range(listing)
      /\ UNCHANGED <<raw, staged, checkpoint, pc, last, ok, stop, pending, held, fresh,
                     broken, exit, faults>>
  BY DEF Publish, TypeOK, loopState, fanOut, result
<1>2. /\ Len(listing') = Len(listing) + 1 /\ Len(listing) \in Nat
      /\ listing'[1] = r
      /\ \A i \in DOMAIN listing : i + 1 \in DOMAIN listing' /\ listing'[i + 1] = listing[i]
      /\ \A i \in DOMAIN listing' : i # 1 => i - 1 \in DOMAIN listing /\ listing'[i] = listing[i - 1]
  BY <1>1
<1>3. Len(InitialListing) \in Nat
  BY ListingAssumption
<1>4. Published' = Published + 1 /\ Published \in Nat
  BY <1>2, <1>3 DEF Published, WalkInv, CorpusShifted
<1>5. CorpusShifted'
  <2>1. \A j \in Corpus : Published + j \in DOMAIN listing
    BY <1>2, <1>3, <1>4 DEF Published, Corpus
  <2>2. \A j \in Corpus : listing'[Published' + j] = InitialListing[j]
    <3> SUFFICES ASSUME NEW j \in Corpus
                 PROVE  listing'[Published' + j] = InitialListing[j]
      OBVIOUS
    <3>1. Published' + j = (Published + j) + 1
      BY <1>3, <1>4 DEF Corpus
    <3> QED
      BY <1>2, <2>1, <3>1 DEF WalkInv, CorpusShifted
  <2>3. \A i \in DOMAIN listing : listing[i] # r
    BY <1>1 DEF Range
  <2>4. ASSUME NEW i \in DOMAIN listing', NEW j \in DOMAIN listing',
               listing'[i] = listing'[j]
        PROVE  i = j
    <3>1. CASE i # 1 /\ j # 1
      <4>1. listing[i - 1] = listing[j - 1] /\ i - 1 \in DOMAIN listing /\ j - 1 \in DOMAIN listing
        BY <1>2, <2>4, <3>1
      <4>2. i - 1 = j - 1
        BY <4>1 DEF WalkInv, CorpusShifted
      <4>3. i \in Int /\ j \in Int
        BY <1>1
      <4> QED
        BY <4>2, <4>3
    <3>2. CASE i = 1 \/ j = 1
      BY <1>2, <2>3, <2>4, <3>2
    <3> QED
      BY <3>1, <3>2
  <2> QED
    BY <1>2, <1>3, <2>2, <2>4 DEF WalkInv, CorpusShifted
<1>6. ASSUME NEW n \in Nat, NEW S, Covered(n, S) PROVE Covered(n, S)'
  <2> SUFFICES ASSUME NEW j \in Corpus, Published' + j <= n * PageSize
               PROVE  InitialListing[j] \in S
    BY DEF Covered
  <2>1. n * PageSize \in Nat
    BY PagesGrow
  <2>2. Published + j <= n * PageSize
    BY <1>3, <1>4, <2>1 DEF Corpus
  <2> QED
    BY <1>6, <2>2 DEF Covered
<1>7. last \in Nat /\ last + 1 \in Nat /\ ResumePoint(checkpoint) \in Nat
  BY ResumePointType DEF TypeOK
<1> QED
  BY <1>1, <1>5, <1>6, <1>7
  DEF WalkInv, NothingBroken, WalkedTo, AllIn, Untouched, InFanOut, NewOrLast

\* In a clean run no item fails or conflicts, no write is lost and no process
\* dies.
LEMMA NothingElseFails ==
  ASSUME GoodReplays, TypeOK, NothingBroken
  PROVE  /\ \A r \in Replays :
              /\ ~StoreRawFails(r) /\ ~StoreRawConflicts(r)
              /\ ~StageConflicts(r) /\ ~StageFails(r)
         /\ ~Crash
         /\ \A c : WriteCheckpoint(c) => checkpoint' = c /\ UNCHANGED faults
  BY DEF GoodReplays, NothingBroken, StoreRawFails, StoreRawConflicts, StageConflicts,
         StageFails, Crash, WriteCheckpoint, Fault

\* What has been walked to the end of the listing is all of the corpus.
LEMMA WalkedToTheEnd ==
  ASSUME TypeOK, CorpusShifted, NEW n \in Nat, NEW S, Covered(n, S),
         Len(listing) <= n * PageSize
  PROVE  AllIn(S)
<1>1. Len(listing) \in Nat /\ Len(InitialListing) \in Nat
  BY ListingAssumption DEF TypeOK
<1>2. n * PageSize \in Nat
  BY PagesGrow
<1>3. \A j \in Corpus : Published + j <= n * PageSize
  BY <1>1, <1>2 DEF Corpus, Published
<1> QED
  BY <1>3 DEF Covered, AllIn

\* The page that is listed takes the walk one page further, and it holds
\* something new unless nothing of the corpus is behind it: what may have been
\* shifted onto it is less than a page.
LEMMA ListWalk ==
  ASSUME TypeOK, FewPublished, WalkInv, ListPage
  PROVE  WalkInv'
<1>1. /\ pc = "list" /\ pc' = "ingest" /\ pending' = Page(last + 1)
      /\ held' = {} /\ fresh' = {} /\ broken' = {} /\ ok /\ stop = "cap"
      /\ UNCHANGED <<listing, raw, staged, checkpoint, last, ok, stop, exit, faults>>
  BY DEF ListPage, MayList, WalkInv, durable, result
<1>2. /\ listing \in Seq(Replays) /\ last \in Nat /\ Len(listing) \in Nat
      /\ Len(InitialListing) \in Nat /\ PageSize \in Nat \ {0}
  BY ListingAssumption DEF TypeOK
<1>3. last * PageSize \in Nat /\ (last + 1) * PageSize = last * PageSize + PageSize
  BY <1>2, PagesGrow
<1>4. WalkedTo(last) /\ CorpusShifted /\ NothingBroken
  BY <1>1 DEF WalkInv
<1>5. Published \in Nat /\ Published < PageSize
      /\ Len(listing) = Published + Len(InitialListing)
  BY <1>2, <1>4 DEF CorpusShifted, Published, FewPublished
<1>6. \A j \in Corpus : Published + j \in DOMAIN listing
                        /\ listing[Published + j] = InitialListing[j]
  BY <1>2, <1>4, <1>5 DEF CorpusShifted, Corpus
<1> DEFINE S == staged \cup Page(last + 1)
<1>7. ASSUME NEW j \in Corpus, Published + j <= (last + 1) * PageSize
      PROVE  InitialListing[j] \in S
  <2>1. CASE Published + j <= last * PageSize
    BY <1>4, <2>1 DEF WalkedTo, Covered
  <2>2. CASE ~(Published + j <= last * PageSize)
    <3>1. last * PageSize < Published + j
      BY <1>2, <1>3, <1>5, <2>2 DEF Corpus
    <3>2. listing[Published + j] \in Page(last + 1)
      BY <1>2, <1>6, <1>7, <3>1, PageHolds
    <3> QED
      BY <1>6, <3>2
  <2> QED
    BY <2>1, <2>2
<1>8. Covered(last + 1, S)
  BY <1>7 DEF Covered
<1>9. ASSUME Untouched(last, raw) PROVE Untouched(last + 1, raw \cup Page(last + 1))
  <2> SUFFICES ASSUME NEW j \in Corpus, j > (last + 1) * PageSize
               PROVE  InitialListing[j] \notin raw \cup Page(last + 1)
    BY DEF Untouched
  <2>1. InitialListing[j] \notin raw
    <3>1. j > last * PageSize
      BY <1>2, <1>3 DEF Corpus
    <3> QED
      BY <1>9, <3>1 DEF Untouched
  <2>2. ASSUME InitialListing[j] \in Page(last + 1) PROVE FALSE
    <3>1. PICK i \in DOMAIN listing :
            InitialListing[j] = listing[i] /\ i <= (last + 1) * PageSize
      BY <1>2, <2>2, PageBounded
    <3>2. i = Published + j
      BY <1>4, <1>6, <3>1 DEF CorpusShifted
    <3> QED
      BY <1>2, <1>3, <1>5, <3>1, <3>2 DEF Corpus
  <2> QED
    BY <2>1, <2>2
<1>10. Page(last + 1) \ raw # {} \/ AllIn(S)
  <2>1. CASE AllIn(staged)
    BY <2>1 DEF AllIn
  <2>2. CASE Len(listing) <= (last + 1) * PageSize
    BY <1>2, <1>4, <1>8, <2>2, WalkedToTheEnd
  <2>3. CASE ~AllIn(staged) /\ ~(Len(listing) <= (last + 1) * PageSize)
    <3> DEFINE j == (last + 1) * PageSize - Published
    <3>1. j \in Corpus /\ j > last * PageSize /\ Published + j = (last + 1) * PageSize
      BY <1>2, <1>3, <1>5, <2>3 DEF Corpus
    <3> HIDE DEF j
    <3>2. InitialListing[j] \notin raw
      BY <1>4, <2>3, <3>1 DEF WalkedTo, Untouched
    <3>3. last * PageSize < Published + j /\ Published + j <= (last + 1) * PageSize
      BY <1>2, <1>3, <3>1
    <3>4. listing[Published + j] \in Page(last + 1)
      BY <1>2, <1>6, <3>1, <3>3, PageHolds
    <3> QED
      BY <1>6, <3>1, <3>2, <3>4
  <2> QED
    BY <2>1, <2>2, <2>3
<1>11. InFanOut' = S
  BY <1>1 DEF InFanOut
<1>12. /\ Covered(last + 1, InFanOut)' /\ NewOrLast'
       /\ (AllIn(staged) \/ Untouched(last + 1, raw \cup pending))'
  <2>1. Published' = Published
    BY <1>1 DEF Published
  <2>2. Covered(last + 1, InFanOut)'
    BY <1>1, <1>8, <1>11, <2>1 DEF Covered
  <2>3. NewOrLast'
    BY <1>1, <1>10, <1>11 DEF NewOrLast, AllIn
  <2>4. AllIn(staged) \/ Untouched(last + 1, raw \cup Page(last + 1))
    BY <1>4, <1>9 DEF WalkedTo
  <2>5. (AllIn(staged) \/ Untouched(last + 1, raw \cup pending))'
    BY <1>1, <2>4 DEF AllIn, Untouched
  <2> QED
    BY <2>2, <2>3, <2>5
<1>13. CorpusShifted' /\ NothingBroken'
  BY <1>1, <1>4 DEF CorpusShifted, NothingBroken, Published
<1>14. (exit = 0 => AllIn(staged))'
  BY <1>1 DEF WalkInv, AllIn
<1> QED
  BY <1>1, <1>12, <1>13, <1>14 DEF WalkInv

\* A run takes the walk up where its checkpoint says.
LEMMA StartWalk ==
  ASSUME WalkInv, StartRun
  PROVE  WalkInv'
<1>1. /\ pc = "idle" /\ pc' = "list" /\ last' = ResumePoint(checkpoint)
      /\ ok' /\ stop' = "cap"
      /\ UNCHANGED <<listing, raw, staged, checkpoint, broken, exit, faults>>
  BY DEF StartRun, durable, fanOut, result
<1>2. WalkedTo(ResumePoint(checkpoint))
  BY <1>1 DEF WalkInv
<1>3. WalkedTo(last)' /\ ResumePoint(checkpoint)' = last'
  BY <1>1, <1>2 DEF WalkedTo, Covered, Published, AllIn, Untouched
<1> QED
  BY <1>1, <1>3 DEF WalkInv, CorpusShifted, NothingBroken, Published, AllIn

\* The loop leaves its pages as they are; after an empty one nothing is behind.
LEMMA LoopEndsWalk ==
  ASSUME TypeOK, WalkInv, ReachCap \/ ListEmptyPage \/ ListPageFails
  PROVE  WalkInv'
<1>1. /\ pc = "list" /\ pc' = "assemble" /\ ok /\ stop = "cap"
      /\ UNCHANGED <<listing, raw, staged, checkpoint, last, broken, exit>>
  BY DEF ReachCap, ListEmptyPage, ListPageFails, MayList, WalkInv, durable, loopState,
         fanOut, result
<1>2. NothingBroken'
  <2>1. UNCHANGED faults \/ faults' = [faults EXCEPT !["page"] = @ - 1]
    BY DEF ReachCap, ListEmptyPage, ListPageFails, Fault
  <2>2. faults'["item"] = faults["item"] /\ faults'["write"] = faults["write"]
        /\ faults'["crash"] = faults["crash"]
    BY <2>1, FaultKindsKnown DEF TypeOK
  <2> QED
    BY <1>1, <2>2 DEF WalkInv, NothingBroken
<1>3. WalkedTo(last) /\ ResumePoint(checkpoint) = last /\ CorpusShifted
  BY <1>1 DEF WalkInv
<1>4. CorpusShifted' /\ (exit = 0 => AllIn(staged))' /\ ResumePoint(checkpoint)' = last'
  BY <1>1, <1>3 DEF WalkInv, CorpusShifted, Published, AllIn
<1>5. WalkedTo(last)'
  BY <1>1, <1>3 DEF WalkedTo, Covered, Published, AllIn, Untouched
<1>6. CASE ListEmptyPage
  <2>1. Len(listing) <= last * PageSize
    BY <1>6, EmptyPageIsTheEnd DEF ListEmptyPage, TypeOK
  <2>2. AllIn(staged)
    BY <1>3, <2>1, WalkedToTheEnd DEF WalkedTo, TypeOK
  <2>3. AllIn(staged)' /\ ok' /\ stop' = "empty"
    BY <1>1, <1>6, <2>2 DEF ListEmptyPage, AllIn
  <2> QED
    BY <1>1, <1>2, <1>4, <1>5, <2>3 DEF WalkInv
<1>7. CASE ReachCap \/ ListPageFails
  <2>1. stop' = "cap" \/ (stop' = "page_failed" /\ ~ok')
    BY <1>1, <1>7 DEF ReachCap, ListPageFails, OkAfterFailure, loopState
  <2> QED
    BY <1>1, <1>2, <1>4, <1>5, <2>1 DEF WalkInv
<1> QED
  BY <1>6, <1>7

\* The fan-out moves candidates from one of its sets to the next, and what was
\* new on the page is counted.
LEMMA FanOutWalk ==
  ASSUME TypeOK, WalkInv, NEW r \in Replays, StoreRaw(r) \/ Stage(r)
  PROVE  WalkInv'
<1>1. /\ pc = "ingest" /\ staged \subseteq staged' /\ InFanOut' = InFanOut
      /\ raw' \cup pending' = raw \cup pending
      /\ UNCHANGED <<listing, checkpoint, pc, last, ok, stop, broken, exit, faults>>
  <2>1. CASE StoreRaw(r)
    BY <2>1 DEF StoreRaw, InFanOut, loopState, result
  <2>2. CASE Stage(r)
    BY <2>2 DEF Stage, InFanOut, loopState, result
  <2> QED
    BY <2>1, <2>2
<1>2. fresh # {} => fresh' # {}
  BY DEF StoreRaw, Stage, TallyNew
<1>3. pending \ raw # {} => pending' \ raw' # {} \/ fresh' # {}
  BY DEF StoreRaw, Stage, TallyNew
<1>4. Published' = Published
  BY <1>1 DEF Published
<1>5. AllIn(staged) => AllIn(staged)'
  BY <1>1 DEF AllIn
<1>6. /\ Covered(last + 1, InFanOut) /\ NewOrLast
      /\ AllIn(staged) \/ Untouched(last + 1, raw \cup pending)
  BY <1>1 DEF WalkInv
<1>7. Covered(last + 1, InFanOut)'
  BY <1>1, <1>4, <1>6 DEF Covered
<1>8. (AllIn(staged) \/ Untouched(last + 1, raw \cup pending))'
  BY <1>1, <1>5, <1>6 DEF Untouched
<1>9. NewOrLast'
  BY <1>1, <1>2, <1>3, <1>6 DEF NewOrLast, AllIn
<1>10. CorpusShifted' /\ NothingBroken' /\ (exit = 0 => AllIn(staged))'
  BY <1>1, <1>4, <1>5 DEF WalkInv, CorpusShifted, NothingBroken
<1> QED
  BY <1>1, <1>7, <1>8, <1>9, <1>10 DEF WalkInv

\* A gathered page is walked and checkpointed; if it brought nothing new, all of
\* the corpus is staged.
LEMMA CompleteWalk ==
  ASSUME GoodReplays, TypeOK, WalkInv, CompletePage
  PROVE  WalkInv'
<1>1. /\ pc = "ingest" /\ pending = {} /\ held = {} /\ last' = last + 1 /\ last \in Nat
      /\ UNCHANGED <<listing, raw, staged, ok, pending, held, fresh, broken, exit>>
      /\ WriteCheckpoint([status |-> "running", last |-> last + 1])
  BY DEF CompletePage, FanOutDone, TypeOK, fanOut, result
<1>2. checkpoint' = [status |-> "running", last |-> last + 1] /\ UNCHANGED faults
  BY <1>1, NothingElseFails DEF WalkInv
<1>3. /\ Covered(last + 1, InFanOut) /\ NewOrLast /\ ok /\ stop = "cap"
      /\ AllIn(staged) \/ Untouched(last + 1, raw \cup pending)
  BY <1>1 DEF WalkInv
<1>4. InFanOut = staged /\ raw \cup pending = raw
  BY <1>1 DEF InFanOut
<1>5. WalkedTo(last + 1)
  BY <1>3, <1>4 DEF WalkedTo
<1>6. WalkedTo(last)' /\ ResumePoint(checkpoint)' = last'
  <2>1. WalkedTo(last')
    BY <1>1, <1>5
  <2>2. WalkedTo(last)'
    BY <1>1, <2>1 DEF WalkedTo, Covered, Published, AllIn, Untouched
  <2> QED
    BY <1>1, <1>2, <2>2 DEF ResumePoint
<1>7. CorpusShifted' /\ NothingBroken' /\ (exit = 0 => AllIn(staged))'
  BY <1>1, <1>2 DEF WalkInv, CorpusShifted, NothingBroken, Published, AllIn
<1>8. CASE AllDuplicate(fresh, broken)
  <2>1. AllIn(staged)
    BY <1>1, <1>3, <1>4, <1>8 DEF AllDuplicate, NewOrLast
  <2>2. AllIn(staged)' /\ ok' /\ stop' = "all_duplicate" /\ pc' = "assemble" /\ last' > 0
    BY <1>1, <1>3, <1>8, <2>1 DEF CompletePage, AllIn
  <2> QED
    BY <1>6, <1>7, <2>2 DEF WalkInv
<1>9. CASE ~AllDuplicate(fresh, broken)
  <2>1. pc' = "list" /\ ok' /\ stop' = "cap"
    BY <1>1, <1>3, <1>9 DEF CompletePage
  <2> QED
    BY <1>6, <1>7, <2>1 DEF WalkInv
<1> QED
  BY <1>8, <1>9

\* A run is complete only when nothing of the corpus is missing.
LEMMA AssembleWalk ==
  ASSUME GoodReplays, TypeOK, WalkInv, Assemble
  PROVE  WalkInv'
<1> DEFINE st == DeriveRunStatus(ok, last, cause, stop)
<1>1. /\ pc = "assemble" /\ pc' = "idle" /\ last \in Nat
      /\ exit' = RunExitCode(st, SummaryOk(ok, faulty))
      /\ UNCHANGED <<listing, raw, staged, broken>>
  BY DEF Assemble, TypeOK, fanOut
<1>2. CorpusShifted /\ NothingBroken /\ WalkedTo(last) /\ ResumePoint(checkpoint) = last
  BY <1>1 DEF WalkInv
<1>3. CASE st = "complete"
  <2>1. ok /\ stop # "cap"
    BY <1>3 DEF DeriveRunStatus
  <2>2. AllIn(staged)
    BY <1>1, <2>1 DEF WalkInv, TypeOK, Stops
  <2>3. checkpoint' = [status |-> "complete", last |-> last] /\ UNCHANGED faults
    BY <1>2, <1>3, NothingElseFails DEF Assemble
  <2>4. ResumePoint(checkpoint') = 0
    BY <2>3 DEF ResumePoint
  <2>5. WalkedTo(0)
    <3>1. Len(listing) \in Nat /\ Len(InitialListing) \in Nat /\ PageSize \in Nat
      BY ListingAssumption DEF TypeOK
    <3>2. \A j \in Corpus : ~(Published + j <= 0 * PageSize)
      BY <1>2, <3>1 DEF CorpusShifted, Published, Corpus
    <3> QED
      BY <2>2, <3>2 DEF WalkedTo, Covered
  <2>6. WalkedTo(0)' /\ AllIn(staged)' /\ CorpusShifted' /\ NothingBroken'
    BY <1>1, <1>2, <2>2, <2>3, <2>5
    DEF WalkedTo, Covered, AllIn, Untouched, Published, CorpusShifted, NothingBroken
  <2> QED
    BY <1>1, <2>4, <2>6 DEF WalkInv
<1>4. CASE st # "complete"
  <2>1. UNCHANGED <<checkpoint, faults>>
    BY <1>4 DEF Assemble
  <2>2. exit' # 0
    BY <1>1, <1>4 DEF RunExitCode
  <2>3. WalkedTo(last)' /\ CorpusShifted' /\ NothingBroken'
    <3>1. last' = last
      BY DEF Assemble, loopState
    <3> QED
      BY <1>1, <1>2, <2>1, <3>1
      DEF WalkedTo, Covered, AllIn, Untouched, Published, CorpusShifted, NothingBroken
  <2>4. WalkedTo(ResumePoint(checkpoint))'
    <3>1. ResumePoint(checkpoint') = last /\ last' = last
      BY <1>2, <2>1 DEF Assemble, loopState
    <3>2. Published' = Published
      BY <1>1 DEF Published
    <3> QED
      BY <1>1, <1>2, <3>1, <3>2 DEF WalkedTo, Covered, AllIn, Untouched
  <2> QED
    BY <1>1, <2>2, <2>3, <2>4 DEF WalkInv
<1> QED
  BY <1>3, <1>4

\* Every step of a clean run keeps the walk.
LEMMA NextWalk ==
  ASSUME GoodReplays, TypeOK, FewPublished, WalkInv, [Next]_vars
  PROVE  WalkInv'
<1>1. CASE UNCHANGED vars
  BY <1>1
  DEF vars, durable, loopState, fanOut, result, WalkInv, CorpusShifted, NothingBroken,
      WalkedTo, Covered, AllIn, Untouched, InFanOut, NewOrLast, Published
<1>2. /\ ~Crash
      /\ \A r \in Replays : ~StoreRawFails(r) /\ ~StoreRawConflicts(r)
                            /\ ~StageConflicts(r) /\ ~StageFails(r)
  BY NothingElseFails DEF WalkInv
<1> QED
  BY <1>1, <1>2, PublishWalk, StartWalk, LoopEndsWalk, ListWalk, FanOutWalk,
     CompleteWalk, AssembleWalk
  DEF Next, RunStep

\* A clean run starts with nothing walked.
LEMMA InitWalk ==
  ASSUME CleanRun, Init
  PROVE  WalkInv
<1>1. /\ listing = InitialListing /\ raw = {} /\ staged = {} /\ checkpoint = NoCheckpoint
      /\ pc = "idle" /\ exit = 1 /\ broken = {} /\ faults = FaultBudget
  BY DEF Init, NoExit
<1>2. Len(listing) \in Nat /\ Len(InitialListing) \in Nat /\ PageSize \in Nat
  BY <1>1, ListingAssumption
<1>3. Published = 0
  BY <1>1, <1>2 DEF Published
<1>4. CorpusShifted
  <2>1. \A j \in Corpus : listing[Published + j] = InitialListing[j]
    BY <1>1, <1>3 DEF Corpus
  <2> QED
    BY <1>1, <1>2, <2>1 DEF CorpusShifted, CleanRun, DistinctListing
<1>5. NothingBroken
  BY <1>1 DEF NothingBroken, CleanRun, OnlyPageFaults
<1>6. ResumePoint(checkpoint) = 0
  BY <1>1 DEF ResumePoint, NoCheckpoint
<1>7. WalkedTo(0)
  <2>1. \A j \in Corpus : ~(Published + j <= 0 * PageSize)
    BY <1>2, <1>3 DEF Corpus
  <2> QED
    BY <1>1, <2>1 DEF WalkedTo, Covered, Untouched
<1> QED
  BY <1>1, <1>4, <1>5, <1>6, <1>7 DEF WalkInv

\* The walk holds for as long as less than a page has been published.
LEMMA AlwaysWalk ==
  ASSUME CleanRun
  PROVE  Spec /\ []FewPublished => [](TypeOK /\ WalkInv)
<1>1. Init => WalkInv
  BY InitWalk
<1>2. TypeOK /\ FewPublished /\ WalkInv /\ [Next]_vars => WalkInv'
  BY NextWalk DEF CleanRun
<1> QED
  BY <1>1, <1>2, TypeCorrect, PTL DEF Spec

\* In a clean run that publishes less than a page, an exit code of 0 means that
\* every replay the source listed from the start has a row: no page is skipped
\* by a shift, and the loop stops only where nothing is left.
THEOREM ExitZeroStagesCorpus ==
  ASSUME CleanRun
  PROVE  Spec /\ []FewPublished => []ExitZeroMeansCorpusStaged
<1>1. WalkInv => ExitZeroMeansCorpusStaged
  <2> SUFFICES ASSUME AllIn(staged) PROVE Range(InitialListing) \subseteq staged
    BY DEF WalkInv, ExitZeroMeansCorpusStaged
  <2>1. DOMAIN InitialListing = Corpus
    BY ListingAssumption DEF Corpus
  <2> QED
    BY <2>1 DEF AllIn, Range
<1> QED
  BY <1>1, AlwaysWalk, PTL

\* In a clean run that publishes less than a page, a page that brought nothing
\* new is the end of the corpus (the break on newItemCount 0 of the page loop).
THEOREM AllDuplicateEndsCorpus ==
  ASSUME CleanRun
  PROVE  Spec /\ []FewPublished => []AllDuplicateIsEndOfCorpus
<1>1. TypeOK /\ FewPublished /\ WalkInv => AllDuplicateIsEndOfCorpus
  <2> SUFFICES ASSUME TypeOK, FewPublished, WalkInv,
                      pc = "assemble", stop = "all_duplicate",
                      NEW i \in DOMAIN listing, i > last * PageSize
               PROVE  listing[i] \in staged
    BY DEF AllDuplicateIsEndOfCorpus
  <2>1. CorpusShifted /\ AllIn(staged) /\ last > 0 /\ last \in Nat
    BY DEF WalkInv, TypeOK
  <2>2. Len(listing) \in Nat /\ Len(InitialListing) \in Nat /\ PageSize \in Nat \ {0}
        /\ i \in 1 .. Len(listing)
    BY ListingAssumption DEF TypeOK
  <2>3. 1 * PageSize <= last * PageSize /\ last * PageSize \in Nat
    BY <2>1, PagesGrow
  <2>4. i > PageSize
    BY <2>2, <2>3
  <2>5. Published \in Nat /\ Published < PageSize
        /\ Len(listing) = Published + Len(InitialListing)
    BY <2>1, <2>2 DEF CorpusShifted, Published, FewPublished
  <2>6. i - Published \in Corpus /\ Published + (i - Published) = i
    BY <2>2, <2>4, <2>5 DEF Corpus
  <2>7. listing[i] = InitialListing[i - Published]
    BY <2>1, <2>6 DEF CorpusShifted
  <2> QED
    BY <2>1, <2>6, <2>7 DEF AllIn
<1> QED
  BY <1>1, AlwaysWalk, PTL

\* A longer listing has no fewer pages.
LEMMA PagesOnlyGrow ==
  ASSUME listing \in Seq(Replays), listing' \in Seq(Replays), Len(listing) <= Len(listing')
  PROVE  PageCount <= PageCount' /\ PageCount' \in Nat
<1>1. PageCount \in Nat /\ PageCount' \in Nat /\ Len(listing) \in Nat /\ Len(listing') \in Nat
  BY LastPage, ListingAssumption DEF PageCount
<1>2. Len(listing') <= PageCount' * PageSize
  <2>1. ASSUME NEW a \in Nat, NEW k \in Nat \ {0}
        PROVE  a <= ((a + k - 1) \div k) * k
    OBVIOUS
  <2> QED
    BY <1>1, <2>1, ListingAssumption DEF PageCount
<1>3. PageCount' * PageSize \in Nat
  BY <1>1, PagesGrow
<1>4. ~(PageCount' * PageSize < Len(listing))
  BY <1>1, <1>2, <1>3
<1>5. ~(PageCount' < PageCount)
  BY <1>1, <1>4, PageReached
<1> QED
  BY <1>1, <1>5

\* What a page beyond the end repeats has been staged before.
LEMMA RepeatedPageIsOld ==
  ASSUME APageListed, TypeOK, FewPublished, WalkInv, pc = "list", last = PageCount
  PROVE  Page(last + 1) \subseteq staged
<1> SUFFICES ASSUME NEW r \in Page(last + 1) PROVE r \in staged
  OBVIOUS
<1>1. /\ listing \in Seq(Replays) /\ last \in Nat /\ Len(listing) \in Nat
      /\ Len(InitialListing) \in Nat /\ PageSize \in Nat \ {0}
  BY ListingAssumption DEF TypeOK
<1>2. CorpusShifted /\ WalkedTo(last)
  BY DEF WalkInv
<1>3. Len(listing) <= last * PageSize
  BY <1>1, LastPage
<1>4. AllIn(staged)
  BY <1>1, <1>2, <1>3, WalkedToTheEnd DEF WalkedTo
<1>5. Published \in Nat /\ Published < PageSize
      /\ Len(listing) = Published + Len(InitialListing)
  BY <1>1, <1>2 DEF CorpusShifted, Published, FewPublished
<1>6. PageCount > 0 /\ PageCount \in Nat
  BY <1>1, PageBeyond
<1>7. PICK i \in DOMAIN listing : r = listing[i] /\ (PageCount - 1) * PageSize < i
  BY <1>1, <1>6, PageBeyond
<1>8. i \in 1 .. Len(listing)
  BY <1>1
<1>9. i > Published
  <2>1. CASE PageCount = 1
    <3>1. Len(listing) <= PageSize
      BY <1>1, <1>3, <2>1
    <3>2. Published = 0
      BY <1>1, <1>5, <3>1 DEF APageListed
    <3> QED
      BY <1>8, <3>2
  <2>2. CASE PageCount # 1
    <3>1. PageCount - 1 \in Nat /\ 1 <= PageCount - 1
      BY <1>6, <2>2
    <3>2. 1 * PageSize <= (PageCount - 1) * PageSize /\ (PageCount - 1) * PageSize \in Nat
      BY <3>1, PagesGrow
    <3> QED
      BY <1>1, <1>5, <1>7, <1>8, <3>2
  <2> QED
    BY <2>1, <2>2
<1>10. i - Published \in Corpus /\ Published + (i - Published) = i
  BY <1>1, <1>5, <1>8, <1>9 DEF Corpus
<1>11. listing[i] = InitialListing[i - Published]
  BY <1>2, <1>10 DEF CorpusShifted
<1> QED
  BY <1>4, <1>7, <1>10, <1>11 DEF AllIn

\* No fault is given back.
LEMMA FaultsWithinBudget ==
  ASSUME TypeOK, \A k \in FaultKinds : faults[k] <= FaultBudget[k], [Next]_vars
  PROVE  \A k \in FaultKinds : faults'[k] <= FaultBudget[k]
<1>1. faults' = faults \/ \E kind \in FaultKinds : Fault(kind)
  BY FaultKindsKnown
  DEF Next, RunStep, Publish, StartRun, ReachCap, ListPage, ListEmptyPage, ListPageFails,
      StoreRaw, StoreRawFails, StoreRawConflicts, Stage, StageConflicts, StageFails,
      CompletePage, Assemble, Crash, WriteCheckpoint, vars
<1>2. CASE faults' = faults
  BY <1>2
<1>3. ASSUME NEW kind \in FaultKinds, Fault(kind)
      PROVE  \A k \in FaultKinds : faults'[k] <= FaultBudget[k]
  <2>1. \A k \in FaultKinds : faults[k] \in Nat /\ FaultBudget[k] \in Nat
    BY FaultAssumption DEF TypeOK
  <2>2. \A k \in FaultKinds : faults'[k] <= faults[k]
    BY <1>3, <2>1 DEF Fault, TypeOK
  <2>3. \A k \in FaultKinds : faults'[k] \in Int
    BY <1>3, <2>1 DEF Fault, TypeOK
  <2> QED
    BY <2>1, <2>2, <2>3
<1> QED
  BY <1>1, <1>2, <1>3

\* Every step of a clean run keeps the crawl within a page of the end.
LEMMA NextCrawl ==
  ASSUME GoodReplays, APageListed, TypeOK, TypeOK', StoredFirst, FewPublished, WalkInv,
         CrawlInv, [Next]_vars
  PROVE  CrawlInv'
<1> USE DEF durable, loopState, fanOut, result
<1>0. \A k \in FaultKinds : faults'[k] <= FaultBudget[k]
  BY FaultsWithinBudget DEF CrawlInv
<1>1. PageCount \in Nat /\ last \in Nat /\ ResumePoint(checkpoint) \in Nat
      /\ listing \in Seq(Replays)
  BY LastPage, ResumePointType DEF TypeOK
<1>2. ASSUME NEW r \in Replays, Publish(r) PROVE CrawlInv'
  <2>1. Len(listing) <= Len(listing') /\ listing' \in Seq(Replays)
    BY <1>1, <1>2 DEF Publish
  <2>2. PageCount <= PageCount' /\ PageCount' \in Nat
    BY <1>1, <2>1, PagesOnlyGrow
  <2>3. UNCHANGED <<checkpoint, pc, last, stop, staged, pending, held, fresh>>
    BY <1>2 DEF Publish
  <2> QED
    BY <1>0, <1>1, <2>2, <2>3 DEF CrawlInv, PageIsOld
<1>3. ASSUME UNCHANGED listing PROVE PageCount' = PageCount
  BY <1>3 DEF PageCount
<1>4. CASE StartRun
  <2>1. pc = "idle" /\ pc' = "list" /\ last' = ResumePoint(checkpoint) /\ PageCount' = PageCount
    BY <1>3, <1>4 DEF StartRun
  <2> QED
    BY <1>0, <1>1, <2>1 DEF CrawlInv
<1>5. CASE ReachCap \/ ListEmptyPage \/ ListPageFails
  <2>1. pc = "list" /\ pc' = "assemble" /\ last' = last /\ PageCount' = PageCount
    BY <1>3, <1>5 DEF ReachCap, ListEmptyPage, ListPageFails, MayList
  <2> QED
    BY <1>0, <2>1 DEF CrawlInv
<1>6. CASE ListPage
  <2>1. /\ pc = "list" /\ pc' = "ingest" /\ last' = last /\ PageCount' = PageCount
        /\ pending' = Page(last + 1) /\ held' = {} /\ fresh' = {} /\ staged' = staged
    BY <1>3, <1>6 DEF ListPage, MayList
  <2>2. last = PageCount => PageIsOld'
    BY <2>1, RepeatedPageIsOld DEF PageIsOld
  <2> QED
    BY <1>0, <1>1, <2>1, <2>2 DEF CrawlInv
<1>7. ASSUME NEW r \in Replays, StoreRaw(r) \/ Stage(r) PROVE CrawlInv'
  <2>1. pc = "ingest" /\ pc' = pc /\ last' = last /\ PageCount' = PageCount
    BY <1>3, <1>7 DEF StoreRaw, Stage
  <2>2. ASSUME PageIsOld PROVE PageIsOld'
    <3>1. CASE StoreRaw(r)
      <4>1. r \in pending /\ r \in staged /\ r \in raw
        BY <2>2, <3>1 DEF StoreRaw, PageIsOld, StoredFirst
      <4> QED
        BY <2>2, <3>1, <4>1 DEF StoreRaw, TallyNew, PageIsOld
    <3>2. CASE Stage(r)
      <4>1. r \in held /\ r \in staged
        BY <2>2, <3>2 DEF Stage, PageIsOld
      <4> QED
        BY <2>2, <3>2, <4>1 DEF Stage, TallyNew, PageIsOld
    <3> QED
      BY <1>7, <3>1, <3>2
  <2> QED
    BY <1>0, <2>1, <2>2 DEF CrawlInv
<1>8. CASE CompletePage
  <2>1. pc = "ingest" /\ last' = last + 1 /\ PageCount' = PageCount /\ broken = {}
    BY <1>3, <1>8 DEF CompletePage, WalkInv, NothingBroken
  <2>2. CASE last < PageCount
    BY <1>0, <1>1, <1>8, <2>1, <2>2 DEF CrawlInv, CompletePage
  <2>3. CASE last = PageCount /\ PageIsOld
    <3>1. pc' = "assemble" /\ stop' = "all_duplicate"
      BY <1>8, <2>1, <2>3 DEF CompletePage, AllDuplicate, PageIsOld
    <3> QED
      BY <1>0, <1>1, <2>1, <2>3, <3>1 DEF CrawlInv
  <2> QED
    BY <2>1, <2>2, <2>3 DEF CrawlInv
<1>9. CASE Assemble
  <2> DEFINE st == DeriveRunStatus(ok, last, cause, stop)
  <2>1. pc = "assemble" /\ pc' = "idle" /\ last' = last /\ PageCount' = PageCount
    BY <1>3, <1>9 DEF Assemble
  <2>2. CASE st = "complete"
    <3>1. checkpoint' = [status |-> "complete", last |-> last]
      BY <1>9, <2>2, NothingElseFails DEF Assemble, WalkInv
    <3>2. ResumePoint(checkpoint') = 0
      BY <3>1 DEF ResumePoint
    <3> QED
      BY <1>0, <1>1, <2>1, <3>2 DEF CrawlInv
  <2>3. CASE st # "complete"
    <3>1. checkpoint' = checkpoint /\ ResumePoint(checkpoint) = last
      BY <1>9, <2>1, <2>3 DEF Assemble, WalkInv
    <3>2. stop # "all_duplicate"
      BY <1>1, <2>1, <2>3 DEF DeriveRunStatus, DiscoveredLastPage, WalkInv
    <3> QED
      BY <1>0, <2>1, <3>1, <3>2 DEF CrawlInv
  <2> QED
    BY <2>2, <2>3
<1>10. CASE UNCHANGED vars
  BY <1>0, <1>3, <1>10 DEF vars, CrawlInv, PageIsOld
<1>11. /\ ~Crash
       /\ \A r \in Replays : ~StoreRawFails(r) /\ ~StoreRawConflicts(r)
                             /\ ~StageConflicts(r) /\ ~StageFails(r)
  BY NothingElseFails DEF WalkInv
<1> QED
  BY <1>2, <1>4, <1>5, <1>6, <1>7, <1>8, <1>9, <1>10, <1>11 DEF Next, RunStep

\* In a clean run over at least a page of replays that publishes less than a
\* page, the crawl ends within one page of the end of the source, whether the
\* source clamps or not: the page that repeats the last one brings nothing new.
THEOREM CrawlEndsAtTheEnd ==
  ASSUME CleanRun, APageListed
  PROVE  Spec /\ []FewPublished => []CrawlIsBounded
<1>1. Init => StoredFirst /\ CrawlInv
  <2> SUFFICES ASSUME Init PROVE StoredFirst /\ CrawlInv
    OBVIOUS
  <2>1. StoredFirst
    BY DEF Init, StoredFirst
  <2>2. PageCount \in Nat /\ \A k \in FaultKinds : FaultBudget[k] \in Nat
    BY LastPage, InitTypeOK, FaultAssumption DEF TypeOK
  <2>3. ResumePoint(checkpoint) = 0 /\ last = 0 /\ pc = "idle" /\ faults = FaultBudget
    BY DEF Init, ResumePoint, NoCheckpoint
  <2> QED
    BY <2>1, <2>2, <2>3 DEF CrawlInv
<1>2. TypeOK /\ TypeOK' /\ StoredFirst /\ FewPublished /\ WalkInv /\ CrawlInv /\ [Next]_vars
        => StoredFirst' /\ CrawlInv'
  BY NextStoredFirst, NextCrawl DEF CleanRun
<1>3. TypeOK /\ CrawlInv => CrawlIsBounded
  <2> SUFFICES ASSUME TypeOK, CrawlInv PROVE CrawlIsBounded
    OBVIOUS
  <2>1. \A k \in {"page", "item", "write", "crash"} :
          /\ faults[k] \in Nat /\ FaultBudget[k] \in Nat
          /\ FaultBudget[k] - faults[k] \in Nat
    BY FaultAssumption DEF TypeOK, CrawlInv
  <2>2. FaultsSoFar \in Nat
    BY <2>1 DEF FaultsSoFar
  <2>3. last <= PageCount + 1 /\ last \in Nat /\ PageCount \in Nat
    BY LastPage DEF TypeOK, CrawlInv
  <2> QED
    BY <2>2, <2>3 DEF CrawlIsBounded
<1> QED
  BY <1>1, <1>2, <1>3, AlwaysWalk, PTL DEF Spec
-----------------------------------------------------------------------------
(* The page loop and its checkpoint.                                       *)

\* Every step of the page loop is a step of the cell or is not seen by it.
LEMMA NextCell ==
  ASSUME TypeOK, [Next]_vars
  PROVE  [Cell!Next]_(Cell!vars)
<1>1. CASE StartRun
  <2>1. pc = "idle" /\ pc' = "list" /\ last' = ResumePoint(checkpoint)
        /\ checkpoint' = checkpoint
    BY <1>1 DEF StartRun, durable
  <2> QED
    BY <2>1 DEF Cell!Next, Cell!Start, ResumePoint
<1>2. CASE CompletePage
  <2>1. /\ pc = "ingest" /\ pc' \in {"list", "assemble"} /\ last' = last + 1
        /\ checkpoint' \in {checkpoint, [status |-> "running", last |-> last + 1]}
    BY <1>2 DEF CompletePage, WriteCheckpoint
  <2> QED
    BY <2>1 DEF Cell!Next, Cell!CompletePage, Cell!Write
<1>3. CASE Assemble \/ Crash
  <2>1. /\ pc # "idle" /\ pc' = "idle"
        /\ checkpoint' \in {checkpoint, [status |-> "complete", last |-> last]}
    BY <1>3 DEF Assemble, Crash, WriteCheckpoint, durable
  <2> QED
    BY <2>1 DEF Cell!Next, Cell!End, Cell!Write
<1>4. CASE ReachCap \/ ListPage \/ ListEmptyPage \/ ListPageFails
  <2>1. /\ pc = "list" /\ pc' \in {"ingest", "assemble"}
        /\ UNCHANGED <<checkpoint, last>>
    BY <1>4 DEF ReachCap, ListPage, ListEmptyPage, ListPageFails, MayList, durable,
                loopState
  <2> QED
    BY <2>1 DEF Cell!vars
<1>5. ASSUME NEW r \in Replays,
             \/ Publish(r)
             \/ StoreRaw(r) \/ StoreRawFails(r) \/ StoreRawConflicts(r)
             \/ Stage(r) \/ StageConflicts(r) \/ StageFails(r)
      PROVE  UNCHANGED Cell!vars
  <2>1. UNCHANGED <<pc, checkpoint, last>>
    BY <1>5 DEF Publish, StoreRaw, StoreRawFails, StoreRawConflicts, Stage,
                StageConflicts, StageFails, durable, loopState
  <2> QED
    BY <2>1 DEF Cell!vars
<1>6. CASE UNCHANGED vars
  BY <1>6 DEF vars, durable, loopState, Cell!vars
<1> QED
  BY <1>1, <1>2, <1>3, <1>4, <1>5, <1>6 DEF Next, RunStep

\* Whatever fails and whenever the process dies, a run goes on from what is
\* persisted, and persists its own progress or nothing (resolveResumeState,
\* writePageCheckpoint, writeFinalCheckpoint).
THEOREM ImplementsCell == Spec => CellSpec
<1>1. Init => Cell!Init
  BY DEF Init, NoCheckpoint, Cell!Init, Cell!Missing
<1> QED
  BY <1>1, NextCell, TypeCorrect, PTL DEF Spec, CellSpec, Cell!Spec
=============================================================================
