--------------------------- MODULE CheckpointStore ---------------------------
(***************************************************************************)
(* The S3 checkpoint store and the run-once processes that drive it.  The  *)
(* rolling object is replaced by conditional PUTs (If-Match on the ETag    *)
(* the writer holds, If-None-Match when it holds none); a PUT that lost a  *)
(* race is answered 412 or 409, and the store re-reads, merges and tries   *)
(* again for a bounded number of rounds.                                   *)
(*                                                                         *)
(* Processes may overlap (an operator's `run-once --resume` beside the     *)
(* scheduled one), die, lose an answer or be refused by the backend.  Of   *)
(* the page loop only what reaches the checkpoint is kept: a page is       *)
(* completed, the run finishes, or it stops short.                         *)
(***************************************************************************)
EXTENDS Integers

CONSTANTS
  Writers,            \* processes that may run run-once
  NoEtag,             \* no ETag held
  NoEntry,            \* no entry recorded for a page
  Absent,             \* no checkpoint object
  Corrupt,            \* a body parseCheckpoint rejects
  ConditionalWrites,  \* S3_CHECKPOINT_CONDITIONAL_WRITES
  MAX_CAS_ROUNDS,     \* 5 in the code
  LastPage,           \* bound: pages of the source
  MaxRuns,            \* bound: runs each process starts
  FaultKinds,         \* the kinds of fault below
  FaultBudget         \* bound: how often each kind may happen

RunIds == Writers \X (1 .. MaxRuns)
Pages  == 1 .. LastPage

INSTANCE Checkpoint

ASSUME StoreAssumption ==
  /\ ConditionalWrites \in BOOLEAN
  /\ MAX_CAS_ROUNDS \in Nat \ {0}
  /\ LastPage \in Nat /\ MaxRuns \in Nat
  /\ NoEtag \notin Nat /\ NoEntry \notin RunIds
  /\ Absent \notin Checkpoint /\ Corrupt \notin Checkpoint
  /\ Absent # Corrupt
  /\ FaultKinds = {"lost", "error", "crash", "tamper"}
  /\ FaultBudget \in [FaultKinds -> Nat]

VARIABLES
  body,      \* content of the rolling object
  version,   \* its ETag; counts the PUTs that landed
  pc,        \* per process: idle, run (page loop), put, reread
  runs,      \* per process: runs started so far
  last,      \* LoopState.lastCompletedPage
  pages,     \* LoopState.pages
  etag,      \* LoopState.etag
  intended,  \* checkpoint the write in progress wants to persist
  casEtag,   \* ETag the write in progress conditions on
  round,     \* its round
  final,     \* whether it is the final, complete checkpoint
  concluded, \* history: the last run issued its final checkpoint and no error
             \* or crash got in its way
  ingested,  \* history: pages some run has gathered the fan-out of
  faults     \* faults that may still happen

object == <<body, version>>
loop   == <<runs, last, pages>>
call   == <<intended, casEtag, round, final>>
vars   == <<object, pc, loop, etag, call, concluded, ingested, faults>>

Etags == Nat \cup {NoEtag}
Id(w) == <<w, runs[w]>>
IsCheckpoint(b) == b # Absent /\ b # Corrupt

Fault(kind) ==
  /\ faults[kind] > 0
  /\ faults' = [faults EXCEPT ![kind] = @ - 1]

-----------------------------------------------------------------------------
Init ==
  /\ body = Absent /\ version = 0
  /\ pc = [w \in Writers |-> "idle"]
  /\ runs = [w \in Writers |-> 0]
  /\ last = [w \in Writers |-> 0]
  /\ pages = [w \in Writers |-> EmptyPages]
  /\ etag = [w \in Writers |-> NoEtag]
  /\ intended = [w \in Writers |-> Absent]
  /\ casEtag = [w \in Writers |-> NoEtag]
  /\ round = [w \in Writers |-> 0]
  /\ final = [w \in Writers |-> FALSE]
  /\ concluded = [w \in Writers |-> FALSE]
  /\ ingested = {}
  /\ faults = FaultBudget

\* Mutant: an unfinished checkpoint is started over.
ResumesNever == FALSE
Resumes == IsCheckpoint(body) /\ body.status # "complete"

ResumedPages == IF Resumes THEN body.pages ELSE EmptyPages

\* A missing or corrupt object is read as no checkpoint and no ETag; a complete
\* one starts a fresh pass that keeps its ETag.
StartRun(w) ==
  /\ pc[w] = "idle" /\ runs[w] < MaxRuns
  /\ runs' = [runs EXCEPT ![w] = @ + 1]
  /\ pages' = [pages EXCEPT ![w] = ResumedPages]
  /\ last' = [last EXCEPT ![w] =
                IF Resumes THEN resumeFrom(body) - 1 ELSE 0]
  /\ etag' = [etag EXCEPT ![w] = IF IsCheckpoint(body) THEN version ELSE NoEtag]
  /\ concluded' = [concluded EXCEPT ![w] = FALSE]
  /\ pc' = [pc EXCEPT ![w] = "run"]
  /\ UNCHANGED <<object, call, ingested, faults>>

BeginWrite(w, c, isFinal) ==
  /\ intended' = [intended EXCEPT ![w] = c]
  /\ casEtag' = [casEtag EXCEPT ![w] = etag[w]]
  /\ round' = [round EXCEPT ![w] = 0]
  /\ final' = [final EXCEPT ![w] = isFinal]
  /\ pc' = [pc EXCEPT ![w] = "put"]

\* Mutant: the cursor written is one page ahead of the page just gathered.
PageCursorAhead(w) == last[w] + 2
PageCursor(w) == last[w] + 1

\* The fan-out of the next page has been gathered: its entry is recorded in
\* memory and the page checkpoint is written.
CompletePage(w) ==
  /\ pc[w] = "run" /\ last[w] < LastPage
  /\ LET n == last[w] + 1
         recorded == [pages[w] EXCEPT ![n] = Id(w)]
     IN  /\ pages' = [pages EXCEPT ![w] = recorded]
         /\ ingested' = ingested \cup {n}
         /\ BeginWrite(w, BuildCheckpoint(Id(w), "running", PageCursor(w),
                                          PageCursor(w), recorded), FALSE)
  /\ UNCHANGED <<object, runs, last, etag, concluded, faults>>

\* The loop met an empty or an all-duplicate page: the run is complete.
FinishRun(w) ==
  /\ pc[w] = "run"
  /\ BeginWrite(w, BuildCheckpoint(Id(w), "complete", last[w], last[w],
                                   pages[w]), TRUE)
  /\ concluded' = [concluded EXCEPT ![w] = TRUE]
  /\ UNCHANGED <<object, loop, etag, ingested, faults>>

\* History: the run's conclusion is not on record, and not by a lost answer.
Unconcluded(w) == concluded' = [concluded EXCEPT ![w] = FALSE]

\* The run stops short (a page failed, the cap) or its process dies.
StopRun(w) ==
  /\ pc[w] # "idle"
  /\ Fault("crash")
  /\ pc' = [pc EXCEPT ![w] = "idle"]
  /\ Unconcluded(w)
  /\ UNCHANGED <<object, loop, etag, call, ingested>>

-----------------------------------------------------------------------------
(* One call of the store's write, step by step.                            *)

\* If-None-Match: * without an ETag, If-Match with one.
ConditionHolds(w) ==
  ConditionalWrites =>
    IF casEtag[w] = NoEtag THEN body = Absent
                           ELSE body # Absent /\ casEtag[w] = version

\* write returns to the page loop with the ETag to carry on; after the final
\* checkpoint the run is over.
ReturnFromWrite(w, newEtag) ==
  /\ etag' = [etag EXCEPT ![w] = newEtag]
  /\ last' = [last EXCEPT ![w] = IF final[w] THEN @ ELSE @ + 1]
  /\ pc' = [pc EXCEPT ![w] = IF final[w] THEN "idle" ELSE "run"]
  /\ UNCHANGED <<runs, pages, call, ingested>>

\* The write failed and is logged: the ETag held before is kept.
FailWrite(w) == ReturnFromWrite(w, etag[w])

Land(w) ==
  /\ ConditionHolds(w)
  /\ body' = intended[w]
  /\ version' = version + 1

PutLands(w) ==
  /\ pc[w] = "put"
  /\ Land(w)
  /\ ReturnFromWrite(w, version + 1)
  /\ UNCHANGED <<concluded, faults>>

\* The PUT lands but its answer is lost.  Either the client library gives up
\* and the write throws, or it repeats the request with the same condition.
PutLandsUnanswered(w) ==
  /\ pc[w] = "put"
  /\ Fault("lost")
  /\ Land(w)
  /\ \/ FailWrite(w)
     \/ UNCHANGED <<pc, loop, etag, call, ingested>>
  /\ UNCHANGED concluded

\* An error that is not a failed precondition is thrown at once.
PutErrors(w) ==
  /\ pc[w] = "put"
  /\ Fault("error")
  /\ FailWrite(w)
  /\ Unconcluded(w)
  /\ UNCHANGED object

\* 412, or 409 while another conditional PUT is in flight.
PutRefused(w) ==
  /\ pc[w] = "put"
  /\ ConditionalWrites
  /\ ~ConditionHolds(w) \/ \E v \in Writers \ {w} : pc[v] = "put"
  /\ pc' = [pc EXCEPT ![w] = "reread"]
  /\ UNCHANGED <<object, loop, etag, call, concluded, ingested, faults>>

\* Mutant: the retry is not merged with what was read.
MergedUnread(c) == c
Merged(c) == IF IsCheckpoint(body) THEN MergeCheckpoints(c, body) ELSE c

\* Mutant: rounds are not counted.
NextRoundStuck(n) == n
\* Mutant: a round is counted twice and the bound is stepped over.
NextRoundTwice(n) == n + 2
NextRound(n) == n + 1

\* Read the current object, merge it, adopt its ETag and try again; after the
\* last round the write throws CheckpointConflictError.
Reread(w) ==
  /\ pc[w] = "reread"
  /\ IF NextRound(round[w]) = MAX_CAS_ROUNDS
       THEN FailWrite(w)
       ELSE /\ intended' = [intended EXCEPT ![w] = Merged(@)]
            /\ casEtag' = [casEtag EXCEPT ![w] =
                             IF IsCheckpoint(body) THEN version ELSE NoEtag]
            /\ round' = [round EXCEPT ![w] = NextRound(@)]
            /\ pc' = [pc EXCEPT ![w] = "put"]
            /\ UNCHANGED <<loop, etag, final, ingested>>
  /\ UNCHANGED <<object, concluded, faults>>

RereadErrors(w) ==
  /\ pc[w] = "reread"
  /\ Fault("error")
  /\ FailWrite(w)
  /\ Unconcluded(w)
  /\ UNCHANGED object

-----------------------------------------------------------------------------
\* Something else rewrites the object with a body the schema rejects.
Tamper ==
  /\ body # Absent
  /\ Fault("tamper")
  /\ body' = Corrupt
  /\ version' = version + 1
  /\ UNCHANGED <<pc, loop, etag, call, concluded, ingested>>

WriterStep(w) ==
  \/ StartRun(w) \/ CompletePage(w) \/ FinishRun(w)
  \/ PutLands(w) \/ PutLandsUnanswered(w) \/ PutErrors(w) \/ PutRefused(w)
  \/ Reread(w) \/ RereadErrors(w)

Next ==
  \/ \E w \in Writers : WriterStep(w) \/ StopRun(w)
  \/ Tamper

Spec == Init /\ [][Next]_vars

\* A process that has not died keeps running and the schedule starts the next;
\* no fault is obliged to happen.
FairSpec == Spec /\ \A w \in Writers : WF_vars(WriterStep(w))
-----------------------------------------------------------------------------
(* What the checkpoint promises.                                           *)

\* Every variable has its type; a write in progress persists a checkpoint.
TypeOK ==
  /\ body \in Checkpoint \cup {Absent, Corrupt} /\ version \in Nat
  /\ pc \in [Writers -> {"idle", "run", "put", "reread"}]
  /\ runs \in [Writers -> 0 .. MaxRuns]
  /\ \A w \in Writers : pc[w] # "idle" => runs[w] > 0
  /\ last \in [Writers -> Nat] /\ pages \in [Writers -> PageEntries]
  /\ etag \in [Writers -> Etags] /\ casEtag \in [Writers -> Etags]
  /\ intended \in [Writers -> Checkpoint \cup {Absent}]
  /\ \A w \in Writers : pc[w] \in {"put", "reread"} => IsCheckpoint(intended[w])
  /\ round \in [Writers -> 0 .. MAX_CAS_ROUNDS - 1]
  /\ final \in [Writers -> BOOLEAN] /\ concluded \in [Writers -> BOOLEAN]
  /\ ingested \subseteq Pages
  /\ faults \in [FaultKinds -> Nat]

\* What is persisted never runs ahead of the work: every page up to the
\* persisted lastCompletedPage had its fan-out gathered by some run, whatever
\* was merged, lost, refused or overwritten on the way.
PersistedBehindIngest ==
  IsCheckpoint(body) => 1 .. body.lastCompletedPage \subseteq ingested

\* The persisted page entries are exactly pages 1 to lastCompletedPage: resume,
\* merge and failed writes leave no gap and no page beyond the cursor.
PersistedPagesContiguous ==
  IsCheckpoint(body) => Recorded(body.pages) = 1 .. body.lastCompletedPage

\* The CAS guarantee of one write call: once it has lost a race and merged, the
\* PUT that lands does not fall behind the checkpoint it replaces.
MergedWriteKeepsProgress ==
  [][\A w \in Writers :
       body' # body /\ PutLands(w) /\ round[w] > 0 /\ IsCheckpoint(body)
         => AtLeast(body', body)]_vars

\* A newer checkpoint is not clobbered: while a pass is unfinished, the
\* persisted lastCompletedPage never decreases.
NeverClobbered ==
  [][IsCheckpoint(body) /\ IsCheckpoint(body') /\ body.status = "running"
       => body'.lastCompletedPage >= body.lastCompletedPage]_vars

\* A write call returns, whatever it meets: its rounds are bounded.
WritesEnd ==
  \A w \in Writers : pc[w] \in {"put", "reread"} ~> pc[w] \in {"idle", "run"}

\* A run that issued its final checkpoint leaves a complete checkpoint behind,
\* even when answers to its PUTs were lost and earlier page checkpoints failed.
FinishedRunIsRecorded ==
  \A w \in Writers : pc[w] = "idle" /\ concluded[w]
    => IsCheckpoint(body) /\ body.status = "complete"

-----------------------------------------------------------------------------
(* The checkpoint as CheckpointCell sees it, when one process drives it: a *)
(* page is complete, or the run over, once its write has taken effect.     *)

Sole == CHOOSE w \in Writers : TRUE

Writing(w) == pc[w] \in {"put", "reread"}

Landed(w) ==
  /\ Writing(w) /\ IsCheckpoint(body)
  /\ body.status = intended[w].status
  /\ body.lastCompletedPage = intended[w].lastCompletedPage

Alive(w) == pc[w] # "idle" /\ ~(Landed(w) /\ final[w])

shownCheckpoint ==
  IF IsCheckpoint(body) THEN [status |-> body.status, last |-> body.lastCompletedPage]
                        ELSE [status |-> "missing", last |-> 0]

shownCursor(w) ==
  IF ~Alive(w) THEN 0
  ELSE IF Landed(w) THEN last[w] + 1
  ELSE last[w]

Cell == INSTANCE CheckpointCell WITH
  persisted <- shownCheckpoint,
  cursor    <- shownCursor(Sole),
  live      <- Alive(Sole)

\* The conditional writes of a single process, retries and lost answers
\* included, are writes to a cell that take effect once or not at all.
CellSpec == Cell!Spec
=============================================================================
