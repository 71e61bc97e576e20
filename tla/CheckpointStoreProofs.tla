------------------------ MODULE CheckpointStoreProofs ------------------------
(***************************************************************************)
(* What the checkpoint promises for any number of processes, pages, runs,  *)
(* rounds and faults, with and without conditional writes, and what it     *)
(* promises besides when one process drives it: no progress is lost, a     *)
(* conclusion is kept, and its writes are those of a CheckpointCell.       *)
(***************************************************************************)
EXTENDS CheckpointStore, TLAPS

-----------------------------------------------------------------------------
(* Facts about checkpoints.                                                *)

\* A merge of checkpoints is a checkpoint.
LEMMA MergeType ==
  ASSUME NEW a \in Checkpoint, NEW b \in Checkpoint
  PROVE  MergeCheckpoints(a, b) \in Checkpoint
<1>1. PickHigherProgress(a, b) \in Checkpoint
  BY DEF PickHigherProgress
<1>2. MergePages(a.pages, b.pages) \in PageEntries
  BY DEF MergePages, PageEntries, Checkpoint
<1>3. Larger(a.discoveredLastPage, b.discoveredLastPage) \in Nat
  BY DEF Larger, Checkpoint
<1>4. Larger(a.lastCompletedPage, b.lastCompletedPage) \in Nat
  BY DEF Larger, Checkpoint
<1> QED
  BY <1>1, <1>2, <1>3, <1>4 DEF MergeCheckpoints, Checkpoint

\* The fields of a merge that progress and contiguity are about.
LEMMA MergeFields ==
  ASSUME NEW a \in Checkpoint, NEW b \in Checkpoint
  PROVE  LET m == MergeCheckpoints(a, b) IN
           /\ m.lastCompletedPage = Larger(a.lastCompletedPage, b.lastCompletedPage)
           /\ m.status = PickHigherProgress(a, b).status
           /\ m.pages = MergePages(a.pages, b.pages)
<1>1. PickHigherProgress(a, b) \in Checkpoint
  BY DEF PickHigherProgress
<1> QED
  BY <1>1 DEF MergeCheckpoints, Checkpoint

\* Every checkpoint status has a rank.
LEMMA StatusRankType ==
  ASSUME NEW s \in CheckpointStatuses
  PROVE  statusRank[s] \in Nat
  BY DEF CheckpointStatuses, statusRank

\* A merge does not fall behind the side that was read.
LEMMA MergeKeepsProgress ==
  ASSUME NEW a \in Checkpoint, NEW b \in Checkpoint
  PROVE  AtLeast(MergeCheckpoints(a, b), b)
<1>1. /\ a.lastCompletedPage \in Nat /\ b.lastCompletedPage \in Nat
      /\ statusRank[a.status] \in Nat /\ statusRank[b.status] \in Nat
  BY StatusRankType DEF Checkpoint
<1>2. CASE AtLeast(a, b)
  BY <1>1, <1>2, MergeFields DEF AtLeast, PickHigherProgress, Larger
<1>3. CASE ~AtLeast(a, b)
  BY <1>1, <1>3, MergeFields DEF AtLeast, PickHigherProgress, Larger
<1> QED
  BY <1>2, <1>3

\* A merge records the pages either side records.
LEMMA MergeRecorded ==
  ASSUME NEW a \in Checkpoint, NEW b \in Checkpoint
  PROVE  Recorded(MergeCheckpoints(a, b).pages)
           = Recorded(a.pages) \cup Recorded(b.pages)
<1>1. MergeCheckpoints(a, b).pages = MergePages(a.pages, b.pages)
  BY MergeFields
<1> QED
  BY <1>1 DEF MergePages, Recorded

-----------------------------------------------------------------------------
(* Type correctness.                                                       *)

\* A checkpoint built by a live run has its type.
LEMMA BuildType ==
  ASSUME TypeOK, NEW w \in Writers, pc[w] # "idle",
         NEW st \in CheckpointStatuses, NEW n \in Nat, NEW entries \in PageEntries
  PROVE  /\ BuildCheckpoint(Id(w), st, n, n, entries) \in Checkpoint
         /\ IsCheckpoint(BuildCheckpoint(Id(w), st, n, n, entries))
<1>1. runs[w] \in 1 .. MaxRuns
  BY StoreAssumption DEF TypeOK
<1>2. Id(w) \in RunIds
  BY <1>1 DEF Id, RunIds
<1>3. BuildCheckpoint(Id(w), st, n, n, entries) \in Checkpoint
  BY <1>2 DEF BuildCheckpoint, Checkpoint
<1> QED
  BY <1>3, StoreAssumption DEF IsCheckpoint

\* A persisted body that is neither absent nor corrupt is a checkpoint.
LEMMA BodyType ==
  ASSUME TypeOK, IsCheckpoint(body)
  PROVE  body \in Checkpoint
  BY DEF TypeOK, IsCheckpoint

\* So is what a write in progress wants to persist.
LEMMA IntendedType ==
  ASSUME TypeOK, NEW w \in Writers, pc[w] \in {"put", "reread"}
  PROVE  intended[w] \in Checkpoint
  BY DEF TypeOK, IsCheckpoint

\* Spending a fault leaves a budget.
LEMMA SpentFaultType ==
  ASSUME NEW kind \in FaultKinds, faults \in [FaultKinds -> Nat], Fault(kind)
  PROVE  faults' \in [FaultKinds -> Nat]
  BY DEF Fault

\* Every fault has a budget.
LEMMA FaultKindsKnown ==
  {"lost", "error", "crash", "tamper"} \subseteq FaultKinds
  BY StoreAssumption

\* Recording a page leaves page entries.
LEMMA RecordType ==
  ASSUME NEW entries \in PageEntries, NEW n, NEW id \in RunIds
  PROVE  [entries EXCEPT ![n] = id] \in PageEntries
  BY DEF PageEntries

\* A write that returns keeps the types of its process.
LEMMA ReturnType ==
  ASSUME TypeOK, NEW w \in Writers, NEW e \in Etags, pc[w] # "idle",
         ReturnFromWrite(w, e)
  PROVE  /\ etag' \in [Writers -> Etags] /\ last' \in [Writers -> Nat]
         /\ pc' \in [Writers -> {"idle", "run", "put", "reread"}]
         /\ \A v \in Writers : pc'[v] # "idle" => runs'[v] > 0
         /\ \A v \in Writers : pc'[v] \in {"put", "reread"} => IsCheckpoint(intended'[v])
  BY DEF ReturnFromWrite, TypeOK, loop, call

\* The initial state is type correct.
LEMMA InitTypeOK == Init => TypeOK
<1> SUFFICES ASSUME Init PROVE TypeOK
  OBVIOUS
<1>1. faults \in [FaultKinds -> Nat] /\ 0 \in 0 .. MaxRuns
  BY StoreAssumption DEF Init
<1>2. pages \in [Writers -> PageEntries]
  BY DEF Init, EmptyPages, PageEntries
<1>3. 0 \in 0 .. MAX_CAS_ROUNDS - 1
  BY StoreAssumption
<1> QED
  BY <1>1, <1>2, <1>3 DEF Init, TypeOK, Etags

\* Every step keeps the types.
LEMMA NextTypeOK == TypeOK /\ [Next]_vars => TypeOK'
<1> SUFFICES ASSUME TypeOK, [Next]_vars PROVE TypeOK'
  OBVIOUS
<1> USE DEF object, loop, call
<1>1. ASSUME NEW w \in Writers, StartRun(w) PROVE TypeOK'
  <2>1. runs' \in [Writers -> 0 .. MaxRuns] /\ runs'[w] > 0
    BY <1>1, StoreAssumption DEF StartRun, TypeOK
  <2>2. ResumedPages \in PageEntries
    BY BodyType DEF ResumedPages, Resumes, Checkpoint, EmptyPages, PageEntries
  <2>3. (IF Resumes THEN resumeFrom(body) - 1 ELSE 0) \in Nat
    BY BodyType DEF Resumes, resumeFrom, Checkpoint
  <2>4. pages' \in [Writers -> PageEntries] /\ last' \in [Writers -> Nat]
    BY <1>1, <2>2, <2>3 DEF StartRun, TypeOK
  <2>5. etag' \in [Writers -> Etags]
    BY <1>1 DEF StartRun, TypeOK, Etags
  <2>6. \A v \in Writers : pc'[v] # "idle" => runs'[v] > 0
    BY <1>1, <2>1 DEF StartRun, TypeOK
  <2> QED
    BY <1>1, <2>1, <2>4, <2>5, <2>6 DEF StartRun, TypeOK
<1>2. ASSUME NEW w \in Writers, CompletePage(w) PROVE TypeOK'
  <2> DEFINE n == last[w] + 1
             recorded == [pages[w] EXCEPT ![n] = Id(w)]
  <2>1. n \in Pages /\ Id(w) \in RunIds /\ n = PageCursor(w) /\ n \in Nat
    BY <1>2, StoreAssumption DEF CompletePage, TypeOK, Pages, Id, RunIds, PageCursor
  <2>2. recorded \in PageEntries
    BY <2>1, RecordType DEF TypeOK
  <2> DEFINE c == BuildCheckpoint(Id(w), "running", PageCursor(w), PageCursor(w),
                                  recorded)
  <2>3. c \in Checkpoint /\ IsCheckpoint(c)
    BY <1>2, <2>1, <2>2, BuildType DEF CompletePage, CheckpointStatuses
  <2>4. BeginWrite(w, c, FALSE) /\ pages' = [pages EXCEPT ![w] = recorded]
        /\ ingested' = ingested \cup {n}
        /\ UNCHANGED <<object, runs, last, etag, concluded, faults>> /\ pc[w] = "run"
    BY <1>2 DEF CompletePage
  <2> HIDE DEF c, recorded
  <2>5. pages' \in [Writers -> PageEntries] /\ ingested' \subseteq Pages
    BY <2>1, <2>2, <2>4 DEF TypeOK
  <2>6. intended' \in [Writers -> Checkpoint \cup {Absent}]
    BY <2>3, <2>4 DEF BeginWrite, TypeOK
  <2>7. 0 \in 0 .. MAX_CAS_ROUNDS - 1
    BY StoreAssumption
  <2>8. round' \in [Writers -> 0 .. MAX_CAS_ROUNDS - 1]
        /\ final' \in [Writers -> BOOLEAN] /\ casEtag' \in [Writers -> Etags]
    BY <2>4, <2>7 DEF BeginWrite, TypeOK
  <2>9. /\ pc' \in [Writers -> {"idle", "run", "put", "reread"}]
        /\ \A v \in Writers : pc'[v] # "idle" => runs'[v] > 0
        /\ \A v \in Writers : pc'[v] \in {"put", "reread"} => IsCheckpoint(intended'[v])
    BY <2>3, <2>4 DEF BeginWrite, TypeOK
  <2> QED
    BY <2>4, <2>5, <2>6, <2>8, <2>9 DEF TypeOK
<1>3. ASSUME NEW w \in Writers, FinishRun(w) PROVE TypeOK'
  <2> DEFINE c == BuildCheckpoint(Id(w), "complete", last[w], last[w], pages[w])
  <2>1. last[w] \in Nat /\ pages[w] \in PageEntries
    BY DEF TypeOK
  <2>2. c \in Checkpoint /\ IsCheckpoint(c)
    BY <1>3, <2>1, BuildType DEF FinishRun, CheckpointStatuses
  <2>3. BeginWrite(w, c, TRUE) /\ concluded' = [concluded EXCEPT ![w] = TRUE]
        /\ UNCHANGED <<object, loop, etag, ingested, faults>> /\ pc[w] = "run"
    BY <1>3 DEF FinishRun
  <2> HIDE DEF c
  <2>4. intended' \in [Writers -> Checkpoint \cup {Absent}]
    BY <2>2, <2>3 DEF BeginWrite, TypeOK
  <2>5. 0 \in 0 .. MAX_CAS_ROUNDS - 1
    BY StoreAssumption
  <2>6. round' \in [Writers -> 0 .. MAX_CAS_ROUNDS - 1]
        /\ final' \in [Writers -> BOOLEAN] /\ casEtag' \in [Writers -> Etags]
    BY <2>3, <2>5 DEF BeginWrite, TypeOK
  <2>7. /\ pc' \in [Writers -> {"idle", "run", "put", "reread"}]
        /\ \A v \in Writers : pc'[v] # "idle" => runs'[v] > 0
        /\ \A v \in Writers : pc'[v] \in {"put", "reread"} => IsCheckpoint(intended'[v])
    BY <2>2, <2>3 DEF BeginWrite, TypeOK
  <2> QED
    BY <2>3, <2>4, <2>6, <2>7 DEF TypeOK
<1>4. ASSUME NEW w \in Writers, StopRun(w) PROVE TypeOK'
  BY <1>4, SpentFaultType, FaultKindsKnown DEF StopRun, Unconcluded, TypeOK
<1>5. ASSUME NEW w \in Writers, PutLands(w) \/ PutLandsUnanswered(w) PROVE TypeOK'
  <2>1. body' \in Checkpoint /\ version' \in Nat /\ pc[w] = "put"
    BY <1>5, IntendedType DEF PutLands, PutLandsUnanswered, Land, TypeOK
  <2>2. faults' \in [FaultKinds -> Nat]
    BY <1>5, SpentFaultType, FaultKindsKnown DEF PutLands, PutLandsUnanswered, TypeOK
  <2>3. version + 1 \in Etags /\ etag[w] \in Etags
    BY DEF TypeOK, Etags
  <2>6. concluded' = concluded
    BY <1>5 DEF PutLands, PutLandsUnanswered
  <2>4. CASE ReturnFromWrite(w, version + 1) \/ ReturnFromWrite(w, etag[w])
    BY <2>1, <2>2, <2>3, <2>4, <2>6, ReturnType DEF ReturnFromWrite, TypeOK
  <2>5. CASE UNCHANGED <<pc, loop, etag, call, ingested>>
    BY <2>1, <2>2, <2>5, <2>6 DEF TypeOK
  <2> QED
    BY <1>5, <2>4, <2>5 DEF PutLands, PutLandsUnanswered, FailWrite
<1>6. ASSUME NEW w \in Writers, PutErrors(w) \/ RereadErrors(w) PROVE TypeOK'
  <2>1. faults' \in [FaultKinds -> Nat]
    BY <1>6, SpentFaultType, FaultKindsKnown DEF PutErrors, RereadErrors, TypeOK
  <2>2. ReturnFromWrite(w, etag[w]) /\ etag[w] \in Etags /\ pc[w] # "idle"
        /\ UNCHANGED object
    BY <1>6 DEF PutErrors, RereadErrors, FailWrite, TypeOK
  <2>3. concluded' \in [Writers -> BOOLEAN]
    BY <1>6 DEF PutErrors, RereadErrors, Unconcluded, TypeOK
  <2> QED
    BY <2>1, <2>2, <2>3, ReturnType DEF ReturnFromWrite, TypeOK
<1>7. ASSUME NEW w \in Writers, PutRefused(w) PROVE TypeOK'
  BY <1>7 DEF PutRefused, TypeOK
<1>8. ASSUME NEW w \in Writers, Reread(w) PROVE TypeOK'
  <2>1. CASE NextRound(round[w]) = MAX_CAS_ROUNDS
    <3>1. ReturnFromWrite(w, etag[w]) /\ etag[w] \in Etags /\ pc[w] # "idle"
          /\ UNCHANGED <<object, concluded, faults>>
      BY <1>8, <2>1 DEF Reread, FailWrite, TypeOK
    <3> QED
      BY <3>1, ReturnType DEF ReturnFromWrite, TypeOK
  <2>2. CASE NextRound(round[w]) # MAX_CAS_ROUNDS
    <3>1. Merged(intended[w]) \in Checkpoint /\ IsCheckpoint(Merged(intended[w]))
      BY <1>8, IntendedType, BodyType, MergeType, StoreAssumption
      DEF Reread, Merged, IsCheckpoint
    <3>2. NextRound(round[w]) \in 0 .. MAX_CAS_ROUNDS - 1
      BY <2>2, StoreAssumption DEF NextRound, TypeOK
    <3>3. intended' \in [Writers -> Checkpoint \cup {Absent}]
          /\ round' \in [Writers -> 0 .. MAX_CAS_ROUNDS - 1]
          /\ casEtag' \in [Writers -> Etags]
      BY <1>8, <2>2, <3>1, <3>2 DEF Reread, TypeOK, Etags
    <3>4. /\ pc' \in [Writers -> {"idle", "run", "put", "reread"}]
          /\ \A v \in Writers : pc'[v] # "idle" => runs'[v] > 0
          /\ \A v \in Writers : pc'[v] \in {"put", "reread"} => IsCheckpoint(intended'[v])
      BY <1>8, <2>2, <3>1 DEF Reread, TypeOK
    <3> QED
      BY <1>8, <2>2, <3>3, <3>4 DEF Reread, TypeOK
  <2> QED
    BY <2>1, <2>2
<1>9. CASE Tamper
  BY <1>9, SpentFaultType, FaultKindsKnown DEF Tamper, TypeOK
<1>10. CASE UNCHANGED vars
  BY <1>10 DEF vars, TypeOK
<1> QED
  BY <1>1, <1>2, <1>3, <1>4, <1>5, <1>6, <1>7, <1>8, <1>9, <1>10
  DEF Next, WriterStep

\* Every variable keeps its type; a write in progress persists a checkpoint.
THEOREM TypeCorrect == Spec => []TypeOK
<1> QED
  BY InitTypeOK, NextTypeOK, PTL DEF Spec

-----------------------------------------------------------------------------
(* The pages of a checkpoint.  Not only the object but every checkpoint on *)
(* its way to it, and every live run's memory of its pages, records the    *)
(* pages up to its cursor and nothing else, all of them gathered.          *)

SoundPages(entries, n, done) ==
  /\ Recorded(entries) = 1 .. n
  /\ 1 .. n \subseteq done

Sound(c, done) == SoundPages(c.pages, c.lastCompletedPage, done)

\* While a page checkpoint is being written the run has one more page recorded
\* than its cursor says.
RecordedUpTo(w) ==
  IF pc[w] \in {"put", "reread"} /\ ~final[w] THEN last[w] + 1 ELSE last[w]

Contiguous ==
  /\ IsCheckpoint(body) => Sound(body, ingested)
  /\ \A w \in Writers :
       /\ pc[w] \in {"put", "reread"} => Sound(intended[w], ingested)
       /\ pc[w] # "idle" => SoundPages(pages[w], RecordedUpTo(w), ingested)

\* Sound checkpoints merge into a sound one.
LEMMA MergeSound ==
  ASSUME NEW a \in Checkpoint, NEW b \in Checkpoint, NEW done,
         Sound(a, done), Sound(b, done)
  PROVE  Sound(MergeCheckpoints(a, b), done)
<1>1. a.lastCompletedPage \in Nat /\ b.lastCompletedPage \in Nat
  BY DEF Checkpoint
<1>2. MergeCheckpoints(a, b).lastCompletedPage
        = Larger(a.lastCompletedPage, b.lastCompletedPage)
  BY MergeFields
<1>3. 1 .. Larger(a.lastCompletedPage, b.lastCompletedPage)
        = (1 .. a.lastCompletedPage) \cup (1 .. b.lastCompletedPage)
  BY <1>1 DEF Larger
<1> QED
  BY <1>2, <1>3, MergeRecorded DEF Sound, SoundPages

\* Recording the next page keeps the pages sound.
LEMMA RecordSound ==
  ASSUME NEW entries \in PageEntries, NEW n \in Nat, NEW done, NEW id \in RunIds,
         n + 1 \in Pages, SoundPages(entries, n, done)
  PROVE  SoundPages([entries EXCEPT ![n + 1] = id], n + 1, done \cup {n + 1})
<1>1. id # NoEntry
  BY StoreAssumption
<1>2. Recorded([entries EXCEPT ![n + 1] = id]) = Recorded(entries) \cup {n + 1}
  BY <1>1 DEF Recorded, PageEntries
<1>3. 1 .. n + 1 = (1 .. n) \cup {n + 1}
  OBVIOUS
<1> QED
  BY <1>2, <1>3 DEF SoundPages

\* A write that returns leaves the pages of its run as they were.
LEMMA ReturnSound ==
  ASSUME TypeOK, Contiguous, NEW w \in Writers, NEW e, ReturnFromWrite(w, e),
         pc[w] \in {"put", "reread"}
  PROVE  /\ \A v \in Writers :
              /\ pc'[v] \in {"put", "reread"} => Sound(intended[v], ingested)'
              /\ pc'[v] # "idle" => SoundPages(pages[v], RecordedUpTo(v), ingested)'
         /\ ingested' = ingested
<1> USE DEF loop, call
<1>1. ingested' = ingested /\ pages' = pages /\ intended' = intended /\ final' = final
  BY DEF ReturnFromWrite
<1>2. \A v \in Writers \ {w} : pc'[v] = pc[v] /\ last'[v] = last[v]
  BY DEF ReturnFromWrite, TypeOK
<1>3. CASE final[w]
  <2>1. pc'[w] = "idle"
    BY <1>3 DEF ReturnFromWrite, TypeOK
  <2> QED
    BY <1>1, <1>2, <2>1 DEF Contiguous, RecordedUpTo
<1>4. CASE ~final[w]
  <2>1. pc'[w] = "run" /\ last'[w] = last[w] + 1
    BY <1>4 DEF ReturnFromWrite, TypeOK
  <2>2. RecordedUpTo(w)' = RecordedUpTo(w)
    BY <1>4, <2>1 DEF RecordedUpTo
  <2> QED
    BY <1>1, <1>2, <2>1, <2>2 DEF Contiguous, RecordedUpTo
<1> QED
  BY <1>1, <1>3, <1>4

\* Every step keeps the recorded pages without a gap and gathered.
LEMMA NextContiguous == TypeOK /\ Contiguous /\ [Next]_vars => Contiguous'
<1> SUFFICES ASSUME TypeOK, Contiguous, [Next]_vars PROVE Contiguous'
  OBVIOUS
<1> USE DEF object, loop, call
<1>1. ASSUME NEW w \in Writers, StartRun(w) PROVE Contiguous'
  <2>1. CASE Resumes
    <3>1. pages'[w] = body.pages /\ last'[w] = body.lastCompletedPage
      BY <1>1, <2>1, BodyType
      DEF StartRun, ResumedPages, Resumes, resumeFrom, TypeOK, Checkpoint
    <3>2. SoundPages(pages'[w], last'[w], ingested)
      BY <2>1, <3>1 DEF Contiguous, Resumes, Sound
    <3> QED
      BY <1>1, <3>2 DEF StartRun, Contiguous, RecordedUpTo, TypeOK
  <2>2. CASE ~Resumes
    <3>1. pages'[w] = EmptyPages /\ last'[w] = 0
      BY <1>1, <2>2 DEF StartRun, ResumedPages, TypeOK
    <3>2. SoundPages(EmptyPages, 0, ingested)
      BY DEF SoundPages, Recorded, EmptyPages
    <3> QED
      BY <1>1, <3>1, <3>2 DEF StartRun, Contiguous, RecordedUpTo, TypeOK
  <2> QED
    BY <2>1, <2>2
<1>2. ASSUME NEW w \in Writers, CompletePage(w) PROVE Contiguous'
  <2> DEFINE n == last[w] + 1
             recorded == [pages[w] EXCEPT ![n] = Id(w)]
  <2>1. n \in Pages /\ Id(w) \in RunIds /\ n = PageCursor(w) /\ last[w] \in Nat
        /\ pages[w] \in PageEntries /\ pc[w] = "run"
    BY <1>2, StoreAssumption DEF CompletePage, TypeOK, Pages, Id, RunIds, PageCursor
  <2>2. SoundPages(pages[w], last[w], ingested)
    BY <2>1 DEF Contiguous, RecordedUpTo
  <2>3. SoundPages(recorded, n, ingested \cup {n})
    BY <2>1, <2>2, RecordSound
  <2> HIDE DEF recorded
  <2>4. /\ pages' = [pages EXCEPT ![w] = recorded] /\ ingested' = ingested \cup {n}
        /\ intended' = [intended EXCEPT ![w] =
             BuildCheckpoint(Id(w), "running", n, n, recorded)]
        /\ pc' = [pc EXCEPT ![w] = "put"] /\ final' = [final EXCEPT ![w] = FALSE]
        /\ UNCHANGED <<body, last>>
    BY <1>2, <2>1 DEF CompletePage, BeginWrite, recorded
  <2>5. Sound(intended'[w], ingested')
    BY <2>3, <2>4 DEF Sound, BuildCheckpoint, TypeOK
  <2>6. SoundPages(pages'[w], RecordedUpTo(w)', ingested')
    BY <2>3, <2>4 DEF RecordedUpTo, TypeOK
  <2>7. \A v \in Writers \ {w} :
           /\ pc'[v] = pc[v] /\ intended'[v] = intended[v] /\ pages'[v] = pages[v]
           /\ RecordedUpTo(v)' = RecordedUpTo(v)
    BY <2>4 DEF RecordedUpTo, TypeOK
  <2> QED
    BY <2>4, <2>5, <2>6, <2>7 DEF Contiguous, Sound, SoundPages
<1>3. ASSUME NEW w \in Writers, FinishRun(w) PROVE Contiguous'
  <2>1. pc[w] = "run" /\ UNCHANGED <<body, pages, last, ingested>>
        /\ intended' = [intended EXCEPT ![w] =
             BuildCheckpoint(Id(w), "complete", last[w], last[w], pages[w])]
        /\ pc' = [pc EXCEPT ![w] = "put"] /\ final' = [final EXCEPT ![w] = TRUE]
    BY <1>3 DEF FinishRun, BeginWrite
  <2>2. SoundPages(pages[w], last[w], ingested)
    BY <2>1 DEF Contiguous, RecordedUpTo
  <2>3. Sound(intended'[w], ingested')
    BY <2>1, <2>2 DEF Sound, BuildCheckpoint, TypeOK
  <2>4. SoundPages(pages'[w], RecordedUpTo(w)', ingested')
    BY <2>1, <2>2 DEF RecordedUpTo, TypeOK
  <2>5. \A v \in Writers \ {w} :
           /\ pc'[v] = pc[v] /\ intended'[v] = intended[v]
           /\ RecordedUpTo(v)' = RecordedUpTo(v)
    BY <2>1 DEF RecordedUpTo, TypeOK
  <2> QED
    BY <2>1, <2>3, <2>4, <2>5 DEF Contiguous
<1>4. ASSUME NEW w \in Writers, StopRun(w) PROVE Contiguous'
  BY <1>4 DEF StopRun, Contiguous, RecordedUpTo, TypeOK
<1>5. ASSUME NEW w \in Writers, PutLands(w) \/ PutLandsUnanswered(w)
      PROVE  Contiguous'
  <2>1. body' = intended[w] /\ pc[w] = "put" /\ ingested' = ingested
    BY <1>5 DEF PutLands, PutLandsUnanswered, Land, FailWrite, ReturnFromWrite
  <2>2. Sound(body', ingested')
    BY <2>1 DEF Contiguous
  <2>3. CASE ReturnFromWrite(w, version + 1) \/ ReturnFromWrite(w, etag[w])
    BY <2>1, <2>2, <2>3, ReturnSound DEF Contiguous
  <2>4. CASE UNCHANGED <<pc, loop, etag, call, ingested>>
    BY <2>2, <2>4 DEF Contiguous, RecordedUpTo
  <2> QED
    BY <1>5, <2>3, <2>4 DEF PutLands, PutLandsUnanswered, FailWrite
<1>6. ASSUME NEW w \in Writers, PutErrors(w) \/ RereadErrors(w) PROVE Contiguous'
  <2>1. ReturnFromWrite(w, etag[w]) /\ pc[w] \in {"put", "reread"} /\ body' = body
    BY <1>6 DEF PutErrors, RereadErrors, FailWrite
  <2> QED
    BY <2>1, ReturnSound DEF Contiguous
<1>7. ASSUME NEW w \in Writers, PutRefused(w) PROVE Contiguous'
  BY <1>7 DEF PutRefused, Contiguous, RecordedUpTo, TypeOK
<1>8. ASSUME NEW w \in Writers, Reread(w) PROVE Contiguous'
  <2>1. CASE NextRound(round[w]) = MAX_CAS_ROUNDS
    <3>1. ReturnFromWrite(w, etag[w]) /\ pc[w] = "reread" /\ body' = body
      BY <1>8, <2>1 DEF Reread, FailWrite
    <3> QED
      BY <3>1, ReturnSound DEF Contiguous
  <2>2. CASE NextRound(round[w]) # MAX_CAS_ROUNDS
    <3>1. /\ pc[w] = "reread" /\ pc' = [pc EXCEPT ![w] = "put"]
          /\ intended' = [intended EXCEPT ![w] = Merged(intended[w])]
          /\ UNCHANGED <<body, pages, last, final, ingested>>
      BY <1>8, <2>2 DEF Reread
    <3>2. Sound(Merged(intended[w]), ingested)
      BY <3>1, IntendedType, BodyType, MergeSound DEF Merged, Contiguous
    <3> QED
      BY <3>1, <3>2 DEF Contiguous, RecordedUpTo, TypeOK
  <2> QED
    BY <2>1, <2>2
<1>9. CASE Tamper
  BY <1>9 DEF Tamper, Contiguous, RecordedUpTo, IsCheckpoint
<1>10. CASE UNCHANGED vars
  BY <1>10 DEF vars, Contiguous, RecordedUpTo
<1> QED
  BY <1>1, <1>2, <1>3, <1>4, <1>5, <1>6, <1>7, <1>8, <1>9, <1>10
  DEF Next, WriterStep

\* The recorded pages are contiguous and gathered in every reachable state.
LEMMA AlwaysContiguous == Spec => []Contiguous
<1>1. Init => Contiguous
  BY DEF Init, Contiguous, IsCheckpoint
<1> QED
  BY <1>1, NextContiguous, TypeCorrect, PTL DEF Spec

\* Whatever was merged, lost, refused or overwritten on the way, every page up
\* to the persisted cursor had its fan-out gathered by some run.
THEOREM PersistedTrails == Spec => []PersistedBehindIngest
<1>1. Contiguous => PersistedBehindIngest
  BY DEF Contiguous, Sound, SoundPages, PersistedBehindIngest
<1> QED
  BY <1>1, AlwaysContiguous, PTL

\* Resume, merge and failed writes leave no gap in the persisted page entries
\* and no entry beyond the cursor.
THEOREM PersistedContiguous == Spec => []PersistedPagesContiguous
<1>1. Contiguous => PersistedPagesContiguous
  BY DEF Contiguous, Sound, SoundPages, PersistedPagesContiguous
<1> QED
  BY <1>1, AlwaysContiguous, PTL

-----------------------------------------------------------------------------
(* The compare-and-swap.  ETags are never handed out ahead of time, so a   *)
(* retry whose condition still holds was merged with the very body it      *)
(* replaces.                                                               *)

Retrying(w) == pc[w] = "put" /\ round[w] > 0

EtagsIssued ==
  \A w \in Writers : /\ etag[w] \in Nat => etag[w] <= version
                     /\ casEtag[w] \in Nat => casEtag[w] <= version

RetriesConditional ==
  \A w \in Writers : pc[w] = "reread" \/ Retrying(w) => ConditionalWrites = TRUE

RetriesMerged ==
  \A w \in Writers :
    Retrying(w) /\ casEtag[w] = version /\ IsCheckpoint(body)
      => AtLeast(intended[w], body)

CASInv == EtagsIssued /\ RetriesConditional /\ RetriesMerged

\* A body that is replaced takes every outstanding condition out of date.
LEMMA ReplacedRetries ==
  ASSUME TypeOK, CASInv, version' = version + 1, UNCHANGED <<casEtag, round>>,
         \A w \in Writers : pc'[w] \in {"put", "reread"} => pc'[w] = pc[w],
         \A w \in Writers : etag'[w] \in {etag[w], version + 1}
  PROVE  CASInv'
<1>1. version \in Nat /\ version' \in Nat
  BY DEF TypeOK
<1>2. EtagsIssued'
  <2> SUFFICES ASSUME NEW w \in Writers
               PROVE  /\ etag'[w] \in Nat => etag'[w] <= version'
                      /\ casEtag'[w] \in Nat => casEtag'[w] <= version'
    BY DEF EtagsIssued
  <2> QED
    BY <1>1 DEF CASInv, EtagsIssued
<1>3. RetriesConditional'
  BY DEF CASInv, RetriesConditional, Retrying
<1>4. \A w \in Writers : casEtag'[w] # version'
  BY <1>1 DEF CASInv, EtagsIssued
<1>5. RetriesMerged'
  BY <1>4 DEF RetriesMerged
<1> QED
  BY <1>2, <1>3, <1>5 DEF CASInv

\* While the body stays, only a retry that has just been merged is to be looked at.
LEMMA KeptRetries ==
  ASSUME CASInv, UNCHANGED object, NEW w \in Writers,
         etag'[w] \in Nat => etag'[w] <= version,
         casEtag'[w] \in Nat => casEtag'[w] <= version,
         pc'[w] = "reread" \/ Retrying(w)' => ConditionalWrites = TRUE,
         Retrying(w)' /\ casEtag'[w] = version /\ IsCheckpoint(body)
           => AtLeast(intended'[w], body),
         \A v \in Writers \ {w} :
           /\ etag'[v] = etag[v] /\ casEtag'[v] = casEtag[v] /\ pc'[v] = pc[v]
           /\ round'[v] = round[v] /\ intended'[v] = intended[v]
  PROVE  CASInv'
<1> USE DEF object
<1>1. EtagsIssued'
  BY DEF CASInv, EtagsIssued
<1>2. RetriesConditional'
  BY DEF CASInv, RetriesConditional, Retrying
<1>3. RetriesMerged'
  <2> SUFFICES ASSUME NEW v \in Writers,
                      Retrying(v)', casEtag'[v] = version', IsCheckpoint(body')
               PROVE  AtLeast(intended'[v], body')
    BY DEF RetriesMerged
  <2>1. CASE v = w
    BY <2>1
  <2>2. CASE v # w
    <3>1. Retrying(v) /\ casEtag[v] = version /\ IsCheckpoint(body)
          /\ intended'[v] = intended[v]
      BY <2>2 DEF Retrying
    <3> QED
      BY <3>1 DEF CASInv, RetriesMerged
  <2> QED
    BY <2>1, <2>2
<1> QED
  BY <1>1, <1>2, <1>3 DEF CASInv

\* Every step keeps the conditions of merged retries sound.
LEMMA NextCASInv == TypeOK /\ CASInv /\ [Next]_vars => CASInv'
<1> SUFFICES ASSUME TypeOK, CASInv, [Next]_vars PROVE CASInv'
  OBVIOUS
<1> USE DEF object, loop, call
<1>0. /\ version \in Nat /\ NoEtag \notin Nat
      /\ \A w \in Writers : /\ etag[w] \in Nat => etag[w] <= version
                            /\ casEtag[w] \in Nat => casEtag[w] <= version
  BY StoreAssumption DEF TypeOK, CASInv, EtagsIssued
<1>1. ASSUME NEW w \in Writers, StartRun(w) PROVE CASInv'
  <2>1. etag' = [etag EXCEPT ![w] = IF IsCheckpoint(body) THEN version ELSE NoEtag]
        /\ UNCHANGED <<object, intended, casEtag, round>>
        /\ pc' = [pc EXCEPT ![w] = "run"]
    BY <1>1 DEF StartRun
  <2>2. pc'[w] = "run" /\ (etag'[w] \in Nat => etag'[w] <= version)
    BY <1>0, <2>1 DEF TypeOK
  <2>3. \A v \in Writers \ {w} : etag'[v] = etag[v] /\ pc'[v] = pc[v]
    BY <2>1 DEF TypeOK
  <2> QED
    BY <1>0, <2>1, <2>2, <2>3, KeptRetries DEF Retrying
<1>2. ASSUME NEW w \in Writers, CompletePage(w) \/ FinishRun(w) PROVE CASInv'
  <2>1. /\ casEtag' = [casEtag EXCEPT ![w] = etag[w]]
        /\ round' = [round EXCEPT ![w] = 0]
        /\ pc' = [pc EXCEPT ![w] = "put"]
        /\ UNCHANGED <<object, etag>>
    BY <1>2 DEF CompletePage, FinishRun, BeginWrite
  <2>2. \A v \in Writers \ {w} : intended'[v] = intended[v]
    BY <1>2 DEF CompletePage, FinishRun, BeginWrite, TypeOK
  <2>3. ~Retrying(w)' /\ pc'[w] = "put" /\ casEtag'[w] = etag[w]
    BY <2>1 DEF TypeOK, Retrying
  <2>4. \A v \in Writers \ {w} :
          casEtag'[v] = casEtag[v] /\ round'[v] = round[v] /\ pc'[v] = pc[v]
    BY <2>1 DEF TypeOK
  <2> QED
    BY <1>0, <2>1, <2>2, <2>3, <2>4, KeptRetries
<1>3. ASSUME NEW w \in Writers, StopRun(w) PROVE CASInv'
  <2>1. UNCHANGED <<object, etag, intended, casEtag, round>>
        /\ pc' = [pc EXCEPT ![w] = "idle"]
    BY <1>3 DEF StopRun
  <2>2. pc'[w] = "idle" /\ \A v \in Writers \ {w} : pc'[v] = pc[v]
    BY <2>1 DEF TypeOK
  <2> QED
    BY <1>0, <2>1, <2>2, KeptRetries DEF Retrying
<1>4. ASSUME NEW w \in Writers, PutLands(w) \/ PutLandsUnanswered(w)
      PROVE  CASInv'
  <2>1. version' = version + 1 /\ UNCHANGED <<casEtag, round>>
    BY <1>4 DEF PutLands, PutLandsUnanswered, Land, FailWrite, ReturnFromWrite
  <2>2. \A v \in Writers : pc'[v] \in {"put", "reread"} => pc'[v] = pc[v]
    BY <1>4 DEF PutLands, PutLandsUnanswered, FailWrite, ReturnFromWrite, TypeOK
  <2>3. \A v \in Writers : etag'[v] \in {etag[v], version + 1}
    BY <1>4 DEF PutLands, PutLandsUnanswered, FailWrite, ReturnFromWrite, TypeOK
  <2> QED
    BY <2>1, <2>2, <2>3, ReplacedRetries
<1>5. ASSUME NEW w \in Writers, FailWrite(w), UNCHANGED object PROVE CASInv'
  <2>1. UNCHANGED <<object, intended, casEtag, round>> /\ etag' = etag
    BY <1>5 DEF FailWrite, ReturnFromWrite, TypeOK
  <2>2. pc'[w] \in {"idle", "run"} /\ \A v \in Writers \ {w} : pc'[v] = pc[v]
    BY <1>5 DEF FailWrite, ReturnFromWrite, TypeOK
  <2> QED
    BY <1>0, <2>1, <2>2, KeptRetries DEF Retrying
<1>6. ASSUME NEW w \in Writers, PutRefused(w) PROVE CASInv'
  <2>1. UNCHANGED <<object, etag, intended, casEtag, round>> /\ ConditionalWrites
        /\ pc' = [pc EXCEPT ![w] = "reread"]
    BY <1>6 DEF PutRefused
  <2>2. pc'[w] = "reread" /\ \A v \in Writers \ {w} : pc'[v] = pc[v]
    BY <2>1 DEF TypeOK
  <2>3. ConditionalWrites = TRUE
    BY <2>1, StoreAssumption
  <2> QED
    BY <1>0, <2>1, <2>2, <2>3, KeptRetries DEF Retrying
<1>7. ASSUME NEW w \in Writers, Reread(w), NextRound(round[w]) # MAX_CAS_ROUNDS
      PROVE  CASInv'
  <2>1. /\ pc[w] = "reread" /\ pc' = [pc EXCEPT ![w] = "put"]
        /\ intended' = [intended EXCEPT ![w] = Merged(intended[w])]
        /\ casEtag' = [casEtag EXCEPT ![w] =
                         IF IsCheckpoint(body) THEN version ELSE NoEtag]
        /\ round' = [round EXCEPT ![w] = NextRound(round[w])]
        /\ UNCHANGED <<object, etag>>
    BY <1>7 DEF Reread
  <2>2. IsCheckpoint(body) => AtLeast(Merged(intended[w]), body)
    BY <2>1, IntendedType, BodyType, MergeKeepsProgress DEF Merged
  <2>3. intended'[w] = Merged(intended[w])
        /\ (casEtag'[w] \in Nat => casEtag'[w] <= version)
    BY <1>0, <2>1 DEF TypeOK
  <2>4. ConditionalWrites = TRUE
    BY <2>1 DEF CASInv, RetriesConditional
  <2>5. \A v \in Writers \ {w} :
          /\ casEtag'[v] = casEtag[v] /\ round'[v] = round[v] /\ pc'[v] = pc[v]
          /\ intended'[v] = intended[v]
    BY <2>1 DEF TypeOK
  <2> QED
    BY <1>0, <2>1, <2>2, <2>3, <2>4, <2>5, KeptRetries
<1>8. CASE Tamper
  <2>1. version' = version + 1 /\ UNCHANGED <<casEtag, round, pc, etag>>
    BY <1>8 DEF Tamper
  <2> QED
    BY <2>1, ReplacedRetries
<1>9. CASE UNCHANGED vars
  BY <1>9 DEF vars, CASInv, EtagsIssued, RetriesConditional, RetriesMerged, Retrying
<1> QED
  BY <1>1, <1>2, <1>3, <1>4, <1>5, <1>6, <1>7, <1>8, <1>9
  DEF Next, WriterStep, PutErrors, RereadErrors, Reread

\* A write call that lost a race and merged lands on the very checkpoint it was
\* merged with, and does not fall behind it (the If-Match of its retry).
THEOREM MergedWritesKeepProgress == Spec => MergedWriteKeepsProgress
<1>1. Init => CASInv
  BY StoreAssumption
  DEF Init, CASInv, EtagsIssued, RetriesConditional, RetriesMerged, Retrying
<1>2. TypeOK /\ CASInv /\ [Next]_vars
        => [\A w \in Writers :
              body' # body /\ PutLands(w) /\ round[w] > 0 /\ IsCheckpoint(body)
                => AtLeast(body', body)]_vars
  <2> SUFFICES ASSUME TypeOK, CASInv, NEW w \in Writers,
                      PutLands(w), round[w] > 0, IsCheckpoint(body)
               PROVE  AtLeast(body', body)
    OBVIOUS
  <2>1. Retrying(w) /\ body' = intended[w] /\ ConditionHolds(w)
    BY DEF PutLands, Land, Retrying
  <2>2. ConditionalWrites = TRUE
    BY <2>1 DEF CASInv, RetriesConditional
  <2>3. casEtag[w] = version
    BY <2>1, <2>2 DEF ConditionHolds, IsCheckpoint
  <2> QED
    BY <2>1, <2>3 DEF CASInv, RetriesMerged
<1> QED
  BY <1>1, <1>2, NextCASInv, TypeCorrect, PTL
  DEF Spec, MergedWriteKeepsProgress

-----------------------------------------------------------------------------
(* One process at a time.  The CronJob forbids overlap and nothing else    *)
(* writes the object.  Then a refused PUT can only mean that an earlier    *)
(* PUT of the same run landed unanswered, and the body it left is not      *)
(* ahead of the run.  Conditional writes may be on or off.  That a         *)
(* conclusion is kept takes a second round (the code has five).            *)

OneWriter  == \E w : Writers = {w}
Untampered == FaultBudget["tamper"] = 0
RetriesOnce == MAX_CAS_ROUNDS > 1

\* The ETag e is the one a conditional PUT would have to present now.
Current(e) == IF e = NoEtag THEN body = Absent ELSE body # Absent /\ e = version

\* How far the run has come, the page it is writing included.
Cursor(w) == IF pc[w] \in {"put", "reread"} THEN intended[w].lastCompletedPage
                                            ELSE last[w]

NotAhead(w) == IsCheckpoint(body) /\ body.lastCompletedPage <= Cursor(w)

RecordedComplete == IsCheckpoint(body) /\ body.status = "complete"

\* A live run is never behind the body of an unfinished pass, nor behind any
\* body whose ETag it does not hold: that body is its own.
BodyBehindRun(w) ==
  /\ pc[w] # "idle" /\ IsCheckpoint(body) /\ body.status = "running" => NotAhead(w)
  /\ pc[w] # "idle" /\ ~Current(etag[w]) => NotAhead(w)
  /\ pc[w] = "put" /\ ~Current(casEtag[w]) => NotAhead(w)
  /\ pc[w] = "reread" => NotAhead(w)

\* What is being written is the run's own progress, and the final checkpoint is
\* a complete one.
WritesOwnProgress(w) ==
  pc[w] \in {"put", "reread"} =>
    /\ intended[w].lastCompletedPage = (IF final[w] THEN last[w] ELSE last[w] + 1)
    /\ final[w] => intended[w].status = "complete"

\* A conclusion is being written or on record, and a retry of it is refused only
\* because it is on record.
ConclusionKept(w) ==
  RetriesOnce /\ concluded[w] =>
    \/ pc[w] = "idle" /\ RecordedComplete
    \/ /\ pc[w] = "put" /\ final[w]
       /\ round[w] > 0 /\ ~Current(casEtag[w]) => RecordedComplete
    \/ /\ pc[w] = "reread" /\ final[w]
       /\ round[w] > 0 => RecordedComplete

SoleWriterInv ==
  /\ body # Corrupt /\ faults["tamper"] = 0
  /\ \A w \in Writers : BodyBehindRun(w) /\ WritesOwnProgress(w) /\ ConclusionKept(w)

\* Nothing but the tampering spends the budget of tampering, so without one the
\* object is never corrupt.
LEMMA StaysUntampered ==
  ASSUME TypeOK, SoleWriterInv, NEW kind \in {"lost", "error", "crash"}, Fault(kind)
  PROVE  faults'["tamper"] = 0
  BY FaultKindsKnown DEF TypeOK, SoleWriterInv, Fault

\* With one process, what holds of the process that moves holds of all.
LEMMA SoleWriterStep ==
  ASSUME OneWriter, NEW w \in Writers, body' # Corrupt, faults'["tamper"] = 0,
         BodyBehindRun(w)', WritesOwnProgress(w)', ConclusionKept(w)'
  PROVE  SoleWriterInv'
<1>1. \A v \in Writers : v = w
  BY DEF OneWriter
<1> QED
  BY <1>1 DEF SoleWriterInv

\* A run starts from the body it read.
LEMMA StartSole ==
  ASSUME OneWriter, TypeOK, SoleWriterInv, NEW w \in Writers, StartRun(w)
  PROVE  SoleWriterInv'
<1>1. /\ pc'[w] = "run" /\ ~concluded'[w] /\ UNCHANGED <<body, version, faults>>
      /\ last'[w] = (IF Resumes THEN resumeFrom(body) - 1 ELSE 0)
      /\ etag'[w] = (IF IsCheckpoint(body) THEN version ELSE NoEtag)
  BY DEF StartRun, object, TypeOK
<1>2. IsCheckpoint(body) \/ body = Absent
  BY DEF SoleWriterInv, IsCheckpoint
<1>3. Current(etag[w])'
  BY <1>1, <1>2, StoreAssumption DEF Current, IsCheckpoint, TypeOK
<1>4. CASE IsCheckpoint(body) /\ body.status = "running"
  <2>1. last'[w] = body.lastCompletedPage /\ body.lastCompletedPage \in Nat
    BY <1>1, <1>4, BodyType DEF Resumes, resumeFrom, Checkpoint
  <2>2. BodyBehindRun(w)'
    BY <1>1, <1>3, <2>1 DEF BodyBehindRun, NotAhead, Cursor
  <2> QED
    BY <1>1, <2>2, SoleWriterStep DEF SoleWriterInv, WritesOwnProgress, ConclusionKept
<1>5. CASE ~(IsCheckpoint(body) /\ body.status = "running")
  <2>1. BodyBehindRun(w)'
    BY <1>1, <1>3, <1>5 DEF BodyBehindRun, IsCheckpoint
  <2> QED
    BY <1>1, <2>1, SoleWriterStep DEF SoleWriterInv, WritesOwnProgress, ConclusionKept
<1> QED
  BY <1>4, <1>5

\* A write begins with the ETag of the run and at least its progress.
LEMMA BeginSole ==
  ASSUME OneWriter, TypeOK, SoleWriterInv, NEW w \in Writers,
         CompletePage(w) \/ FinishRun(w)
  PROVE  SoleWriterInv'
<1>1. /\ pc[w] = "run" /\ pc'[w] = "put" /\ round'[w] = 0
      /\ casEtag'[w] = etag[w] /\ UNCHANGED <<body, version, etag, last, faults>>
      /\ last[w] \in Nat
  BY DEF CompletePage, FinishRun, BeginWrite, object, loop, TypeOK
<1>2. \/ /\ CompletePage(w) /\ ~final'[w] /\ concluded' = concluded
         /\ intended'[w].lastCompletedPage = last[w] + 1
      \/ /\ final'[w] /\ intended'[w].lastCompletedPage = last[w]
         /\ intended'[w].status = "complete"
  BY DEF CompletePage, FinishRun, BeginWrite, BuildCheckpoint, PageCursor, TypeOK
<1>3. WritesOwnProgress(w)'
  BY <1>1, <1>2 DEF WritesOwnProgress
<1>4. RetriesOnce => ~concluded[w]
  BY <1>1 DEF SoleWriterInv, ConclusionKept
<1>5. ConclusionKept(w)'
  BY <1>1, <1>2, <1>4 DEF ConclusionKept
<1>6. IsCheckpoint(body) => body.lastCompletedPage \in Nat
  BY BodyType DEF Checkpoint
<1>7. NotAhead(w) => NotAhead(w)'
  BY <1>1, <1>2, <1>6 DEF NotAhead, Cursor, IsCheckpoint
<1>8. BodyBehindRun(w)
  BY DEF SoleWriterInv
<1>9. BodyBehindRun(w)'
  BY <1>1, <1>7, <1>8 DEF BodyBehindRun, Current, IsCheckpoint
<1> QED
  BY <1>1, <1>3, <1>5, <1>9, SoleWriterStep DEF SoleWriterInv

\* A PUT that lands leaves the run's own progress, whether its answer arrives,
\* is lost with the write, or is lost and the request repeated.
LEMMA LandSole ==
  ASSUME OneWriter, TypeOK, CASInv, SoleWriterInv, NEW w \in Writers,
         PutLands(w) \/ PutLandsUnanswered(w)
  PROVE  SoleWriterInv'
<1> DEFINE c == intended[w]
<1>1. /\ pc[w] = "put" /\ body' = c /\ version' = version + 1
      /\ UNCHANGED <<concluded, intended, casEtag, round, final>>
      /\ c \in Checkpoint /\ c.lastCompletedPage \in Nat
      /\ version \in Nat /\ last[w] \in Nat /\ IsCheckpoint(c)
  BY IntendedType
  DEF PutLands, PutLandsUnanswered, Land, FailWrite, ReturnFromWrite, call, TypeOK,
      Checkpoint
<1>2. body' # Corrupt /\ IsCheckpoint(body)'
  BY <1>1 DEF IsCheckpoint
<1>3. faults'["tamper"] = 0
  BY StaysUntampered DEF SoleWriterInv, PutLands, PutLandsUnanswered
<1>4. /\ c.lastCompletedPage = (IF final[w] THEN last[w] ELSE last[w] + 1)
      /\ final[w] => c.status = "complete"
      /\ RetriesOnce /\ concluded[w] => final[w]
  BY <1>1 DEF SoleWriterInv, WritesOwnProgress, ConclusionKept
<1>5. CASE UNCHANGED <<pc, loop, etag, call, ingested>>
  <2>1. Cursor(w)' = c.lastCompletedPage
    BY <1>1, <1>5 DEF Cursor, call
  <2>2. NotAhead(w)'
    BY <1>1, <1>2, <2>1 DEF NotAhead
  <2>3. BodyBehindRun(w)'
    BY <2>2 DEF BodyBehindRun
  <2>4. WritesOwnProgress(w)'
    BY <1>1, <1>4, <1>5 DEF WritesOwnProgress, loop
  <2>5. ConclusionKept(w)'
    BY <1>1, <1>2, <1>4, <1>5 DEF ConclusionKept, RecordedComplete
  <2> QED
    BY <1>2, <1>3, <2>3, <2>4, <2>5, SoleWriterStep
<1>6. CASE ReturnFromWrite(w, version + 1) \/ ReturnFromWrite(w, etag[w])
  <2>1. /\ pc'[w] = (IF final[w] THEN "idle" ELSE "run")
        /\ last'[w] = (IF final[w] THEN last[w] ELSE last[w] + 1)
    BY <1>6 DEF ReturnFromWrite, TypeOK
  <2>2. NotAhead(w)'
    BY <1>1, <1>2, <1>4, <2>1 DEF NotAhead, Cursor
  <2>3. BodyBehindRun(w)' /\ WritesOwnProgress(w)'
    BY <2>1, <2>2 DEF BodyBehindRun, WritesOwnProgress
  <2>4. ConclusionKept(w)'
    BY <1>1, <1>2, <1>4, <2>1 DEF ConclusionKept, RecordedComplete
  <2> QED
    BY <1>2, <1>3, <2>3, <2>4, SoleWriterStep
<1> QED
  BY <1>5, <1>6 DEF PutLands, PutLandsUnanswered, FailWrite

\* A write that gives up leaves the body and the ETag of the run as they were.
LEMMA FailSole ==
  ASSUME OneWriter, TypeOK, SoleWriterInv, NEW w \in Writers,
         pc[w] \in {"put", "reread"}, FailWrite(w), UNCHANGED object,
         faults'["tamper"] = 0,
         RetriesOnce /\ concluded'[w] => concluded[w] /\ RecordedComplete
  PROVE  SoleWriterInv'
<1>1. /\ pc'[w] = (IF final[w] THEN "idle" ELSE "run")
      /\ last'[w] = (IF final[w] THEN last[w] ELSE last[w] + 1)
      /\ etag' = etag /\ UNCHANGED <<body, version, intended, final>>
  BY DEF FailWrite, ReturnFromWrite, object, call, TypeOK
<1>2. last'[w] = intended[w].lastCompletedPage
  BY <1>1 DEF SoleWriterInv, WritesOwnProgress
<1>3. NotAhead(w) => NotAhead(w)'
  BY <1>1, <1>2 DEF NotAhead, Cursor, IsCheckpoint
<1>4. BodyBehindRun(w)
  BY DEF SoleWriterInv
<1>5. BodyBehindRun(w)'
  BY <1>1, <1>3, <1>4 DEF BodyBehindRun, Current, IsCheckpoint
<1>6. WritesOwnProgress(w)'
  BY <1>1 DEF WritesOwnProgress
<1>7. RetriesOnce /\ concluded[w] => final[w]
  BY DEF SoleWriterInv, ConclusionKept
<1>8. ConclusionKept(w)'
  BY <1>1, <1>7 DEF ConclusionKept, RecordedComplete, IsCheckpoint
<1> QED
  BY <1>1, <1>5, <1>6, <1>8, SoleWriterStep DEF SoleWriterInv

\* A PUT is refused only because the body is the run's own.
LEMMA RefusedSole ==
  ASSUME OneWriter, TypeOK, SoleWriterInv, NEW w \in Writers, PutRefused(w)
  PROVE  SoleWriterInv'
<1>1. /\ pc[w] = "put" /\ pc'[w] = "reread"
      /\ UNCHANGED <<body, version, last, etag, intended, casEtag, round, final,
                     concluded, faults>>
  BY DEF PutRefused, object, loop, call, TypeOK
<1>2. ~ConditionHolds(w)
  BY DEF PutRefused, OneWriter
<1>3. ~Current(casEtag[w])
  BY <1>2 DEF ConditionHolds, Current
<1>4. NotAhead(w)
  BY <1>1, <1>3 DEF SoleWriterInv, BodyBehindRun
<1>5. NotAhead(w)'
  BY <1>1, <1>4 DEF NotAhead, Cursor, IsCheckpoint
<1>6. BodyBehindRun(w)'
  BY <1>5 DEF BodyBehindRun
<1>7. WritesOwnProgress(w) /\ ConclusionKept(w) /\ body # Corrupt /\ faults["tamper"] = 0
  BY DEF SoleWriterInv
<1>8. WritesOwnProgress(w)'
  BY <1>1, <1>7 DEF WritesOwnProgress
<1>9. ConclusionKept(w)'
  BY <1>1, <1>3, <1>7 DEF ConclusionKept, RecordedComplete, IsCheckpoint
<1> QED
  BY <1>1, <1>6, <1>7, <1>8, <1>9, SoleWriterStep

\* A retry keeps the run's progress and, of a final checkpoint, its status: the
\* body it is merged with is not ahead and no status outranks a complete one.
LEMMA RetrySole ==
  ASSUME OneWriter, TypeOK, SoleWriterInv, NEW w \in Writers,
         Reread(w), NextRound(round[w]) # MAX_CAS_ROUNDS
  PROVE  SoleWriterInv'
<1> DEFINE m == Merged(intended[w])
<1>1. /\ pc[w] = "reread" /\ pc'[w] = "put" /\ intended'[w] = m
      /\ casEtag'[w] = (IF IsCheckpoint(body) THEN version ELSE NoEtag)
      /\ UNCHANGED <<body, version, last, etag, final, concluded, faults>>
  BY DEF Reread, object, loop, TypeOK
<1>2. WritesOwnProgress(w) /\ ConclusionKept(w) /\ BodyBehindRun(w)
      /\ body # Corrupt /\ faults["tamper"] = 0
  BY DEF SoleWriterInv
<1>3. IsCheckpoint(body) /\ body.lastCompletedPage <= intended[w].lastCompletedPage
  BY <1>1, <1>2 DEF BodyBehindRun, NotAhead, Cursor
<1>4. body \in Checkpoint /\ intended[w] \in Checkpoint
  BY <1>1, <1>3, BodyType, IntendedType
<1>5. /\ body.lastCompletedPage \in Nat /\ intended[w].lastCompletedPage \in Nat
      /\ body.status \in CheckpointStatuses /\ intended[w].status \in CheckpointStatuses
  BY <1>4 DEF Checkpoint
<1>6. m.lastCompletedPage = intended[w].lastCompletedPage
  BY <1>3, <1>4, <1>5, MergeFields DEF Merged, Larger
<1>7. intended[w].status = "complete" => m.status = "complete"
  <2> SUFFICES ASSUME intended[w].status = "complete" PROVE m.status = "complete"
    OBVIOUS
  <2>1. statusRank["complete"] >= statusRank[body.status]
    BY <1>5 DEF statusRank, CheckpointStatuses
  <2>2. AtLeast(intended[w], body)
    BY <1>3, <1>5, <2>1 DEF AtLeast
  <2> QED
    BY <1>3, <1>4, <2>2, MergeFields DEF Merged, PickHigherProgress
<1> HIDE DEF m
<1>8. WritesOwnProgress(w)'
  BY <1>1, <1>2, <1>6, <1>7 DEF WritesOwnProgress
<1>9. NotAhead(w)'
  BY <1>1, <1>3, <1>6 DEF NotAhead, Cursor, IsCheckpoint
<1>10. BodyBehindRun(w)'
  BY <1>9 DEF BodyBehindRun
<1>11. Current(casEtag[w])'
  BY <1>1, <1>3, StoreAssumption DEF Current, IsCheckpoint, TypeOK
<1>12. ConclusionKept(w)'
  BY <1>1, <1>2, <1>11 DEF ConclusionKept
<1> QED
  BY <1>1, <1>2, <1>8, <1>10, <1>12, SoleWriterStep

\* Every step keeps the body behind the one run.
LEMMA NextSole ==
  ASSUME OneWriter, TypeOK, CASInv, SoleWriterInv, [Next]_vars
  PROVE  SoleWriterInv'
<1>0. body # Corrupt /\ faults["tamper"] = 0
  BY DEF SoleWriterInv
<1>1. ASSUME NEW w \in Writers, StopRun(w) PROVE SoleWriterInv'
  <2>1. pc'[w] = "idle" /\ ~concluded'[w] /\ body' = body
    BY <1>1 DEF StopRun, Unconcluded, object, TypeOK
  <2>2. faults'["tamper"] = 0
    BY <1>1, StaysUntampered DEF StopRun
  <2>3. BodyBehindRun(w)' /\ WritesOwnProgress(w)' /\ ConclusionKept(w)'
    BY <2>1 DEF BodyBehindRun, WritesOwnProgress, ConclusionKept
  <2> QED
    BY <1>0, <2>1, <2>2, <2>3, SoleWriterStep
<1>2. ASSUME NEW w \in Writers, PutErrors(w) \/ RereadErrors(w) PROVE SoleWriterInv'
  <2>1. /\ pc[w] \in {"put", "reread"} /\ FailWrite(w) /\ UNCHANGED object
        /\ Fault("error")
    BY <1>2 DEF PutErrors, RereadErrors
  <2>2. ~concluded'[w]
    BY <1>2 DEF PutErrors, RereadErrors, Unconcluded, TypeOK
  <2> QED
    BY <2>1, <2>2, StaysUntampered, FailSole
<1>3. ASSUME NEW w \in Writers, Reread(w), NextRound(round[w]) = MAX_CAS_ROUNDS
      PROVE  SoleWriterInv'
  <2>1. pc[w] = "reread" /\ FailWrite(w) /\ UNCHANGED <<object, concluded, faults>>
    BY <1>3 DEF Reread
  <2>2. RetriesOnce => round[w] > 0
    BY <1>3, StoreAssumption DEF RetriesOnce, NextRound, TypeOK
  <2>3. RetriesOnce /\ concluded'[w] => concluded[w] /\ RecordedComplete
    BY <2>1, <2>2 DEF SoleWriterInv, ConclusionKept
  <2> QED
    BY <1>0, <2>1, <2>3, FailSole
<1>4. CASE UNCHANGED vars
  BY <1>4
  DEF vars, object, loop, call, SoleWriterInv, BodyBehindRun, WritesOwnProgress,
      ConclusionKept, NotAhead, Cursor, Current, RecordedComplete, IsCheckpoint
<1>5. ~Tamper
  BY <1>0, FaultKindsKnown DEF Tamper, Fault, TypeOK
<1> QED
  BY <1>1, <1>2, <1>3, <1>4, <1>5, StartSole, BeginSole, LandSole, RefusedSole,
     RetrySole
  DEF Next, WriterStep

\* The body stays behind the one run in every reachable state.
LEMMA AlwaysSole ==
  ASSUME OneWriter, Untampered
  PROVE  Spec => [](TypeOK /\ CASInv /\ SoleWriterInv)
<1>1. Init => TypeOK /\ CASInv /\ SoleWriterInv
  <2> SUFFICES ASSUME Init PROVE TypeOK /\ CASInv /\ SoleWriterInv
    OBVIOUS
  <2>1. CASInv
    BY StoreAssumption
    DEF Init, CASInv, EtagsIssued, RetriesConditional, RetriesMerged, Retrying
  <2>2. body # Corrupt /\ faults["tamper"] = 0
    BY StoreAssumption DEF Init, Untampered
  <2>3. \A w \in Writers : pc[w] = "idle" /\ ~concluded[w]
    BY DEF Init
  <2> QED
    BY <2>1, <2>2, <2>3, InitTypeOK
    DEF SoleWriterInv, BodyBehindRun, WritesOwnProgress, ConclusionKept
<1>2. TypeOK /\ CASInv /\ SoleWriterInv /\ [Next]_vars
        => (TypeOK /\ CASInv /\ SoleWriterInv)'
  BY NextTypeOK, NextCASInv, NextSole
<1> QED
  BY <1>1, <1>2, PTL DEF Spec

\* One process at a time, a run that issued its final checkpoint leaves a
\* complete checkpoint behind, even when the answers to its PUTs were lost and
\* its earlier page checkpoints failed (the retry of write merges with the body
\* and takes its ETag).
THEOREM ConclusionIsRecorded ==
  ASSUME OneWriter, Untampered, RetriesOnce
  PROVE  Spec => []FinishedRunIsRecorded
<1>1. SoleWriterInv => FinishedRunIsRecorded
  BY DEF SoleWriterInv, ConclusionKept, RecordedComplete, FinishedRunIsRecorded
<1> QED
  BY <1>1, AlwaysSole, PTL

\* One process at a time, the persisted cursor of an unfinished pass never
\* decreases, with conditional writes or without them (a run starts from
\* resumeFrom and writes nothing that is behind it).
THEOREM OneWriterNeverClobbers ==
  ASSUME OneWriter, Untampered
  PROVE  Spec => NeverClobbered
<1>1. TypeOK /\ CASInv /\ SoleWriterInv /\ [Next]_vars
        => [IsCheckpoint(body) /\ IsCheckpoint(body') /\ body.status = "running"
              => body'.lastCompletedPage >= body.lastCompletedPage]_vars
  <2> SUFFICES ASSUME TypeOK, SoleWriterInv, Next,
                      IsCheckpoint(body), body.status = "running"
               PROVE  body'.lastCompletedPage >= body.lastCompletedPage
    OBVIOUS
  <2>1. body.lastCompletedPage \in Nat
    BY BodyType DEF Checkpoint
  <2>2. ASSUME NEW w \in Writers, PutLands(w) \/ PutLandsUnanswered(w)
        PROVE  body'.lastCompletedPage >= body.lastCompletedPage
    <3>1. pc[w] = "put" /\ body' = intended[w]
      BY <2>2 DEF PutLands, PutLandsUnanswered, Land
    <3>2. body.lastCompletedPage <= intended[w].lastCompletedPage
      BY <3>1 DEF SoleWriterInv, BodyBehindRun, NotAhead, Cursor
    <3>3. intended[w].lastCompletedPage \in Nat
      BY <3>1, IntendedType DEF Checkpoint
    <3> QED
      BY <2>1, <3>1, <3>2, <3>3
  <2>3. ~Tamper
    BY FaultKindsKnown DEF Tamper, Fault, TypeOK, SoleWriterInv
  <2>4. CASE body' = body
    BY <2>1, <2>4
  <2> QED
    BY <2>2, <2>3, <2>4
    DEF Next, WriterStep, StartRun, CompletePage, FinishRun, StopRun, PutErrors,
        PutRefused, Reread, RereadErrors, FailWrite, ReturnFromWrite, object
<1> QED
  BY <1>1, AlwaysSole, PTL DEF Spec, NeverClobbered
-----------------------------------------------------------------------------
(* One process at a time, its writes are writes to a cell.  A write is     *)
(* seen once its checkpoint is what the object holds, so a repeated PUT    *)
(* and a retry that merges with the run's own body change nothing.         *)

\* The body is a page checkpoint.
PageRecorded == IsCheckpoint(body) /\ body.status = "running"

\* A write in progress is of a page checkpoint or of a final one, as it set out;
\* and while a page is written or gathered, a body whose ETag the run does not
\* hold is a page checkpoint.
OwnStatus(w) ==
  /\ IsCheckpoint(body) => body.status \in {"running", "complete"}
  /\ Writing(w) => intended[w].status = (IF final[w] THEN "complete" ELSE "running")
  /\ pc[w] = "run" /\ ~Current(etag[w]) => PageRecorded
  /\ Writing(w) /\ ~final[w] =>
       /\ ~Current(etag[w]) => PageRecorded
       /\ pc[w] = "put" /\ ~Current(casEtag[w]) => PageRecorded
       /\ pc[w] = "reread" => PageRecorded

CellInv == SoleWriterInv /\ \A w \in Writers : OwnStatus(w)

\* With one process, what holds of the process that moves holds of all.
LEMMA OwnStatusStep ==
  ASSUME OneWriter, NEW w \in Writers, OwnStatus(w)'
  PROVE  \A v \in Writers : OwnStatus(v)'
<1>1. \A v \in Writers : v = w
  BY DEF OneWriter
<1> QED
  BY <1>1

\* A PUT that lands leaves what was intended, whether its answer arrives, is
\* lost with the write, or is lost and the request repeated.
LEMMA LandStatus ==
  ASSUME OneWriter, TypeOK, CASInv, CellInv, NEW w \in Writers,
         PutLands(w) \/ PutLandsUnanswered(w)
  PROVE  OwnStatus(w)'
<1>1. /\ pc[w] = "put" /\ body' = intended[w] /\ UNCHANGED <<intended, final>>
      /\ IsCheckpoint(intended[w])
  BY DEF PutLands, PutLandsUnanswered, Land, FailWrite, ReturnFromWrite, call, TypeOK
<1>2. intended[w].status = (IF final[w] THEN "complete" ELSE "running")
  BY <1>1 DEF CellInv, OwnStatus, Writing
<1>3. IsCheckpoint(body)' /\ (~final[w] => PageRecorded')
  BY <1>1, <1>2 DEF IsCheckpoint, PageRecorded
<1>4. pc'[w] = "run" => ~final[w]
  BY <1>1 DEF PutLands, PutLandsUnanswered, FailWrite, ReturnFromWrite, TypeOK
<1> QED
  BY <1>1, <1>2, <1>3, <1>4 DEF OwnStatus, Writing

\* A write that gives up leaves the body and the ETag of the run as they were.
LEMMA FailStatus ==
  ASSUME TypeOK, CellInv, NEW w \in Writers, Writing(w), FailWrite(w),
         UNCHANGED object
  PROVE  OwnStatus(w)'
<1>1. /\ pc'[w] = (IF final[w] THEN "idle" ELSE "run")
      /\ etag'[w] = etag[w] /\ UNCHANGED <<body, version>>
  BY DEF FailWrite, ReturnFromWrite, object, TypeOK
<1>2. OwnStatus(w)
  BY DEF CellInv
<1>3. PageRecorded' <=> PageRecorded
  BY <1>1 DEF PageRecorded, IsCheckpoint
<1>4. Current(etag[w])' <=> Current(etag[w])
  BY <1>1 DEF Current
<1> QED
  BY <1>1, <1>2, <1>3, <1>4 DEF OwnStatus, Writing, IsCheckpoint

\* A retry of a page checkpoint is merged with a page checkpoint, and no status
\* outranks that of a final one.
LEMMA RetryStatus ==
  ASSUME OneWriter, TypeOK, CellInv, NEW w \in Writers,
         Reread(w), NextRound(round[w]) # MAX_CAS_ROUNDS
  PROVE  /\ OwnStatus(w)'
         /\ intended'[w].status = intended[w].status
         /\ intended'[w].lastCompletedPage = intended[w].lastCompletedPage
<1> DEFINE m == Merged(intended[w])
<1>1. /\ pc[w] = "reread" /\ pc'[w] = "put" /\ intended'[w] = m
      /\ casEtag'[w] = (IF IsCheckpoint(body) THEN version ELSE NoEtag)
      /\ UNCHANGED <<body, version, etag, final>>
  BY DEF Reread, object, loop, TypeOK
<1>2. OwnStatus(w) /\ NotAhead(w)
  BY <1>1 DEF CellInv, SoleWriterInv, BodyBehindRun
<1>3. IsCheckpoint(body) /\ body.lastCompletedPage <= intended[w].lastCompletedPage
  BY <1>1, <1>2 DEF NotAhead, Cursor
<1>4. body \in Checkpoint /\ intended[w] \in Checkpoint
  BY <1>1, <1>3, BodyType, IntendedType
<1>5. /\ body.lastCompletedPage \in Nat /\ intended[w].lastCompletedPage \in Nat
      /\ body.status \in CheckpointStatuses /\ intended[w].status \in CheckpointStatuses
  BY <1>4 DEF Checkpoint
<1>6. m.lastCompletedPage = intended[w].lastCompletedPage
  BY <1>3, <1>4, <1>5, MergeFields DEF Merged, Larger
<1>7. statusRank[intended[w].status] >= statusRank[body.status]
  BY <1>1, <1>2, <1>5 DEF OwnStatus, Writing, PageRecorded, statusRank, CheckpointStatuses
<1>8. AtLeast(intended[w], body)
  BY <1>3, <1>5, <1>7 DEF AtLeast
<1>9. m.status = intended[w].status
  BY <1>3, <1>4, <1>8, MergeFields DEF Merged, PickHigherProgress
<1> HIDE DEF m
<1>10. Current(casEtag[w])'
  BY <1>1, <1>3, StoreAssumption DEF Current, IsCheckpoint, TypeOK
<1>11. PageRecorded' <=> PageRecorded
  BY <1>1 DEF PageRecorded, IsCheckpoint
<1>12. Current(etag[w])' <=> Current(etag[w])
  BY <1>1 DEF Current
<1>13. OwnStatus(w)'
  BY <1>1, <1>2, <1>3, <1>9, <1>10, <1>11, <1>12 DEF OwnStatus, Writing, IsCheckpoint
<1> QED
  BY <1>1, <1>6, <1>9, <1>13

\* Every step keeps the statuses what they are.
LEMMA NextStatus ==
  ASSUME OneWriter, TypeOK, CASInv, CellInv, [Next]_vars
  PROVE  \A w \in Writers : OwnStatus(w)'
<1>1. ASSUME NEW w \in Writers, StartRun(w) PROVE OwnStatus(w)'
  <2>1. /\ pc'[w] = "run" /\ UNCHANGED <<body, version>>
        /\ etag'[w] = (IF IsCheckpoint(body) THEN version ELSE NoEtag)
    BY <1>1 DEF StartRun, object, TypeOK
  <2>2. Current(etag[w])'
    BY <2>1, StoreAssumption DEF Current, IsCheckpoint, TypeOK, CellInv, SoleWriterInv
  <2> QED
    BY <2>1, <2>2 DEF CellInv, OwnStatus, Writing, IsCheckpoint
<1>2. ASSUME NEW w \in Writers, CompletePage(w) \/ FinishRun(w) PROVE OwnStatus(w)'
  <2>1. /\ pc[w] = "run" /\ pc'[w] = "put" /\ casEtag'[w] = etag[w]
        /\ UNCHANGED <<body, version, etag>>
        /\ intended'[w].status = (IF final'[w] THEN "complete" ELSE "running")
    BY <1>2 DEF CompletePage, FinishRun, BeginWrite, BuildCheckpoint, object, TypeOK
  <2>2. ~Current(etag[w]) => PageRecorded
    BY <2>1 DEF CellInv, OwnStatus
  <2> QED
    BY <2>1, <2>2 DEF CellInv, OwnStatus, Writing, Current, PageRecorded, IsCheckpoint
<1>3. ASSUME NEW w \in Writers, StopRun(w) PROVE OwnStatus(w)'
  <2>1. pc'[w] = "idle" /\ body' = body
    BY <1>3 DEF StopRun, object, TypeOK
  <2> QED
    BY <2>1 DEF CellInv, OwnStatus, Writing, IsCheckpoint
<1>4. ASSUME NEW w \in Writers, PutErrors(w) \/ RereadErrors(w) PROVE OwnStatus(w)'
  BY <1>4, FailStatus DEF PutErrors, RereadErrors, Writing
<1>5. ASSUME NEW w \in Writers, PutRefused(w) PROVE OwnStatus(w)'
  <2>1. /\ pc[w] = "put" /\ pc'[w] = "reread"
        /\ UNCHANGED <<body, version, etag, intended, final>>
    BY <1>5 DEF PutRefused, object, loop, call, TypeOK
  <2>2. ~ConditionHolds(w)
    BY <1>5 DEF PutRefused, OneWriter
  <2>3. ~Current(casEtag[w])
    BY <2>2 DEF ConditionHolds, Current
  <2> QED
    BY <2>1, <2>3 DEF CellInv, OwnStatus, Writing, Current, PageRecorded, IsCheckpoint
<1>6. ASSUME NEW w \in Writers, Reread(w) PROVE OwnStatus(w)'
  BY <1>6, RetryStatus, FailStatus DEF Reread, Writing
<1>7. ASSUME NEW w \in Writers, UNCHANGED vars PROVE OwnStatus(w)'
  BY <1>7
  DEF CellInv, OwnStatus, Writing, Current, PageRecorded, IsCheckpoint,
      vars, object, loop, call
<1>8. ~Tamper
  BY FaultKindsKnown DEF Tamper, Fault, TypeOK, CellInv, SoleWriterInv
<1> QED
  BY <1>1, <1>2, <1>3, <1>4, <1>5, <1>6, <1>7, <1>8, LandStatus, OwnStatusStep
  DEF Next, WriterStep
-----------------------------------------------------------------------------
(* Every step of the one process is a step of the cell or is not seen.     *)

\* A run is live or not.
LEMMA AliveIsBoolean ==
  ASSUME NEW w
  PROVE  Alive(w) \in BOOLEAN /\ Alive(w)' \in BOOLEAN
  BY DEF Alive

\* The one process is the one that is seen.
LEMMA SoleIsOne ==
  ASSUME OneWriter
  PROVE  Sole \in Writers /\ \A w \in Writers : w = Sole
  BY DEF OneWriter, Sole

\* What a checkpoint is to the cell.
Shown(c) == [status |-> c.status, last |-> c.lastCompletedPage]

\* A write that has taken effect is the one the object shows, and it tells page
\* checkpoints from final ones.
LEMMA LandedShown ==
  ASSUME CellInv, NEW w \in Writers, Writing(w)
  PROVE  /\ Landed(w) => shownCheckpoint = Shown(intended[w])
         /\ IsCheckpoint(body) /\ body = intended[w] => Landed(w)
         /\ Shown(intended[w]) = IF final[w]
                                   THEN [status |-> "complete", last |-> last[w]]
                                   ELSE [status |-> "running", last |-> last[w] + 1]
<1>1. /\ intended[w].status = (IF final[w] THEN "complete" ELSE "running")
      /\ intended[w].lastCompletedPage = (IF final[w] THEN last[w] ELSE last[w] + 1)
  BY DEF CellInv, OwnStatus, SoleWriterInv, WritesOwnProgress, Writing
<1> QED
  BY <1>1 DEF Landed, shownCheckpoint, Shown

\* A run that starts takes its cursor from what is persisted.
LEMMA StartCell ==
  ASSUME OneWriter, TypeOK, CellInv, StartRun(Sole)
  PROVE  Cell!Start
<1> DEFINE w == Sole
<1>0. w \in Writers
  BY SoleIsOne
<1>1. /\ pc[w] = "idle" /\ pc'[w] = "run" /\ body' = body
      /\ last'[w] = (IF Resumes THEN resumeFrom(body) - 1 ELSE 0)
  BY <1>0 DEF StartRun, object, TypeOK
<1>2. ~Alive(w) /\ Alive(w)' /\ ~Landed(w)'
  BY <1>1 DEF Alive, Landed, Writing
<1>3. IsCheckpoint(body) => body.lastCompletedPage \in Nat
  BY BodyType DEF Checkpoint
<1>4. IsCheckpoint(body) => (body.status # "complete" <=> body.status = "running")
  BY <1>0 DEF CellInv, OwnStatus
<1>5. last'[w] = IF shownCheckpoint.status = "running" THEN shownCheckpoint.last ELSE 0
  BY <1>1, <1>3, <1>4 DEF Resumes, resumeFrom, shownCheckpoint
<1>6. shownCheckpoint' = shownCheckpoint
  BY <1>1 DEF shownCheckpoint, IsCheckpoint
<1>7. shownCursor(w)' = last'[w]
  BY <1>2 DEF shownCursor
<1> QED
  BY <1>2, <1>5, <1>6, <1>7 DEF Cell!Start

\* A page write that sets out has not taken effect: the run is not behind a page
\* checkpoint.
LEMMA BeginCell ==
  ASSUME OneWriter, TypeOK, CellInv, CompletePage(Sole)
  PROVE  UNCHANGED Cell!vars
<1> DEFINE w == Sole
<1>0. w \in Writers
  BY SoleIsOne
<1>1. /\ pc[w] = "run" /\ pc'[w] = "put" /\ body' = body /\ last'[w] = last[w]
      /\ ~final'[w] /\ last[w] \in Nat
      /\ intended'[w].lastCompletedPage = last[w] + 1 /\ intended'[w].status = "running"
  BY <1>0 DEF CompletePage, BeginWrite, BuildCheckpoint, PageCursor, object, TypeOK
<1>2. PageRecorded => body.lastCompletedPage <= last[w]
  BY <1>0, <1>1 DEF CellInv, SoleWriterInv, BodyBehindRun, NotAhead, Cursor, PageRecorded
<1>3. IsCheckpoint(body) => body.lastCompletedPage \in Nat
  BY BodyType DEF Checkpoint
<1>4. ~Landed(w)'
  BY <1>1, <1>2, <1>3 DEF Landed, PageRecorded, IsCheckpoint
<1>5. ~Landed(w) /\ Alive(w) /\ Alive(w)'
  BY <1>1, <1>4 DEF Alive, Landed, Writing
<1>6. shownCheckpoint' = shownCheckpoint
  BY <1>1 DEF shownCheckpoint, IsCheckpoint
<1> QED
  BY <1>1, <1>4, <1>5, <1>6 DEF Cell!vars, shownCursor

\* A final write that sets out is not seen either, unless the object holds just
\* such a checkpoint already: then the run is over.
LEMMA FinishCell ==
  ASSUME OneWriter, TypeOK, CellInv, FinishRun(Sole)
  PROVE  Cell!End \/ UNCHANGED Cell!vars
<1> DEFINE w == Sole
<1>0. w \in Writers
  BY SoleIsOne
<1>1. /\ pc[w] = "run" /\ pc'[w] = "put" /\ body' = body /\ last'[w] = last[w] /\ final'[w]
  BY <1>0 DEF FinishRun, BeginWrite, object, loop, TypeOK
<1>2. ~Landed(w) /\ Alive(w)
  BY <1>1 DEF Alive, Landed, Writing
<1>3. Alive(w)' <=> ~Landed(w)'
  BY <1>1 DEF Alive
<1>4. shownCheckpoint' = shownCheckpoint
  BY <1>1 DEF shownCheckpoint, IsCheckpoint
<1> QED
  BY <1>1, <1>2, <1>3, <1>4, AliveIsBoolean DEF Cell!vars, Cell!End, Cell!Write, shownCursor

\* A write that ends has taken effect now, before or never; a page is complete
\* with it, or the run is over.
LEMMA ReturnCell ==
  ASSUME OneWriter, TypeOK, CellInv, Writing(Sole), NEW e, ReturnFromWrite(Sole, e),
         shownCheckpoint' \in {shownCheckpoint, Shown(intended[Sole])}
  PROVE  Cell!CompletePage \/ Cell!End \/ UNCHANGED Cell!vars
<1> DEFINE w == Sole
<1>0. w \in Writers
  BY SoleIsOne
<1>1. /\ pc'[w] = (IF final[w] THEN "idle" ELSE "run")
      /\ last'[w] = (IF final[w] THEN last[w] ELSE last[w] + 1)
  BY <1>0 DEF ReturnFromWrite, TypeOK
<1>2. ~Landed(w)' /\ (Alive(w)' <=> ~final[w])
  BY <1>1 DEF Alive, Landed, Writing
<1>3. Alive(w) <=> ~(Landed(w) /\ final[w])
  BY DEF Alive, Writing
<1>4. Landed(w) => shownCheckpoint' = shownCheckpoint
  BY <1>0, LandedShown
<1>5. Shown(intended[w]) = IF final[w] THEN [status |-> "complete", last |-> last[w]]
                                       ELSE [status |-> "running", last |-> last[w] + 1]
  BY <1>0, LandedShown
<1>6. CASE Landed(w)
  BY <1>1, <1>2, <1>3, <1>4, <1>6, AliveIsBoolean DEF Cell!vars, shownCursor
<1>7. CASE ~Landed(w) /\ final[w]
  <2>1. shownCursor(w) = last[w] /\ shownCursor(w)' = 0
    BY <1>2, <1>3, <1>7 DEF shownCursor
  <2> QED
    BY <1>2, <1>3, <1>5, <1>7, <2>1 DEF Cell!End, Cell!Write
<1>8. CASE ~Landed(w) /\ ~final[w]
  <2>1. shownCursor(w) = last[w] /\ shownCursor(w)' = last[w] + 1
    BY <1>1, <1>2, <1>3, <1>8 DEF shownCursor
  <2> QED
    BY <1>2, <1>3, <1>5, <1>8, <2>1 DEF Cell!CompletePage, Cell!Write
<1> QED
  BY <1>6, <1>7, <1>8

\* A PUT that lands takes effect, unless an earlier one of the same write has.
LEMMA LandCell ==
  ASSUME OneWriter, TypeOK, CellInv, PutLands(Sole) \/ PutLandsUnanswered(Sole)
  PROVE  Cell!CompletePage \/ Cell!End \/ UNCHANGED Cell!vars
<1> DEFINE w == Sole
<1>0. w \in Writers
  BY SoleIsOne
<1>1. pc[w] = "put" /\ Writing(w) /\ body' = intended[w] /\ IsCheckpoint(intended[w])
  BY <1>0 DEF PutLands, PutLandsUnanswered, Land, Writing, TypeOK
<1>2. shownCheckpoint' = Shown(intended[w])
  BY <1>1 DEF shownCheckpoint, Shown, IsCheckpoint
<1>3. CASE UNCHANGED <<pc, loop, etag, call, ingested>>
  <2>1. UNCHANGED <<pc, last, intended, final>>
    BY <1>3 DEF loop, call
  <2>2. Landed(w)'
    BY <1>1, <2>1 DEF Landed, Writing, IsCheckpoint
  <2>3. Alive(w)' <=> ~final[w]
    BY <1>1, <2>1, <2>2 DEF Alive
  <2>4. Alive(w) <=> ~(Landed(w) /\ final[w])
    BY <1>1 DEF Alive
  <2>5. /\ Landed(w) => shownCheckpoint = Shown(intended[w])
        /\ Shown(intended[w]) = IF final[w] THEN [status |-> "complete", last |-> last[w]]
                                       ELSE [status |-> "running", last |-> last[w] + 1]
    BY <1>0, <1>1, LandedShown
  <2>6. CASE Landed(w)
    BY <1>2, <2>1, <2>2, <2>3, <2>4, <2>5, <2>6, AliveIsBoolean DEF Cell!vars, shownCursor
  <2>7. CASE ~Landed(w) /\ final[w]
    <3>1. shownCursor(w) = last[w] /\ shownCursor(w)' = 0
      BY <2>3, <2>4, <2>7 DEF shownCursor
    <3> QED
      BY <1>2, <2>3, <2>4, <2>5, <2>7, <3>1 DEF Cell!End, Cell!Write
  <2>8. CASE ~Landed(w) /\ ~final[w]
    <3>1. shownCursor(w) = last[w] /\ shownCursor(w)' = last[w] + 1
      BY <2>1, <2>2, <2>3, <2>4, <2>8 DEF shownCursor
    <3> QED
      BY <1>2, <2>3, <2>4, <2>5, <2>8, <3>1 DEF Cell!CompletePage, Cell!Write
  <2> QED
    BY <2>6, <2>7, <2>8
<1>4. CASE ReturnFromWrite(w, version + 1) \/ ReturnFromWrite(w, etag[w])
  BY <1>1, <1>2, <1>4, ReturnCell
<1> QED
  BY <1>3, <1>4 DEF PutLands, PutLandsUnanswered, FailWrite

\* A process that stops is over, whatever its write left behind.
LEMMA StopCell ==
  ASSUME OneWriter, TypeOK, CellInv, StopRun(Sole)
  PROVE  Cell!End \/ UNCHANGED Cell!vars
<1> DEFINE w == Sole
<1>0. w \in Writers
  BY SoleIsOne
<1>1. pc'[w] = "idle" /\ body' = body
  BY <1>0 DEF StopRun, object, TypeOK
<1>2. ~Alive(w)' /\ shownCheckpoint' = shownCheckpoint /\ shownCursor(w)' = 0
  BY <1>1 DEF Alive, shownCheckpoint, shownCursor, IsCheckpoint
<1>3. ~Alive(w) => shownCursor(w) = 0
  BY DEF shownCursor
<1> QED
  BY <1>2, <1>3, AliveIsBoolean DEF Cell!End, Cell!Write, Cell!vars

\* A refused PUT and a retry are not seen: what is written stays what it is.
LEMMA RetryCell ==
  ASSUME OneWriter, TypeOK, CellInv,
         \/ PutRefused(Sole)
         \/ Reread(Sole) /\ NextRound(round[Sole]) # MAX_CAS_ROUNDS
  PROVE  UNCHANGED Cell!vars
<1> DEFINE w == Sole
<1>0. w \in Writers
  BY SoleIsOne
<1>1. Writing(w) /\ Writing(w)' /\ body' = body /\ last' = last /\ final' = final
  BY <1>0 DEF PutRefused, Reread, Writing, object, loop, call, TypeOK
<1>2. /\ intended'[w].status = intended[w].status
      /\ intended'[w].lastCompletedPage = intended[w].lastCompletedPage
  BY <1>0, RetryStatus DEF PutRefused, call
<1>3. Landed(w)' <=> Landed(w)
  BY <1>1, <1>2 DEF Landed, IsCheckpoint
<1>4. Alive(w)' <=> Alive(w)
  BY <1>1, <1>3 DEF Alive, Writing
<1>5. shownCheckpoint' = shownCheckpoint
  BY <1>1 DEF shownCheckpoint, IsCheckpoint
<1> QED
  BY <1>1, <1>3, <1>4, <1>5, AliveIsBoolean DEF Cell!vars, shownCursor

\* A step of the store is a step of the cell or is not seen.
LEMMA NextCell ==
  ASSUME OneWriter, TypeOK, CellInv, [Next]_vars
  PROVE  [Cell!Next]_(Cell!vars)
<1>1. CASE \/ PutErrors(Sole) \/ RereadErrors(Sole)
           \/ Reread(Sole) /\ NextRound(round[Sole]) = MAX_CAS_ROUNDS
  <2>1. Writing(Sole) /\ FailWrite(Sole) /\ body' = body
    BY <1>1 DEF PutErrors, RereadErrors, Reread, Writing, object
  <2>2. shownCheckpoint' = shownCheckpoint
    BY <2>1 DEF shownCheckpoint, IsCheckpoint
  <2> QED
    BY <2>1, <2>2, ReturnCell DEF FailWrite, Cell!Next
<1>2. CASE UNCHANGED vars
  BY <1>2
  DEF vars, object, loop, call, Cell!vars, shownCheckpoint, shownCursor, Alive, Landed,
      Writing, IsCheckpoint
<1>3. ~Tamper
  BY FaultKindsKnown DEF Tamper, Fault, TypeOK, CellInv, SoleWriterInv
<1>4. CASE StartRun(Sole) \/ CompletePage(Sole) \/ FinishRun(Sole) \/ StopRun(Sole)
  BY <1>4, StartCell, BeginCell, FinishCell, StopCell DEF Cell!Next
<1>5. CASE PutLands(Sole) \/ PutLandsUnanswered(Sole)
  BY <1>5, LandCell DEF Cell!Next
<1>6. CASE \/ PutRefused(Sole)
           \/ Reread(Sole) /\ NextRound(round[Sole]) # MAX_CAS_ROUNDS
  BY <1>6, RetryCell
<1>7. WriterStep(Sole) \/ StopRun(Sole) \/ UNCHANGED vars
  BY <1>3, SoleIsOne DEF Next
<1> QED
  BY <1>1, <1>2, <1>4, <1>5, <1>6, <1>7 DEF WriterStep

\* One process at a time, the conditional writes implement the cell the page
\* loop takes them for: whatever answers are lost, requests repeated, rounds
\* lost and processes stopped, a write takes effect once or not at all, and the
\* next run goes on from there.
THEOREM ImplementsCell ==
  ASSUME OneWriter, Untampered
  PROVE  Spec => CellSpec
<1>1. Init => Cell!Init /\ \A w \in Writers : OwnStatus(w)
  <2> SUFFICES ASSUME Init PROVE Cell!Init /\ \A w \in Writers : OwnStatus(w)
    OBVIOUS
  <2>1. body = Absent /\ \A w \in Writers : pc[w] = "idle"
    BY DEF Init
  <2>2. shownCheckpoint = Cell!Missing /\ ~Alive(Sole) /\ shownCursor(Sole) = 0
    BY <2>1, SoleIsOne DEF shownCheckpoint, Cell!Missing, Alive, shownCursor, IsCheckpoint
  <2>3. Cell!Init
    BY <2>2, AliveIsBoolean DEF Cell!Init
  <2> QED
    BY <2>1, <2>3 DEF OwnStatus, Writing, IsCheckpoint
<1>2. TypeOK /\ CASInv /\ SoleWriterInv /\ (\A w \in Writers : OwnStatus(w)) /\ [Next]_vars
        => (\A w \in Writers : OwnStatus(w))'
  BY NextStatus DEF CellInv
<1>3. TypeOK /\ SoleWriterInv /\ (\A w \in Writers : OwnStatus(w)) /\ [Next]_vars
        => [Cell!Next]_(Cell!vars)
  BY NextCell DEF CellInv
<1> QED
  BY <1>1, <1>2, <1>3, AlwaysSole, PTL DEF Spec, CellSpec, Cell!Spec
-----------------------------------------------------------------------------
(* A write call runs out of steps: two of each round, and one more of each *)
(* answer that may still be lost.                                          *)

CallStepsLeft(w) ==
  2 * (MAX_CAS_ROUNDS - round[w]) + (IF pc[w] = "put" THEN 1 ELSE 0) + faults["lost"]

\* What is left of a call is a natural number.
LEMMA CallStepsLeftType ==
  ASSUME TypeOK, NEW w \in Writers
  PROVE  CallStepsLeft(w) \in Nat
<1>1. /\ round[w] \in Nat /\ MAX_CAS_ROUNDS \in Nat /\ round[w] < MAX_CAS_ROUNDS
      /\ faults["lost"] \in Nat
  BY StoreAssumption, FaultKindsKnown DEF TypeOK
<1> QED
  BY <1>1 DEF CallStepsLeft

\* A step of the process in its call returns, or leaves it less to do.
LEMMA OwnStepLowers ==
  ASSUME TypeOK, NEW w \in Writers, Writing(w), Writing(w)', WriterStep(w)
  PROVE  CallStepsLeft(w)' < CallStepsLeft(w) /\ CallStepsLeft(w)' <= CallStepsLeft(w)
<1>1. /\ round[w] \in Nat /\ MAX_CAS_ROUNDS \in Nat /\ faults["lost"] \in Nat
      /\ pc[w] \in {"put", "reread"} /\ pc'[w] \in {"put", "reread"}
  BY StoreAssumption, FaultKindsKnown DEF TypeOK, Writing
<1>2. ASSUME NEW e, ReturnFromWrite(w, e) PROVE FALSE
  <2>1. pc'[w] \in {"idle", "run"}
    BY <1>2 DEF ReturnFromWrite, TypeOK
  <2> QED
    BY <1>1, <2>1
<1>3. CASE PutLandsUnanswered(w)
  <2>1. /\ UNCHANGED <<pc, round>> /\ faults' = [faults EXCEPT !["lost"] = @ - 1]
    BY <1>2, <1>3 DEF PutLandsUnanswered, FailWrite, call, Fault
  <2>2. faults'["lost"] = faults["lost"] - 1
    BY <2>1, FaultKindsKnown DEF TypeOK
  <2> QED
    BY <1>1, <2>1, <2>2 DEF CallStepsLeft
<1>4. CASE PutRefused(w)
  <2>1. pc[w] = "put" /\ pc'[w] = "reread" /\ UNCHANGED <<round, faults>>
    BY <1>4 DEF PutRefused, call, TypeOK
  <2> QED
    BY <1>1, <2>1 DEF CallStepsLeft
<1>5. CASE Reread(w)
  <2>1. /\ pc[w] = "reread" /\ pc'[w] = "put" /\ round'[w] = round[w] + 1
        /\ faults' = faults
    BY <1>2, <1>5 DEF Reread, FailWrite, NextRound, TypeOK
  <2> QED
    BY <1>1, <2>1 DEF CallStepsLeft
<1> QED
  BY <1>1, <1>2, <1>3, <1>4, <1>5
  DEF WriterStep, StartRun, CompletePage, FinishRun, PutLands, PutErrors, RereadErrors,
      FailWrite

\* No step of another process, or of whatever tampers, leaves a call more to do.
LEMMA OtherStepKeeps ==
  ASSUME TypeOK, NEW w \in Writers,
         UNCHANGED <<pc[w], round[w]>>, faults' = faults \/ \E k \in FaultKinds : Fault(k)
  PROVE  CallStepsLeft(w)' <= CallStepsLeft(w)
<1>1. /\ round[w] \in Nat /\ MAX_CAS_ROUNDS \in Nat /\ faults["lost"] \in Nat
  BY StoreAssumption, FaultKindsKnown DEF TypeOK
<1>2. faults'["lost"] \in Nat /\ faults'["lost"] <= faults["lost"]
  BY <1>1, FaultKindsKnown DEF Fault, TypeOK
<1> QED
  BY <1>1, <1>2 DEF CallStepsLeft

\* A process's step moves no other process.
LEMMA OthersStay ==
  ASSUME TypeOK, NEW v \in Writers, WriterStep(v) \/ StopRun(v), NEW w \in Writers \ {v}
  PROVE  /\ UNCHANGED <<pc[w], round[w]>>
         /\ faults' = faults \/ \E k \in FaultKinds : Fault(k)
<1>1. UNCHANGED <<pc[w], round[w]>>
  BY DEF WriterStep, StartRun, CompletePage, FinishRun, BeginWrite, StopRun, PutLands,
         PutLandsUnanswered, PutErrors, PutRefused, Reread, RereadErrors, FailWrite,
         ReturnFromWrite, call, TypeOK
<1>2. faults' = faults \/ Fault("lost") \/ Fault("error") \/ Fault("crash")
  BY DEF WriterStep, StartRun, CompletePage, FinishRun, StopRun, PutLands,
         PutLandsUnanswered, PutErrors, PutRefused, Reread, RereadErrors
<1> QED
  BY <1>1, <1>2, FaultKindsKnown

\* Every step of a process in a write call returns from it or leaves it less to
\* do, and no step of another process leaves it more (the bound of the CAS
\* loop): a call makes at most two steps a round and one for each lost answer,
\* so it returns unless its process is never scheduled.
THEOREM WritesRunOut ==
  Spec => /\ [](\A w \in Writers : CallStepsLeft(w) \in Nat)
          /\ [][\A w \in Writers : Writing(w) /\ Writing(w)' =>
                  /\ CallStepsLeft(w)' <= CallStepsLeft(w)
                  /\ WriterStep(w) => CallStepsLeft(w)' < CallStepsLeft(w)]_vars
<1>1. TypeOK => \A w \in Writers : CallStepsLeft(w) \in Nat
  BY CallStepsLeftType
<1>2. TypeOK /\ [Next]_vars
        => [\A w \in Writers : Writing(w) /\ Writing(w)' =>
              /\ CallStepsLeft(w)' <= CallStepsLeft(w)
              /\ WriterStep(w) => CallStepsLeft(w)' < CallStepsLeft(w)]_vars
  <2> SUFFICES ASSUME TypeOK, Next, NEW w \in Writers, Writing(w), Writing(w)'
               PROVE  /\ CallStepsLeft(w)' <= CallStepsLeft(w)
                      /\ WriterStep(w) => CallStepsLeft(w)' < CallStepsLeft(w)
    OBVIOUS
  <2>1. WriterStep(w) => /\ CallStepsLeft(w)' < CallStepsLeft(w)
                         /\ CallStepsLeft(w)' <= CallStepsLeft(w)
    BY OwnStepLowers
  <2>2. ASSUME ~WriterStep(w) PROVE CallStepsLeft(w)' <= CallStepsLeft(w)
    <3>1. ~StopRun(w)
      BY DEF StopRun, Writing, TypeOK
    <3>2. CASE Tamper
      <4>1. UNCHANGED <<pc[w], round[w]>> /\ \E k \in FaultKinds : Fault(k)
        BY <3>2, FaultKindsKnown DEF Tamper, call
      <4> QED
        BY <4>1, OtherStepKeeps
    <3>3. ASSUME NEW v \in Writers \ {w}, WriterStep(v) \/ StopRun(v)
          PROVE  CallStepsLeft(w)' <= CallStepsLeft(w)
      BY <3>3, OthersStay, OtherStepKeeps
    <3> QED
      BY <2>2, <3>1, <3>2, <3>3 DEF Next
  <2> QED
    BY <2>1, <2>2
<1> QED
  BY <1>1, <1>2, TypeCorrect, PTL DEF Spec
=============================================================================
