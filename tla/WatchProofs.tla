----------------------------- MODULE WatchProofs -----------------------------
(***************************************************************************)
(* Proofs about Watch, for any listing, page size, spacing and interval    *)
(* and any number of faults.  The argument: the pacer's age never exceeds  *)
(* the time since the last list read but one, so what it sleeps makes that *)
(* one a spacing old (Spaced); and until the page is ingested each of its  *)
(* rows is still to be looked at, a candidate, staged or excused           *)
(* (Accounted).                                                            *)
(***************************************************************************)
EXTENDS Watch, TLAPS

\* The ages of the list reads, before and after the pacer was called.
Spaced ==
  /\ pc = "floor" => gaps[1] >= age /\ gaps[2] + nap >= Spacing
  /\ pc # "floor" => gaps[2] >= age

\* Where the rows of the page are.
Accounted ==
  /\ pc \in {"floor", "rows", "detail", "ingest"} => ~beat
  /\ pc \in {"rows", "detail", "ingest"} /\ reportOk =>
       page \subseteq staged \cup excused \cup found \cup Range(rows)
  /\ pc = "ingest" /\ reportOk => rows = <<>>
  /\ NothingVanishes

IInv == TypeOK /\ Spaced /\ Accounted

\* Looking at a row takes nothing but that row off the rest of the page.
LEMMA RangeTail ==
  ASSUME NEW s \in Seq(Replays), s # <<>>
  PROVE  /\ Head(s) \in Replays /\ Tail(s) \in Seq(Replays)
         /\ Range(s) \subseteq {Head(s)} \cup Range(Tail(s))
<1>1. Head(s) \in Replays /\ Tail(s) \in Seq(Replays)
  OBVIOUS
<1>2. ASSUME NEW i \in DOMAIN s PROVE s[i] \in {Head(s)} \cup Range(Tail(s))
  <2>1. CASE i = 1
    BY <2>1
  <2>2. CASE i # 1
    <3>1. i - 1 \in DOMAIN Tail(s) /\ Tail(s)[i - 1] = s[i]
      BY <2>2
    <3> QED BY <3>1 DEF Range
  <2> QED BY <2>1, <2>2
<1> QED BY <1>1, <1>2 DEF Range

LEMMA EmptyType == <<>> \in Seq(Replays)
  OBVIOUS

\* Page 1 lists replays.
LEMMA PageOneType ==
  ASSUME listing \in Seq(Replays)
  PROVE  PageOne \in Seq(Replays) /\ Range(PageOne) \subseteq Replays
<1> DEFINE n == Smaller(PageSize, Len(listing))
<1>1. n \in 0 .. Len(listing)
  BY ListingAssumption DEF Smaller
<1>2. PageOne = SubSeq(listing, 1, n)
  BY DEF PageOne
<1> HIDE DEF n
<1>3. PageOne \in Seq(Replays)
  BY <1>1, <1>2
<1> QED BY <1>3 DEF Range

\* A fault that happens leaves a budget.
LEMMA FaultType ==
  ASSUME NEW kind \in FaultKinds, Fault(kind), faults \in [FaultKinds -> Nat]
  PROVE  faults' \in [FaultKinds -> Nat]
  BY DEF Fault

LEMMA InitIInv == Init => IInv
<1> SUFFICES ASSUME Init PROVE IInv
  OBVIOUS
<1>1. TypeOK
  <2>1. /\ nap \in 0 .. Larger(Spacing, Interval) /\ age \in 0 .. Spacing
        /\ gaps \in [1 .. 2 -> 0 .. Spacing]
    BY TimeAssumption DEF Init, Larger
  <2>2. pc \in Pcs /\ pc # "detail"
    BY DEF Init, Pcs
  <2>3. rows \in Seq(Replays) /\ listing \in Seq(Replays)
        /\ faults \in [FaultKinds -> Nat]
    BY EmptyType, ListingAssumption, FaultAssumption DEF Init
  <2> QED BY <2>1, <2>2, <2>3 DEF Init, TypeOK
<1>2. Spaced
  BY TimeAssumption DEF Init, Spaced
<1>3. Accounted
  BY DEF Init, Accounted, NothingVanishes
<1> QED BY <1>1, <1>2, <1>3 DEF IInv

\* A signal, a publication and a row staged elsewhere take nothing away.
LEMMA WorldKeeps ==
  ASSUME IInv,
         \/ \E r \in Replays : Publish(r) \/ StageElsewhere(r)
         \/ RequestStop
  PROVE  IInv'
<1>1. /\ listing' \in Seq(Replays) /\ staged \subseteq staged'
      /\ staged' \subseteq Replays /\ stop' \in BOOLEAN
      /\ UNCHANGED <<beat, pc, nap, age, gaps, rows, found, reportOk, page,
                     excused, faults>>
  <2>1. ASSUME NEW r \in Replays, Publish(r)
        PROVE  listing' \in Seq(Replays) /\ staged' = staged /\ stop' = stop
    <3>1. <<r>> \o listing \in Seq(Replays)
      BY DEF IInv, TypeOK
    <3> QED BY <2>1, <3>1 DEF Publish
  <2>2. ASSUME NEW r \in Replays, StageElsewhere(r)
        PROVE  /\ listing' = listing /\ stop' = stop
               /\ staged' = staged \cup {r}
    BY <2>2 DEF StageElsewhere
  <2>3. RequestStop =>
          listing' = listing /\ stop' \in BOOLEAN /\ staged' = staged
    BY DEF RequestStop
  <2>4. UNCHANGED <<beat, pc, nap, age, gaps, rows, found, reportOk, page,
                    excused, faults>>
    BY DEF Publish, StageElsewhere, RequestStop, clock, cycle
  <2> QED BY <2>1, <2>2, <2>3, <2>4 DEF IInv, TypeOK
<1>2. TypeOK'
  BY <1>1 DEF IInv, TypeOK
<1>3. Spaced'
  BY <1>1 DEF IInv, Spaced
<1>4. Accounted'
  BY <1>1 DEF IInv, Accounted, NothingVanishes
<1> QED BY <1>2, <1>3, <1>4 DEF IInv

\* Time makes all ages grow alike.
LEMMA TickKeeps == ASSUME IInv, Tick PROVE IInv'
<1> USE DEF IInv, Tick, Later, Smaller, cycle, world
<1>1. /\ gaps' \in [1 .. 2 -> 0 .. Spacing]
      /\ gaps'[1] = Later(gaps[1]) /\ gaps'[2] = Later(gaps[2])
  <2>1. \A g \in 0 .. Spacing : Later(g) \in 0 .. Spacing
    BY TimeAssumption
  <2>2. gaps \in [1 .. 2 -> 0 .. Spacing]
        /\ gaps' = [i \in 1 .. 2 |-> Later(gaps[i])]
    BY DEF TypeOK
  <2> QED BY <2>1, <2>2
<1>2. /\ age' = Later(age) /\ nap' = (IF nap > 0 THEN nap - 1 ELSE 0)
      /\ age \in 0 .. Spacing /\ nap \in Nat
      /\ gaps[1] \in 0 .. Spacing /\ gaps[2] \in 0 .. Spacing
  BY TimeAssumption DEF TypeOK, Larger
<1>3. TypeOK'
  <2>1. nap' \in 0 .. Larger(Spacing, Interval) /\ age' \in 0 .. Spacing
    BY TimeAssumption DEF TypeOK, Larger
  <2> QED BY <1>1, <2>1 DEF TypeOK
<1>4. Spaced'
  <2>1. CASE pc = "floor"
    BY <1>1, <1>2, <2>1, TimeAssumption DEF Spaced
  <2>2. CASE pc # "floor"
    BY <1>1, <1>2, <2>2, TimeAssumption DEF Spaced
  <2> QED BY <2>1, <2>2
<1>5. Accounted'
  BY DEF Accounted, NothingVanishes
<1> QED BY <1>3, <1>4, <1>5

LEMMA LoopKeeps == ASSUME IInv, LoopStep PROVE IInv'
<1> USE DEF IInv, world, clock, cycle
<1>1. CASE BeginCycle
  <2>1. TypeOK'
    <3>1. nap' \in 0 .. Larger(Spacing, Interval) /\ age' \in 0 .. Spacing
      BY <1>1, TimeAssumption DEF BeginCycle, TypeOK, Remaining, Larger
    <3> QED BY <1>1, <3>1, EmptyType DEF BeginCycle, TypeOK, Pcs
  <2>2. Spaced'
    BY <1>1, TimeAssumption DEF BeginCycle, TypeOK, Spaced, Remaining
  <2>3. Accounted'
    BY <1>1 DEF BeginCycle, Accounted, NothingVanishes
  <2> QED BY <2>1, <2>2, <2>3
<1>2. CASE Exit \/ DiscoveryDone \/ Wake
  <2>1. TypeOK'
    BY <1>2 DEF Exit, DiscoveryDone, Wake, TypeOK, Pcs
  <2>2. Spaced'
    BY <1>2 DEF Exit, DiscoveryDone, Wake, Spaced
  <2>3. Accounted'
    BY <1>2 DEF Exit, DiscoveryDone, Wake, Accounted, NothingVanishes, Range
  <2> QED BY <2>1, <2>2, <2>3
<1>3. CASE ListPage
  <2>1. TypeOK'
    BY <1>3, PageOneType, TimeAssumption DEF ListPage, Dispatch, TypeOK, Pcs
  <2>2. Spaced'
    BY <1>3, TimeAssumption DEF ListPage, Dispatch, TypeOK, Spaced
  <2>3. Accounted'
    BY <1>3 DEF ListPage, Dispatch, Accounted, NothingVanishes
  <2> QED BY <2>1, <2>2, <2>3
<1>4. CASE ListFails
  <2>1. TypeOK'
    <3>1. gaps' \in [1 .. 2 -> 0 .. Spacing]
      BY <1>4, TimeAssumption DEF ListFails, Dispatch, TypeOK
    <3>2. faults' \in [FaultKinds -> Nat]
      BY <1>4, FaultType, FaultAssumption DEF ListFails, TypeOK
    <3> QED BY <1>4, <3>1, <3>2 DEF ListFails, TypeOK, Pcs
  <2>2. Spaced'
    BY <1>4, TimeAssumption DEF ListFails, Dispatch, TypeOK, Spaced
  <2>3. Accounted'
    BY <1>4 DEF ListFails, Dispatch, Accounted, NothingVanishes
  <2> QED BY <2>1, <2>2, <2>3
<1>5. CASE MalformedRow \/ SkipRow \/ ReadDetail
  <2>1. rows # <<>> /\ rows \in Seq(Replays)
    BY <1>5 DEF MalformedRow, SkipRow, ReadDetail, TypeOK
  <2>2. /\ Head(rows) \in Replays /\ Tail(rows) \in Seq(Replays)
        /\ Range(rows) \subseteq {Head(rows)} \cup Range(Tail(rows))
    BY <2>1, RangeTail
  <2>3. /\ rows' = Tail(rows)
        /\ Head(rows) \in staged' \cup excused' \cup found'
        /\ excused \subseteq excused' /\ found \subseteq found'
        /\ excused' \cup found' \subseteq Replays
        /\ pc \in {"rows", "detail"} /\ pc' = "rows"
        /\ UNCHANGED <<world, beat, clock, reportOk, page, faults>>
    BY <1>5, <2>2
    DEF MalformedRow, SkipRow, ReadDetail, Skip, Diagnose, TypeOK
  <2>4. TypeOK'
    BY <2>2, <2>3 DEF TypeOK, Pcs
  <2>5. Spaced'
    BY <2>3 DEF Spaced
  <2>6. Accounted'
    BY <2>2, <2>3 DEF Accounted, NothingVanishes
  <2> QED BY <2>4, <2>5, <2>6
<1>6. CASE AwaitDetail \/ Sleep
  <2>1. TypeOK'
    <3>1. nap' \in 0 .. Larger(Spacing, Interval)
      BY <1>6, TimeAssumption DEF AwaitDetail, Sleep, Larger
    <3> QED BY <1>6, <3>1 DEF AwaitDetail, Sleep, TypeOK, Pcs
  <2>2. Spaced'
    BY <1>6 DEF AwaitDetail, Sleep, Spaced
  <2>3. Accounted'
    BY <1>6 DEF AwaitDetail, Sleep, Accounted, NothingVanishes
  <2> QED BY <2>1, <2>2, <2>3
<1>7. CASE DetailFails \/ CycleThrows
  <2>1. TypeOK'
    BY <1>7, FaultType, FaultAssumption DEF DetailFails, CycleThrows, AfterThrow, TypeOK, Pcs
  <2>2. Spaced'
    BY <1>7 DEF DetailFails, CycleThrows, AfterThrow, Spaced
  <2>3. Accounted'
    BY <1>7 DEF DetailFails, CycleThrows, AfterThrow, Accounted,
                NothingVanishes
  <2> QED BY <2>1, <2>2, <2>3
<1>8. CASE \E r \in Replays : IngestCandidate(r) \/ CandidateFails(r)
  <2>1. PICK r \in Replays : IngestCandidate(r) \/ CandidateFails(r)
    BY <1>8
  <2>2. TypeOK'
    BY <2>1, FaultType, FaultAssumption DEF IngestCandidate, CandidateFails, TypeOK
  <2>3. Spaced'
    BY <2>1 DEF IngestCandidate, CandidateFails, Spaced
  <2>4. Accounted'
    BY <2>1 DEF IngestCandidate, CandidateFails, Accounted, NothingVanishes
  <2> QED BY <2>2, <2>3, <2>4
<1>9. CASE WriteHeartbeat
  <2>1. TypeOK'
    BY <1>9, FaultType, FaultAssumption DEF WriteHeartbeat, TypeOK, Pcs
  <2>2. Spaced'
    BY <1>9 DEF WriteHeartbeat, Spaced
  <2>3. reportOk => page \subseteq staged \cup excused
    BY <1>9 DEF WriteHeartbeat, CycleDone, Accounted, Range
  <2>4. Accounted'
    BY <1>9, <2>3 DEF WriteHeartbeat, Accounted, NothingVanishes
  <2> QED BY <2>1, <2>2, <2>4
<1> QED
  BY <1>1, <1>2, <1>3, <1>4, <1>5, <1>6, <1>7, <1>8, <1>9 DEF LoopStep

LEMMA NextIInv == IInv /\ [Next]_vars => IInv'
<1> SUFFICES ASSUME IInv, [Next]_vars PROVE IInv'
  OBVIOUS
<1>1. CASE UNCHANGED vars
  BY <1>1 DEF IInv, TypeOK, Spaced, Accounted, NothingVanishes, Range, vars,
              world, clock, cycle
<1>2. CASE Exited
  BY <1>1, <1>2 DEF Exited
<1> QED
  BY <1>1, <1>2, WorldKeeps, TickKeeps, LoopKeeps DEF Next

LEMMA AlwaysIInv == Spec => []IInv
  BY InitIInv, NextIInv, PTL DEF Spec

\* The loop keeps its types, and never sleeps longer than the larger of its
\* spacing and its interval (createPacer, runWatchLoop).
THEOREM TypeCorrect == Spec => []TypeOK
  BY AlwaysIInv, PTL DEF IInv

\* Every row of a page whose cycle wrote the heartbeat behind an ok report is
\* staged, or named in a diagnostic or a failed result (runCycle, ingestPage).
THEOREM RowsAreAccountedFor == Spec => []NothingVanishes
<1>1. IInv => NothingVanishes
  BY DEF IInv, Accounted
<1> QED BY <1>1, AlwaysIInv, PTL

\* A list read leaves a spacing after the last but one at the earliest,
\* whatever the spacing, the interval and the length of the cycles
\* (awaitFloor).
THEOREM PollsAreBounded == Spec => PollRateIsBounded
<1> DEFINE Step == pc = "floor" /\ pc' # "floor" => gaps[2] >= Spacing
<1>1. IInv /\ [Next]_vars => [Step]_vars
  <2> SUFFICES ASSUME IInv, Next, pc = "floor", pc' # "floor"
               PROVE  gaps[2] >= Spacing
    BY DEF vars
  <2>1. nap = 0
    BY DEF Next, LoopStep, Publish, StageElsewhere, RequestStop, Tick, Exited,
           BeginCycle, Exit, ListPage, ListFails, Dispatch, MalformedRow,
           SkipRow, AwaitDetail, ReadDetail, DetailFails, DiscoveryDone,
           IngestCandidate, CandidateFails, CycleThrows, WriteHeartbeat, Sleep,
           Wake
  <2> QED BY <2>1, TimeAssumption DEF IInv, Spaced, TypeOK
<1> QED BY <1>1, AlwaysIInv, PTL DEF Spec, PollRateIsBounded
=============================================================================
