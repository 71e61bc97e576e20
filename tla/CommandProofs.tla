----------------------------- MODULE CommandProofs -----------------------------
(***************************************************************************)
(* What a process promises whoever started it, for pages of any length:    *)
(* its document and its exit code agree, exit code 0 of                    *)
(* `discover --store-raw --stage` means every usable row was staged, and   *)
(* the pool is released.                                                   *)
(***************************************************************************)
EXTENDS Command, DiscoveryProofs

-----------------------------------------------------------------------------
(* The discovery of a process is a discovery.                              *)

\* Outside of Discover nothing of the call changes.
LEMMA StepDiscovers == [Next]_vars => [DiscoveryNext]_discoveryVars
  BY DEF Next, ProcessStep, vars, RefuseFlags, RefuseConfig, LoaderThrows, Open, Discover,
     DiscoveryThrows, DryRun, StoreRaw, Store, Stage, StageThrows, StoreRawReport, RunEnds,
     RunThrows, EmitEvidence, Summarise, WatchEnds, FlushLogger, FlushRejects, Dispose, Check,
     Probe, ProbeStaging, ContractFails, ContractWarns, ContractGoesOn, ContractRaw, Fatal,
     FlushSentry, Reap, Exit, Signal

\* The discovery invariant holds in every process.
LEMMA CommandDiscovers == Spec => []DiscoveryInv
<1>1. Init => DiscoveryInit
  BY DEF Init
<1> QED
  BY <1>1, InitDiscovery, StepDiscovers, NextDiscovery, PTL DEF Spec

-----------------------------------------------------------------------------
(* Which command is where.                                                 *)

Place ==
  /\ argv \in Argv
  /\ pc \in {"discover", "store", "stage"} => Is("discover") /\ ~FlagsClash
  /\ pc \in {"store", "stage"} => step = "done" /\ Has("store-raw")
  /\ pc = "stage" => Has("stage")
  /\ pc \in {"run", "evidence", "document"} => Is("run-once")
  /\ pc \in {"watch", "dispose"} => Is("watch")
  /\ pc = "flush" => Is("watch") \/ Is("run-once")
  /\ pc \in {"probe_source", "probe_s3", "probe_staging"} => Is("check")
  /\ pc \in {"contract_list", "contract_detail", "contract_raw"} => Is("contract-check")
  /\ Is("watch") => result = "ok"

\* What the parser of the command line lets through.
LEMMA ArgvFacts ==
  ASSUME argv \in Argv
  PROVE  /\ argv.command \in Commands
         /\ Has("stage") \/ Has("store-raw") \/ Has("dry-run") => Is("discover")
  BY DEF Argv, Commands, Has, Is

\* A process starts at the start.
LEMMA InitPlace == Init => Place
  BY DEF Init, Place

\* A step stays within its command.
LEMMA NextPlace == Place /\ [Next]_vars => Place'
<1> SUFFICES ASSUME Place, [Next]_vars PROVE Place'
  OBVIOUS
<1> USE DEF Place, Is, Has, FlagsClash
<1>1. CASE RefuseFlags \/ RefuseConfig \/ LoaderThrows \/ DiscoveryThrows \/ DryRun
           \/ StageThrows \/ StoreRawReport \/ RunThrows
  BY <1>1 DEF RefuseFlags, RefuseConfig, LoaderThrows, DiscoveryThrows, DryRun, StageThrows,
     StoreRawReport, RunThrows, Document, Throw, started
<1>2. CASE Open
  BY <1>2, ArgvFacts DEF Open, Work, Commands, started, outcome
<1>3. CASE Discover
  BY <1>3 DEF Discover, shell, started, outcome
<1>4. CASE StoreRaw
  BY <1>4 DEF StoreRaw, started, outcome, discoveryVars
<1>5. ASSUME NEW status, Store(status) \/ Stage(status) PROVE Place'
  BY <1>5 DEF Store, Stage, started, outcome, discoveryVars
<1>6. ASSUME NEW document \in Documents, RunEnds(document) PROVE Place'
  BY <1>6 DEF RunEnds, started
<1>7. CASE EmitEvidence \/ Summarise \/ WatchEnds \/ FlushLogger \/ FlushRejects \/ Dispose
  BY <1>7 DEF EmitEvidence, Summarise, WatchEnds, FlushLogger, FlushRejects, Dispose, Flushed,
     AfterFlushError, started, outcome
<1>8. CASE Check
  BY <1>8 DEF Check, Probe, ProbeStaging, Document, started
<1>9. CASE ContractFails \/ ContractWarns \/ ContractGoesOn \/ \E json \in BOOLEAN : ContractRaw(json)
  BY <1>9 DEF ContractFails, ContractWarns, ContractGoesOn, ContractRaw, Document, started, outcome
<1>10. CASE Fatal \/ FlushSentry \/ Reap \/ Exit \/ \E s \in Signals : Signal(s)
  BY <1>10 DEF Fatal, FlushSentry, Reap, Exit, Signal, started, outcome, discoveryVars
<1>11. CASE UNCHANGED vars
  BY <1>11 DEF vars, shell, started, outcome, discoveryVars
<1> QED
  BY <1>1, <1>2, <1>3, <1>4, <1>5, <1>6, <1>7, <1>8, <1>9, <1>10, <1>11 DEF Next, ProcessStep

-----------------------------------------------------------------------------
(* Documents and exit codes.                                               *)

Over == {"report", "drain", "ended"}

Agreement ==
  /\ Len(stdout) <= 1
  /\ exitCode = 0 => /\ Is("watch") \/ Len(stdout) = 1
                     /\ \A k \in 1 .. Len(stdout) : stdout[k] = "ok"
  /\ exitCode = 2 => Len(stdout) = 1 /\ stdout[1] # "ok"
  /\ exitCode = 1 <=> error

\* Nothing is written and no code set before the end is in sight.
Quiet ==
  /\ pc \notin {"flush", "dispose", "thrown", "killed"} \cup Over
       => stdout = <<>> /\ exitCode = 0 /\ ~error
  /\ pc = "flush" => /\ exitCode = 0 /\ ~error
                     /\ stdout = IF Is("watch") THEN <<>> ELSE <<result>>
  /\ pc = "dispose" => exitCode = 0 /\ stdout = <<>>
  /\ pc = "thrown" => error /\ exitCode = 0 /\ Len(stdout) <= 1
  /\ pc \in Over => Agreement

\* A process starts with nothing written.
LEMMA InitQuiet == Init => Quiet
  BY DEF Init, Quiet, Over

\* One document has one element.
LEMMA OneDocument ==
  ASSUME NEW d
  PROVE  /\ Append(<<>>, d) = <<d>> /\ Len(<<d>>) = 1 /\ <<d>>[1] = d
         /\ \A k \in 1 .. Len(<<d>>) : <<d>>[k] = d
  OBVIOUS

\* A document written on a quiet stdout agrees with its code.
LEMMA DocumentAgrees ==
  ASSUME NEW document, stdout = <<>>, ~error, Document(document, ExitCode(document))
  PROVE  pc' = "report" /\ Agreement'
<1>1. /\ stdout' = <<document>> /\ exitCode' = (IF document = "ok" THEN 0 ELSE 2)
      /\ pc' = "report" /\ ~error'
  BY OneDocument DEF Document, ExitCode
<1>2. Len(stdout') = 1 /\ \A k \in 1 .. Len(stdout') : stdout'[k] = document
  BY <1>1, OneDocument
<1>3. stdout'[1] = document
  BY <1>2
<1> QED
  BY <1>1, <1>2, <1>3 DEF Agreement

\* No step breaks the agreement.
LEMMA NextQuiet ==
  DiscoveryTypeOK /\ Place /\ Quiet /\ [Next]_vars => Quiet'
<1> SUFFICES ASSUME DiscoveryTypeOK, Place, Quiet, [Next]_vars
             PROVE  Quiet'
  OBVIOUS
<1> USE DEF Over
<1>1. ASSUME NEW document, stdout = <<>>, ~error, Document(document, ExitCode(document))
      PROVE  Quiet'
  BY <1>1, DocumentAgrees DEF Quiet
<1>2. ASSUME pc \notin {"flush", "dispose", "thrown", "killed"} \cup Over
      PROVE  stdout = <<>> /\ exitCode = 0 /\ ~error
  BY <1>2 DEF Quiet
<1>3. CASE RefuseFlags \/ RefuseConfig \/ ContractFails
  <2>1. Document("not_ok", ExitCode("not_ok"))
    BY <1>3 DEF ExitCode, RefuseFlags, RefuseConfig, ContractFails
  <2> QED
    BY <1>1, <1>2, <1>3, <2>1 DEF RefuseFlags, RefuseConfig, ContractFails
<1>4. CASE LoaderThrows \/ DiscoveryThrows \/ StageThrows \/ RunThrows
  <2>1. /\ pc' = "thrown" /\ error' /\ exitCode' = 0 /\ stdout' = <<>>
    BY <1>2, <1>4 DEF LoaderThrows, DiscoveryThrows, StageThrows, RunThrows, Throw
  <2> QED
    BY <2>1 DEF Quiet
<1>5. CASE Open
  <2>1. pc = "start" /\ UNCHANGED <<stdout, exitCode, error>>
    BY <1>5 DEF Open, outcome
  <2>2. pc' \in {"probe_source", "contract_list", "discover", "run", "watch"}
    BY <1>5, ArgvFacts DEF Open, Work, Commands, Is, Place
  <2> QED
    BY <1>2, <2>1, <2>2 DEF Quiet
<1>6. CASE Discover
  BY <1>2, <1>6 DEF Discover, shell, outcome, Quiet
<1>7. CASE DryRun
  <2>1. DryRunExit = ExitCode(DocumentOf(report.ok))
    BY DEF DryRunExit, ExitCode, DocumentOf
  <2> QED
    BY <1>1, <1>2, <1>7, <2>1 DEF DryRun
<1>8. ASSUME NEW status, StoreRaw \/ Store(status) \/ Stage(status) PROVE Quiet'
  <2>1. pc \in {"discover", "store", "stage"} /\ pc' \in {"store", "stage"}
    BY <1>8 DEF StoreRaw, Store, Stage
  <2>2. UNCHANGED <<stdout, exitCode, error>>
    BY <1>8 DEF StoreRaw, Store, Stage, outcome
  <2> QED
    BY <1>2, <2>1, <2>2 DEF Quiet
<1>9. CASE StoreRawReport
  BY <1>1, <1>2, <1>9 DEF StoreRawReport
<1>10. ASSUME NEW document \in Documents, RunEnds(document) PROVE Quiet'
  BY <1>2, <1>10 DEF RunEnds, Quiet
<1>11. CASE EmitEvidence
  BY <1>2, <1>11 DEF EmitEvidence, outcome, Quiet
<1>12. CASE Summarise
  <2>1. /\ pc = "document" /\ pc' = "flush" /\ stdout' = <<result>> /\ ~Is("watch")
        /\ UNCHANGED <<exitCode, error, result, argv>>
    BY <1>2, <1>12, OneDocument DEF Summarise, Place, Is, started
  <2> QED
    BY <1>2, <2>1 DEF Quiet, Is
<1>13. CASE WatchEnds
  <2>1. /\ pc = "watch" /\ pc' = "flush" /\ Is("watch")
        /\ UNCHANGED <<stdout, exitCode, error, result, argv>>
    BY <1>13 DEF WatchEnds, Place, outcome, started
  <2> QED
    BY <1>2, <2>1 DEF Quiet, Is
<1>14. CASE FlushLogger
  <2>1. /\ pc = "flush" /\ exitCode' = (IF result = "ok" THEN 0 ELSE 2) /\ ~error'
        /\ UNCHANGED <<stdout, argv, error>> /\ pc' = Flushed
    BY <1>14 DEF FlushLogger, ExitCode, Quiet, started
  <2>2. CASE Is("watch")
    BY <2>1, <2>2 DEF Flushed, Place, Quiet
  <2>3. CASE ~Is("watch")
    <3>1. stdout = <<result>> /\ pc' = "report"
      BY <2>1, <2>3 DEF Flushed, Quiet
    <3>2. Len(stdout) = 1 /\ \A k \in 1 .. Len(stdout) : stdout[k] = result
      BY <3>1, OneDocument
    <3>3. stdout[1] = result
      BY <3>2
    <3>4. Agreement'
      BY <2>1, <3>2, <3>3 DEF Agreement
    <3> QED
      BY <3>1, <3>4 DEF Quiet
  <2> QED
    BY <2>2, <2>3
<1>15. CASE FlushRejects
  <2>1. /\ pc = "flush" /\ error' /\ exitCode' = 0 /\ stdout' = stdout /\ pc' = AfterFlushError
        /\ stdout = IF Is("watch") THEN <<>> ELSE <<result>>
    BY <1>15 DEF FlushRejects, Quiet
  <2> QED
    BY <2>1, OneDocument DEF AfterFlushError, Quiet
<1>16. CASE Dispose
  <2>1. /\ Is("watch")' /\ exitCode' = 0 /\ stdout' = <<>> /\ error' = error
        /\ pc' = IF error THEN "thrown" ELSE "report"
    BY <1>16 DEF Dispose, Quiet, Place, Is, started, outcome
  <2> QED
    BY <2>1 DEF Quiet, Agreement
<1>17. CASE Check
  <2>1. ASSUME NEW passed \in BOOLEAN,
               \/ Probe("probe_source", "probe_s3", passed)
               \/ Probe("probe_s3", "probe_staging", passed)
        PROVE  Quiet'
    BY <1>2, <2>1 DEF Probe, Quiet
  <2>2. ASSUME NEW passed \in BOOLEAN, ProbeStaging(passed) PROVE Quiet'
    BY <1>1, <1>2, <2>2 DEF ProbeStaging
  <2> QED
    BY <1>17, <2>1, <2>2 DEF Check
<1>18. CASE ContractWarns
  <2>1. Document("ok", ExitCode("ok"))
    BY <1>18 DEF ExitCode, ContractWarns
  <2> QED
    BY <1>1, <1>2, <1>18, <2>1 DEF ContractWarns
<1>19. CASE ContractGoesOn
  BY <1>2, <1>19 DEF ContractGoesOn, outcome, Quiet
<1>20. ASSUME NEW json \in BOOLEAN, ContractRaw(json) PROVE Quiet'
  BY <1>1, <1>2, <1>20 DEF ContractRaw
<1>21. CASE Fatal
  BY <1>21 DEF Fatal, Quiet, Agreement
<1>22. CASE FlushSentry \/ Reap \/ Exit
  <2>1. pc \in Over /\ pc' \in Over /\ UNCHANGED <<argv, stdout, exitCode, error>>
    BY <1>22 DEF FlushSentry, Reap, Exit, started, outcome
  <2> QED
    BY <2>1 DEF Quiet, Agreement, Is
<1>23. ASSUME NEW sig, Signal(sig) PROVE Quiet'
  <2>1. UNCHANGED <<argv, stdout, exitCode, error, result>> /\ (pc' = pc \/ pc' = "killed")
    BY <1>23 DEF Signal, started, outcome
  <2> QED
    BY <2>1 DEF Quiet, Agreement, Is
<1>24. CASE UNCHANGED vars
  BY <1>24 DEF vars, shell, started, outcome, Quiet, Agreement, Is
<1> QED
  BY <1>3, <1>4, <1>5, <1>6, <1>7, <1>8, <1>9, <1>10, <1>11, <1>12, <1>13, <1>14, <1>15, <1>16,
     <1>17, <1>18, <1>19, <1>20, <1>21, <1>22, <1>23, <1>24 DEF Next, ProcessStep

-----------------------------------------------------------------------------
(* The pool.                                                               *)

Pooled ==
  /\ pc = "start" => pool = "none"
  /\ pc \in {"thrown"} \cup Over /\ (Is("watch") \/ Is("check")) => pool \in {"none", "ended"}
  /\ pool = "ended" => pc \in {"thrown", "report", "drain", "ended", "killed"}

\* There is no pool before the clients are built.
LEMMA InitPooled == Init => Pooled
  BY DEF Init, Pooled

\* No step of `watch` or `check` leaves the pool behind.
LEMMA NextPooled == Place /\ Pooled /\ [Next]_vars => Pooled'
<1> SUFFICES ASSUME Place, Pooled, [Next]_vars PROVE Pooled'
  OBVIOUS
<1> USE DEF Place, Pooled, Over, Is
<1>1. CASE RefuseFlags \/ RefuseConfig \/ LoaderThrows \/ DiscoveryThrows \/ DryRun
           \/ StageThrows \/ StoreRawReport \/ RunThrows
  BY <1>1 DEF RefuseFlags, RefuseConfig, LoaderThrows, DiscoveryThrows, DryRun, StageThrows,
     StoreRawReport, RunThrows, Document, Throw, started
<1>2. CASE Open
  BY <1>2, ArgvFacts DEF Open, Work, Commands, started
<1>3. CASE Discover
  BY <1>3 DEF Discover, shell, started
<1>4. ASSUME NEW status, StoreRaw \/ Store(status) \/ Stage(status) PROVE Pooled'
  BY <1>4 DEF StoreRaw, Store, Stage, started
<1>5. ASSUME NEW document \in Documents, RunEnds(document) PROVE Pooled'
  BY <1>5 DEF RunEnds, started
<1>6. CASE EmitEvidence \/ Summarise \/ WatchEnds \/ FlushLogger \/ FlushRejects \/ Dispose
  BY <1>6 DEF EmitEvidence, Summarise, WatchEnds, FlushLogger, FlushRejects, Dispose, Flushed,
     AfterFlushError, started
<1>7. CASE Check
  BY <1>7 DEF Check, Probe, ProbeStaging, Document, started
<1>8. CASE ContractFails \/ ContractWarns \/ ContractGoesOn \/ \E json \in BOOLEAN : ContractRaw(json)
  BY <1>8 DEF ContractFails, ContractWarns, ContractGoesOn, ContractRaw, Document, started
<1>9. CASE Fatal \/ FlushSentry \/ Reap \/ Exit \/ \E s \in Signals : Signal(s)
  BY <1>9 DEF Fatal, FlushSentry, Reap, Exit, Signal, started
<1>10. CASE UNCHANGED vars
  BY <1>10 DEF vars, shell, started
<1> QED
  BY <1>1, <1>2, <1>3, <1>4, <1>5, <1>6, <1>7, <1>8, <1>9, <1>10 DEF Next, ProcessStep

-----------------------------------------------------------------------------
(* What was stored and staged.                                             *)

StoreStatuses == {"stored", "skipped", "conflict", "failed"}
StageStatuses == {"staged", "already_staged", "conflict", "failed", "not_stageable"}

Kept ==
  /\ stored \in Seq(StoreStatuses) /\ staged \in Seq(StageStatuses)
  /\ pc \in {"start", "discover"} => stored = <<>> /\ staged = <<>>
  /\ Len(stored) <= Len(ToStore)
  /\ Has("stage") /\ pc \notin {"thrown", "killed"} \cup Over
       => Len(stored) = Len(staged) + (IF pc = "stage" THEN 1 ELSE 0)
  /\ Len(staged) <= Len(stored)
  /\ \A k \in 1 .. Len(staged) :
       staged[k] = "not_stageable" => stored[k] \notin {"stored", "skipped"}

\* What exit code 0 of a staging run rests on.
Complete ==
  Has("stage") /\ pc \in Over /\ exitCode = 0 =>
    /\ StoreRawOk
    /\ Len(stored) = Len(report.candidates) /\ Len(staged) = Len(stored)

\* Nothing is stored at the start.
LEMMA InitKept == DiscoveryTypeOK /\ Init => Kept /\ Complete
<1> SUFFICES ASSUME DiscoveryTypeOK, Init PROVE Kept /\ Complete
  OBVIOUS
<1>1. pc = "start" /\ stored = <<>> /\ staged = <<>>
  BY DEF Init
<1>2. ToStore \in Seq(Rows)
  BY DEF ToStore, DiscoveryTypeOK
<1>3. Len(ToStore) \in Nat
  BY <1>2
<1> QED
  BY <1>1, <1>3 DEF Kept, Complete, Over

\* An outcome of storing is appended for one more candidate.
LEMMA NextStore ==
  ASSUME Place, Kept, NEW status \in StoreStatuses, Store(status), DiscoveryTypeOK
  PROVE  Kept'
<1>1. /\ pc = "store" /\ Len(stored) < Len(ToStore) /\ stored' = Append(stored, status)
      /\ pc' = (IF Has("stage") THEN "stage" ELSE "store")
      /\ UNCHANGED <<argv, staged, report>>
  BY DEF Store, started, discoveryVars
<1>2. /\ stored \in Seq(StoreStatuses) /\ staged \in Seq(StageStatuses)
      /\ Len(staged) <= Len(stored)
      /\ Has("stage") => Len(stored) = Len(staged)
  BY <1>1 DEF Kept, Over
<1>3. /\ stored' \in Seq(StoreStatuses) /\ Len(stored') = Len(stored) + 1
      /\ \A k \in 1 .. Len(stored) : stored'[k] = stored[k]
  BY <1>1, <1>2, AppendOccurs
<1>4. ToStore' = ToStore /\ Len(ToStore) \in Nat
  <2>1. ToStore \in Seq(Rows)
    BY DEF ToStore, DiscoveryTypeOK
  <2> QED
    BY <1>1, <2>1 DEF ToStore
<1>5. \A k \in 1 .. Len(staged) : k \in 1 .. Len(stored)
  BY <1>2
<1>6. \A k \in 1 .. Len(staged)' :
        staged'[k] = "not_stageable" => stored'[k] \notin {"stored", "skipped"}
  BY <1>1, <1>3, <1>5 DEF Kept
<1>7. Len(stored)' <= Len(ToStore)' /\ Len(staged)' <= Len(stored)'
  BY <1>1, <1>2, <1>3, <1>4
<1>8. Has("stage")' => Len(stored)' = Len(staged)' + (IF pc' = "stage" THEN 1 ELSE 0)
  BY <1>1, <1>2, <1>3 DEF Has
<1> QED
  BY <1>1, <1>2, <1>3, <1>6, <1>7, <1>8 DEF Kept

\* The outcome of staging is appended for the candidate stored last.
LEMMA NextStage ==
  ASSUME Place, Kept, NEW status \in StageStatuses, Stage(status)
  PROVE  Kept'
<1>1. /\ pc = "stage" /\ Has("stage") /\ pc' = "store" /\ staged' = Append(staged, status)
      /\ (status = "not_stageable" => stored[Len(stored)] \notin {"stored", "skipped"})
      /\ UNCHANGED <<argv, stored, report>>
  BY DEF Stage, Stageable, Place, started, discoveryVars
<1>2. /\ stored \in Seq(StoreStatuses) /\ staged \in Seq(StageStatuses)
      /\ Len(stored) = Len(staged) + 1 /\ Len(stored) <= Len(ToStore)
  BY <1>1 DEF Kept, Over
<1>3. /\ staged' \in Seq(StageStatuses) /\ Len(staged') = Len(staged) + 1
      /\ \A k \in 1 .. Len(staged) : staged'[k] = staged[k]
      /\ staged'[Len(staged) + 1] = status
  BY <1>1, <1>2, AppendOccurs
<1>4. \A k \in 1 .. Len(staged') : k \in 1 .. Len(staged) \/ k = Len(stored)
  BY <1>2, <1>3
<1>5. \A k \in 1 .. Len(staged') :
        staged'[k] = "not_stageable" => stored'[k] \notin {"stored", "skipped"}
  BY <1>1, <1>2, <1>3, <1>4 DEF Kept
<1>6. ToStore' = ToStore
  BY <1>1 DEF ToStore
<1>7. Len(staged') <= Len(stored') /\ Len(stored') = Len(staged') + 0
  BY <1>1, <1>2, <1>3
<1> QED
  BY <1>1, <1>2, <1>3, <1>5, <1>6, <1>7 DEF Kept

\* No step forgets what was stored and staged.
LEMMA NextKept ==
  DiscoveryTypeOK /\ DiscoveryTypeOK' /\ Place /\ Kept /\ [Next]_vars => Kept'
<1> SUFFICES ASSUME DiscoveryTypeOK, DiscoveryTypeOK', Place, Kept, [Next]_vars PROVE Kept'
  OBVIOUS
<1>1. ASSUME UNCHANGED <<argv, stored, staged, report>>,
             pc' \in {"start", "discover"} => pc \in {"start", "discover"},
             \/ pc' \in {"thrown", "killed"} \cup Over
             \/ pc \notin {"thrown", "killed"} \cup Over /\ (pc = "stage" <=> pc' = "stage")
             \/ ~Has("stage")
      PROVE  Kept'
  <2>1. ToStore' = ToStore /\ (Has("stage")' <=> Has("stage"))
    BY <1>1 DEF ToStore, Has
  <2> QED
    BY <1>1, <2>1 DEF Kept
<1>2. CASE RefuseFlags \/ RefuseConfig \/ LoaderThrows \/ DiscoveryThrows \/ DryRun
           \/ StageThrows \/ StoreRawReport \/ RunThrows
  BY <1>1, <1>2 DEF RefuseFlags, RefuseConfig, LoaderThrows, DiscoveryThrows, DryRun, StageThrows,
     StoreRawReport, RunThrows, Document, Throw, started, results, discoveryVars, Over
<1>3. CASE Open \/ StoreRaw
  <2>1. /\ UNCHANGED <<argv, stored, staged, report>> /\ pc \in {"start", "discover"}
        /\ pc' \notin {"stage", "start"}
    BY <1>3, ArgvFacts DEF Open, Work, Commands, StoreRaw, Place, Is, started, results, discoveryVars
  <2> QED
    BY <1>1, <2>1 DEF Over
<1>4. CASE Discover
  <2>1. pc = "discover" /\ UNCHANGED <<argv, pc, stored, staged>>
    BY <1>4 DEF Discover, shell, started, results
  <2>2. ToStore' \in Seq(Rows) /\ Len(stored) = 0
    BY <2>1 DEF ToStore, DiscoveryTypeOK, Kept
  <2>3. Len(stored') <= Len(ToStore')
    BY <2>1, <2>2
  <2> QED
    BY <2>1, <2>3 DEF Kept, Has
<1>5. CASE \E status \in StoreStatuses : Store(status)
  BY <1>5, NextStore
<1>6. CASE \E status \in StageStatuses : Stage(status)
  BY <1>6, NextStage
<1>7. CASE (\E document \in Documents : RunEnds(document)) \/ EmitEvidence \/ Summarise \/ WatchEnds
           \/ FlushLogger \/ FlushRejects \/ Dispose
  <2>1. ~Has("stage")
    BY <1>7, ArgvFacts DEF Place, Is, RunEnds, EmitEvidence, Summarise, WatchEnds, FlushLogger,
       FlushRejects, Dispose
  <2>2. UNCHANGED <<argv, stored, staged, report>> /\ pc' \notin {"start", "discover"}
    BY <1>7 DEF RunEnds, EmitEvidence, Summarise, WatchEnds, FlushLogger, FlushRejects, Dispose,
       Flushed, AfterFlushError, started, results, discoveryVars
  <2> QED
    BY <1>1, <2>1, <2>2
<1>8. CASE Check \/ ContractFails \/ ContractWarns \/ ContractGoesOn
           \/ \E json \in BOOLEAN : ContractRaw(json)
  <2>1. ~Has("stage")
    BY <1>8, ArgvFacts DEF Place, Is, Check, Probe, ProbeStaging, ContractFails, ContractWarns,
       ContractGoesOn, ContractRaw
  <2>2. UNCHANGED <<argv, stored, staged, report>> /\ pc' \notin {"start", "discover"}
    BY <1>8 DEF Check, Probe, ProbeStaging, ContractFails, ContractWarns, ContractGoesOn,
       ContractRaw, Document, started, results, discoveryVars
  <2> QED
    BY <1>1, <2>1, <2>2
<1>9. CASE Fatal \/ FlushSentry \/ Reap \/ Exit \/ \E s \in Signals : Signal(s)
  <2>1. /\ UNCHANGED <<argv, stored, staged, report>>
        /\ pc' = pc \/ pc' \in {"killed"} \cup Over
    BY <1>9 DEF Fatal, FlushSentry, Reap, Exit, Signal, started, results, discoveryVars, Over
  <2> QED
    BY <1>1, <2>1 DEF Over
<1>10. CASE UNCHANGED vars
  <2>1. UNCHANGED <<argv, pc, stored, staged, report>>
    BY <1>10 DEF vars, shell, started, results, discoveryVars
  <2> QED
    BY <1>1, <2>1 DEF Over
<1> QED
  BY <1>2, <1>3, <1>4, <1>5, <1>6, <1>7, <1>8, <1>9, <1>10
     DEF Next, ProcessStep, StoreStatuses, StageStatuses

\* Only a report of a complete staging sets exit code 0.
LEMMA NextComplete ==
  DiscoveryTypeOK /\ Place /\ Kept /\ Complete /\ [Next]_vars => Complete'
<1> SUFFICES ASSUME DiscoveryTypeOK, Place, Kept, Complete, [Next]_vars,
                    Has("stage")', pc' \in Over, exitCode' = 0
             PROVE  /\ StoreRawOk'
                    /\ Len(stored)' = Len(report.candidates)' /\ Len(staged)' = Len(stored)'
  BY DEF Complete
<1>1. CASE UNCHANGED <<argv, stored, staged, report, exitCode>> /\ pc \in Over
  BY <1>1 DEF Complete, StoreRawOk, Has
<1>2. CASE StoreRawReport
  <2>1. /\ pc = "store" /\ Len(stored) = Len(ToStore) /\ exitCode' = (IF StoreRawOk THEN 0 ELSE 2)
        /\ UNCHANGED <<argv, stored, staged, report>>
    BY <1>2 DEF StoreRawReport, Document, DocumentOf, ExitCode, started, results, discoveryVars
  <2>2. StoreRawOk /\ Has("stage")
    BY <2>1 DEF Has
  <2>3. Len(stored) = Len(report.candidates)
    BY <2>1, <2>2 DEF ToStore, StoreRawOk
  <2>4. Len(staged) = Len(stored)
    BY <2>1, <2>2 DEF Kept, Over
  <2> QED
    BY <2>1, <2>2, <2>3, <2>4 DEF StoreRawOk
<1>3. Is("discover")
  <2>1. argv' = argv
    BY DEF Next, ProcessStep, vars, shell, RefuseFlags, RefuseConfig, LoaderThrows, Open, Discover,
       DiscoveryThrows, DryRun, StoreRaw, Store, Stage, StageThrows, StoreRawReport, RunEnds,
       RunThrows, EmitEvidence, Summarise, WatchEnds, FlushLogger, FlushRejects, Dispose, Check,
       Probe, ProbeStaging, ContractFails, ContractWarns, ContractGoesOn, ContractRaw, Fatal,
       FlushSentry, Reap, Exit, Signal, started
  <2> QED
    BY <2>1, ArgvFacts DEF Place, Has
<1>4. ~RefuseFlags /\ ~RefuseConfig /\ ~LoaderThrows /\ ~DiscoveryThrows /\ ~StageThrows
      /\ ~RunThrows /\ ~Fatal
  BY DEF RefuseFlags, RefuseConfig, LoaderThrows, DiscoveryThrows, StageThrows, RunThrows, Fatal,
     Document, Throw, Over
<1>5. ~DryRun
  <2>1. ASSUME DryRun PROVE argv' = argv /\ pc = "discover" /\ Has("dry-run")
    BY <2>1 DEF DryRun, started
  <2> QED
    BY <2>1 DEF Place, FlagsClash, Has
<1>6. /\ ~Open /\ ~StoreRaw /\ ~EmitEvidence /\ ~Summarise /\ ~WatchEnds
      /\ \A status : ~Store(status) /\ ~Stage(status)
      /\ \A document : ~RunEnds(document)
  BY <1>3, ArgvFacts DEF Open, Work, Commands, Place, Over, StoreRaw, EmitEvidence, Summarise,
     WatchEnds, Store, Stage, RunEnds
<1>7. /\ ~FlushLogger /\ ~FlushRejects /\ ~Dispose /\ ~Check /\ ~ContractFails /\ ~ContractWarns
      /\ ~ContractGoesOn /\ \A json : ~ContractRaw(json)
  BY <1>3 DEF FlushLogger, FlushRejects, Dispose, Check, Probe, ProbeStaging, ContractFails,
     ContractWarns, ContractGoesOn, ContractRaw, Place, Is
<1>8. ~Discover
  BY DEF Discover, shell, Place, Over
<1>9. CASE FlushSentry \/ Reap \/ Exit \/ \E s \in Signals : Signal(s)
  BY <1>1, <1>9 DEF FlushSentry, Reap, Exit, Signal, started, outcome, results, discoveryVars, Over
<1>10. CASE UNCHANGED vars
  BY <1>1, <1>10 DEF vars, shell, started, outcome, results, discoveryVars
<1> QED
  BY <1>2, <1>4, <1>5, <1>6, <1>7, <1>8, <1>9, <1>10 DEF Next, ProcessStep

-----------------------------------------------------------------------------
(* Theorems.                                                               *)

\* The variables only the shell of the process has.
Shaped ==
  /\ environment \in Environments /\ pc \in Pcs
  /\ stdout \in Seq(Documents) /\ exitCode \in {0, 1, 2}
  /\ error \in BOOLEAN /\ result \in Documents
  /\ pool \in {"none", "built", "connected", "ended"}
  /\ handlers \subseteq Signals /\ stop \in BOOLEAN /\ signals \in Nat

\* A process starts well shaped.
LEMMA InitShaped == Init => Shaped
<1> SUFFICES ASSUME Init PROVE Shaped
  OBVIOUS
<1>1. /\ stdout \in Seq(Documents) /\ result \in Documents
      /\ handlers \subseteq Signals /\ signals \in Nat
  BY SignalAssumption DEF Init, Documents
<1> QED
  BY <1>1 DEF Init, Shaped, Pcs

\* Every step keeps the shape.
LEMMA NextShaped == DiscoveryTypeOK /\ Place /\ Shaped /\ [Next]_vars => Shaped'
<1> SUFFICES ASSUME DiscoveryTypeOK, Place, Shaped, [Next]_vars PROVE Shaped'
  OBVIOUS
<1> USE DEF Shaped, Pcs
<1>1. ASSUME NEW document \in Documents, NEW code \in {0, 1, 2}, Document(document, code),
             UNCHANGED <<environment, handlers, stop, signals>>,
             pool' \in {"none", "built", "connected", "ended"}
      PROVE  Shaped'
  BY <1>1 DEF Document
<1>2. /\ \A document : ExitCode(document) \in {0, 1, 2}
      /\ \A passed : DocumentOf(passed) \in Documents
      /\ "ok" \in Documents /\ "not_ok" \in Documents
  BY DEF ExitCode, DocumentOf, Documents
<1>3. CASE RefuseFlags \/ RefuseConfig \/ ContractFails \/ ContractWarns
  BY <1>1, <1>2, <1>3 DEF RefuseFlags, RefuseConfig, ContractFails, ContractWarns, started, seam
<1>4. CASE DryRun
  BY <1>1, <1>2, <1>4 DEF DryRun, DryRunExit, started, seam
<1>5. CASE StoreRawReport
  BY <1>1, <1>2, <1>5 DEF StoreRawReport, started, seam
<1>6. CASE LoaderThrows \/ DiscoveryThrows \/ StageThrows \/ RunThrows
  BY <1>6 DEF LoaderThrows, DiscoveryThrows, StageThrows, RunThrows, Throw, started, seam
<1>7. CASE Open
  <2>1. Work \in Pcs /\ handlers' \subseteq Signals
    BY <1>7, ArgvFacts DEF Open, Work, Commands, Place, Is
  <2> QED
    BY <1>7, <2>1 DEF Open, started, outcome
<1>8. CASE Discover
  BY <1>8 DEF Discover, shell, started, outcome, seam
<1>9. ASSUME NEW status, StoreRaw \/ Store(status) \/ Stage(status) PROVE Shaped'
  BY <1>9 DEF StoreRaw, Store, Stage, started, outcome, seam
<1>10. ASSUME NEW document \in Documents, RunEnds(document) PROVE Shaped'
  BY <1>10 DEF RunEnds, started, seam
<1>11. CASE Summarise
  BY <1>11 DEF Summarise, started, seam
<1>12. CASE EmitEvidence \/ WatchEnds \/ FlushLogger \/ FlushRejects \/ Dispose
  BY <1>2, <1>12 DEF EmitEvidence, WatchEnds, FlushLogger, FlushRejects, Dispose, Flushed,
     AfterFlushError, started, outcome, seam
<1>13. CASE Check
  <2>1. ASSUME NEW passed \in BOOLEAN,
               \/ Probe("probe_source", "probe_s3", passed)
               \/ Probe("probe_s3", "probe_staging", passed)
        PROVE  Shaped'
    BY <1>2, <2>1 DEF Probe, started, seam
  <2>2. ASSUME NEW passed \in BOOLEAN, ProbeStaging(passed) PROVE Shaped'
    BY <1>1, <1>2, <2>2 DEF ProbeStaging, started, seam
  <2> QED
    BY <1>13, <2>1, <2>2 DEF Check
<1>14. CASE ContractGoesOn
  BY <1>14 DEF ContractGoesOn, started, outcome, seam
<1>15. ASSUME NEW json \in BOOLEAN, ContractRaw(json) PROVE Shaped'
  BY <1>1, <1>2, <1>15 DEF ContractRaw, started, seam
<1>16. CASE Fatal \/ FlushSentry \/ Reap \/ Exit
  BY <1>16 DEF Fatal, FlushSentry, Reap, Exit, started, outcome, seam
<1>17. ASSUME NEW s, Signal(s) PROVE Shaped'
  <2>1. /\ UNCHANGED <<environment, stdout, exitCode, error, result, pool>>
        /\ signals > 0 /\ signals' = signals - 1
        /\ stop' \in {stop, TRUE} /\ pc' \in {pc, "killed"}
    BY <1>17 DEF Signal, started, outcome
  <2>2. handlers' \subseteq handlers
    BY <1>17 DEF Signal
  <2>3. signals' \in Nat
    BY <2>1
  <2> QED
    BY <2>1, <2>2, <2>3
<1>18. CASE UNCHANGED vars
  BY <1>18 DEF vars, shell, started, outcome, seam
<1> QED
  BY <1>3, <1>4, <1>5, <1>6, <1>7, <1>8, <1>9, <1>10, <1>11, <1>12, <1>13, <1>14, <1>15, <1>16,
     <1>17, <1>18 DEF Next, ProcessStep

CommandInv == DiscoveryInv /\ Place /\ Shaped /\ Quiet /\ Pooled /\ Kept /\ Complete

\* The invariant of a process, from its parts.
LEMMA CommandInvariant == Spec => []CommandInv
<1>1. Init => CommandInv
  <2>1. Init => DiscoveryInv /\ DiscoveryTypeOK
    BY InitDiscovery DEF Init, DiscoveryInv
  <2> QED
    BY <2>1, InitPlace, InitShaped, InitQuiet, InitPooled, InitKept DEF CommandInv
<1>2. CommandInv /\ [Next]_vars => CommandInv'
  <2> SUFFICES ASSUME CommandInv, [Next]_vars PROVE CommandInv'
    OBVIOUS
  <2>1. DiscoveryInv'
    BY StepDiscovers, NextDiscovery DEF CommandInv
  <2>2. /\ DiscoveryTypeOK /\ DiscoveryTypeOK'
        /\ Place /\ Shaped /\ Quiet /\ Pooled /\ Kept /\ Complete
    BY <2>1 DEF CommandInv, DiscoveryInv
  <2>3. Place' /\ Shaped' /\ Quiet'
    BY <2>2, NextPlace, NextShaped, NextQuiet
  <2>4. Pooled' /\ Kept' /\ Complete'
    BY <2>2, NextPooled, NextKept, NextComplete
  <2> QED
    BY <2>1, <2>3, <2>4 DEF CommandInv
<1> QED
  BY <1>1, <1>2, PTL DEF Spec

\* Every variable of a process keeps its type, and staging keeps pace with
\* storing.
THEOREM TypeCorrect == Spec => []TypeOK
<1>1. CommandInv => TypeOK
  BY DEF CommandInv, DiscoveryInv, Place, Shaped, Kept, StoreStatuses, StageStatuses, TypeOK, Over
<1> QED
  BY <1>1, CommandInvariant, PTL

\* The exit code a process ends with agrees with the one document it wrote.
THEOREM ExitAgrees == Spec => []ExitAgreesWithDocument
<1>1. CommandInv => ExitAgreesWithDocument
  BY DEF CommandInv, Quiet, Over, Agreement, ExitAgreesWithDocument
<1> QED
  BY <1>1, CommandInvariant, PTL

\* A `watch` or `check` that ends by itself has ended its pool.
THEOREM PoolDrained == Spec => []PoolIsDrained
<1>1. CommandInv => PoolIsDrained
  BY DEF CommandInv, Pooled, Over, PoolIsDrained
<1> QED
  BY <1>1, CommandInvariant, PTL

\* Exit code 0 of `discover --store-raw --stage` leaves no usable row of the
\* page, whatever its length, without a row in the staging table.
THEOREM ExitZeroStages == Spec => []ExitZeroStagesThePage
<1>1. ASSUME CommandInv PROVE ExitZeroStagesThePage
  <2> SUFFICES ASSUME pc = "ended", exitCode = 0, Has("stage"),
                      NEW n \in 1 .. Len(page.rows), Usable(page.rows[n])
               PROVE  \E k \in 1 .. Len(staged) :
                        /\ report.candidates[k] = page.rows[n]
                        /\ staged[k] \in {"staged", "already_staged"}
    BY DEF ExitZeroStagesThePage
  <2>1. /\ StoreRawOk
        /\ Len(stored) = Len(report.candidates) /\ Len(staged) = Len(stored)
    BY <1>1 DEF CommandInv, Complete, Over
  <2>2. Occurs(page.rows[n], report.candidates)
    BY <1>1, <2>1 DEF CommandInv, DiscoveryInv, Reported, RowsAccountedFor, StoreRawOk
  <2>3. PICK k \in 1 .. Len(staged) : report.candidates[k] = page.rows[n]
    BY <2>1, <2>2 DEF Occurs
  <2>4. stored[k] \in StoreStatuses /\ staged[k] \in StageStatuses
    <3>1. stored \in Seq(StoreStatuses) /\ staged \in Seq(StageStatuses)
      BY <1>1 DEF CommandInv, Kept
    <3> QED
      BY <2>1, <3>1
  <2>5. stored[k] \in {"stored", "skipped"} /\ staged[k] \notin {"conflict", "failed"}
    BY <2>1, <2>4 DEF StoreRawOk, StoreStatuses
  <2>6. staged[k] # "not_stageable"
    BY <1>1, <2>5 DEF CommandInv, Kept
  <2> QED
    BY <2>3, <2>4, <2>5, <2>6 DEF StageStatuses
<1> QED
  BY <1>1, CommandInvariant, PTL

\* What a discovery promises holds in every process that discovers.
THEOREM CommandsLoseNoRow == Spec => []RowsAccountedFor /\ []DuplicatesAreTold
<1>1. DiscoveryInv => RowsAccountedFor /\ DuplicatesAreTold
  BY DEF DiscoveryInv, Reported
<1> QED
  BY <1>1, CommandDiscovers, PTL
=============================================================================
