-------------------------------- MODULE Command --------------------------------
(***************************************************************************)
(* The life of one process of the command line: arguments, configuration,  *)
(* clients, the work, the JSON document on stdout, the log flush, the      *)
(* release of the clients, the exit code and the end of the process, with  *)
(* signals at any moment.                                                  *)
(*                                                                         *)
(* `discover` runs Discovery and then stores and stages its candidates one *)
(* by one; `check` and `contract-check` run their probes.  The page loop   *)
(* of `run-once` and the cycles of `watch` are modules RunOnce and Watch;  *)
(* here they are one step that ends well, ends badly or throws.            *)
(***************************************************************************)
EXTENDS Discovery

CONSTANT
  MaxSignals  \* bound: signals the process is sent

ASSUME SignalAssumption == MaxSignals \in Nat

VARIABLES
  argv,         \* the command and its flags
  environment,  \* what the environment variables amount to
  pc,           \* where the process is
  stdout,       \* the documents written, by their ok and status
  exitCode,     \* process.exitCode
  error,        \* whether an exception is on its way to the command line
  result,       \* the document the work amounts to so far
  stored,       \* storageResults
  staged,       \* stagingResults
  pool,         \* the PostgreSQL pool
  handlers,     \* signals the shutdown seam listens for
  stop,         \* stopRequested
  signals       \* signals that may still arrive

outcome == <<stdout, exitCode, error, result>>
results == <<stored, staged>>
seam    == <<handlers, stop, signals>>
started == <<argv, environment>>
shell   == <<started, pc, outcome, results, pool, seam>>
vars    == <<discoveryVars, shell>>

Flags == {"dry-run", "store-raw", "stage", "emit-evidence"}
Commands == {"check", "contract-check", "discover", "run-once", "watch"}
Argv ==
  [command : Commands \ {"discover", "run-once"}, flags : {{}}]
    \cup [command : {"discover"}, flags : SUBSET {"dry-run", "store-raw", "stage"}]
    \cup [command : {"run-once"}, flags : SUBSET {"emit-evidence"}]

\* Valid, invalid for every command, invalid only for those that need S3 and
\* PostgreSQL, or a flag of S3 that is not boolean-like.
Environments == {"valid", "source_invalid", "stores_invalid", "not_boolean"}

Pcs == {"start", "discover", "store", "stage", "run", "evidence", "document", "flush",
        "watch", "dispose", "probe_source", "probe_s3", "probe_staging", "contract_list",
        "contract_detail", "contract_raw", "thrown", "report", "drain", "ended", "killed"}

\* A document that is ok, ok but of a run the cap cut short, or not ok.
Documents == {"ok", "truncated", "not_ok"}
DocumentOf(passed) == IF passed THEN "ok" ELSE "not_ok"

Has(flag) == flag \in argv.flags
Is(command) == argv.command = command

Init ==
  /\ DiscoveryInit
  /\ argv \in Argv /\ environment \in Environments
  /\ pc = "start"
  /\ stdout = <<>> /\ exitCode = 0 /\ error = FALSE /\ result = "ok"
  /\ stored = <<>> /\ staged = <<>>
  /\ pool = "none" /\ handlers = {} /\ stop = FALSE
  /\ signals = MaxSignals

-----------------------------------------------------------------------------
(* Start: flags, configuration, clients.                                   *)

\* runExitCode: 0 is for a document that is ok and of a complete run.
ExitCode(document) == IF document = "ok" THEN 0 ELSE 2

\* writeJson, the exit code and the end of the handler.
Document(document, code) ==
  /\ stdout' = Append(stdout, document)
  /\ exitCode' = code
  /\ pc' = "report"
  /\ UNCHANGED <<error, result>>

FlagsClash ==
  /\ Is("discover")
  /\ \/ Has("dry-run") /\ Has("store-raw")
     \/ Has("stage") /\ ~Has("store-raw")
     \/ ~Has("dry-run") /\ ~Has("store-raw")

RefuseFlags ==
  /\ pc = "start" /\ FlagsClash
  /\ Document("not_ok", 2)
  /\ UNCHANGED <<started, results, pool, seam, discoveryVars>>

NeedsStores == Is("check") \/ Is("run-once") \/ Is("watch") \/ Has("store-raw")
NeedsPool   == Is("check") \/ Is("run-once") \/ Is("watch") \/ Has("stage")

\* loadSourceConfig and loadConfig; the transform of a boolean flag throws an
\* Error the schema does not turn into an issue.
ConfigInvalid ==
  \/ environment = "source_invalid"
  \/ environment = "stores_invalid" /\ NeedsStores
ConfigThrows == environment = "not_boolean" /\ NeedsStores

RefuseConfig ==
  /\ pc = "start" /\ ~FlagsClash /\ ConfigInvalid
  /\ Document("not_ok", 2)
  /\ UNCHANGED <<started, results, pool, seam, discoveryVars>>

\* An exception leaves the handler.
Throw ==
  /\ error' = TRUE
  /\ pc' = "thrown"
  /\ UNCHANGED <<stdout, exitCode, result>>

LoaderThrows ==
  /\ pc = "start" /\ ~FlagsClash /\ ConfigThrows
  /\ Throw
  /\ UNCHANGED <<started, results, pool, seam, discoveryVars>>

Work ==
  CASE Is("check")          -> "probe_source"
    [] Is("contract-check") -> "contract_list"
    [] Is("discover")       -> "discover"
    [] Is("run-once")       -> "run"
    [] Is("watch")          -> "watch"

Signals == {"SIGTERM", "SIGINT"}

\* The clients are built, which connects nothing yet.
Open ==
  /\ pc = "start" /\ ~FlagsClash /\ ~ConfigInvalid /\ ~ConfigThrows
  /\ pc' = Work
  /\ pool' = IF NeedsPool THEN "built" ELSE "none"
  /\ handlers' = IF Is("watch") THEN Signals ELSE {}
  /\ UNCHANGED <<started, outcome, results, stop, signals, discoveryVars>>

-----------------------------------------------------------------------------
(* discover                                                                *)

Discover ==
  /\ pc = "discover"
  /\ DiscoveryNext
  /\ UNCHANGED shell

DiscoveryThrows ==
  /\ pc = "discover" /\ step = "thrown"
  /\ Throw
  /\ UNCHANGED <<started, results, pool, seam, discoveryVars>>

\* Mutant: an unfinished dry run is not an exit code.
DryRunAlwaysSucceeds == 0
DryRunExit == IF report.ok THEN 0 ELSE 2

DryRun ==
  /\ pc = "discover" /\ step = "done" /\ Has("dry-run")
  /\ Document(DocumentOf(report.ok), DryRunExit)
  /\ UNCHANGED <<started, results, pool, seam, discoveryVars>>

StoreRaw ==
  /\ pc = "discover" /\ step = "done" /\ Has("store-raw")
  /\ pc' = "store"
  /\ UNCHANGED <<started, outcome, results, pool, seam, discoveryVars>>

\* Nothing is stored from a report that is not ok.
ToStore == IF report.ok THEN report.candidates ELSE <<>>

Store(status) ==
  /\ pc = "store" /\ Len(stored) < Len(ToStore)
  /\ stored' = Append(stored, status)
  /\ pc' = IF Has("stage") THEN "stage" ELSE "store"
  /\ UNCHANGED <<started, outcome, staged, pool, seam, discoveryVars>>

Stageable == stored[Len(stored)] \in {"stored", "skipped"}

Stage(status) ==
  /\ pc = "stage"
  /\ Stageable <=> status # "not_stageable"
  /\ staged' = Append(staged, status)
  /\ pc' = "store"
  /\ pool' = IF Stageable THEN "connected" ELSE pool
  /\ UNCHANGED <<started, outcome, stored, seam, discoveryVars>>

\* The SELECT that classifies an existing row errors.
StageThrows ==
  /\ pc = "stage" /\ Stageable
  /\ Throw
  /\ pool' = "connected"
  /\ UNCHANGED <<started, results, seam, discoveryVars>>

\* Mutant: only the raw storage is looked at.
StoreRawOkUnstaged ==
  /\ report.ok
  /\ \A k \in 1 .. Len(stored) : stored[k] \notin {"conflict", "failed"}
StoreRawOk ==
  /\ report.ok
  /\ \A k \in 1 .. Len(stored) : stored[k] \notin {"conflict", "failed"}
  /\ \A k \in 1 .. Len(staged) : staged[k] \notin {"conflict", "failed"}

StoreRawReport ==
  /\ pc = "store" /\ Len(stored) = Len(ToStore)
  /\ Document(DocumentOf(StoreRawOk), ExitCode(DocumentOf(StoreRawOk)))
  /\ UNCHANGED <<started, results, pool, seam, discoveryVars>>

-----------------------------------------------------------------------------
(* run-once and watch                                                      *)

RunEnds(document) ==
  /\ pc = "run"
  /\ result' = document
  /\ pc' = IF Has("emit-evidence") THEN "evidence" ELSE "document"
  /\ pool' \in {"built", "connected"}
  /\ UNCHANGED <<started, stdout, exitCode, error, results, seam, discoveryVars>>

\* An unreadable checkpoint, a null fixture entry or a rejected candidate is
\* caught nowhere below the command line.
RunThrows ==
  /\ pc = "run"
  /\ Throw
  /\ pool' \in {"built", "connected"}
  /\ UNCHANGED <<started, results, seam, discoveryVars>>

\* The evidence artifact: a failed write is logged and swallowed.
EmitEvidence ==
  /\ pc = "evidence"
  /\ pc' = "document"
  /\ UNCHANGED <<started, outcome, results, pool, seam, discoveryVars>>

Summarise ==
  /\ pc = "document"
  /\ stdout' = Append(stdout, result)
  /\ pc' = "flush"
  /\ UNCHANGED <<started, exitCode, error, result, results, pool, seam, discoveryVars>>

\* Mutant: the loop does not ask.
NeverStops == FALSE
shouldStop == stop

\* An error of a cycle is caught within the loop.
WatchEnds ==
  /\ pc = "watch" /\ shouldStop
  /\ pc' = "flush"
  /\ pool' \in {"built", "connected"}
  /\ UNCHANGED <<started, outcome, results, seam, discoveryVars>>

\* The handler of watch ends in its finally.
Flushed == IF Is("watch") THEN "dispose" ELSE "report"

FlushLogger ==
  /\ pc = "flush"
  /\ exitCode' = ExitCode(result)
  /\ pc' = Flushed
  /\ UNCHANGED <<started, stdout, error, result, results, pool, seam, discoveryVars>>

\* Mutant: an error of the flush leaves without the finally.
WithoutFinally == "thrown"
AfterFlushError == IF Is("watch") THEN "dispose" ELSE "thrown"

FlushRejects ==
  /\ pc = "flush"
  /\ error' = TRUE
  /\ pc' = AfterFlushError
  /\ UNCHANGED <<started, stdout, exitCode, result, results, pool, seam, discoveryVars>>

\* dispose swallows what the clients throw; then the listeners go.
Dispose ==
  /\ pc = "dispose"
  /\ pool' = "ended"
  /\ handlers' = {}
  /\ pc' = IF error THEN "thrown" ELSE "report"
  /\ UNCHANGED <<started, outcome, results, stop, signals, discoveryVars>>

-----------------------------------------------------------------------------
(* check and contract-check                                                *)

Probe(from, to, passed) ==
  /\ pc = from
  /\ pc' = to
  /\ result' = IF passed THEN result ELSE "not_ok"
  /\ UNCHANGED <<started, stdout, exitCode, error, results, pool, seam, discoveryVars>>

\* The last probe ends the pool, whatever it met, and the handler reports.
ProbeStaging(passed) ==
  /\ pc = "probe_staging"
  /\ pool' = "ended"
  /\ LET document == IF passed THEN result ELSE "not_ok" IN
       Document(document, ExitCode(document))
  /\ UNCHANGED <<started, results, seam, discoveryVars>>

Check ==
  \E passed \in BOOLEAN :
    \/ Probe("probe_source", "probe_s3", passed)
    \/ Probe("probe_s3", "probe_staging", passed)
    \/ ProbeStaging(passed)

\* A probe of the contract that cannot be read is not ok, whatever its reason.
ContractFails ==
  /\ pc \in {"contract_list", "contract_detail", "contract_raw"}
  /\ Document("not_ok", 2)
  /\ UNCHANGED <<started, results, pool, seam, discoveryVars>>

HasFirstRow ==
  /\ page.kind = "html" /\ page.rows # <<>>
  /\ page.rows[1].link # NoLink /\ ExternalId[page.rows[1].link] # NoId

\* No row, link, external id or filename: a warning, and the probe is ok.
ContractWarns ==
  /\ \/ pc = "contract_list" /\ ~HasFirstRow
     \/ pc = "contract_detail" /\ page.rows[1].file = NoFile
  /\ Document("ok", 0)
  /\ UNCHANGED <<started, results, pool, seam, discoveryVars>>

ContractGoesOn ==
  /\ \/ pc = "contract_list" /\ HasFirstRow /\ pc' = "contract_detail"
     \/ pc = "contract_detail" /\ page.rows[1].file # NoFile /\ pc' = "contract_raw"
  /\ UNCHANGED <<started, outcome, results, pool, seam, discoveryVars>>

\* A body that is not JSON breaks the contract.
ContractRaw(json) ==
  /\ pc = "contract_raw"
  /\ Document(DocumentOf(json), ExitCode(DocumentOf(json)))
  /\ UNCHANGED <<started, results, pool, seam, discoveryVars>>

-----------------------------------------------------------------------------
(* The command line and the process.                                       *)

\* captureFatal.
Fatal ==
  /\ pc = "thrown"
  /\ exitCode' = 1
  /\ pc' = "report"
  /\ UNCHANGED <<started, stdout, error, result, results, pool, seam, discoveryVars>>

\* flushSentry, in the finally of the command line.
FlushSentry ==
  /\ pc = "report"
  /\ pc' = "drain"
  /\ UNCHANGED <<started, outcome, results, pool, seam, discoveryVars>>

\* Clients nobody ended keep the process alive until the pool reaps them.
Reap ==
  /\ pc = "drain" /\ pool = "connected"
  /\ pool' = "built"
  /\ UNCHANGED <<started, pc, outcome, results, seam, discoveryVars>>

Exit ==
  /\ pc = "drain" /\ pool # "connected"
  /\ pc' = "ended"
  /\ UNCHANGED <<started, outcome, results, pool, seam, discoveryVars>>

\* A signal is heard once by the seam; unheard, it kills the process.
Signal(s) ==
  /\ pc \notin {"ended", "killed"}
  /\ signals > 0
  /\ signals' = signals - 1
  /\ IF s \in handlers
       THEN /\ stop' = TRUE
            /\ handlers' = handlers \ {s}
            /\ UNCHANGED pc
       ELSE /\ pc' = "killed"
            /\ UNCHANGED <<stop, handlers>>
  /\ UNCHANGED <<started, outcome, results, pool, discoveryVars>>

ProcessStep ==
  \/ RefuseFlags \/ RefuseConfig \/ LoaderThrows \/ Open
  \/ Discover \/ DiscoveryThrows \/ DryRun \/ StoreRaw
  \/ \E status \in {"stored", "skipped", "conflict", "failed"} : Store(status)
  \/ \E status \in {"staged", "already_staged", "conflict", "failed", "not_stageable"} :
       Stage(status)
  \/ StageThrows \/ StoreRawReport
  \/ \E document \in Documents : RunEnds(document)
  \/ RunThrows \/ EmitEvidence \/ Summarise \/ WatchEnds
  \/ FlushLogger \/ FlushRejects \/ Dispose
  \/ Check \/ ContractFails \/ ContractWarns \/ ContractGoesOn
  \/ \E json \in BOOLEAN : ContractRaw(json)
  \/ Fatal \/ FlushSentry \/ Reap \/ Exit

Next == ProcessStep \/ \E s \in Signals : Signal(s)

Spec == Init /\ [][Next]_vars

\* Requests end, by an answer or their timeout; the pool's idle timer fires.
FairSpec == Spec /\ WF_vars(ProcessStep)
-----------------------------------------------------------------------------
(* What a process promises.                                                *)

\* Every variable has its type; results are of candidates, staging follows
\* storing.
TypeOK ==
  /\ DiscoveryTypeOK
  /\ argv \in Argv /\ environment \in Environments /\ pc \in Pcs
  /\ stdout \in Seq(Documents) /\ exitCode \in {0, 1, 2}
  /\ error \in BOOLEAN /\ result \in Documents
  /\ stored \in Seq({"stored", "skipped", "conflict", "failed"})
  /\ staged \in Seq({"staged", "already_staged", "conflict", "failed", "not_stageable"})
  /\ Len(stored) <= Len(ToStore)
  /\ Has("stage") => Len(stored) = Len(staged) + (IF pc = "stage" THEN 1 ELSE 0)
                        \/ pc \in {"thrown", "report", "drain", "ended", "killed"}
  /\ pool \in {"none", "built", "connected", "ended"}
  /\ handlers \subseteq Signals /\ stop \in BOOLEAN /\ signals \in Nat

\* The scheduler and the reader of stdout are told the same: no process writes
\* two documents; exit code 0 comes with a document that is ok and of a
\* complete run (or from watch, which writes none), 2 with one that is not, and
\* 1 is an exception's.
ExitAgreesWithDocument ==
  pc = "ended" =>
    /\ Len(stdout) <= 1
    /\ exitCode = 0 => /\ Is("watch") \/ Len(stdout) = 1
                       /\ \A k \in 1 .. Len(stdout) : stdout[k] = "ok"
    /\ exitCode = 2 => Len(stdout) = 1 /\ stdout[1] # "ok"
    /\ exitCode = 1 <=> error

\* `discover --store-raw --stage` exits 0 only if every usable row of the page
\* has its candidate, and that candidate a row in the staging table.
ExitZeroStagesThePage ==
  pc = "ended" /\ exitCode = 0 /\ Has("stage") =>
    \A n \in 1 .. Len(page.rows) :
      Usable(page.rows[n]) =>
        \E k \in 1 .. Len(staged) :
          /\ report.candidates[k] = page.rows[n]
          /\ staged[k] \in {"staged", "already_staged"}

\* `watch` and `check` leave no pool behind when they end by themselves, an
\* exception included, and nothing uses the pool once it was ended.
PoolIsDrained ==
  /\ pc = "ended" /\ (Is("watch") \/ Is("check")) => pool \in {"none", "ended"}
  /\ pool = "ended" => pc \in {"thrown", "report", "drain", "ended", "killed"}

\* Every process ends, by itself or killed; `watch` once it was asked to.
ProcessEnds == (~Is("watch") \/ stop) ~> pc \in {"ended", "killed"}

\* A run of run-once that ends by itself has written exactly one document
\* (docs/integration-contract.md, "Output streams").
OneDocumentPerRun == pc = "ended" /\ Is("run-once") => Len(stdout) = 1
=============================================================================
