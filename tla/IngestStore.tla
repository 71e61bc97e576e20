------------------------------ MODULE IngestStore ------------------------------
(***************************************************************************)
(* The store-and-stage fan-out shared by run-once and watch.  Each worker  *)
(* is a slot of a process's limiter: it takes a candidate, fetches its     *)
(* bytes, checks and writes the raw object under its checksum, and stages  *)
(* a row.  Every request to object storage and every SQL statement is a    *)
(* step of its own, so workers of one process, of overlapping run-once     *)
(* processes and of the watcher interleave between them.                   *)
(*                                                                         *)
(* Bytes stand for their SHA-256 and so for their object key.              *)
(***************************************************************************)
EXTENDS Integers

CONSTANTS
  Workers,      \* candidates in flight, over all processes
  Watchers,     \* those of the watch process, which look before they fetch
  Links,        \* replay links of the source
  Ids,          \* external ids
  NoId,         \* a link without one
  Contents,     \* byte strings
  NoContent,
  ExternalId,   \* external id of each link
  Serves,       \* what each link may serve, now or later
  Foreign,      \* contents whose object key holds an object of another size
  FaultKinds,   \* the kinds of fault below
  FaultBudget   \* bound: how often each kind may happen

ASSUME SourceAssumption ==
  /\ Watchers \subseteq Workers
  /\ NoId \notin Ids /\ NoContent \notin Contents
  /\ ExternalId \in [Links -> Ids \cup {NoId}]
  /\ Serves \in [Links -> SUBSET Contents]
  /\ Foreign \subseteq Contents
ASSUME IngestFaultAssumption ==
  /\ FaultKinds = {"fetch", "storage", "database", "crash", "purge"}
  /\ FaultBudget \in [FaultKinds -> Nat]

VARIABLES
  objects,   \* object storage: contents stored under their own key
  rows,      \* PostgreSQL: the keys of ingest_staging_records
  pc,        \* per worker: its next request
  link,      \* the candidate it works on
  content,   \* the bytes it fetched
  outcome,   \* how its last candidate ended
  faults     \* faults that may still happen

vars == <<objects, rows, pc, link, content, outcome, faults>>

NoLink == "no link"
Pcs == {"idle", "gate", "fetch", "head", "put", "probe", "insert",
        "find_object", "classify_source", "classify_object"}
Outcomes == {"none", "skipped", "not_stageable", "staged", "already_staged",
             "conflict", "failed", "rejected", "crashed"}

\* toSourceReplayId: without an external id it is derived from the link and
\* the bytes.
SourceReplayId(l, c) == IF ExternalId[l] = NoId THEN <<l, c>> ELSE ExternalId[l]
SourceReplayIds == Ids \cup (Links \X Contents)

Rows == [id : SourceReplayIds, sum : Contents]

Payload(w) == [id |-> SourceReplayId(link[w], content[w]), sum |-> content[w]]

Fault(kind) ==
  /\ faults[kind] > 0
  /\ faults' = [faults EXCEPT ![kind] = @ - 1]

RowsOfSource(id) == {row \in rows : row.id = id}
RowsOfObject(sum) == {row \in rows : row.sum = sum}

-----------------------------------------------------------------------------
Init ==
  /\ objects = {} /\ rows = {}
  /\ pc = [w \in Workers |-> "idle"]
  /\ link = [w \in Workers |-> NoLink]
  /\ content = [w \in Workers |-> NoContent]
  /\ outcome = [w \in Workers |-> "none"]
  /\ faults = FaultBudget

Go(w, step) ==
  /\ pc' = [pc EXCEPT ![w] = step]
  /\ UNCHANGED <<link, content, outcome>>

End(w, result) ==
  /\ pc' = [pc EXCEPT ![w] = "idle"]
  /\ outcome' = [outcome EXCEPT ![w] = result]
  /\ UNCHANGED <<link, content>>

\* Mutant: a link without an external id is looked up as well.
GateAppliesAlways(w, l) == w \in Watchers
\* isTrustworthyId: an id that is derived from the bytes cannot be looked up.
GateApplies(w, l) == w \in Watchers /\ ExternalId[l] # NoId

Take(w, l) ==
  /\ pc[w] = "idle"
  /\ link' = [link EXCEPT ![w] = l]
  /\ content' = [content EXCEPT ![w] = NoContent]
  /\ outcome' = [outcome EXCEPT ![w] = "none"]
  /\ pc' = [pc EXCEPT ![w] = IF GateApplies(w, l) THEN "gate" ELSE "fetch"]
  /\ UNCHANGED <<objects, rows, faults>>

\* existsBySourceIdentity, before any byte is downloaded.
Gate(w) ==
  /\ pc[w] = "gate"
  /\ IF RowsOfSource(ExternalId[link[w]]) # {}
       THEN End(w, "skipped")
       ELSE Go(w, "fetch")
  /\ UNCHANGED <<objects, rows, faults>>

Fetch(w, c) ==
  /\ pc[w] = "fetch"
  /\ c \in Serves[link[w]]
  /\ content' = [content EXCEPT ![w] = c]
  /\ pc' = [pc EXCEPT ![w] = "head"]
  /\ UNCHANGED <<objects, rows, link, outcome, faults>>

FetchFails(w) ==
  /\ pc[w] = "fetch"
  /\ Fault("fetch")
  /\ End(w, "not_stageable")
  /\ UNCHANGED <<objects, rows>>

-----------------------------------------------------------------------------
(* storeRawReplay: HEAD, then PUT when there is no object.                 *)

\* An object of another size or checksum under the key is left alone.
Head(w) ==
  /\ pc[w] = "head"
  /\ IF content[w] \in Foreign    THEN End(w, "not_stageable")
     ELSE IF content[w] \in objects THEN Go(w, "probe")
     ELSE Go(w, "put")
  /\ UNCHANGED <<objects, rows, faults>>

HeadFails(w) ==
  /\ pc[w] = "head"
  /\ Fault("storage")
  /\ End(w, "not_stageable")
  /\ UNCHANGED <<objects, rows>>

Put(w) ==
  /\ pc[w] = "put"
  /\ objects' = objects \cup {content[w]}
  /\ Go(w, "probe")
  /\ UNCHANGED <<rows, faults>>

\* Mutant: evidence of a failed write counts as an object to stage.
AfterFailedPutStaged(w) == Go(w, "probe")
AfterFailedPut(w) == End(w, "not_stageable")

\* The PUT errors; the object may be there all the same.
PutFails(w) ==
  /\ pc[w] = "put"
  /\ Fault("storage")
  /\ objects' \in {objects, objects \cup {content[w]}}
  /\ AfterFailedPut(w)
  /\ UNCHANGED rows

-----------------------------------------------------------------------------
(* stage: insert ... on conflict (checksum, object_key) do nothing.        *)
(* PostgreSQL first probes the named index and skips the row on a hit.     *)
(* Then it inserts; a source identity taken meanwhile raises 23505, an     *)
(* object taken meanwhile is skipped like a hit of the probe.              *)

Probe(w) ==
  /\ pc[w] = "probe"
  /\ Go(w, IF RowsOfObject(content[w]) # {} THEN "find_object" ELSE "insert")
  /\ UNCHANGED <<objects, rows, faults>>

Insert(w) ==
  /\ pc[w] = "insert"
  /\ RowsOfSource(Payload(w).id) = {}
  /\ RowsOfObject(content[w]) = {}
  /\ rows' = rows \cup {Payload(w)}
  /\ End(w, "staged")
  /\ UNCHANGED <<objects, faults>>

InsertSkipped(w) ==
  /\ pc[w] = "insert"
  /\ RowsOfSource(Payload(w).id) = {}
  /\ RowsOfObject(content[w]) # {}
  /\ Go(w, "find_object")
  /\ UNCHANGED <<objects, rows, faults>>

UniqueViolation(w) ==
  /\ pc[w] = "insert"
  /\ RowsOfSource(Payload(w).id) # {}
  /\ Go(w, "classify_source")
  /\ UNCHANGED <<objects, rows, faults>>

\* The statement errors otherwise; its row may have been committed.
InsertFails(w) ==
  /\ pc[w] \in {"probe", "insert"}
  /\ Fault("database")
  /\ rows' \in {rows, IF RowsOfSource(Payload(w).id) \cup RowsOfObject(content[w]) = {}
                        THEN rows \cup {Payload(w)} ELSE rows}
  /\ End(w, "failed")
  /\ UNCHANGED objects

\* No row was returned: the row of the object is read back, whoever's it is.
FindObject(w) ==
  /\ pc[w] = "find_object"
  /\ IF RowsOfObject(content[w]) # {}
       THEN End(w, "already_staged")
       ELSE Go(w, "classify_source")
  /\ UNCHANGED <<objects, rows, faults>>

FindObjectFails(w) ==
  /\ pc[w] = "find_object"
  /\ Fault("database")
  /\ End(w, "failed")
  /\ UNCHANGED <<objects, rows>>

\* Mutant: a row of the same source identity is the candidate's own.
MatchesPayloadAlways(row, w) == TRUE
\* Mutant: a row of the same source identity is a conflict whatever it holds.
MatchesPayloadNever(row, w) == FALSE
MatchesPayload(row, w) == row.sum = content[w]

ExistingBySource(w) == RowsOfSource(Payload(w).id)

\* classifyExistingStaging, first statement.
ClassifySource(w) ==
  /\ pc[w] = "classify_source"
  /\ \/ /\ ExistingBySource(w) = {}
        /\ Go(w, "classify_object")
     \/ \E row \in ExistingBySource(w) :
          End(w, IF MatchesPayload(row, w) THEN "already_staged" ELSE "conflict")
  /\ UNCHANGED <<objects, rows, faults>>

\* Its second statement.
ClassifyObject(w) ==
  /\ pc[w] = "classify_object"
  /\ End(w, IF RowsOfObject(content[w]) # {} THEN "conflict" ELSE "failed")
  /\ UNCHANGED <<objects, rows, faults>>

\* An error of the gate or of classifyExistingStaging is caught nowhere below
\* the page: the candidate's promise is rejected.
Rejected(w) ==
  /\ pc[w] \in {"gate", "classify_source", "classify_object"}
  /\ Fault("database")
  /\ End(w, "rejected")
  /\ UNCHANGED <<objects, rows>>

-----------------------------------------------------------------------------
\* The process dies.
Crash(w) ==
  /\ pc[w] # "idle"
  /\ Fault("crash")
  /\ End(w, "crashed")
  /\ UNCHANGED <<objects, rows>>

\* The owner of the table removes a row.
Purge(row) ==
  /\ row \in rows
  /\ Fault("purge")
  /\ rows' = rows \ {row}
  /\ UNCHANGED <<objects, pc, link, content, outcome>>

Next ==
  \/ \E w \in Workers :
       \/ \E l \in Links : Take(w, l)
       \/ \E c \in Contents : Fetch(w, c)
       \/ Gate(w) \/ FetchFails(w) \/ Head(w) \/ HeadFails(w)
       \/ Put(w) \/ PutFails(w)
       \/ Probe(w) \/ Insert(w) \/ InsertSkipped(w) \/ UniqueViolation(w)
       \/ InsertFails(w) \/ FindObject(w) \/ FindObjectFails(w)
       \/ ClassifySource(w) \/ ClassifyObject(w) \/ Rejected(w)
       \/ Crash(w)
  \/ \E row \in rows : Purge(row)

Spec == Init /\ [][Next]_vars
-----------------------------------------------------------------------------
(* What the fan-out promises.                                              *)

\* Every variable has its type; a worker past the download holds bytes.
TypeOK ==
  /\ objects \subseteq Contents /\ rows \subseteq Rows
  /\ pc \in [Workers -> Pcs]
  /\ link \in [Workers -> Links \cup {NoLink}]
  /\ content \in [Workers -> Contents \cup {NoContent}]
  /\ \A w \in Workers :
       /\ pc[w] # "idle" => link[w] \in Links
       /\ pc[w] \notin {"idle", "gate", "fetch"} => content[w] \in Contents
       /\ pc[w] = "gate" => ExternalId[link[w]] # NoId
  /\ outcome \in [Workers -> Outcomes]
  /\ faults \in [FaultKinds -> Nat]

\* Every staging row points at an object that is in storage, whatever failed,
\* died or raced between the two stores.
RowsHaveObjects == \A row \in rows : row.sum \in objects

Unpurged == faults["purge"] = FaultBudget["purge"]

\* What a worker was told is true of the rows as they are.
AnswersHold ==
  \A w \in Workers :
    /\ outcome[w] = "skipped" => RowsOfSource(ExternalId[link[w]]) # {}
    /\ outcome[w] = "staged" => Payload(w) \in rows
    /\ outcome[w] = "already_staged" => RowsOfObject(content[w]) # {}
    /\ outcome[w] = "conflict" =>
         \E row \in RowsOfSource(Payload(w).id) : row.sum # content[w]

\* As long as nobody removed a row, what a worker was told is still true when
\* its page is tallied: a skipped candidate has a row, the bytes of a staged or
\* already staged one have a row, and a conflict is with a row of other bytes.
AnswersAreTrue == Unpurged => AnswersHold

\* As long as nobody removed a row, the statements that look for the row behind
\* a unique violation find it: "unique_violation_without_existing_staging" is
\* never reported.
ViolationHasRow == Unpurged => \A w \in Workers : pc[w] # "classify_object"

\* What a worker asks the staging table, and what it has been told, in the
\* terms of IngestLedger.
Asking == {"probe", "insert", "find_object", "classify_source", "classify_object"}
Told   == {"staged", "already_staged", "conflict", "failed"}

askedBy(w) ==
  IF pc[w] \in Asking \/ outcome[w] \in Told THEN Payload(w) ELSE NoContent
toldTo(w) ==
  IF pc[w] \in Asking THEN "undecided"
  ELSE IF outcome[w] \in Told THEN outcome[w]
  ELSE "none"

Ledger == INSTANCE IngestLedger WITH
  Payloads <- Rows, NoPayload <- NoContent,
  archived <- objects,
  payload  <- [w \in Workers |-> askedBy(w)],
  answer   <- [w \in Workers |-> toldTo(w)]

\* The steps of storing and staging implement the one-step ledger.
LedgerSpec == Ledger!Spec
=============================================================================
