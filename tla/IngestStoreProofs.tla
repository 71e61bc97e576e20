--------------------------- MODULE IngestStoreProofs ---------------------------
(***************************************************************************)
(* What storing and staging promise for any number of workers, links and   *)
(* contents: rows have objects under every fault and purge, and answers    *)
(* stay true as long as nobody removes a row.                              *)
(***************************************************************************)
EXTENDS IngestStore, TLAPS

-----------------------------------------------------------------------------
(* Type correctness.                                                       *)

\* A worker with a link and bytes has a payload of the row type.
LEMMA PayloadType ==
  ASSUME NEW l \in Links, NEW c \in Contents
  PROVE  [id |-> SourceReplayId(l, c), sum |-> c] \in Rows
  BY SourceAssumption DEF SourceReplayId, SourceReplayIds, Rows

\* A worker past the download asks for a row of its own bytes.
LEMMA WorkerPayload ==
  ASSUME TypeOK, NEW w \in Workers, pc[w] \notin {"idle", "gate", "fetch"}
  PROVE  Payload(w) \in Rows /\ Payload(w).sum = content[w] /\ content[w] \in Contents
  BY PayloadType DEF TypeOK, Payload

\* Spending a fault leaves a budget.
LEMMA SpentFaultType ==
  ASSUME NEW kind \in FaultKinds, faults \in [FaultKinds -> Nat], Fault(kind)
  PROVE  faults' \in [FaultKinds -> Nat]
  BY DEF Fault

\* Every fault has a budget.
LEMMA FaultKindsKnown ==
  {"fetch", "storage", "database", "crash", "purge"} \subseteq FaultKinds
  BY IngestFaultAssumption

\* The part of the type invariant about the workers.
WorkersOK ==
  /\ pc \in [Workers -> Pcs]
  /\ link \in [Workers -> Links \cup {NoLink}]
  /\ content \in [Workers -> Contents \cup {NoContent}]
  /\ \A w \in Workers :
       /\ pc[w] # "idle" => link[w] \in Links
       /\ pc[w] \notin {"idle", "gate", "fetch"} => content[w] \in Contents
       /\ pc[w] = "gate" => ExternalId[link[w]] # NoId
  /\ outcome \in [Workers -> Outcomes]

\* A worker that ends its candidate keeps its types.
LEMMA EndWorkersOK ==
  ASSUME TypeOK, NEW w \in Workers, NEW r \in Outcomes, End(w, r)
  PROVE  WorkersOK'
  BY DEF End, TypeOK, WorkersOK, Pcs

\* A worker that goes on to its next request keeps its types.
LEMMA GoWorkersOK ==
  ASSUME TypeOK, NEW w \in Workers, NEW step \in Pcs \ {"gate"}, Go(w, step),
         pc[w] # "idle", step \notin {"idle", "fetch"} => content[w] \in Contents
  PROVE  WorkersOK'
  BY DEF Go, TypeOK, WorkersOK

\* The initial state is type correct.
LEMMA InitTypeOK == Init => TypeOK
  BY IngestFaultAssumption DEF Init, TypeOK, Pcs, Outcomes

\* Every step keeps the types.
LEMMA NextTypeOK == TypeOK /\ [Next]_vars => TypeOK'
<1> SUFFICES ASSUME TypeOK, [Next]_vars PROVE TypeOK'
  OBVIOUS
<1>0. WorkersOK' /\ objects' \subseteq Contents /\ rows' \subseteq Rows
      /\ faults' \in [FaultKinds -> Nat] => TypeOK'
  BY DEF TypeOK, WorkersOK
<1>1. ASSUME NEW w \in Workers, NEW l \in Links, Take(w, l) PROVE TypeOK'
  <2>1. GateApplies(w, l) => ExternalId[l] # NoId
    BY DEF GateApplies
  <2> QED
    BY <1>1, <2>1 DEF Take, TypeOK, Pcs, Outcomes
<1>2. ASSUME NEW w \in Workers, NEW c \in Contents, Fetch(w, c) PROVE TypeOK'
  BY <1>2 DEF Fetch, TypeOK, Pcs
<1>3. ASSUME NEW w \in Workers,
             \/ Gate(w) \/ Head(w) \/ Probe(w) \/ InsertSkipped(w)
             \/ UniqueViolation(w) \/ FindObject(w) \/ ClassifySource(w)
             \/ ClassifyObject(w)
      PROVE  TypeOK'
  <2>1. UNCHANGED <<objects, rows, faults>>
    BY <1>3 DEF Gate, Head, Probe, InsertSkipped, UniqueViolation, FindObject,
                ClassifySource, ClassifyObject
  <2>2. CASE \E r \in Outcomes : End(w, r)
    BY <1>0, <2>1, <2>2, EndWorkersOK DEF TypeOK
  <2>3. CASE pc[w] = "gate" /\ Go(w, "fetch")
    BY <1>0, <2>1, <2>3, GoWorkersOK DEF TypeOK, Pcs
  <2>4. CASE pc[w] \notin {"idle", "gate", "fetch"}
             /\ \E step \in Pcs \ {"idle", "gate", "fetch"} : Go(w, step)
    BY <1>0, <2>1, <2>4, GoWorkersOK DEF TypeOK
  <2> QED
    BY <1>3, <2>2, <2>3, <2>4
    DEF Gate, Head, Probe, InsertSkipped, UniqueViolation, FindObject,
        ClassifySource, ClassifyObject, Pcs, Outcomes
<1>4. ASSUME NEW w \in Workers, Put(w) PROVE TypeOK'
  BY <1>0, <1>4, WorkerPayload, GoWorkersOK DEF Put, TypeOK, Pcs
<1>5. ASSUME NEW w \in Workers, PutFails(w) PROVE TypeOK'
  <2>1. objects' \subseteq Contents /\ faults' \in [FaultKinds -> Nat]
    BY <1>5, WorkerPayload, SpentFaultType, FaultKindsKnown DEF PutFails, TypeOK
  <2> QED
    BY <1>0, <1>5, <2>1, EndWorkersOK DEF PutFails, AfterFailedPut, TypeOK, Outcomes
<1>6. ASSUME NEW w \in Workers, Insert(w) PROVE TypeOK'
  BY <1>0, <1>6, WorkerPayload, EndWorkersOK DEF Insert, TypeOK, Outcomes
<1>7. ASSUME NEW w \in Workers, InsertFails(w) PROVE TypeOK'
  <2>1. rows' \subseteq Rows /\ faults' \in [FaultKinds -> Nat]
    BY <1>7, WorkerPayload, SpentFaultType, FaultKindsKnown DEF InsertFails, TypeOK
  <2> QED
    BY <1>0, <1>7, <2>1, EndWorkersOK DEF InsertFails, TypeOK, Outcomes
<1>8. ASSUME NEW w \in Workers,
             \/ FetchFails(w) \/ HeadFails(w) \/ FindObjectFails(w)
             \/ Rejected(w) \/ Crash(w)
      PROVE  TypeOK'
  <2>1. faults' \in [FaultKinds -> Nat] /\ UNCHANGED <<objects, rows>>
    BY <1>8, SpentFaultType, FaultKindsKnown
    DEF FetchFails, HeadFails, FindObjectFails, Rejected, Crash, TypeOK
  <2>2. \E r \in Outcomes : End(w, r)
    BY <1>8 DEF FetchFails, HeadFails, FindObjectFails, Rejected, Crash, Outcomes
  <2> QED
    BY <1>0, <2>1, <2>2, EndWorkersOK DEF TypeOK
<1>9. ASSUME NEW row \in rows, Purge(row) PROVE TypeOK'
  BY <1>9, SpentFaultType, FaultKindsKnown DEF Purge, TypeOK
<1>10. CASE UNCHANGED vars
  BY <1>10 DEF vars, TypeOK
<1> QED
  BY <1>1, <1>2, <1>3, <1>4, <1>5, <1>6, <1>7, <1>8, <1>9, <1>10 DEF Next

\* Every variable keeps its type; a worker past the download holds bytes.
THEOREM TypeCorrect == Spec => []TypeOK
<1> QED
  BY InitTypeOK, NextTypeOK, PTL DEF Spec

-----------------------------------------------------------------------------
(* Rows have objects.  A worker that has come to the staging table has its *)
(* object in storage, and stored objects stay.                             *)

Archived ==
  /\ \A w \in Workers : pc[w] \in Asking => content[w] \in objects
  /\ \A row \in rows : row.sum \in objects

\* Every step keeps the objects of rows and of staging workers.
LEMMA NextArchived == TypeOK /\ Archived /\ [Next]_vars => Archived'
<1> SUFFICES ASSUME TypeOK, Archived, [Next]_vars PROVE Archived'
  OBVIOUS
<1> USE DEF Asking
<1>1. ASSUME NEW w \in Workers, objects \subseteq objects', rows' \subseteq rows,
             \E r : End(w, r)
      PROVE  Archived'
  BY <1>1 DEF End, TypeOK, Archived
<1>2. ASSUME NEW w \in Workers, NEW l \in Links, Take(w, l) PROVE Archived'
  BY <1>2 DEF Take, TypeOK, Archived
<1>3. ASSUME NEW w \in Workers, NEW c \in Contents, Fetch(w, c) PROVE Archived'
  BY <1>3 DEF Fetch, TypeOK, Archived
<1>4. ASSUME NEW w \in Workers, NEW step \in Pcs, Go(w, step),
             step \in Asking => content[w] \in objects',
             objects \subseteq objects', rows' = rows
      PROVE  Archived'
  BY <1>4 DEF Go, TypeOK, Archived
<1>5. ASSUME NEW w \in Workers, Gate(w) PROVE Archived'
  BY <1>1, <1>4, <1>5 DEF Gate, Pcs
<1>6. ASSUME NEW w \in Workers, Head(w) PROVE Archived'
  BY <1>1, <1>4, <1>6 DEF Head, Pcs
<1>7. ASSUME NEW w \in Workers, Put(w) PROVE Archived'
  BY <1>4, <1>7 DEF Put, Pcs
<1>8. ASSUME NEW w \in Workers,
             \/ Probe(w) \/ InsertSkipped(w) \/ UniqueViolation(w) \/ FindObject(w)
             \/ ClassifySource(w) \/ ClassifyObject(w)
      PROVE  Archived'
  <2>1. content[w] \in objects /\ UNCHANGED <<objects, rows>>
    BY <1>8 DEF Probe, InsertSkipped, UniqueViolation, FindObject, ClassifySource,
                ClassifyObject, Archived
  <2>2. (\E r : End(w, r)) \/ (\E step \in Pcs : Go(w, step))
    BY <1>8 DEF Probe, InsertSkipped, UniqueViolation, FindObject, ClassifySource,
                ClassifyObject, Pcs
  <2> QED
    BY <1>1, <1>4, <2>1, <2>2
<1>9. ASSUME NEW w \in Workers, Insert(w) \/ InsertFails(w) PROVE Archived'
  <2>1. content[w] \in objects /\ objects' = objects
        /\ rows' \subseteq rows \cup {Payload(w)}
    BY <1>9 DEF Insert, InsertFails, Archived
  <2>2. \A row \in rows' : row.sum \in objects'
    BY <2>1 DEF Archived, Payload
  <2>3. \E r : End(w, r)
    BY <1>9 DEF Insert, InsertFails
  <2> QED
    BY <2>1, <2>2, <2>3 DEF End, TypeOK, Archived
<1>10. ASSUME NEW w \in Workers, PutFails(w) PROVE Archived'
  BY <1>1, <1>10 DEF PutFails, AfterFailedPut
<1>11. ASSUME NEW w \in Workers,
              \/ FetchFails(w) \/ HeadFails(w) \/ FindObjectFails(w)
              \/ Rejected(w) \/ Crash(w)
       PROVE  Archived'
  BY <1>1, <1>11 DEF FetchFails, HeadFails, FindObjectFails, Rejected, Crash
<1>12. ASSUME NEW row \in rows, Purge(row) PROVE Archived'
  BY <1>12 DEF Purge, Archived
<1>13. CASE UNCHANGED vars
  BY <1>13 DEF vars, Archived
<1> QED
  BY <1>2, <1>3, <1>5, <1>6, <1>7, <1>8, <1>9, <1>10, <1>11, <1>12, <1>13 DEF Next

\* Rows and staging workers have objects in every reachable state.
LEMMA AlwaysArchived == Spec => []Archived
<1>1. Init => Archived
  BY DEF Init, Archived, Asking
<1> QED
  BY <1>1, NextArchived, TypeCorrect, PTL DEF Spec

\* Every staging row points at an object that is in storage, whatever failed,
\* died, raced or was purged between the two stores (ingestPage stores first).
THEOREM RowsArchived == Spec => []RowsHaveObjects
<1>1. Archived => RowsHaveObjects
  BY DEF Archived, RowsHaveObjects
<1> QED
  BY <1>1, AlwaysArchived, PTL

-----------------------------------------------------------------------------
(* Rows that stay.  As long as the owner of the table removes no row, what *)
(* was read of it stays true: a skipped insert finds its object's row, a   *)
(* unique violation finds its source's, and an answer is not outdated.     *)

\* A worker at work has no outcome yet.
Pending == \A w \in Workers : pc[w] # "idle" => outcome[w] = "none"

\* Rows are removed within the budget.
Budgeted == faults["purge"] <= FaultBudget["purge"]

\* Every step keeps a worker at work without an outcome.
LEMMA NextPending == TypeOK /\ Pending /\ [Next]_vars => Pending'
<1> SUFFICES ASSUME TypeOK, Pending, [Next]_vars PROVE Pending'
  OBVIOUS
<1>1. ASSUME NEW w \in Workers, \E r : End(w, r) PROVE Pending'
  BY <1>1 DEF End, TypeOK, Pending
<1>2. ASSUME NEW w \in Workers, \E step : Go(w, step), pc[w] # "idle" PROVE Pending'
  BY <1>2 DEF Go, TypeOK, Pending
<1>3. ASSUME NEW w \in Workers, NEW l \in Links, Take(w, l) PROVE Pending'
  BY <1>3 DEF Take, TypeOK, Pending
<1>4. ASSUME NEW w \in Workers, NEW c \in Contents, Fetch(w, c) PROVE Pending'
  BY <1>4 DEF Fetch, TypeOK, Pending
<1>5. ASSUME NEW w \in Workers,
             \/ Gate(w) \/ Head(w) \/ Put(w) \/ Probe(w) \/ InsertSkipped(w)
             \/ UniqueViolation(w) \/ FindObject(w) \/ ClassifySource(w)
      PROVE  Pending'
  <2>1. pc[w] # "idle" /\ ((\E r : End(w, r)) \/ (\E step : Go(w, step)))
    BY <1>5 DEF Gate, Head, Put, Probe, InsertSkipped, UniqueViolation, FindObject,
                ClassifySource
  <2> QED
    BY <1>1, <1>2, <2>1
<1>6. ASSUME NEW w \in Workers,
             \/ FetchFails(w) \/ HeadFails(w) \/ PutFails(w) \/ Insert(w)
             \/ InsertFails(w) \/ FindObjectFails(w) \/ ClassifyObject(w)
             \/ Rejected(w) \/ Crash(w)
      PROVE  Pending'
  <2>1. \E r : End(w, r)
    BY <1>6 DEF FetchFails, HeadFails, PutFails, AfterFailedPut, Insert, InsertFails,
                FindObjectFails, ClassifyObject, Rejected, Crash
  <2> QED
    BY <1>1, <2>1
<1>7. ASSUME NEW row \in rows, Purge(row) PROVE Pending'
  BY <1>7 DEF Purge, Pending
<1>8. CASE UNCHANGED vars
  BY <1>8 DEF vars, Pending
<1> QED
  BY <1>3, <1>4, <1>5, <1>6, <1>7, <1>8 DEF Next

\* Faults are only spent, so a state without a purge has none behind it.
LEMMA NextBudgeted ==
  TypeOK /\ Budgeted /\ [Next]_vars
    => Budgeted' /\ (Unpurged' => Unpurged /\ faults'["purge"] = faults["purge"])
<1> SUFFICES ASSUME TypeOK, Budgeted, [Next]_vars
             PROVE  faults'["purge"] \in Nat /\ faults'["purge"] <= faults["purge"]
  BY IngestFaultAssumption, FaultKindsKnown DEF Budgeted, Unpurged, TypeOK
<1>1. ASSUME NEW kind \in FaultKinds, Fault(kind)
      PROVE  faults'["purge"] \in Nat /\ faults'["purge"] <= faults["purge"]
  BY <1>1, FaultKindsKnown DEF Fault, TypeOK
<1>2. CASE faults' = faults
  BY <1>2, FaultKindsKnown DEF TypeOK
<1>3. faults' = faults \/ \E kind \in FaultKinds : Fault(kind)
  BY FaultKindsKnown
  DEF Next, vars, Take, Fetch, Gate, FetchFails, Head, HeadFails, Put, PutFails, Probe,
      Insert, InsertSkipped, UniqueViolation, InsertFails, FindObject, FindObjectFails,
      ClassifySource, ClassifyObject, Rejected, Crash, Purge
<1> QED
  BY <1>1, <1>2, <1>3

Found ==
  \A w \in Workers :
    /\ pc[w] = "find_object" => RowsOfObject(content[w]) # {}
    /\ pc[w] = "classify_source" => RowsOfSource(Payload(w).id) # {}
    /\ pc[w] # "classify_object"

\* What an answer says of the rows.
True(w, r) ==
  /\ r = "skipped" => RowsOfSource(ExternalId[link[w]]) # {}
  /\ r = "staged" => Payload(w) \in rows
  /\ r = "already_staged" => RowsOfObject(content[w]) # {}
  /\ r = "conflict" => \E row \in RowsOfSource(Payload(w).id) : row.sum # content[w]

\* A step of one worker that removes no row outdates no other worker's answer.
LEMMA KeptAnswers ==
  ASSUME TypeOK, AnswersHold, Found, NEW w \in Workers, rows \subseteq rows',
         \A v \in Workers \ {w} :
           /\ pc'[v] = pc[v] /\ link'[v] = link[v] /\ content'[v] = content[v]
           /\ outcome'[v] = outcome[v],
         True(w, outcome[w])',
         pc'[w] = "find_object" => RowsOfObject(content[w])' # {},
         pc'[w] = "classify_source" => RowsOfSource(Payload(w).id)' # {},
         pc'[w] # "classify_object"
  PROVE  AnswersHold' /\ Found'
<1>1. ASSUME NEW v \in Workers \ {w}
      PROVE  /\ True(v, outcome[v])'
             /\ pc'[v] = "find_object" => RowsOfObject(content[v])' # {}
             /\ pc'[v] = "classify_source" => RowsOfSource(Payload(v).id)' # {}
             /\ pc'[v] # "classify_object"
  BY <1>1 DEF Found, AnswersHold, True, RowsOfObject, RowsOfSource, Payload
<1>2. AnswersHold'
  BY <1>1 DEF AnswersHold, True
<1> QED
  BY <1>1, <1>2 DEF Found

\* A worker that ends with a true answer keeps every answer true.
LEMMA EndSettled ==
  ASSUME TypeOK, AnswersHold, Found, NEW w \in Workers, NEW r \in Outcomes, End(w, r),
         rows \subseteq rows', True(w, r)'
  PROVE  AnswersHold' /\ Found'
<1>1. pc'[w] = "idle" /\ outcome'[w] = r
  BY DEF End, TypeOK
<1>2. \A v \in Workers \ {w} :
        /\ pc'[v] = pc[v] /\ link'[v] = link[v] /\ content'[v] = content[v]
        /\ outcome'[v] = outcome[v]
  BY DEF End, TypeOK
<1> QED
  BY <1>1, <1>2, KeptAnswers DEF True

\* A worker that goes on to its next request keeps every answer true.
LEMMA GoSettled ==
  ASSUME TypeOK, AnswersHold, Found, NEW w \in Workers, NEW step, Go(w, step),
         Pending, pc[w] # "idle", rows' = rows,
         step = "find_object" => RowsOfObject(content[w]) # {},
         step = "classify_source" => RowsOfSource(Payload(w).id) # {},
         step # "classify_object"
  PROVE  AnswersHold' /\ Found'
<1>1. pc'[w] = step /\ outcome' = outcome /\ link' = link /\ content' = content
      /\ outcome[w] = "none"
  BY DEF Go, TypeOK, Pending
<1>2. \A v \in Workers \ {w} : pc'[v] = pc[v]
  BY DEF Go, TypeOK
<1> QED
  BY <1>1, <1>2, KeptAnswers DEF True, RowsOfObject, RowsOfSource, Payload

\* Every step keeps the answers true and the looked-for rows found.
LEMMA NextSettled ==
  TypeOK /\ Pending /\ AnswersHold /\ Found /\ [Next]_vars
    /\ faults'["purge"] = faults["purge"]
  => AnswersHold' /\ Found'
<1> SUFFICES ASSUME TypeOK, Pending, AnswersHold, Found, [Next]_vars,
                    faults'["purge"] = faults["purge"]
             PROVE  AnswersHold' /\ Found'
  OBVIOUS
<1>1. ASSUME NEW w \in Workers, NEW l \in Links, Take(w, l)
      PROVE  AnswersHold' /\ Found'
  <2>1. outcome'[w] = "none" /\ pc'[w] \in {"gate", "fetch"} /\ rows' = rows
    BY <1>1 DEF Take, TypeOK
  <2>2. \A v \in Workers \ {w} :
          /\ pc'[v] = pc[v] /\ link'[v] = link[v] /\ content'[v] = content[v]
          /\ outcome'[v] = outcome[v]
    BY <1>1 DEF Take, TypeOK
  <2> QED
    BY <2>1, <2>2, KeptAnswers DEF True
<1>2. ASSUME NEW w \in Workers, NEW c \in Contents, Fetch(w, c)
      PROVE  AnswersHold' /\ Found'
  <2>1. outcome'[w] = "none" /\ pc'[w] = "head" /\ rows' = rows
    BY <1>2 DEF Fetch, TypeOK, Pending
  <2>2. \A v \in Workers \ {w} :
          /\ pc'[v] = pc[v] /\ link'[v] = link[v] /\ content'[v] = content[v]
          /\ outcome'[v] = outcome[v]
    BY <1>2 DEF Fetch, TypeOK
  <2> QED
    BY <2>1, <2>2, KeptAnswers DEF True
<1>3. ASSUME NEW w \in Workers, Gate(w) PROVE AnswersHold' /\ Found'
  <2>1. CASE RowsOfSource(ExternalId[link[w]]) # {}
    <3>1. True(w, "skipped")'
      BY <1>3, <2>1 DEF Gate, End, True, RowsOfSource
    <3> QED
      BY <1>3, <2>1, <3>1, EndSettled DEF Gate, Outcomes
  <2>2. CASE RowsOfSource(ExternalId[link[w]]) = {}
    BY <1>3, <2>2, GoSettled DEF Gate
  <2> QED
    BY <2>1, <2>2
<1>4. ASSUME NEW w \in Workers, Head(w) PROVE AnswersHold' /\ Found'
  <2>1. True(w, "not_stageable")'
    BY DEF True
  <2> QED
    BY <1>4, <2>1, EndSettled, GoSettled DEF Head, Outcomes
<1>5. ASSUME NEW w \in Workers, Put(w) PROVE AnswersHold' /\ Found'
  BY <1>5, GoSettled DEF Put
<1>6. ASSUME NEW w \in Workers, Probe(w) PROVE AnswersHold' /\ Found'
  BY <1>6, GoSettled DEF Probe
<1>7. ASSUME NEW w \in Workers, InsertSkipped(w) \/ UniqueViolation(w)
      PROVE  AnswersHold' /\ Found'
  BY <1>7, GoSettled DEF InsertSkipped, UniqueViolation
<1>8. ASSUME NEW w \in Workers, Insert(w) PROVE AnswersHold' /\ Found'
  <2>1. True(w, "staged")'
    BY <1>8 DEF Insert, End, True, Payload
  <2> QED
    BY <1>8, <2>1, EndSettled DEF Insert, Outcomes
<1>9. ASSUME NEW w \in Workers, InsertFails(w) PROVE AnswersHold' /\ Found'
  <2>1. True(w, "failed")'
    BY DEF True
  <2> QED
    BY <1>9, <2>1, EndSettled DEF InsertFails, Outcomes
<1>10. ASSUME NEW w \in Workers, FindObject(w) PROVE AnswersHold' /\ Found'
  <2>1. RowsOfObject(content[w]) # {} /\ End(w, "already_staged") /\ rows' = rows
    BY <1>10 DEF FindObject, Found
  <2>2. True(w, "already_staged")'
    BY <2>1 DEF True, End, RowsOfObject
  <2> QED
    BY <2>1, <2>2, EndSettled DEF Outcomes
<1>11. ASSUME NEW w \in Workers, ClassifySource(w) PROVE AnswersHold' /\ Found'
  <2>1. PICK row \in RowsOfSource(Payload(w).id) :
          End(w, IF row.sum = content[w] THEN "already_staged" ELSE "conflict")
    BY <1>11 DEF ClassifySource, ExistingBySource, MatchesPayload, Found
  <2>2. rows' = rows /\ content' = content /\ link' = link
    BY <1>11, <2>1 DEF ClassifySource, End
  <2>3. CASE row.sum = content[w]
    <3>1. True(w, "already_staged")'
      BY <2>2, <2>3 DEF True, RowsOfObject, RowsOfSource
    <3> QED
      BY <2>1, <2>2, <2>3, <3>1, EndSettled DEF Outcomes
  <2>4. CASE row.sum # content[w]
    <3>1. True(w, "conflict")'
      BY <2>2, <2>4 DEF True, RowsOfSource, Payload
    <3> QED
      BY <2>1, <2>2, <2>4, <3>1, EndSettled DEF Outcomes
  <2> QED
    BY <2>3, <2>4
<1>12. ASSUME NEW w \in Workers,
              \/ FetchFails(w) \/ HeadFails(w) \/ PutFails(w) \/ FindObjectFails(w)
              \/ Rejected(w) \/ Crash(w)
       PROVE  AnswersHold' /\ Found'
  <2>1. rows' = rows
    BY <1>12
    DEF FetchFails, HeadFails, PutFails, FindObjectFails, Rejected, Crash
  <2>2. \E r \in {"not_stageable", "failed", "rejected", "crashed"} : End(w, r)
    BY <1>12 DEF FetchFails, HeadFails, PutFails, AfterFailedPut, FindObjectFails,
                 Rejected, Crash
  <2>3. \A r \in {"not_stageable", "failed", "rejected", "crashed"} : True(w, r)'
    BY DEF True
  <2> QED
    BY <2>1, <2>2, <2>3, EndSettled DEF Outcomes
<1>13. ASSUME NEW w \in Workers, ClassifyObject(w) PROVE FALSE
  BY <1>13 DEF ClassifyObject, Found
<1>14. ASSUME NEW row \in rows, Purge(row) PROVE FALSE
  BY <1>14, FaultKindsKnown DEF Purge, Fault, TypeOK
<1>15. CASE UNCHANGED vars
  BY <1>15 DEF vars, Found, AnswersHold, RowsOfObject, RowsOfSource, Payload
<1> QED
  BY <1>1, <1>2, <1>3, <1>4, <1>5, <1>6, <1>7, <1>8, <1>9, <1>10, <1>11, <1>12,
     <1>13, <1>14, <1>15 DEF Next

\* As long as nobody removed a row, answers are true and looked-for rows found.
LEMMA AlwaysSettled == Spec => [](Unpurged => AnswersHold /\ Found)
<1>1. Init => AnswersHold /\ Found /\ Pending /\ Budgeted
  BY IngestFaultAssumption DEF Init, AnswersHold, Found, Pending, Budgeted
<1>2. TypeOK /\ Pending /\ Budgeted /\ (Unpurged => AnswersHold /\ Found) /\ [Next]_vars
      => (Unpurged => AnswersHold /\ Found)'
  BY NextSettled, NextBudgeted
<1> QED
  BY <1>1, <1>2, NextPending, NextBudgeted, TypeCorrect, PTL DEF Spec

\* What a worker was told is still true when its page is tallied, however many
\* workers staged in between, as long as nobody removed a row (ingestPage
\* tallies last).
THEOREM AnswersTrue == Spec => []AnswersAreTrue
<1>1. (Unpurged => AnswersHold /\ Found) => AnswersAreTrue
  BY DEF AnswersAreTrue
<1> QED
  BY <1>1, AlwaysSettled, PTL

\* "unique_violation_without_existing_staging" is dead code as long as nobody
\* removed a row: the row behind a unique violation is found by the first
\* statement (classifyExistingStaging).
THEOREM ViolationsHaveRows == Spec => []ViolationHasRow
<1>1. (Unpurged => AnswersHold /\ Found) => ViolationHasRow
  BY DEF Found, ViolationHasRow
<1> QED
  BY <1>1, AlwaysSettled, PTL
=============================================================================
