-------------------------- MODULE IngestLedgerProofs --------------------------
(***************************************************************************)
(* Under every fault, and whatever rows are removed, the requests of       *)
(* storing and staging implement the one-step IngestLedger: every request  *)
(* is a step of the ledger or changes nothing of what the ledger sees.     *)
(***************************************************************************)
EXTENDS IngestStoreProofs

asked == [w \in Workers |-> askedBy(w)]
told  == [w \in Workers |-> toldTo(w)]

\* The inductive invariant.
IInv == TypeOK /\ Archived /\ Pending

\* A step of worker w leaves what the others asked and were told.
OnlyMoves(w) ==
  \A v \in Workers \ {w} :
    /\ pc'[v] = pc[v] /\ link'[v] = link[v]
    /\ content'[v] = content[v] /\ outcome'[v] = outcome[v]

\* The ledger sees a step of one worker as a change of that worker only.
LEMMA OneWorkerAsks ==
  ASSUME NEW w \in Workers, OnlyMoves(w)
  PROVE  /\ asked' = [asked EXCEPT ![w] = askedBy(w)']
         /\ told' = [told EXCEPT ![w] = toldTo(w)']
<1>1. ASSUME NEW v \in Workers, v # w
      PROVE  askedBy(v)' = askedBy(v) /\ toldTo(v)' = toldTo(v)
  BY <1>1 DEF OnlyMoves, askedBy, toldTo, Payload
<1> QED
  BY <1>1 DEF asked, told

\* What the ledger sees of a worker, before and after its request.
LEMMA SeenBefore ==
  ASSUME IInv, NEW w \in Workers
  PROVE  /\ pc[w] \in Asking => askedBy(w) = Payload(w) /\ toldTo(w) = "undecided"
         /\ pc[w] \notin Asking /\ pc[w] # "idle"
              => askedBy(w) = NoContent /\ toldTo(w) = "none"
  BY DEF IInv, Pending, askedBy, toldTo, Told

\* What the ledger sees of a worker that ends its candidate.
LEMMA EndSeen ==
  ASSUME IInv, NEW w \in Workers, NEW r, End(w, r)
  PROVE  /\ r \in Told => askedBy(w)' = Payload(w) /\ toldTo(w)' = r
         /\ r \notin Told => askedBy(w)' = NoContent /\ toldTo(w)' = "none"
         /\ OnlyMoves(w)
<1>1. pc'[w] = "idle" /\ outcome'[w] = r /\ link' = link /\ content' = content
  BY DEF IInv, End, TypeOK
<1>2. OnlyMoves(w)
  BY DEF IInv, End, TypeOK, OnlyMoves
<1> QED
  BY <1>1, <1>2 DEF askedBy, toldTo, Asking, Told, Payload

\* What the ledger sees of a worker that goes on to its next request.
LEMMA GoSeen ==
  ASSUME IInv, NEW w \in Workers, NEW step, Go(w, step), pc[w] # "idle"
  PROVE  /\ step \in Asking => askedBy(w)' = Payload(w) /\ toldTo(w)' = "undecided"
         /\ step \notin Asking => askedBy(w)' = NoContent /\ toldTo(w)' = "none"
         /\ OnlyMoves(w)
<1>1. pc'[w] = step /\ outcome'[w] = "none" /\ link' = link /\ content' = content
  BY DEF IInv, Go, TypeOK, Pending
<1>2. OnlyMoves(w)
  BY DEF IInv, Go, TypeOK, OnlyMoves
<1> QED
  BY <1>1, <1>2 DEF askedBy, toldTo, Told, Payload

-----------------------------------------------------------------------------
(* The steps of the ledger, from what a request leaves behind.             *)

\* A request that changes nothing the ledger sees is a stutter.
LEMMA Unseen ==
  ASSUME NEW w \in Workers, OnlyMoves(w), UNCHANGED <<objects, rows>>,
         askedBy(w)' = askedBy(w), toldTo(w)' = toldTo(w)
  PROVE  UNCHANGED Ledger!vars
<1>1. asked' = asked /\ told' = told
  BY OneWorkerAsks DEF asked, told
<1> QED
  BY <1>1 DEF Ledger!vars, asked, told

\* A worker whose object is in storage asks for its row.
LEMMA Asks ==
  ASSUME IInv, NEW w \in Workers, OnlyMoves(w), rows' = rows,
         pc[w] \in {"head", "put"}, objects' = objects \cup {content[w]},
         askedBy(w)' = Payload(w), toldTo(w)' = "undecided"
  PROVE  Ledger!Next
<1>1. Payload(w) \in Rows /\ Payload(w).sum = content[w]
  BY WorkerPayload DEF IInv
<1>2. told[w] = "none"
  BY SeenBefore DEF told, Asking
<1>3. Ledger!Ask(w, Payload(w))
  BY <1>1, <1>2, OneWorkerAsks DEF Ledger!Ask, asked, told
<1> QED
  BY <1>1, <1>3 DEF Ledger!Next

\* An object that reached storage through a failed PUT is archived.
LEMMA Archives ==
  ASSUME IInv, NEW w \in Workers, OnlyMoves(w), rows' = rows, pc[w] = "put",
         objects' = objects \cup {content[w]},
         askedBy(w)' = askedBy(w), toldTo(w)' = toldTo(w)
  PROVE  Ledger!Next
<1>1. Payload(w) \in Rows /\ Payload(w).sum = content[w]
  BY WorkerPayload DEF IInv
<1>2. asked' = asked /\ told' = told
  BY OneWorkerAsks DEF asked, told
<1>3. Ledger!Archive(Payload(w).sum)
  BY <1>1, <1>2 DEF Ledger!Archive, asked, told
<1> QED
  BY <1>1, <1>3 DEF Ledger!Next

\* A worker that drops its candidate is forgotten.
LEMMA Forgets ==
  ASSUME NEW w \in Workers, OnlyMoves(w), UNCHANGED <<objects, rows>>,
         askedBy(w)' = NoContent, toldTo(w)' = "none"
  PROVE  Ledger!Next
<1>1. Ledger!Forget(w)
  BY OneWorkerAsks DEF Ledger!Forget, asked, told
<1> QED
  BY <1>1 DEF Ledger!Next

\* A worker that was asking is told r.
LEMMA Tells ==
  ASSUME IInv, NEW w \in Workers, NEW r \in Told, End(w, r), pc[w] \in Asking,
         objects' = objects
  PROVE  /\ Ledger!Tell(w, r) /\ Ledger!Undecided(w)
         /\ asked[w] = Payload(w) /\ Payload(w).sum = content[w]
<1>1. asked[w] = Payload(w) /\ told[w] = "undecided"
  BY SeenBefore DEF asked, told
<1>2. asked' = [asked EXCEPT ![w] = Payload(w)] /\ told' = [told EXCEPT ![w] = r]
  BY EndSeen, OneWorkerAsks
<1>3. asked' = asked
  BY <1>1, <1>2 DEF asked
<1> QED
  BY <1>1, <1>2, <1>3 DEF Ledger!Tell, Ledger!Undecided, asked, told, Payload

-----------------------------------------------------------------------------
\* The initial state is one of the ledger.
LEMMA InitLedger == Init => Ledger!Init
  BY DEF Init, Ledger!Init, askedBy, toldTo, Asking, Told

\* Every step is a step of the ledger or a stutter.
LEMMA NextLedger == IInv /\ [Next]_vars => [Ledger!Next]_(Ledger!vars)
<1> SUFFICES ASSUME IInv, [Next]_vars
             PROVE  Ledger!Next \/ UNCHANGED Ledger!vars
  OBVIOUS
<1>1. ASSUME NEW w \in Workers, NEW l \in Links, Take(w, l) PROVE Ledger!Next
  <2>1. OnlyMoves(w)
    BY <1>1 DEF IInv, TypeOK, Take, OnlyMoves
  <2>2. pc'[w] \in {"gate", "fetch"} /\ outcome'[w] = "none"
    BY <1>1 DEF IInv, TypeOK, Take
  <2>3. askedBy(w)' = NoContent /\ toldTo(w)' = "none"
    BY <2>2 DEF askedBy, toldTo, Asking, Told
  <2> QED
    BY <1>1, <2>1, <2>3, Forgets DEF Take
<1>2. ASSUME NEW w \in Workers, NEW c \in Contents, Fetch(w, c)
      PROVE  UNCHANGED Ledger!vars
  <2>1. OnlyMoves(w)
    BY <1>2 DEF IInv, TypeOK, Fetch, OnlyMoves
  <2>2. pc'[w] = "head" /\ outcome'[w] = "none"
    BY <1>2 DEF IInv, TypeOK, Fetch, Pending
  <2>3. askedBy(w)' = NoContent /\ toldTo(w)' = "none"
    BY <2>2 DEF askedBy, toldTo, Asking, Told
  <2> QED
    BY <1>2, <2>1, <2>3, SeenBefore, Unseen DEF Fetch, Asking
<1>3. ASSUME NEW w \in Workers, pc[w] \notin Asking, pc[w] # "idle",
             UNCHANGED <<objects, rows>>,
             \/ \E r : r \notin Told /\ End(w, r)
             \/ \E step : step \notin Asking /\ Go(w, step)
      PROVE  UNCHANGED Ledger!vars
  BY <1>3, SeenBefore, EndSeen, GoSeen, Unseen
<1>4. ASSUME NEW w \in Workers, Gate(w) \/ FetchFails(w) \/ HeadFails(w)
      PROVE  UNCHANGED Ledger!vars
  <2>1. pc[w] \notin Asking /\ pc[w] # "idle" /\ UNCHANGED <<objects, rows>>
    BY <1>4 DEF Gate, FetchFails, HeadFails, Asking
  <2>2. \/ \E r : r \notin Told /\ End(w, r)
        \/ \E step : step \notin Asking /\ Go(w, step)
    BY <1>4 DEF Gate, FetchFails, HeadFails, Asking, Told
  <2> QED
    BY <1>3, <2>1, <2>2
<1>5. ASSUME NEW w \in Workers, Head(w)
      PROVE  Ledger!Next \/ UNCHANGED Ledger!vars
  <2>1. CASE content[w] \notin Foreign /\ content[w] \in objects
    BY <1>5, <2>1, GoSeen, Asks DEF Head, Asking
  <2>2. CASE ~(content[w] \notin Foreign /\ content[w] \in objects)
    <3>1. End(w, "not_stageable") \/ Go(w, "put")
      BY <1>5, <2>2 DEF Head
    <3> QED
      BY <1>3, <1>5, <3>1 DEF Head, Asking, Told
  <2> QED
    BY <2>1, <2>2
<1>6. ASSUME NEW w \in Workers, Put(w) PROVE Ledger!Next
  BY <1>6, GoSeen, Asks DEF Put, Asking
<1>7. ASSUME NEW w \in Workers, PutFails(w)
      PROVE  Ledger!Next \/ UNCHANGED Ledger!vars
  <2>1. /\ End(w, "not_stageable") /\ pc[w] = "put" /\ rows' = rows
        /\ objects' = objects \/ objects' = objects \cup {content[w]}
    BY <1>7 DEF PutFails, AfterFailedPut
  <2>2. OnlyMoves(w) /\ askedBy(w)' = askedBy(w) /\ toldTo(w)' = toldTo(w)
    BY <2>1, SeenBefore, EndSeen DEF Asking, Told
  <2> QED
    BY <2>1, <2>2, Archives, Unseen
<1>8. ASSUME NEW w \in Workers, Probe(w) \/ InsertSkipped(w) \/ UniqueViolation(w)
      PROVE  UNCHANGED Ledger!vars
  <2>1. pc[w] \in Asking /\ pc[w] # "idle" /\ UNCHANGED <<objects, rows>>
    BY <1>8 DEF Probe, InsertSkipped, UniqueViolation, Asking
  <2>2. \E step \in Asking : Go(w, step)
    BY <1>8 DEF Probe, InsertSkipped, UniqueViolation, Asking
  <2> QED
    BY <2>1, <2>2, SeenBefore, GoSeen, Unseen
<1>9. ASSUME NEW w \in Workers, NEW r \in {"staged", "failed"}, End(w, r),
             pc[w] \in Asking, objects' = objects,
             RowsOfSource(Payload(w).id) = {}, RowsOfObject(content[w]) = {},
             rows' = rows \cup {Payload(w)}
      PROVE  Ledger!Next
  <2>1. /\ Ledger!Tell(w, r) /\ Ledger!Undecided(w)
        /\ asked[w] = Payload(w) /\ Payload(w).sum = content[w]
    BY <1>9, Tells DEF Told
  <2>2. \A row \in rows : row.id # Payload(w).id /\ row.sum # Payload(w).sum
    BY <1>9, <2>1 DEF RowsOfSource, RowsOfObject
  <2>3. Ledger!Record(w)
    BY <1>9, <2>1, <2>2 DEF Ledger!Record, asked
  <2> QED
    BY <2>3 DEF Ledger!Next
<1>10. ASSUME NEW w \in Workers, End(w, "failed"), pc[w] \in Asking,
              UNCHANGED <<objects, rows>>
       PROVE  Ledger!Next
  <2>1. Ledger!Fail(w)
    BY <1>10, Tells DEF Ledger!Fail, Told
  <2> QED
    BY <2>1 DEF Ledger!Next
<1>11. ASSUME NEW w \in Workers, Insert(w) PROVE Ledger!Next
  BY <1>9, <1>11 DEF Insert, Asking
<1>12. ASSUME NEW w \in Workers, InsertFails(w) PROVE Ledger!Next
  <2>1. pc[w] \in Asking /\ End(w, "failed") /\ objects' = objects
    BY <1>12 DEF InsertFails, Asking
  <2>2. CASE rows' = rows
    BY <1>10, <2>1, <2>2
  <2>3. CASE rows' # rows
    <3>1. /\ RowsOfSource(Payload(w).id) = {} /\ RowsOfObject(content[w]) = {}
          /\ rows' = rows \cup {Payload(w)}
      BY <1>12, <2>3 DEF InsertFails
    <3> QED
      BY <1>9, <2>1, <3>1
  <2> QED
    BY <2>2, <2>3
<1>13. ASSUME NEW w \in Workers, End(w, "already_staged"), pc[w] \in Asking,
              UNCHANGED <<objects, rows>>, NEW row \in rows, row.sum = content[w]
       PROVE  Ledger!Next
  <2>1. Ledger!Recognise(w)
    BY <1>13, Tells DEF Ledger!Recognise, Told, asked
  <2> QED
    BY <2>1 DEF Ledger!Next
<1>14. ASSUME NEW w \in Workers, FindObject(w)
       PROVE  Ledger!Next \/ UNCHANGED Ledger!vars
  <2>1. CASE RowsOfObject(content[w]) # {}
    <3>1. PICK row \in rows : row.sum = content[w]
      BY <2>1 DEF RowsOfObject
    <3> QED
      BY <1>13, <1>14, <2>1, <3>1 DEF FindObject, Asking
  <2>2. CASE RowsOfObject(content[w]) = {}
    BY <1>14, <2>2, SeenBefore, GoSeen, Unseen DEF FindObject, Asking
  <2> QED
    BY <2>1, <2>2
<1>15. ASSUME NEW w \in Workers, FindObjectFails(w) PROVE Ledger!Next
  BY <1>10, <1>15 DEF FindObjectFails, Asking
<1>16. ASSUME NEW w \in Workers, ClassifySource(w)
       PROVE  Ledger!Next \/ UNCHANGED Ledger!vars
  <2>0. pc[w] \in Asking /\ pc[w] # "idle" /\ UNCHANGED <<objects, rows>>
    BY <1>16 DEF ClassifySource, Asking
  <2>1. CASE Go(w, "classify_object")
    BY <2>0, <2>1, SeenBefore, GoSeen, Unseen DEF Asking
  <2>2. CASE ~ Go(w, "classify_object")
    <3>1. PICK row \in rows :
            /\ row.id = Payload(w).id
            /\ End(w, IF row.sum = content[w] THEN "already_staged" ELSE "conflict")
      BY <1>16, <2>2 DEF ClassifySource, ExistingBySource, MatchesPayload, RowsOfSource
    <3>2. CASE row.sum = content[w]
      BY <1>13, <2>0, <3>1, <3>2
    <3>3. CASE row.sum # content[w]
      <4>1. Ledger!Refuse(w)
        BY <2>0, <3>1, <3>3, Tells DEF Ledger!Refuse, Told, asked
      <4> QED
        BY <4>1 DEF Ledger!Next
    <3> QED
      BY <3>2, <3>3
  <2> QED
    BY <2>1, <2>2
<1>17. ASSUME NEW w \in Workers, ClassifyObject(w) PROVE Ledger!Next
  <2>0. pc[w] \in Asking /\ UNCHANGED <<objects, rows>>
    BY <1>17 DEF ClassifyObject, Asking
  <2>1. CASE RowsOfObject(content[w]) # {}
    <3>1. PICK row \in rows : row.sum = content[w]
      BY <2>1 DEF RowsOfObject
    <3>2. End(w, "conflict")
      BY <1>17, <2>1 DEF ClassifyObject
    <3>3. Ledger!Refuse(w)
      BY <2>0, <3>1, <3>2, Tells DEF Ledger!Refuse, Told, asked
    <3> QED
      BY <3>3 DEF Ledger!Next
  <2>2. CASE RowsOfObject(content[w]) = {}
    BY <1>10, <1>17, <2>0, <2>2 DEF ClassifyObject
  <2> QED
    BY <2>1, <2>2
<1>18. ASSUME NEW w \in Workers, Rejected(w) \/ Crash(w) PROVE Ledger!Next
  <2>1. UNCHANGED <<objects, rows>> /\ (End(w, "rejected") \/ End(w, "crashed"))
    BY <1>18 DEF Rejected, Crash
  <2> QED
    BY <2>1, EndSeen, Forgets DEF Told
<1>19. ASSUME NEW row \in rows, Purge(row) PROVE Ledger!Next
  <2>1. \A w \in Workers : askedBy(w)' = askedBy(w) /\ toldTo(w)' = toldTo(w)
    BY <1>19 DEF Purge, askedBy, toldTo, Payload
  <2>2. asked' = asked /\ told' = told
    BY <2>1 DEF asked, told
  <2>3. Ledger!Remove(row)
    BY <1>19, <2>2 DEF Purge, Ledger!Remove, asked, told
  <2> QED
    BY <2>3 DEF Ledger!Next
<1>20. CASE UNCHANGED vars
  <2>1. ASSUME NEW w \in Workers
        PROVE  askedBy(w)' = askedBy(w) /\ toldTo(w)' = toldTo(w)
    BY <1>20 DEF vars, askedBy, toldTo, Payload
  <2>2. asked' = asked /\ told' = told
    BY <2>1 DEF asked, told
  <2> QED
    BY <1>20, <2>2 DEF vars, Ledger!vars, asked, told
<1> QED
  BY <1>1, <1>2, <1>4, <1>5, <1>6, <1>7, <1>8, <1>11, <1>12, <1>14, <1>15,
     <1>16, <1>17, <1>18, <1>19, <1>20 DEF Next

\* The interleaved requests of any number of workers, under every fault and
\* removed row, implement the ledger that answers each candidate in one step,
\* truthfully, and never records two rows for a source identity or an object
\* (stage, storeRawReplay).
THEOREM ImplementsLedger == Spec => LedgerSpec
<1>1. Init => Pending
  BY DEF Init, Pending
<1>2. Spec => []IInv
  BY <1>1, TypeCorrect, AlwaysArchived, NextPending, PTL DEF IInv, Spec
<1> QED
  BY <1>2, InitLedger, NextLedger, PTL DEF Spec, LedgerSpec, Ledger!Spec
=============================================================================
