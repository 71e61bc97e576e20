----------------------------- MODULE IngestLedger -----------------------------
(***************************************************************************)
(* What storing and staging promise, each candidate answered in one step:  *)
(* a row is only recorded for bytes that are archived, no two rows share a *)
(* source identity or an object, and an answer is true of the rows at some *)
(* moment between the question and the answer, whatever rows the owner of  *)
(* the table removes.                                                      *)
(***************************************************************************)
CONSTANTS
  Workers,    \* candidates in flight, over all processes
  Payloads,   \* staging payloads: [id, sum]
  NoPayload

VARIABLES
  archived,   \* checksums with an object in storage
  rows,       \* payloads that have a staging row
  payload,    \* per worker: the payload it asks about
  answer      \* per worker: what it was told

vars == <<archived, rows, payload, answer>>

Answers == {"none", "undecided", "staged", "already_staged", "conflict", "failed"}

Init ==
  /\ archived = {}
  /\ rows = {}
  /\ payload = [w \in Workers |-> NoPayload]
  /\ answer = [w \in Workers |-> "none"]

\* Bytes reach storage and their candidate fails all the same.
Archive(sum) ==
  /\ archived' = archived \cup {sum}
  /\ UNCHANGED <<rows, payload, answer>>

\* A candidate's bytes are in storage, now if not before, and its row is asked for.
Ask(w, p) ==
  /\ answer[w] = "none"
  /\ archived' = archived \cup {p.sum}
  /\ payload' = [payload EXCEPT ![w] = p]
  /\ answer' = [answer EXCEPT ![w] = "undecided"]
  /\ UNCHANGED rows

Undecided(w) == answer[w] = "undecided"

Tell(w, a) ==
  /\ answer' = [answer EXCEPT ![w] = a]
  /\ UNCHANGED <<archived, payload>>

\* The row is new.  Its answer may be lost on the way.
Record(w) ==
  /\ Undecided(w)
  /\ \A row \in rows : row.id # payload[w].id /\ row.sum # payload[w].sum
  /\ rows' = rows \cup {payload[w]}
  /\ Tell(w, "staged") \/ Tell(w, "failed")

\* The bytes are staged already.
Recognise(w) ==
  /\ Undecided(w)
  /\ \E row \in rows : row.sum = payload[w].sum
  /\ Tell(w, "already_staged")
  /\ UNCHANGED rows

\* The source identity is staged with other bytes, or the object is staged
\* although the identity's row was not there a moment ago.
Refuse(w) ==
  /\ Undecided(w)
  /\ \/ \E row \in rows : row.id = payload[w].id /\ row.sum # payload[w].sum
     \/ \E row \in rows : row.sum = payload[w].sum
  /\ Tell(w, "conflict")
  /\ UNCHANGED rows

Fail(w) ==
  /\ Undecided(w)
  /\ Tell(w, "failed")
  /\ UNCHANGED rows

\* The worker dies or turns to its next candidate.
Forget(w) ==
  /\ payload' = [payload EXCEPT ![w] = NoPayload]
  /\ answer' = [answer EXCEPT ![w] = "none"]
  /\ UNCHANGED <<archived, rows>>

\* The owner of the table removes a row.
Remove(row) ==
  /\ rows' = rows \ {row}
  /\ UNCHANGED <<archived, payload, answer>>

Next ==
  \/ \E p \in Payloads : Archive(p.sum)
  \/ \E w \in Workers, p \in Payloads : Ask(w, p)
  \/ \E w \in Workers : Record(w) \/ Recognise(w) \/ Refuse(w) \/ Fail(w) \/ Forget(w)
  \/ \E row \in rows : Remove(row)

Spec == Init /\ [][Next]_vars
=============================================================================
