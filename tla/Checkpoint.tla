------------------------------ MODULE Checkpoint ------------------------------
(***************************************************************************)
(* The rolling checkpoint of run-once as a value: its fields, the resume   *)
(* point it stands for and the merge that resolves a lost write race.      *)
(*                                                                         *)
(* A page entry is abstracted to the run that recorded it, and the         *)
(* aggregate counts to the page entries they sum.  Timestamps, the source  *)
(* address and the unused lastSourceFailure are left out.                  *)
(***************************************************************************)
EXTENDS Integers

CONSTANTS
  RunIds,    \* identifiers of runs
  Pages,     \* page numbers, from 1 on
  NoEntry    \* no entry recorded for a page; not a run

CheckpointStatuses == {"complete", "failed", "partial", "resumable", "running"}

\* Page entries: page number -> the run that recorded it, if any has.
PageEntries == [Pages -> RunIds \cup {NoEntry}]

Checkpoint == [runId : RunIds, status : CheckpointStatuses,
               lastCompletedPage : Nat, discoveredLastPage : Nat,
               pages : PageEntries, counts : PageEntries]

EmptyPages == [p \in Pages |-> NoEntry]

Recorded(entries) == {p \in Pages : entries[p] # NoEntry}

statusRank ==
  [complete |-> 5, failed |-> 4, partial |-> 3, resumable |-> 2, running |-> 1]

\* Progress is the completed page first and the status rank at equal pages.
AtLeast(a, b) ==
  \/ a.lastCompletedPage > b.lastCompletedPage
  \/ /\ a.lastCompletedPage = b.lastCompletedPage
     /\ statusRank[a.status] >= statusRank[b.status]

\* Mutant: at equal pages the remote side wins.
PickRemoteOnTies(local, remote) ==
  IF local.lastCompletedPage > remote.lastCompletedPage THEN local ELSE remote
PickHigherProgress(local, remote) ==
  IF AtLeast(local, remote) THEN local ELSE remote

Larger(m, n) == IF m >= n THEN m ELSE n

\* Union of the page entries; the remote side's entry wins.
MergePages(local, remote) ==
  [p \in Pages |-> IF remote[p] # NoEntry THEN remote[p] ELSE local[p]]

\* Mutant: the page entries of the remote side are dropped.
MergeLocalPages(local, remote) ==
  LET winner == PickHigherProgress(local, remote) IN
    [winner EXCEPT !.pages = local.pages]
MergeCheckpoints(local, remote) ==
  LET winner == PickHigherProgress(local, remote) IN
    [winner EXCEPT
       !.discoveredLastPage = Larger(local.discoveredLastPage,
                                     remote.discoveredLastPage),
       !.lastCompletedPage = Larger(local.lastCompletedPage,
                                    remote.lastCompletedPage),
       !.pages = MergePages(local.pages, remote.pages)]

\* buildCheckpoint: the counts aggregate every recorded page entry.
BuildCheckpoint(id, st, last, discovered, pages) ==
  [runId |-> id, status |-> st, lastCompletedPage |-> last,
   discoveredLastPage |-> discovered, pages |-> pages, counts |-> pages]

resumeFrom(c) == c.lastCompletedPage + 1
=============================================================================
