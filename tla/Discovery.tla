------------------------------- MODULE Discovery -------------------------------
(***************************************************************************)
(* One call of discoverReplaysDryRun as the commands make it: one page, no *)
(* gate (Watch models the watcher's).  The page is an HTML table, whose    *)
(* rows are completed by a detail read each, or a JSON fixture, whose      *)
(* entries carry everything.  Rows are read in source order; then the      *)
(* candidates are compared, exact repeats dropped and filenames that come  *)
(* up again told; then the report is built.                                *)
(*                                                                         *)
(* A row is what the source says of a replay: its link, the file its       *)
(* detail page names and its other metadata.  So a candidate is its row.   *)
(***************************************************************************)
EXTENDS Integers, Sequences

CONSTANTS
  Links,       \* usable replay links
  NoLink,      \* a row whose href is missing, foreign or no replay
  Files,       \* filenames
  NoFile,      \* a detail page or a fixture entry that names none
  Metas,       \* mission, world, server and date of a row
  NoId,        \* a link without external id
  ExternalId,  \* external id in each link
  Null,        \* a fixture entry that is null
  Pages        \* what the source may serve

Rows  == [link : Links \cup {NoLink}, file : Files \cup {NoFile}, meta : Metas]
Kinds == {"html", "fixture"}

ASSUME LinkAssumption == NoLink \notin Links /\ NoFile \notin Files
\* A body that is neither a table nor a fixture is an HTML page without rows.
ASSUME PagesAssumption == Pages \subseteq [kind : Kinds, rows : Seq(Rows \cup {Null})]
ASSUME NullAssumption ==
  /\ Null \notin Rows
  /\ \A p \in Pages : p.kind = "html" => p.rows \in Seq(Rows)

VARIABLES
  page,         \* what the source serves
  step,         \* list, rows, compare, done, thrown
  at,           \* the row or candidate looked at next
  found,        \* candidates of the rows
  output,       \* outputCandidates
  diagnostics,  \* of the rows, then of the candidates
  report        \* the report returned

discoveryVars == <<page, step, at, found, output, diagnostics, report>>

NoReport == [ok |-> FALSE, candidates |-> <<>>, diagnostics |-> <<>>]

\* candidateIndex, from 0, is absent where the code sets none.
NoIndex == -1
Diagnostic(code, link, index) == [code |-> code, link |-> link, index |-> index]
Codes == {"malformed_row", "missing_filename", "duplicate_filename",
          "changed_metadata", "source_failure"}
Diagnostics == [code : Codes, link : Links \cup {NoLink}, index : Nat \cup {NoIndex}]

Row == page.rows[at]
RowsLeft == step = "rows" /\ at <= Len(page.rows)
Usable(row) == row.link # NoLink /\ row.file # NoFile

\* Mutant: the row after a diagnosed one is passed over.
NextRowButOne(n) == n + 2
NextRow(n) == n + 1
-----------------------------------------------------------------------------
DiscoveryInit ==
  /\ page \in Pages
  /\ step = "list" /\ at = 1
  /\ found = <<>> /\ output = <<>> /\ diagnostics = <<>>
  /\ report = NoReport

ListPage ==
  /\ step = "list"
  /\ step' = "rows"
  /\ UNCHANGED <<page, at, found, output, diagnostics, report>>

\* A SourceFetchError ends the call: what its page had yielded is dropped.
Fail(link) ==
  /\ step' = "done"
  /\ report' = [ok |-> FALSE, candidates |-> <<>>,
                diagnostics |-> <<Diagnostic("source_failure", link, NoIndex)>>]
  /\ UNCHANGED <<page, at, found, output, diagnostics>>

ListFails == step = "list" /\ Fail(NoLink)

DetailFails ==
  /\ RowsLeft /\ page.kind = "html" /\ Row.link # NoLink
  /\ Fail(Row.link)

Diagnose(diagnostic) ==
  /\ diagnostics' = Append(diagnostics, diagnostic)
  /\ at' = NextRow(at)
  /\ UNCHANGED <<page, step, found, output, report>>

Find(candidate) ==
  /\ found' = Append(found, candidate)
  /\ at' = at + 1
  /\ UNCHANGED <<page, step, output, diagnostics, report>>

\* The diagnostic a row without candidate is given.
RowDiagnostic(n) ==
  CASE page.kind = "fixture"       -> Diagnostic("malformed_row", NoLink, n - 1)
    [] page.rows[n].link = NoLink  -> Diagnostic("malformed_row", NoLink, NoIndex)
    [] OTHER                       -> Diagnostic("missing_filename", page.rows[n].link, NoIndex)

\* A row without link, a detail page without filename or a malformed entry.
SkipRow ==
  /\ RowsLeft /\ Row # Null /\ ~Usable(Row)
  /\ Diagnose(RowDiagnostic(at))

\* A detail page that names the file, or an entry that does.
TakeRow ==
  /\ RowsLeft /\ Row # Null /\ Usable(Row)
  /\ Find(Row)

\* Reading a field of a null entry throws what nobody on the way catches.
NullThrows ==
  /\ RowsLeft /\ Row = Null
  /\ step' = "thrown"
  /\ UNCHANGED <<page, at, found, output, diagnostics, report>>

RowsDone ==
  /\ step = "rows" /\ at > Len(page.rows)
  /\ step' = "compare" /\ at' = 1
  /\ UNCHANGED <<page, found, output, diagnostics, report>>

-----------------------------------------------------------------------------
(* collectCandidateDiagnostics, one candidate at a time.                   *)

\* Mutant: a file that was seen is a repeat, whatever replay it is of.
RepeatsFile(k) == \E j \in 1 .. k - 1 : found[j].file = found[k].file
\* The same candidate was emitted before.
Repeats(k) == \E j \in 1 .. k - 1 : found[j] = found[k]

SameFile(k) == {j \in 1 .. k - 1 : found[j].file = found[k].file}

\* Mutant: only the entry before is compared.
ChangesLastMetadata(k) ==
  /\ k - 1 \in SameFile(k)
  /\ ExternalId[found[k - 1].link] = ExternalId[found[k].link]
  /\ found[k - 1].meta # found[k].meta
\* hasChangedMetadata: an entry of the file and the id says otherwise.
ChangesMetadata(k) ==
  \E j \in SameFile(k) :
    /\ ExternalId[found[j].link] = ExternalId[found[k].link]
    /\ found[j].meta # found[k].meta

CandidateDiagnostic(code, k) == Diagnostic(code, found[k].link, Len(output))

\* What the candidate is told to be.
Told(k) ==
  IF SameFile(k) = {} THEN <<>>
  ELSE IF ChangesMetadata(k)
    THEN <<CandidateDiagnostic("duplicate_filename", k),
           CandidateDiagnostic("changed_metadata", k)>>
    ELSE <<CandidateDiagnostic("duplicate_filename", k)>>

Compare ==
  /\ step = "compare" /\ at <= Len(found)
  /\ diagnostics' = diagnostics \o Told(at)
  /\ output' = IF Repeats(at) THEN output ELSE Append(output, found[at])
  /\ at' = at + 1
  /\ UNCHANGED <<page, step, found, report>>

BuildReport ==
  /\ step = "compare" /\ at > Len(found)
  /\ step' = "done"
  /\ report' = [ok |-> TRUE, candidates |-> output, diagnostics |-> diagnostics]
  /\ UNCHANGED <<page, at, found, output, diagnostics>>

DiscoveryNext ==
  \/ ListPage \/ ListFails \/ DetailFails \/ SkipRow \/ TakeRow \/ NullThrows
  \/ RowsDone \/ Compare \/ BuildReport

DiscoverySpec == DiscoveryInit /\ [][DiscoveryNext]_discoveryVars
-----------------------------------------------------------------------------
(* What a report promises.                                                 *)

\* Every variable has its type; the cursor stays within what it walks.
DiscoveryTypeOK ==
  /\ page \in Pages
  /\ step \in {"list", "rows", "compare", "done", "thrown"}
  /\ at \in Nat \ {0}
  /\ step = "list" => at = 1
  /\ step = "rows" => at <= Len(page.rows) + 1
  /\ step = "compare" => at <= Len(found) + 1
  /\ found \in Seq(Rows) /\ output \in Seq(Rows)
  /\ \A k \in 1 .. Len(found) : Usable(found[k])
  /\ diagnostics \in Seq(Diagnostics)
  /\ report \in [ok : BOOLEAN, candidates : Seq(Rows), diagnostics : Seq(Diagnostics)]

Occurs(x, s) == \E k \in 1 .. Len(s) : s[k] = x

\* No row of a page is lost: each row of the page of an ok report is one of its
\* candidates, kept once if it came several times, or has its own diagnostic,
\* and the report names no replay the page did not list.
RowsAccountedFor ==
  report.ok =>
    /\ \A n \in 1 .. Len(page.rows) :
         IF Usable(page.rows[n])
           THEN Occurs(page.rows[n], report.candidates)
           ELSE Occurs(RowDiagnostic(n), report.diagnostics)
    /\ \A k \in 1 .. Len(report.candidates) : Occurs(report.candidates[k], page.rows)
    /\ \A j, k \in 1 .. Len(report.candidates) :
         report.candidates[j] = report.candidates[k] => j = k

\* Two candidates of a report that share a file do not go unnoticed: the later
\* one is told, by its own index, to repeat a filename, and to change metadata
\* if they share the external id too.
DuplicatesAreTold ==
  report.ok =>
    \A j, k \in 1 .. Len(report.candidates) :
      LET first == report.candidates[j]
          later == report.candidates[k]
      IN  j < k /\ first.file = later.file =>
            /\ Occurs(Diagnostic("duplicate_filename", later.link, k - 1), report.diagnostics)
            /\ ExternalId[first.link] = ExternalId[later.link] /\ first.meta # later.meta
                 => Occurs(Diagnostic("changed_metadata", later.link, k - 1),
                           report.diagnostics)
=============================================================================
