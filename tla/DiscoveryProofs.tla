---------------------------- MODULE DiscoveryProofs ----------------------------
(***************************************************************************)
(* What a discovery report promises, for pages of any length and content:  *)
(* no row is lost and no repeated filename goes unnoticed.                 *)
(***************************************************************************)
EXTENDS Discovery, TLAPS

-----------------------------------------------------------------------------
(* Sequences.                                                              *)

\* An appended element occurs, and so does all that occurred.
LEMMA AppendOccurs ==
  ASSUME NEW S, NEW s \in Seq(S), NEW x \in S
  PROVE  /\ Append(s, x) \in Seq(S)
         /\ Len(Append(s, x)) = Len(s) + 1
         /\ Append(s, x)[Len(s) + 1] = x
         /\ \A k \in 1 .. Len(s) : Append(s, x)[k] = s[k]
         /\ Occurs(x, Append(s, x))
         /\ \A y : Occurs(y, s) => Occurs(y, Append(s, x))
<1>1. /\ Append(s, x) \in Seq(S)
      /\ Len(Append(s, x)) = Len(s) + 1
      /\ Append(s, x)[Len(s) + 1] = x
      /\ \A k \in 1 .. Len(s) : Append(s, x)[k] = s[k]
  OBVIOUS
<1>2. Occurs(x, Append(s, x))
  <2>1. Len(s) + 1 \in 1 .. Len(Append(s, x))
    BY <1>1
  <2> QED
    BY <1>1, <2>1 DEF Occurs
<1>3. ASSUME NEW y, Occurs(y, s) PROVE Occurs(y, Append(s, x))
  <2>1. PICK k \in 1 .. Len(s) : s[k] = y
    BY <1>3 DEF Occurs
  <2>2. k \in 1 .. Len(Append(s, x)) /\ Append(s, x)[k] = y
    BY <1>1, <2>1
  <2> QED
    BY <2>2 DEF Occurs
<1> QED
  BY <1>1, <1>2, <1>3

\* What occurs in one of two sequences occurs in their concatenation.
LEMMA ConcatOccurs ==
  ASSUME NEW S, NEW s \in Seq(S), NEW t \in Seq(S)
  PROVE  /\ s \o t \in Seq(S)
         /\ \A y : Occurs(y, s) \/ Occurs(y, t) => Occurs(y, s \o t)
<1>1. /\ s \o t \in Seq(S)
      /\ Len(s \o t) = Len(s) + Len(t)
      /\ \A k \in 1 .. Len(s) : (s \o t)[k] = s[k]
      /\ \A k \in 1 .. Len(t) : (s \o t)[Len(s) + k] = t[k]
  OBVIOUS
<1>2. ASSUME NEW y, Occurs(y, s) PROVE Occurs(y, s \o t)
  <2>1. PICK k \in 1 .. Len(s) : s[k] = y
    BY <1>2 DEF Occurs
  <2>2. k \in 1 .. Len(s) + Len(t)
    OBVIOUS
  <2>3. k \in 1 .. Len(s \o t) /\ (s \o t)[k] = y
    BY <1>1, <2>1, <2>2
  <2> QED
    BY <2>3 DEF Occurs
<1>3. ASSUME NEW y, Occurs(y, t) PROVE Occurs(y, s \o t)
  <2>1. PICK k \in 1 .. Len(t) : t[k] = y
    BY <1>3 DEF Occurs
  <2>2. Len(s) + k \in 1 .. Len(s) + Len(t)
    OBVIOUS
  <2>3. Len(s) + k \in 1 .. Len(s \o t) /\ (s \o t)[Len(s) + k] = y
    BY <1>1, <2>1, <2>2
  <2> QED
    BY <2>3 DEF Occurs
<1> QED
  BY <1>1, <1>2, <1>3

-----------------------------------------------------------------------------
(* Type correctness.                                                       *)

\* A page has rows; one that is not null is a row.
LEMMA PageRows ==
  ASSUME page \in Pages
  PROVE  /\ page.kind \in Kinds /\ page.rows \in Seq(Rows \cup {Null})
         /\ \A n \in 1 .. Len(page.rows) : page.rows[n] # Null => page.rows[n] \in Rows
  BY PagesAssumption

\* The diagnostics of rows are diagnostics.
LEMMA RowDiagnosticType ==
  ASSUME page \in Pages, NEW n \in 1 .. Len(page.rows), page.rows[n] \in Rows
  PROVE  RowDiagnostic(n) \in Diagnostics
<1>1. page.rows[n].link \in Links \cup {NoLink} /\ n - 1 \in Nat
  BY DEF Rows
<1> QED
  BY <1>1 DEF RowDiagnostic, Diagnostic, Diagnostics, Codes

\* The diagnostics of a candidate are diagnostics.
LEMMA ToldType ==
  ASSUME DiscoveryTypeOK, NEW k \in 1 .. Len(found)
  PROVE  /\ Told(k) \in Seq(Diagnostics)
         /\ SameFile(k) # {} => Occurs(CandidateDiagnostic("duplicate_filename", k), Told(k))
         /\ ChangesMetadata(k)
              => Occurs(CandidateDiagnostic("changed_metadata", k), Told(k))
<1>1. found[k].link \in Links \cup {NoLink} /\ Len(output) \in Nat
  <2>1. found \in Seq(Rows) /\ output \in Seq(Rows)
    BY DEF DiscoveryTypeOK
  <2>2. found[k] \in Rows /\ Len(output) \in Nat
    BY <2>1
  <2> QED
    BY <2>2 DEF Rows
<1>2. /\ CandidateDiagnostic("duplicate_filename", k) \in Diagnostics
      /\ CandidateDiagnostic("changed_metadata", k) \in Diagnostics
  BY <1>1 DEF CandidateDiagnostic, Diagnostic, Diagnostics, Codes
<1>3. ChangesMetadata(k) => SameFile(k) # {}
  BY DEF ChangesMetadata
<1>4. \A d, e : Occurs(d, <<d>>) /\ Occurs(d, <<d, e>>) /\ Occurs(e, <<d, e>>)
  <2>1. ASSUME NEW d, NEW e
        PROVE  /\ 1 \in 1 .. Len(<<d>>) /\ <<d>>[1] = d
               /\ 1 \in 1 .. Len(<<d, e>>) /\ <<d, e>>[1] = d
               /\ 2 \in 1 .. Len(<<d, e>>) /\ <<d, e>>[2] = e
    OBVIOUS
  <2> QED
    BY <2>1 DEF Occurs
<1> QED
  BY <1>2, <1>3, <1>4 DEF Told

\* The call starts well typed.
LEMMA InitDiscoveryType == DiscoveryInit => DiscoveryTypeOK
  BY DEF DiscoveryInit, DiscoveryTypeOK, NoReport

\* Every step keeps the types.
LEMMA NextDiscoveryType ==
  DiscoveryTypeOK /\ [DiscoveryNext]_discoveryVars => DiscoveryTypeOK'
<1> SUFFICES ASSUME DiscoveryTypeOK, [DiscoveryNext]_discoveryVars
             PROVE  DiscoveryTypeOK'
  OBVIOUS
<1>1. CASE ListPage
  <2>1. Len(page.rows) \in Nat
    BY PageRows DEF DiscoveryTypeOK
  <2> QED
    BY <1>1, <2>1 DEF ListPage, DiscoveryTypeOK
<1>2. ASSUME NEW link \in Links \cup {NoLink}, Fail(link) PROVE DiscoveryTypeOK'
  <2>1. Diagnostic("source_failure", link, NoIndex) \in Diagnostics
    BY DEF Diagnostic, Diagnostics, Codes
  <2> QED
    BY <1>2, <2>1 DEF Fail, DiscoveryTypeOK
<1>3. CASE ListFails
  BY <1>2, <1>3 DEF ListFails
<1>4. CASE DetailFails
  <2>1. Row \in Rows
    BY <1>4, NullAssumption, PageRows DEF DetailFails, RowsLeft, Row, DiscoveryTypeOK
  <2> QED
    BY <1>2, <1>4, <2>1 DEF DetailFails, Rows
<1>5. CASE SkipRow
  <2>1. at \in 1 .. Len(page.rows) /\ Row \in Rows
    BY <1>5, PageRows DEF SkipRow, RowsLeft, Row, DiscoveryTypeOK
  <2>2. diagnostics' \in Seq(Diagnostics)
    BY <1>5, <2>1, RowDiagnosticType, AppendOccurs DEF SkipRow, Diagnose, Row, DiscoveryTypeOK
  <2>3. /\ step = "rows" /\ at' = at + 1
        /\ UNCHANGED <<page, step, found, output, report>>
    BY <1>5 DEF SkipRow, RowsLeft, Diagnose, NextRow
  <2>4. at + 1 \in Nat \ {0} /\ at + 1 <= Len(page.rows) + 1
    BY <2>1, PageRows DEF DiscoveryTypeOK
  <2> QED
    BY <2>2, <2>3, <2>4 DEF DiscoveryTypeOK
<1>6. CASE TakeRow
  <2>1. at \in 1 .. Len(page.rows) /\ Row \in Rows
    BY <1>6, PageRows DEF TakeRow, RowsLeft, Row, DiscoveryTypeOK
  <2>2. /\ found' \in Seq(Rows)
        /\ \A k \in 1 .. Len(found') : Usable(found'[k])
    BY <1>6, <2>1, AppendOccurs DEF TakeRow, Find, DiscoveryTypeOK
  <2>3. /\ step = "rows" /\ at' = at + 1
        /\ UNCHANGED <<page, step, output, diagnostics, report>>
    BY <1>6 DEF TakeRow, RowsLeft, Find
  <2>4. at + 1 \in Nat \ {0} /\ at + 1 <= Len(page.rows) + 1
    BY <2>1, PageRows DEF DiscoveryTypeOK
  <2> QED
    BY <2>2, <2>3, <2>4 DEF DiscoveryTypeOK
<1>7. CASE NullThrows
  BY <1>7 DEF NullThrows, DiscoveryTypeOK
<1>8. CASE RowsDone
  BY <1>8 DEF RowsDone, DiscoveryTypeOK
<1>9. CASE Compare
  <2>1. at \in 1 .. Len(found) /\ found[at] \in Rows
    BY <1>9 DEF Compare, DiscoveryTypeOK
  <2>2. diagnostics' \in Seq(Diagnostics)
    BY <1>9, <2>1, ToldType, ConcatOccurs DEF Compare, DiscoveryTypeOK
  <2>3. output' \in Seq(Rows)
    BY <1>9, <2>1, AppendOccurs DEF Compare, DiscoveryTypeOK
  <2> QED
    BY <1>9, <2>1, <2>2, <2>3 DEF Compare, DiscoveryTypeOK
<1>10. CASE BuildReport
  BY <1>10 DEF BuildReport, DiscoveryTypeOK
<1>11. CASE UNCHANGED discoveryVars
  BY <1>11 DEF discoveryVars, DiscoveryTypeOK
<1> QED
  BY <1>1, <1>3, <1>4, <1>5, <1>6, <1>7, <1>8, <1>9, <1>10, <1>11 DEF DiscoveryNext

\* Every variable of a call keeps its type.
THEOREM DiscoveryTypeCorrect == DiscoverySpec => []DiscoveryTypeOK
<1> QED
  BY InitDiscoveryType, NextDiscoveryType, PTL DEF DiscoverySpec

-----------------------------------------------------------------------------
(* What holds while the call runs: every row read so far and every         *)
(* candidate compared so far is where it belongs.                          *)

RowTold(n) ==
  IF Usable(page.rows[n]) THEN Occurs(page.rows[n], found)
                          ELSE Occurs(RowDiagnostic(n), diagnostics)

RowsSeen ==
  step \in {"rows", "compare"} =>
    \A n \in 1 .. Len(page.rows) : (step = "rows" => n < at) => RowTold(n)

FoundListed == \A k \in 1 .. Len(found) : Occurs(found[k], page.rows)

Compared ==
  /\ step \in {"list", "rows"} => output = <<>>
  /\ step = "compare" =>
       /\ \A k \in 1 .. at - 1 : Occurs(found[k], output)
       /\ \A i \in 1 .. Len(output) : \E k \in 1 .. at - 1 : output[i] = found[k]

Distinct == \A i, j \in 1 .. Len(output) : output[i] = output[j] => i = j

PairTold(first, later, k, told) ==
  first.file = later.file =>
    /\ Occurs(Diagnostic("duplicate_filename", later.link, k - 1), told)
    /\ ExternalId[first.link] = ExternalId[later.link] /\ first.meta # later.meta
         => Occurs(Diagnostic("changed_metadata", later.link, k - 1), told)

PairsTold ==
  \A j, k \in 1 .. Len(output) : j < k => PairTold(output[j], output[k], k, diagnostics)

Reported ==
  /\ step # "done" => ~report.ok
  /\ RowsAccountedFor /\ DuplicatesAreTold

DiscoveryInv ==
  DiscoveryTypeOK /\ RowsSeen /\ FoundListed /\ Compared /\ Distinct /\ PairsTold /\ Reported

\* Nothing is read, found or compared yet.
LEMMA InitDiscovery == DiscoveryInit => DiscoveryInv
<1> SUFFICES ASSUME DiscoveryInit PROVE DiscoveryInv
  OBVIOUS
<1>1. DiscoveryTypeOK
  BY InitDiscoveryType
<1>2. /\ step = "list" /\ found = <<>> /\ output = <<>> /\ ~report.ok
  BY DEF DiscoveryInit, NoReport
<1>3. \A k : k \notin 1 .. Len(<<>>)
  OBVIOUS
<1>4. RowsSeen /\ FoundListed /\ Compared /\ Distinct /\ PairsTold
  BY <1>2, <1>3 DEF RowsSeen, FoundListed, Compared, Distinct, PairsTold
<1>5. Reported
  BY <1>2 DEF Reported, RowsAccountedFor, DuplicatesAreTold
<1> QED
  BY <1>1, <1>4, <1>5 DEF DiscoveryInv

\* A row read is a candidate or has its diagnostic, and what was stays.
LEMMA NextRows ==
  ASSUME DiscoveryInv, SkipRow \/ TakeRow
  PROVE  RowsSeen' /\ FoundListed'
<1>1. /\ step = "rows" /\ step' = "rows" /\ page' = page /\ at' = at + 1
      /\ at \in 1 .. Len(page.rows) /\ Row \in Rows /\ Row = page.rows[at]
  BY PageRows DEF SkipRow, TakeRow, RowsLeft, Diagnose, Find, NextRow, Row, DiscoveryInv,
                  DiscoveryTypeOK
<1>2. /\ \A n \in 1 .. Len(page.rows) : n < at => RowTold(n)
      /\ found \in Seq(Rows) /\ diagnostics \in Seq(Diagnostics)
      /\ \A k \in 1 .. Len(found) : Occurs(found[k], page.rows)
  BY <1>1 DEF DiscoveryInv, RowsSeen, FoundListed, DiscoveryTypeOK
<1>3. \A n : n < at' /\ n \in 1 .. Len(page.rows) => n < at \/ n = at
  BY <1>1
<1>4. \A n \in 1 .. Len(page.rows) : RowDiagnostic(n)' = RowDiagnostic(n)
  BY <1>1 DEF RowDiagnostic
<1>5. CASE SkipRow
  <2>1. /\ ~Usable(Row) /\ found' = found
        /\ diagnostics' = Append(diagnostics, RowDiagnostic(at))
    BY <1>5 DEF SkipRow, Diagnose
  <2>2. RowDiagnostic(at) \in Diagnostics
    BY <1>1, RowDiagnosticType DEF DiscoveryInv, DiscoveryTypeOK
  <2>3. /\ Occurs(RowDiagnostic(at), diagnostics')
        /\ \A y : Occurs(y, diagnostics) => Occurs(y, diagnostics')
    BY <1>2, <2>1, <2>2, AppendOccurs
  <2>4. \A n \in 1 .. Len(page.rows) : n < at' => RowTold(n)'
    BY <1>1, <1>2, <1>3, <1>4, <2>1, <2>3 DEF RowTold
  <2> QED
    BY <1>1, <1>2, <2>1, <2>4 DEF RowsSeen, FoundListed
<1>6. CASE TakeRow
  <2>1. /\ Usable(Row) /\ diagnostics' = diagnostics
        /\ found' = Append(found, Row)
    BY <1>6 DEF TakeRow, Find
  <2>2. /\ Occurs(Row, found')
        /\ \A y : Occurs(y, found) => Occurs(y, found')
        /\ Len(found') = Len(found) + 1 /\ found'[Len(found) + 1] = Row
        /\ \A k \in 1 .. Len(found) : found'[k] = found[k]
    BY <1>1, <1>2, <2>1, AppendOccurs
  <2>3. \A n \in 1 .. Len(page.rows) : n < at' => RowTold(n)'
    BY <1>1, <1>2, <1>3, <1>4, <2>1, <2>2 DEF RowTold
  <2>4. Occurs(Row, page.rows)
    BY <1>1 DEF Occurs
  <2>5. \A k \in 1 .. Len(found') : k \in 1 .. Len(found) \/ k = Len(found) + 1
    BY <1>2, <2>2
  <2>6. FoundListed'
    BY <1>1, <1>2, <2>2, <2>4, <2>5 DEF FoundListed
  <2> QED
    BY <1>1, <2>3, <2>6 DEF RowsSeen
<1> QED
  BY <1>5, <1>6

\* What the step looks at, and what it leaves alone.
LEMMA CompareReads ==
  ASSUME DiscoveryInv, Compare
  PROVE  /\ step = "compare" /\ at \in 1 .. Len(found) /\ found[at] \in Rows
         /\ at' = at + 1 /\ UNCHANGED <<page, step, found, report>>
         /\ found \in Seq(Rows) /\ output \in Seq(Rows)
         /\ \A y : Occurs(y, diagnostics) \/ Occurs(y, Told(at)) => Occurs(y, diagnostics')
<1>1. /\ step = "compare" /\ at \in 1 .. Len(found)
      /\ at' = at + 1 /\ UNCHANGED <<page, step, found, report>>
      /\ diagnostics' = diagnostics \o Told(at)
  BY DEF Compare, DiscoveryInv, DiscoveryTypeOK
<1>2. found \in Seq(Rows) /\ output \in Seq(Rows) /\ diagnostics \in Seq(Diagnostics)
  BY DEF DiscoveryInv, DiscoveryTypeOK
<1>3. Told(at) \in Seq(Diagnostics)
  BY <1>1, ToldType DEF DiscoveryInv
<1>4. \A y : Occurs(y, diagnostics) \/ Occurs(y, Told(at)) => Occurs(y, diagnostics')
  BY <1>1, <1>2, <1>3, ConcatOccurs
<1> QED
  BY <1>1, <1>2, <1>4

\* A candidate that repeats one exactly is in the output already.
LEMMA CompareRepeat ==
  ASSUME DiscoveryInv, Compare, Repeats(at)
  PROVE  output' = output /\ Compared' /\ Distinct' /\ PairsTold'
<1>1. output' = output
  BY DEF Compare
<1>2. \A k \in 1 .. at - 1 : Occurs(found[k], output)
  BY CompareReads DEF DiscoveryInv, Compared
<1>3. Occurs(found[at], output)
  BY <1>2 DEF Repeats
<1>4. \A k \in 1 .. at' - 1 : k \in 1 .. at - 1 \/ k = at
  BY CompareReads
<1>5. \A k \in 1 .. at - 1 : k \in 1 .. at' - 1
  BY CompareReads
<1>6. \A k \in 1 .. Len(output) : \E j \in 1 .. at - 1 : output[k] = found[j]
  BY CompareReads DEF DiscoveryInv, Compared
<1>7. Compared'
  BY <1>1, <1>2, <1>3, <1>4, <1>5, <1>6, CompareReads DEF Compared
<1>8. Distinct'
  BY <1>1 DEF DiscoveryInv, Distinct
<1>9. PairsTold'
  BY <1>1, CompareReads DEF DiscoveryInv, PairsTold, PairTold
<1> QED
  BY <1>1, <1>7, <1>8, <1>9

\* A new candidate differs from all emitted, and is told of those of its file.
LEMMA CompareNew ==
  ASSUME DiscoveryInv, Compare, ~Repeats(at)
  PROVE  Compared' /\ Distinct' /\ PairsTold'
<1> DEFINE new == found[at]
           len == Len(output)
<1>1. /\ output' = Append(output, new) /\ new \in Rows /\ output \in Seq(Rows)
      /\ len \in Nat
  BY CompareReads DEF Compare
<1>2. /\ Len(output') = len + 1 /\ output'[len + 1] = new
      /\ \A k \in 1 .. len : output'[k] = output[k]
      /\ Occurs(new, output')
      /\ \A y : Occurs(y, output) => Occurs(y, output')
  BY <1>1, AppendOccurs
<1>3. \A k \in 1 .. Len(output') : k \in 1 .. len \/ k = len + 1
  BY <1>1, <1>2
<1>4. \A k \in 1 .. at' - 1 : k \in 1 .. at - 1 \/ k = at
  BY CompareReads
<1>5. (\A k \in 1 .. at - 1 : k \in 1 .. at' - 1) /\ at \in 1 .. at' - 1
  BY CompareReads
<1>6. /\ \A k \in 1 .. at - 1 : Occurs(found[k], output)
      /\ \A k \in 1 .. len : \E j \in 1 .. at - 1 : output[k] = found[j]
  BY CompareReads DEF DiscoveryInv, Compared
<1>7. Compared'
  <2>1. \A k \in 1 .. at' - 1 : Occurs(found[k], output')
    BY <1>2, <1>4, <1>6
  <2>2. \A k \in 1 .. Len(output') : \E j \in 1 .. at' - 1 : output'[k] = found[j]
    BY <1>2, <1>3, <1>5, <1>6
  <2>3. step' = "compare" /\ found' = found
    BY CompareReads
  <2> QED
    BY <2>1, <2>2, <2>3 DEF Compared
<1>8. \A k \in 1 .. len : output[k] # new
  BY <1>6 DEF Repeats
<1>9. Distinct'
  <2>1. \A i, j \in 1 .. len : output[i] = output[j] => i = j
    BY DEF DiscoveryInv, Distinct
  <2> QED
    BY <1>2, <1>3, <1>8, <2>1 DEF Distinct
<1>10. \A j \in 1 .. len : PairTold(output[j], new, len + 1, diagnostics')
  <2> SUFFICES ASSUME NEW j \in 1 .. len, output[j].file = new.file
               PROVE  /\ Occurs(Diagnostic("duplicate_filename", new.link, len + 1 - 1), diagnostics')
                      /\ ExternalId[output[j].link] = ExternalId[new.link]
                            /\ output[j].meta # new.meta
                           => Occurs(Diagnostic("changed_metadata", new.link, len + 1 - 1),
                                     diagnostics')
    BY DEF PairTold
  <2>1. PICK i \in 1 .. at - 1 : output[j] = found[i]
    BY <1>6
  <2>2. i \in SameFile(at)
    BY <2>1 DEF SameFile
  <2>3. ExternalId[output[j].link] = ExternalId[new.link] /\ output[j].meta # new.meta
          => ChangesMetadata(at)
    BY <2>1, <2>2 DEF ChangesMetadata
  <2>4. /\ Occurs(CandidateDiagnostic("duplicate_filename", at), Told(at))
        /\ ChangesMetadata(at)
             => Occurs(CandidateDiagnostic("changed_metadata", at), Told(at))
    BY <2>2, ToldType, CompareReads DEF DiscoveryInv
  <2>5. len + 1 - 1 = len
    BY <1>1
  <2> QED
    BY <2>3, <2>4, <2>5, CompareReads DEF CandidateDiagnostic
<1>11. PairsTold'
  <2>1. \A j, k \in 1 .. len : j < k => PairTold(output[j], output[k], k, diagnostics')
    BY CompareReads DEF DiscoveryInv, PairsTold, PairTold
  <2>2. \A j, k \in 1 .. Len(output') : j < k => j \in 1 .. len /\ (k \in 1 .. len \/ k = len + 1)
    BY <1>1, <1>2
  <2> QED
    BY <1>2, <1>10, <2>1, <2>2 DEF PairsTold
<1> QED
  BY <1>7, <1>9, <1>11

\* A comparison moves no row and reports nothing.
LEMMA NextCompare ==
  ASSUME DiscoveryInv, Compare
  PROVE  RowsSeen' /\ FoundListed' /\ Compared' /\ Distinct' /\ PairsTold'
<1>1. RowsSeen'
  <2>1. \A n \in 1 .. Len(page.rows) : RowTold(n)
    BY CompareReads DEF DiscoveryInv, RowsSeen
  <2>2. \A n : RowDiagnostic(n)' = RowDiagnostic(n)
    BY CompareReads DEF RowDiagnostic
  <2> QED
    BY <2>1, <2>2, CompareReads DEF RowsSeen, RowTold
<1>2. FoundListed'
  BY CompareReads DEF DiscoveryInv, FoundListed
<1> QED
  BY <1>1, <1>2, CompareRepeat, CompareNew

\* The report says what the rows and the comparisons left.
LEMMA NextReport ==
  ASSUME DiscoveryInv, BuildReport
  PROVE  RowsAccountedFor' /\ DuplicatesAreTold'
<1>1. /\ step = "compare" /\ at = Len(found) + 1 /\ UNCHANGED <<page, found, output>>
      /\ report' = [ok |-> TRUE, candidates |-> output, diagnostics |-> diagnostics]
  BY DEF BuildReport, DiscoveryInv, DiscoveryTypeOK
<1>2. report'.candidates = output /\ report'.diagnostics = diagnostics
  BY <1>1
<1>3. \A k \in 1 .. Len(found) : Occurs(found[k], output)
  BY <1>1 DEF DiscoveryInv, DiscoveryTypeOK, Compared
<1>4. \A n \in 1 .. Len(page.rows) :
        IF Usable(page.rows[n]) THEN Occurs(page.rows[n], output)
                                ELSE Occurs(RowDiagnostic(n), diagnostics)
  <2>1. \A n \in 1 .. Len(page.rows) : RowTold(n)
    BY <1>1 DEF DiscoveryInv, RowsSeen
  <2>2. \A row : Occurs(row, found) => Occurs(row, output)
    BY <1>3 DEF Occurs
  <2> QED
    BY <2>1, <2>2 DEF RowTold
<1>5. \A k \in 1 .. Len(output) : Occurs(output[k], page.rows)
  <2> SUFFICES ASSUME NEW k \in 1 .. Len(output) PROVE Occurs(output[k], page.rows)
    OBVIOUS
  <2>1. PICK j \in 1 .. at - 1 : output[k] = found[j]
    BY <1>1 DEF DiscoveryInv, Compared
  <2>2. j \in 1 .. Len(found)
    BY <1>1 DEF DiscoveryInv, DiscoveryTypeOK
  <2> QED
    BY <2>1, <2>2 DEF DiscoveryInv, FoundListed
<1>6. RowsAccountedFor'
  <2>1. \A n : RowDiagnostic(n)' = RowDiagnostic(n)
    BY <1>1 DEF RowDiagnostic
  <2>2. \A j, k \in 1 .. Len(output) : output[j] = output[k] => j = k
    BY DEF DiscoveryInv, Distinct
  <2> QED
    BY <1>1, <1>2, <1>4, <1>5, <2>1, <2>2 DEF RowsAccountedFor
<1>7. DuplicatesAreTold'
  BY <1>1, <1>2 DEF DuplicatesAreTold, DiscoveryInv, PairsTold, PairTold
<1> QED
  BY <1>6, <1>7

\* Every step keeps the invariant.
LEMMA NextDiscovery == DiscoveryInv /\ [DiscoveryNext]_discoveryVars => DiscoveryInv'
<1> SUFFICES ASSUME DiscoveryInv, [DiscoveryNext]_discoveryVars PROVE DiscoveryInv'
  OBVIOUS
<1>1. DiscoveryTypeOK'
  BY NextDiscoveryType DEF DiscoveryInv
<1>2. ASSUME step # "done", UNCHANGED report PROVE Reported'
  BY <1>2 DEF DiscoveryInv, Reported, RowsAccountedFor, DuplicatesAreTold
<1>3. ASSUME UNCHANGED <<output, diagnostics>> PROVE Distinct' /\ PairsTold'
  BY <1>3 DEF DiscoveryInv, Distinct, PairsTold, PairTold
<1>4. ASSUME UNCHANGED <<page, found>> PROVE FoundListed'
  BY <1>4 DEF DiscoveryInv, FoundListed
<1>5. CASE ListPage
  <2>1. /\ step = "list" /\ step' = "rows" /\ at' = 1 /\ output' = output /\ output = <<>>
        /\ UNCHANGED <<page, found, output, diagnostics, report>>
    BY <1>5 DEF ListPage, DiscoveryInv, DiscoveryTypeOK, Compared
  <2>2. RowsSeen'
    <3>1. \A n \in 1 .. Len(page.rows)' : ~(n < at')
      BY <2>1
    <3> QED
      BY <2>1, <3>1 DEF RowsSeen
  <2>3. Compared'
    BY <2>1 DEF Compared
  <2> QED
    BY <1>1, <1>2, <1>3, <1>4, <2>1, <2>2, <2>3 DEF DiscoveryInv
<1>6. ASSUME NEW link, Fail(link) PROVE DiscoveryInv'
  <2>1. /\ step' = "done" /\ ~report'.ok
        /\ UNCHANGED <<page, found, output, diagnostics>>
    BY <1>6 DEF Fail
  <2>2. RowsSeen' /\ Compared' /\ Reported'
    BY <2>1 DEF RowsSeen, Compared, Reported, RowsAccountedFor, DuplicatesAreTold
  <2> QED
    BY <1>1, <1>3, <1>4, <2>1, <2>2 DEF DiscoveryInv
<1>7. CASE SkipRow \/ TakeRow
  <2>1. /\ step = "rows" /\ step' = "rows" /\ output = <<>> /\ output' = output
        /\ UNCHANGED report
    BY <1>7 DEF SkipRow, TakeRow, RowsLeft, Diagnose, Find, DiscoveryInv, Compared
  <2>2. Compared' /\ Distinct' /\ PairsTold'
    <3>1. \A k : k \notin 1 .. Len(output)
      BY <2>1
    <3> QED
      BY <2>1, <3>1 DEF Compared, Distinct, PairsTold
  <2> QED
    BY <1>1, <1>2, <1>7, <2>1, <2>2, NextRows DEF DiscoveryInv
<1>8. CASE NullThrows
  <2>1. /\ step = "rows" /\ step' = "thrown"
        /\ UNCHANGED <<page, found, output, diagnostics, report>>
    BY <1>8 DEF NullThrows, RowsLeft
  <2>2. RowsSeen' /\ Compared'
    BY <2>1 DEF RowsSeen, Compared
  <2> QED
    BY <1>1, <1>2, <1>3, <1>4, <2>1, <2>2 DEF DiscoveryInv
<1>9. CASE RowsDone
  <2>1. /\ step = "rows" /\ at > Len(page.rows) /\ step' = "compare" /\ at' = 1
        /\ output = <<>> /\ UNCHANGED <<page, found, output, diagnostics, report>>
    BY <1>9 DEF RowsDone, DiscoveryInv, Compared
  <2>2. RowsSeen'
    <3>1. \A n \in 1 .. Len(page.rows) : n < at
      BY <2>1, PageRows DEF DiscoveryInv, DiscoveryTypeOK
    <3>2. \A n \in 1 .. Len(page.rows) : RowTold(n)
      BY <2>1, <3>1 DEF DiscoveryInv, RowsSeen
    <3>3. \A n : RowDiagnostic(n)' = RowDiagnostic(n)
      BY <2>1 DEF RowDiagnostic
    <3> QED
      BY <2>1, <3>2, <3>3 DEF RowsSeen, RowTold
  <2>3. Compared'
    <3>1. (\A k : k \notin 1 .. at' - 1) /\ (\A k : k \notin 1 .. Len(output))
      BY <2>1
    <3> QED
      BY <2>1, <3>1 DEF Compared
  <2> QED
    BY <1>1, <1>2, <1>3, <1>4, <2>1, <2>2, <2>3 DEF DiscoveryInv
<1>10. CASE Compare
  BY <1>1, <1>2, <1>10, CompareReads, NextCompare DEF DiscoveryInv
<1>11. CASE BuildReport
  <2>1. /\ step' = "done" /\ UNCHANGED <<page, found, output, diagnostics>>
    BY <1>11 DEF BuildReport
  <2>2. RowsSeen' /\ Compared'
    BY <2>1 DEF RowsSeen, Compared
  <2> QED
    BY <1>1, <1>3, <1>4, <1>11, <2>1, <2>2, NextReport DEF DiscoveryInv, Reported
<1>12. CASE UNCHANGED discoveryVars
  BY <1>1, <1>12 DEF discoveryVars, DiscoveryInv, RowsSeen, RowTold, RowDiagnostic, FoundListed,
     Compared, Distinct, PairsTold, PairTold, Reported, RowsAccountedFor, DuplicatesAreTold
<1> QED
  BY <1>5, <1>6, <1>7, <1>8, <1>9, <1>10, <1>11, <1>12
     DEF DiscoveryNext, ListFails, DetailFails

\* A report that is ok lost no row of its page, repeats none and made none up.
THEOREM NoRowIsLost == DiscoverySpec => []RowsAccountedFor
<1>1. DiscoveryInv => RowsAccountedFor
  BY DEF DiscoveryInv, Reported
<1> QED
  BY <1>1, InitDiscovery, NextDiscovery, PTL DEF DiscoverySpec

\* No filename comes twice into a report without its diagnostics.
THEOREM RepeatsAreTold == DiscoverySpec => []DuplicatesAreTold
<1>1. DiscoveryInv => DuplicatesAreTold
  BY DEF DiscoveryInv, Reported
<1> QED
  BY <1>1, InitDiscovery, NextDiscovery, PTL DEF DiscoverySpec
=============================================================================
