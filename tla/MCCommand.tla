------------------------------ MODULE MCCommand ------------------------------
(***************************************************************************)
(* Instances of Command for TLC: pages of up to three rows, drawn from a   *)
(* replay listed once, again and under another mission, a link without     *)
(* external id that names its file or one of its own, a row without link   *)
(* and one whose detail page names no file.                                *)
(***************************************************************************)
EXTENDS Command

CONSTANTS l1, l2, f1, f2, m1, m2

MCExternalId == [l \in Links |-> IF l = l1 THEN "id" ELSE NoId]

Shown ==
  {[link |-> l1, file |-> f1, meta |-> m1], [link |-> l1, file |-> f1, meta |-> m2],
   [link |-> l2, file |-> f1, meta |-> m1], [link |-> l2, file |-> f2, meta |-> m1],
   [link |-> NoLink, file |-> f1, meta |-> m1],
   [link |-> l2, file |-> NoFile, meta |-> m1]}

UpTo(n, rows) == UNION {[1 .. k -> rows] : k \in 0 .. n}

\* Tables of up to three rows, and fixtures of up to two entries.
MCPages ==
  [kind : {"html"}, rows : UpTo(3, Shown)]
    \cup [kind : {"fixture"}, rows : UpTo(2, Shown \cup {Null})]
=============================================================================
