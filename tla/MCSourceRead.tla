----------------------------- MODULE MCSourceRead -----------------------------
(***************************************************************************)
(* An instance of SourceRead for TLC: a header that asks for less than the *)
(* cap, and one that asks for three times as much.                         *)
(***************************************************************************)
EXTENDS SourceRead, TLC

MCRetryAfters == {0, 2, 9}
===============================================================================
