---------------------------- MODULE MCCwdTracker ----------------------------
(* The shell writes any few tokens, or up to three of the pieces a real    *)
(* output is made of, so that one report can follow, replace or interrupt  *)
(* another, within a chunk and over chunks.                                *)
EXTENDS CwdTracker

CONSTANTS here, there

Opening == <<"ESC", "]", "mark">>
Piece == {
  Opening \o <<here, "BEL">>,                                     \* a report
  Opening \o <<"quote", there, "quote", "ESC", "backslash">>,     \* quoted, and ended by ST
  Opening \o <<here, there, here, there, "BEL">>,                 \* longer than cwdMaxBody
  Opening \o <<"quote", "quote", "BEL">>,                         \* empty
  Opening \o <<there, "ESC", here>>,                              \* broken off
  <<"ESC", "]", here, "BEL">>,                                    \* a title
  <<"ESC", "]", here>>,                                           \* a title left open
  <<"ESC">>, <<there>>}                                           \* output
Written == {p \o q \o r : p, q \in Piece, r \in Piece \cup {<<>>}}

Beginning(w, n) == SubSeq(w, 1, IF n < Len(w) THEN n ELSE Len(w))
AnyOutput == {Beginning(w, n) : w \in [1..5 -> Token], n \in 0..5}
               \cup {Beginning(w, n) : w \in Written, n \in 0..24}
MCOutput == AnyOutput  \* a definition of its own, which TLC evaluates once
=============================================================================
