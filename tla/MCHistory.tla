------------------------------- MODULE MCHistory -------------------------------
(* Instances of History for TLC.                                           *)
EXTENDS History, TLC

CONSTANTS a, b, c

ThreeTexts == {a, b, c}
TwoSlots   == 1..2

(* Up to renaming: three texts, one that comes again, one that comes twice *)
(* in a row.                                                               *)
ShortFeeds == {<<a, b, c>>, <<a, b, a>>, <<a, a, b>>}
=============================================================================
