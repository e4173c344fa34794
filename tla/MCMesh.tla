--------------------------------- MODULE MCMesh ---------------------------------
(* Instances of Mesh for TLC.                                              *)
EXTENDS Mesh

CONSTANTS d1, d2, d3, d4

FourDevices == {d1, d2, d3, d4}

(* Three joins, one at a time in any order: two pairs that meet, or a      *)
(* group of three that takes in a fourth.                                  *)
PairsMeet == {<<d1, d2>>, <<d3, d4>>, <<d1, d3>>}

(* Pairs that meet, and a join of a peer that may be known; three devices  *)
(* that join a fourth, one at a bad moment; and three that join each other *)
(* at once, in a circle or again.                                          *)
Groups == {[wishes |-> PairsMeet \cup {<<d2, d1>>},                        overlaps |-> 0],
           [wishes |-> {<<d1, d2>>, <<d3, d2>>, <<d4, d2>>},               overlaps |-> 1],
           [wishes |-> {<<d1, d2>>, <<d2, d3>>, <<d3, d1>>},               overlaps |-> 2],
           [wishes |-> {<<d1, d2>>, <<d2, d1>>, <<d3, d1>>, <<d2, d3>>},   overlaps |-> 1]}

PairsMeetOnce == {[wishes |-> PairsMeet, overlaps |-> 0]}
=============================================================================
