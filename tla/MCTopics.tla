------------------------------- MODULE MCTopics -------------------------------
(* Small instances of Topics for TLC. *)
EXTENDS Topics, TLC

(* All levels but "#" share a hash, so that children collide.  A level that is  *)
(* too long is cut, and then reads "b".                                         *)
MCLevels == {"", "+", "#", "a", "b", "toolong", "$SYS"}
MCCut    == [l \in MCLevels |-> IF l = "toolong" THEN "b" ELSE l]
MCHash   == [l \in MCLevels |-> IF l = "#" THEN 1 ELSE 0]

MCFilters    == {<<"+">>, <<"+", "#">>, <<"toolong">>}
MCTopicNames == {<<"a">>, <<"a", "b">>, <<"b", "b">>, <<"b">>, <<"toolong">>, <<"">>,
                 <<"a", "">>, <<"$SYS">>}

Symmetry     == Permutations(Nodes) \cup Permutations(Slots)
===============================================================================
