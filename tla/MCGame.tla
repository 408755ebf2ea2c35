---- MODULE MCGame ----
(* Instance of Game: a course with a checkpoint, one of two laps, and holds *)
(* of a few frames in the order of the code's.                             *)
EXTENDS Game

MCRows    == [p \in Kinds \X Courses |-> IF p = <<Practice, 1>> THEN 2 ELSE 1]
MCIds     == [c \in Courses |-> IF c = 0 THEN <<0, 1>> ELSE <<0>>]
MCOpening == [p \in Kinds \X Courses |-> IF p[2] = 0 THEN <<1, 1>> ELSE <<1>>]
MCLaps    == [p \in Kinds \X Courses |-> IF p[2] = 0 THEN <<1, 0>> ELSE <<1>>]

MCHolds   == [i \in Splashes |-> 3]
MCScripts == {<<[start |-> 0, limit |-> 1], [start |-> -1, limit |-> 0]>>}
====
