--------------------------- MODULE MC_LiveHandles ---------------------------
(* Three configurations of two switches, so that each of them can change   *)
(* alone, both at once, and back; a handle of the user and a task.         *)
EXTENDS LiveHandles

MCFields == {"a", "b"}
MCValues == {v \in [MCFields -> {0, 1}] : v["a"] = 0 \/ v["b"] = 0}
=============================================================================
