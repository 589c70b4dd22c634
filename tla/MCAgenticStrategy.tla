-------------------------- MODULE MCAgenticStrategy --------------------------
(* Two conversations, of two turns and of one; the second turn of the first  *)
(* waits for a tool.                                                         *)
EXTENDS AgenticStrategy

MCConv    == {"a", "b"}
MCTurns   == [c \in MCConv |-> IF c = "a" THEN 2 ELSE 1]
MCDelayed == {<<"a", 1>>}
=============================================================================
