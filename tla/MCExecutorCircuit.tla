------------------------- MODULE MCExecutorCircuit -------------------------
(* Three requests, two of which carry the same key, and two openings: a key  *)
(* is replayed in the opening after the one that used it.                    *)
EXTENDS ExecutorCircuit

MCKeyOf == [c \in Callers |-> IF c = "c3" THEN "k2" ELSE "k1"]

MCWorkloads ==
  {[callers |-> {"c1", "c2", "c3"}, sweepers |-> {}, faults |-> 2],
   [callers |-> {"c1"}, sweepers |-> {"s1", "s2"}, faults |-> 0]}
=============================================================================
