---------------------------- MODULE ServiceWork ----------------------------
(***************************************************************************)
(* What the deployment commands promise about one service's production,    *)
(* with stores, fences, providers and callbacks forgotten: a command's     *)
(* remote work begins at most once, and it begins while another command's  *)
(* work is under way only when one of the two is excused.                  *)
(*                                                                         *)
(* "Excused" names the cases in which the code gives up the promise: a     *)
(* command that was retried, and a command whose record says it has failed *)
(* although its remote work may still be running.                          *)
(***************************************************************************)
CONSTANT Keys

VARIABLES begun,    \* commands whose remote work has ever begun
          working,  \* commands whose remote work is under way
          excused   \* commands outside the promise

vars == <<begun, working, excused>>

Init == begun = {} /\ working = {} /\ excused = {}

Begin(k) ==
  /\ k \notin begun
  /\ k \in excused \/ working \subseteq excused
  /\ begun' = begun \cup {k}
  /\ working' = working \cup {k}
  /\ UNCHANGED excused

End(k) ==
  /\ k \in working
  /\ working' = working \ {k}
  /\ UNCHANGED <<begun, excused>>

\* Giving the promise up may come with the end of the work, or without it.
Excuse(k) ==
  /\ excused' = excused \cup {k}
  /\ UNCHANGED <<begun, working>>

Next == \E k \in Keys : Begin(k) \/ End(k) \/ Excuse(k)

Spec == Init /\ [][Next]_vars
=============================================================================
