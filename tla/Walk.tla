-------------------------------- MODULE Walk ---------------------------------
(***************************************************************************)
(* What src/src/workflow/engine.ts and the record that the manager keeps   *)
(* of a run promise together: the run is one walk along the edges of its   *)
(* graph, each visit of a node counted once and within its cap.  Crashes,  *)
(* boots, saves and an operator's restarts leave no trace in it, unless    *)
(* its record was lost.                                                    *)
(***************************************************************************)
EXTENDS Naturals

CONSTANTS
  Nodes, None, Start,
  Exits, Missing,  \* where a walk ends, and what the graph does not have
  Successors,      \* node -> where it may be handed on to
  Limit, Overflow,
  Continuable,     \* where a walk that ran into a cap may be taken up again
  Ladder           \* the nodes whose visits are forgiven then

VARIABLES
  at, visits,
  phase,   \* "ready" to enter, "inside" a node, or given up: "capped", "dead"
  handed,  \* the last node the walk was handed on to, or entered
  lost     \* the record was lost, and nothing is promised any more

vars == <<at, visits, phase, handed, lost>>

Capped == at \notin Exits \cup Missing /\ visits[at] >= Limit[at]

Init ==
  /\ at = Start /\ handed = Start
  /\ visits = [n \in Nodes |-> 0]
  /\ phase = "ready" /\ lost = FALSE

Enter ==
  /\ phase = "ready" /\ at \notin Exits \cup Missing /\ ~Capped
  /\ phase' = "inside"
  /\ visits' = [visits EXCEPT ![at] = @ + 1]
  /\ handed' = at
  /\ UNCHANGED at

Overflows ==
  /\ phase = "ready" /\ Capped /\ Overflow[at] # None
  /\ at' = Overflow[at]
  /\ UNCHANGED <<visits, phase, handed>>

HandOn ==
  /\ phase = "inside"
  /\ at' \in Successors[at]
  /\ phase' = "ready" /\ handed' = at'
  /\ UNCHANGED visits

(* A failure in a node, a dangling edge, or a cap with nothing behind it.       *)
GiveUp ==
  /\ \/ phase = "inside" /\ phase' = "dead"
     \/ phase = "ready" /\ at \in Missing /\ phase' = "dead"
     \/ /\ phase = "ready" /\ Capped /\ Overflow[at] = None
        /\ phase' = IF at \in Continuable THEN "capped" ELSE "dead"
  /\ handed' \in {handed, at}
  /\ UNCHANGED <<at, visits>>

(* A human's "continue" enters again where the walk was last handed on to.      *)
Continue ==
  /\ phase = "capped" /\ phase' = "inside"
  /\ at' = handed
  /\ visits' = [n \in Nodes |-> IF n \in Ladder THEN 0 ELSE visits[n]]
  /\ UNCHANGED handed

Lose == lost' = TRUE

Next ==
  \/ UNCHANGED lost /\ (Enter \/ Overflows \/ HandOn \/ GiveUp \/ Continue)
  \/ Lose

Spec == Init /\ [][Next]_vars
=============================================================================
