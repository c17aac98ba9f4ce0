------------------------------ MODULE MCPrLand ------------------------------
(* Instances of PrLand for TLC. *)
EXTENDS PrLand

(* Both methods, and a human who merges too: one commit with a call or a    *)
(* write that fails and a death of the daemon, or with such a failure and a *)
(* request closed by hand and reopened; two commits, so that the branch     *)
(* moves under a land, and then a failure with nobody else at GitHub; two   *)
(* requests, of which one may be closed by hand.                            *)
Of(m, commits, prs, closed, faulty, deaths) ==
    [method |-> m, human |-> TRUE, commits |-> commits, prs |-> prs,
     closes |-> closed, faults |-> faulty, crashes |-> deaths]

MCDeployments == {Of(m, 1, 1, 0, 1, 1) : m \in Methods}
                 \cup {Of("merge", 1, 2, 1, 0, 0), Of("squash", 1, 1, 1, 1, 0),
                         Of("squash", 2, 1, 0, 0, 0)}
                 \cup {[Of("merge", 2, 1, 0, 1, 0) EXCEPT !.human = FALSE]}

(* No failure, no death, nobody else at GitHub: only the reconciler and the *)
(* land.                                                                    *)
MCAlone == {[Of("merge", 1, 1, 0, 0, 0) EXCEPT !.human = FALSE]}

=============================================================================
