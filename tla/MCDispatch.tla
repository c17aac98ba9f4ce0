---------------------------- MODULE MCDispatch ----------------------------
EXTENDS Dispatch

CONSTANTS Raced, Plain

MCIssues == {Raced, Plain}

Deploy(q, r, p, byHand, failing, deaths) ==
    [queue |-> q, tracker |-> [i \in MCIssues |-> IF i = Raced THEN r ELSE p],
     hands |-> byHand, faults |-> failing, crashes |-> deaths]

(* Two issues that contend for the slot, with a fault or a restart; one     *)
(* behind a gate; one that two callers want at once; one over two restarts. *)
MCDeployments ==
    {Deploy(q, "open", "open", 0, 1, 0) : q \in BOOLEAN}
        \cup {Deploy(TRUE, "open", "open", 0, 0, 1), Deploy(FALSE, "open", "held", 0, 1, 0),
              Deploy(FALSE, "open", "closed", 1, 1, 0), Deploy(FALSE, "open", "closed", 1, 0, 1),
              Deploy(FALSE, "open", "closed", 0, 1, 2)}
===========================================================================
