--------------------------- MODULE MCBoundarySync ---------------------------
(* Two hunks of one file: edits of one file that need not conflict.            *)
EXTENDS BoundarySync

CONSTANTS s1, s2

MCHunks  == {"h1", "h2"}
MCFileOf == [h \in MCHunks |-> "f"]

Budget(f1, f2, e1, e2, op, cl, re, fa) ==
  [frames |-> [s \in Sessions |-> IF s = s1 THEN f1 ELSE f2],
   edits |-> [a \in Authors |-> IF a = s1 THEN e1 ELSE IF a = s2 THEN e2 ELSE op],
   clicks |-> cl, restarts |-> re, faults |-> fa]

(* Two sessions at once; one with turns behind each other and a replay; steps  *)
(* that fail after a first synced turn; checkouts that cannot be read; a       *)
(* restart, after which the second session may succeed the first; one with a   *)
(* ledger that takes no lines; two with one that cannot be read; comparisons   *)
(* that throw behind the write.                                                *)
Together == Budget(1, 1, 1, 1, 1, 0, 0, {})
Replay   == Budget(2, 0, 2, 0, 2, 1, 0, {})
Failing  == Budget(3, 0, 2, 0, 1, 0, 0, {"capture", "body", "ledger"})
Blind    == Budget(2, 0, 1, 0, 1, 1, 0, {"fingerprint"})
Reborn   == Budget(1, 1, 1, 0, 1, 1, 1, {})
Orphaned == Budget(2, 0, 2, 0, 0, 1, 1, {"ledger"})
Unlisted == Budget(2, 0, 1, 0, 0, 1, 1, {"read"})
Scratch  == Budget(2, 0, 1, 0, 1, 1, 0, {"compare"})

MCBudgets == {Together, Replay, Failing, Blind, Reborn, Orphaned, Unlisted, Scratch}
=============================================================================
