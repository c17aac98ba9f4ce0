------------------------------ MODULE MCFanOut ------------------------------
(* Three branches, two at a time: with room for all, under either policy;    *)
(* with a ceiling of one on a loaded host; and with a winner to be found     *)
(* under a ceiling of one while a branch is at its visit cap.                *)
EXTENDS FanOut

MCSetting(p, h, w, l, s) == [policy |-> p, hard |-> h, wip |-> w, pressed |-> l, spent |-> s]
MCSettings == {MCSetting("wait_all", 9, 9, FALSE, {}),
               MCSetting("first_success", 9, 9, FALSE, {}),
               MCSetting("wait_all", 1, 2, TRUE, {}),
               MCSetting("first_success", 1, 2, FALSE, {3})}
=============================================================================
