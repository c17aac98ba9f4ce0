----------------------------- MODULE WriterLock ------------------------------
(***************************************************************************)
(* What src/src/state-lock.ts promises: a lock with at most one owner,     *)
(* taken by one daemon while nobody owns it and given up by its owner, in  *)
(* whatever way the owner's process ends.                                  *)
(***************************************************************************)
CONSTANT Daemons

VARIABLE owners

Init == owners = {}

Acquire(d) == owners = {} /\ owners' = {d}

Leave(d) == owners = {d} /\ owners' = {}

Next == \E d \in Daemons : Acquire(d) \/ Leave(d)

Spec == Init /\ [][Next]_owners
=============================================================================
