------------------------- MODULE OrchestratorProofs --------------------------
(***************************************************************************)
(* Proofs about Orchestrator for every roster, budget and bound: decisions *)
(* are kept while HEAD is readable, blocked lands stay under their cap     *)
(* whatever happens, and nothing is verified unrecorded as long as writes  *)
(* cannot fail or nobody steers.                                           *)
(***************************************************************************)
EXTENDS Orchestrator, TLAPS

(* What mark() does to a well-typed ledger.                                *)
LEMMA MarkTyped ==
  ASSUME TypeOK, NEW ks \in SUBSET Kinds, Mark(ks)
  PROVE  mem' \subseteq Entries /\ disk' \subseteq Entries /\ decided' \subseteq Units \X Trees
<1> DEFINE new == {<<k, cur, key>> : k \in ks}
<1>1. new \subseteq Entries
  BY DEF TypeOK, Entries, Keys
<1>2. mem' \subseteq Entries /\ disk' \subseteq Entries
  BY <1>1 DEF TypeOK, Mark
<1>3. decided' \subseteq Units \X Trees
  BY DEF TypeOK, Mark, DecidedBy
<1> QED
  BY <1>2, <1>3

LEMMA SweepTyped ==
  ASSUME TypeOK, NEW u \in Units, Sweep(u)
  PROVE  /\ tree' \in [Units -> Trees] /\ dirty' \in [Units -> BOOLEAN]
         /\ tries' \in [Units -> Nat]
<1>1. CASE UNCHANGED <<tree, dirty, tries>>
  BY <1>1 DEF TypeOK
<1>2. CASE /\ tree[u] < MaxTree
           /\ tree' = [tree EXCEPT ![u] = @ + 1]
           /\ dirty' = [dirty EXCEPT ![u] = FALSE]
           /\ tries' = [tries EXCEPT ![u] = 0]
  BY <1>2, OrchestratorAssumption DEF TypeOK, Trees
<1> QED
  BY <1>1, <1>2 DEF Sweep

(* Every reachable state is well typed; in particular the red gates counted *)
(* for a unit stay within the repair budget.                                *)
LEMMA TypeInductive == TypeOK /\ [Next]_vars => TypeOK'
<1> SUFFICES ASSUME TypeOK, [Next]_vars PROVE TypeOK'
  OBVIOUS
<1> USE OrchestratorAssumption DEF world, session, ledger, loop, bounds
<1>1. CASE TickBegin
  BY <1>1 DEF TypeOK, TickBegin, Roster
<1>2. ASSUME NEW u \in Units, Consider(u) PROVE TypeOK'
  BY <1>2 DEF TypeOK, Consider, NextUnit
<1>3. CASE Settle
  BY <1>3, SweepTyped DEF TypeOK, Settle
<1>4. CASE ReadKey
  BY <1>4 DEF TypeOK, ReadKey
<1>5. CASE CheckWork
  <2>1. CASE TakeUp(cur)
    <3>1. mem' \subseteq Entries /\ disk' \subseteq Entries /\ decided' \subseteq Units \X Trees
      BY <2>1, MarkTyped DEF TakeUp, TypeOK, Kinds
    <3> QED
      BY <1>5, <2>1, <3>1 DEF CheckWork, TakeUp, TypeOK
  <2>2. CASE ~TakeUp(cur)
    BY <1>5, <2>2 DEF CheckWork, TypeOK
  <2> QED
    BY <2>1, <2>2
<1>6. CASE Verify
  <2>1. /\ tree' \in [Units -> Trees] /\ dirty' \in [Units -> BOOLEAN]
        /\ tries' \in [Units -> Nat]
    BY <1>6, SweepTyped DEF Verify, TypeOK
  <2>2. CASE GreenGate(cur) /\ proof' = [proof EXCEPT ![cur] = tree'[cur]]
    <3>1. mem' \subseteq Entries /\ disk' \subseteq Entries /\ decided' \subseteq Units \X Trees
      BY <2>2, MarkTyped DEF GreenGate, Kinds
    <3> QED
      BY <1>6, <2>1, <2>2, <3>1 DEF Verify, GreenGate, TypeOK
  <2>3. CASE RedGate(cur) /\ pc' = "pick" /\ UNCHANGED <<proof, staged>>
    <3>1. mem' \subseteq Entries /\ disk' \subseteq Entries /\ decided' \subseteq Units \X Trees
      BY <2>3, MarkTyped DEF RedGate, Kinds, TypeOK
    <3> QED
      BY <1>6, <2>1, <2>3, <3>1 DEF Verify, RedGate, TypeOK
  <2> QED
    BY <1>6, <2>2, <2>3 DEF Verify
<1>7. CASE Land
  <2>1. CASE LandMerged(cur)
    <3>1. mem' \subseteq Entries /\ disk' \subseteq Entries /\ decided' \subseteq Units \X Trees
      BY <2>1, MarkTyped DEF LandMerged, Kinds
    <3> QED
      BY <1>7, <2>1, <3>1 DEF Land, LandMerged, TypeOK
  <2>2. CASE LandStaged(cur)
    <3>1. mem' \subseteq Entries /\ disk' \subseteq Entries /\ decided' \subseteq Units \X Trees
      BY <2>2, MarkTyped DEF LandStaged, Kinds
    <3> QED
      BY <1>7, <2>2, <3>1 DEF Land, LandStaged, TypeOK
  <2>3. CASE LandRetryable(cur)
    BY <1>7, <2>3 DEF Land, LandRetryable, TypeOK
  <2>4. CASE LandBlocked(cur)
    <3>1. mem' \subseteq Entries /\ disk' \subseteq Entries /\ decided' \subseteq Units \X Trees
      BY <2>4, MarkTyped DEF LandBlocked, Park, Kinds, TypeOK
    <3> QED
      BY <1>7, <2>4, <3>1 DEF Land, LandBlocked, Park, TypeOK
  <2> QED
    BY <1>7, <2>1, <2>2, <2>3, <2>4 DEF Land
<1>8. CASE UnitsDone
  BY <1>8 DEF TypeOK, UnitsDone
<1>9. CASE Purge
  BY <1>9 DEF TypeOK, Purge
<1>10. ASSUME NEW u \in Units, Steer(u) \/ Edit(u) \/ TurnEnd(u) \/ OperatorLand(u) PROVE TypeOK'
  <2>1. CASE Steer(u)
    <3>1. /\ steers < MaxSteers /\ steers' = steers + 1
          /\ Invalidate(u)
          /\ status' = [status EXCEPT ![u] = "working"]
          /\ adopted' = [adopted EXCEPT ![u] = FALSE]
          /\ tries' = [tries EXCEPT ![u] = 0]
          /\ UNCHANGED <<tree, dirty, merged, proof, attempts, blocks, ledger, loop, crashes>>
      BY <2>1 DEF Steer
    <3>2. steers' \in 0 .. MaxSteers /\ crashes' \in 0 .. MaxCrashes
      BY <3>1 DEF TypeOK
    <3>3. /\ status' \in [Units -> {"working", "idle", "gone"}]
          /\ adopted' \in [Units -> BOOLEAN] /\ tries' \in [Units -> Nat]
      BY <3>1 DEF TypeOK
    <3>4. halted' \subseteq Units /\ landed' \subseteq Units /\ staged' \subseteq Units
      BY <3>1 DEF TypeOK, Invalidate
    <3> QED
      BY <3>1, <3>2, <3>3, <3>4 DEF TypeOK
  <2>2. CASE Edit(u)
    <3>1. tree' \in [Units -> Trees]
      BY <2>2 DEF TypeOK, Edit, Trees
    <3>2. dirty' \in [Units -> BOOLEAN]
      BY <2>2 DEF TypeOK, Edit
    <3>3. tries' \in [Units -> Nat]
      BY <2>2 DEF TypeOK, Edit
    <3>4. UNCHANGED <<status, merged, proof, adopted, session, ledger, loop, bounds>>
      BY <2>2 DEF Edit
    <3> QED
      BY <3>1, <3>2, <3>3, <3>4 DEF TypeOK
  <2>3. CASE TurnEnd(u)
    BY <2>3 DEF TypeOK, TurnEnd
  <2>4. CASE OperatorLand(u)
    BY <2>4 DEF TypeOK, OperatorLand
  <2> QED
    BY <1>10, <2>1, <2>2, <2>3, <2>4
<1>11. ASSUME NEW lost \in SUBSET Roster, Restart(lost) PROVE TypeOK'
  BY <1>11 DEF TypeOK, Restart
<1>12. CASE UNCHANGED vars
  BY <1>12 DEF TypeOK, vars
<1> QED
  BY <1>1, <1>2, <1>3, <1>4, <1>5, <1>6, <1>7, <1>8, <1>9, <1>10, <1>11, <1>12 DEF Next, Tick

LEMMA InitTyped == Init => TypeOK
<1> SUFFICES ASSUME Init PROVE TypeOK
  OBVIOUS
<1> 0 \in Trees /\ 0 \in Nat
  BY OrchestratorAssumption DEF Trees
<1> QED
  BY OrchestratorAssumption DEF Init, TypeOK

(* The loop's state stays well typed for every roster, budget and bound.   *)
THEOREM TypeCorrect == Spec => []TypeOK
BY InitTyped, TypeInductive, PTL DEF Spec

-----------------------------------------------------------------------------
(* A unit's blocked lands stop at the cap whatever fails, restarts or is    *)
(* said to it.  A unit the loop acts on is neither parked nor done, each of *)
(* its tries has been counted, and the count is tested before the next.     *)
LEMMA BlocksInductive == TypeOK /\ BlocksCounted /\ [Next]_vars => BlocksCounted'
<1> SUFFICES ASSUME TypeOK, BlocksCounted, [Next]_vars PROVE BlocksCounted'
  OBVIOUS
<1> USE OrchestratorAssumption DEF world, session, ledger, loop, bounds, BlocksCounted, LandBounded
<1>1. CASE TickBegin
  BY <1>1 DEF TickBegin
<1>2. ASSUME NEW u \in Units, Consider(u) PROVE BlocksCounted'
  BY <1>2 DEF Consider, NextUnit
<1>3. CASE Settle
  BY <1>3 DEF Settle, Sweep, TypeOK
<1>4. CASE ReadKey
  <2>1. Decided(cur, key') \/ cur \notin landed \cup staged
    BY DEF Decided
  <2> QED
    BY <1>4, <2>1 DEF ReadKey
<1>5. CASE CheckWork
  <2>1. /\ pc = "hasWork" /\ UNCHANGED <<tries, landed, blocks, cur>>
        /\ pc' \in {"pick", "verify", "land"}
        /\ \/ UNCHANGED <<halted, staged>>
           \/ pc' = "pick" /\ halted \subseteq halted' /\ staged \subseteq staged'
    BY <1>5 DEF CheckWork, TakeUp
  <2> QED
    BY <2>1
<1>6. CASE Verify
  <2>1. /\ pc = "verify" /\ UNCHANGED <<landed, blocks, cur>>
        /\ tries' = tries \/ tries' = [tries EXCEPT ![cur] = 0]
        /\ pc' \in {"pick", "land"}
        /\ \/ UNCHANGED <<halted, staged>>
           \/ pc' = "pick" /\ halted \subseteq halted' /\ staged \subseteq staged'
    BY <1>6 DEF Verify, Sweep, GreenGate, RedGate
  <2> QED
    BY <2>1 DEF TypeOK
<1>7. CASE Land
  <2>1. pc = "land" /\ pc' = "pick" /\ cur' = cur
    BY <1>7 DEF Land
  <2>2. CASE LandBlocked(cur)
    <3>1. /\ blocks' = [blocks EXCEPT ![cur] = @ + 1]
          /\ tries' = [tries EXCEPT ![cur] = @ + 1]
          /\ UNCHANGED <<landed, staged>>
          /\ \/ blocks[cur] + 1 < LandRetryCap /\ halted' = halted
             \/ halted' = halted \cup {cur}
      BY <2>2 DEF LandBlocked, Park, TypeOK
    <3>2. tries[cur] <= blocks[cur] /\ tries[cur] < LandRetryCap
      BY <2>1 DEF TypeOK
    <3> QED
      BY <2>1, <3>1, <3>2 DEF TypeOK
  <2>3. CASE LandMerged(cur)
    <3>1. /\ tries' = tries /\ staged' = staged
          /\ \/ /\ landed' = landed \cup {cur} /\ halted' = halted
                /\ blocks' = [blocks EXCEPT ![cur] = 0]
             \/ halted' = halted \cup {cur} /\ UNCHANGED <<landed, blocks>>
      BY <2>3 DEF LandMerged
    <3> QED
      BY <2>1, <3>1 DEF TypeOK
  <2>4. CASE LandStaged(cur)
    <3>1. /\ tries' = tries /\ landed' = landed
          /\ \/ /\ staged' = staged \cup {cur} /\ halted' = halted
                /\ blocks' = [blocks EXCEPT ![cur] = 0]
             \/ halted' = halted \cup {cur} /\ UNCHANGED <<staged, blocks>>
      BY <2>4 DEF LandStaged
    <3> QED
      BY <2>1, <3>1 DEF TypeOK
  <2>5. CASE LandRetryable(cur)
    BY <2>1, <2>5 DEF LandRetryable
  <2> QED
    BY <1>7, <2>2, <2>3, <2>4, <2>5 DEF Land
<1>8. CASE UnitsDone
  BY <1>8 DEF UnitsDone
<1>9. CASE Purge
  BY <1>9 DEF Purge
<1>10. ASSUME NEW u \in Units, Steer(u) PROVE BlocksCounted'
  <2>1. /\ tries' = [tries EXCEPT ![u] = 0] /\ Invalidate(u)
        /\ UNCHANGED <<blocks, pc, cur>>
    BY <1>10 DEF Steer
  <2> QED
    BY <2>1 DEF Invalidate, TypeOK
<1>11. ASSUME NEW u \in Units, Edit(u) \/ TurnEnd(u) \/ OperatorLand(u) PROVE BlocksCounted'
  <2>1. /\ tries' = tries \/ tries' = [tries EXCEPT ![u] = 0]
        /\ UNCHANGED <<session, loop>>
    BY <1>11 DEF Edit, TurnEnd, OperatorLand
  <2> QED
    BY <2>1 DEF TypeOK
<1>12. ASSUME NEW lost \in SUBSET Roster, Restart(lost) PROVE BlocksCounted'
  BY <1>12 DEF Restart, TypeOK
<1>13. CASE UNCHANGED vars
  BY <1>13 DEF vars
<1> QED
  BY <1>1, <1>2, <1>3, <1>4, <1>5, <1>6, <1>7, <1>8, <1>9, <1>10, <1>11, <1>12, <1>13 DEF Next, Tick

(* The counts of the loop keep step with the lands that were refused.       *)
THEOREM CountsKept == Spec => []BlocksCounted
<1>1. Init => BlocksCounted
  BY OrchestratorAssumption DEF Init, BlocksCounted, LandBounded
<1> QED
  BY <1>1, BlocksInductive, TypeCorrect, PTL DEF Spec

(* A tree's blocked lands never exceed the cap between two instructions.    *)
THEOREM LandsBounded == Spec => []LandBounded
<1>1. BlocksCounted => LandBounded
  BY DEF BlocksCounted
<1> QED
  BY <1>1, CountsKept, PTL

-----------------------------------------------------------------------------
(* Nothing is verified unrecorded.                                         *)

(* A mark whose failed write halts the unit keeps the ledger's gap inside  *)
(* the halted units.                                                       *)
LEMMA MarkRecorded ==
  ASSUME TypeOK, Recorded, NEW ks \in SUBSET Kinds, Mark(ks),
         halted \subseteq halted', Persisted(ks) \/ cur \in halted'
  PROVE  Recorded'
<1> SUFFICES ASSUME NEW k \in Kinds, NEW u \in Units, NEW t \in Keys,
                    <<k, u, t>> \in mem' \ disk'
             PROVE  WriteMayFail /\ u \in halted'
  BY DEF Recorded, Keys, Trees, Unknown, Branch
<1> DEFINE new == {<<j, cur, key>> : j \in ks}
<1>1. mem' = mem \cup new
  BY DEF Mark
<1>2. CASE <<k, u, t>> \in mem
  <2>1. <<k, u, t>> \notin disk
    BY <1>1 DEF Mark
  <2> QED
    BY <1>2, <2>1 DEF Recorded
<1>3. CASE <<k, u, t>> \notin mem
  <2>1. u = cur /\ ~(new \subseteq mem)
    BY <1>1, <1>3
  <2>2. WriteMayFail /\ disk' # mem'
    BY <1>1, <2>1 DEF Mark
  <2> QED
    BY <2>1, <2>2 DEF Persisted
<1> QED
  BY <1>2, <1>3

LEMMA RecordedInductive ==
  ASSUME MaxSteers = 0 \/ ~WriteMayFail
  PROVE  TypeOK /\ BlocksCounted /\ UnrecordedHalted /\ [Next]_vars => UnrecordedHalted'
<1> SUFFICES ASSUME TypeOK, BlocksCounted, UnrecordedHalted, [Next]_vars PROVE UnrecordedHalted'
  OBVIOUS
<1> USE OrchestratorAssumption DEF world, session, ledger, loop, bounds
<1>a. Recorded /\ RecordedFirst
  BY DEF UnrecordedHalted
<1>b. SUFFICES Recorded' /\ RecordedFirst'
  BY DEF UnrecordedHalted
<1>c. ASSUME Recorded, UNCHANGED <<mem, disk>>, halted \subseteq halted' PROVE Recorded'
  BY <1>c DEF Recorded, Keys, Trees, Unknown, Branch
<1>1. CASE TickBegin
  BY <1>1, <1>a, <1>c DEF TickBegin, RecordedFirst
<1>2. ASSUME NEW u \in Units, Consider(u) PROVE Recorded' /\ RecordedFirst'
  BY <1>2, <1>a, <1>c DEF Consider, NextUnit, RecordedFirst
<1>3. CASE Settle
  BY <1>3, <1>a, <1>c DEF Settle, RecordedFirst
<1>4. CASE ReadKey
  BY <1>4, <1>a, <1>c DEF ReadKey, RecordedFirst
<1>5. CASE CheckWork
  <2>1. CASE TakeUp(cur) /\ adopted[cur] /\ HoldForConfirm
    <3>1. /\ Mark({"staged"}) /\ pc' = "pick" /\ halted \subseteq halted'
          /\ Persisted({"staged"}) \/ cur \in halted'
      BY <2>1 DEF TakeUp, TypeOK
    <3> QED
      BY <1>a, <3>1, MarkRecorded DEF Kinds, RecordedFirst
  <2>2. CASE TakeUp(cur) /\ ~adopted[cur]
    <3>1. /\ Mark({"verifying"}) /\ halted \subseteq halted'
          /\ Persisted({"verifying"}) \/ (cur \in halted' /\ pc' = "pick")
          /\ UNCHANGED <<cur, key>>
      BY <1>5, <2>2 DEF TakeUp, TypeOK, CheckWork
    <3>2. Recorded'
      BY <1>a, <3>1, MarkRecorded DEF Kinds
    <3>3. cur \notin halted
      BY <1>5 DEF CheckWork, BlocksCounted
    <3>4. ASSUME Persisted({"verifying"}) PROVE <<"verifying", cur, key>> \in disk'
      <4>1. <<"verifying", cur, key>> \in mem'
        BY <3>1 DEF Mark
      <4>2. CASE <<"verifying", cur, key>> \in mem
        <5>1. <<"verifying", cur, key>> \in disk
          BY <1>a, <3>3, <4>2 DEF Recorded, Kinds, Keys, TypeOK
        <5> QED
          BY <3>1, <4>1, <5>1 DEF Mark
      <4>3. CASE <<"verifying", cur, key>> \notin mem
        BY <3>4, <4>1, <4>3 DEF Persisted
      <4> QED
        BY <4>2, <4>3
    <3> QED
      BY <3>1, <3>2, <3>4 DEF RecordedFirst
  <2>3. CASE ~TakeUp(cur) \/ (adopted[cur] /\ ~HoldForConfirm)
    <3>1. pc' \in {"pick", "land"} /\ UNCHANGED <<mem, disk, halted>>
      BY <1>5, <2>3 DEF CheckWork, TakeUp
    <3> QED
      BY <1>a, <1>c, <3>1 DEF RecordedFirst
  <2> QED
    BY <2>1, <2>2, <2>3
<1>6. CASE Verify
  <2>1. pc' \in {"pick", "land"}
    BY <1>6 DEF Verify, GreenGate
  <2>2. CASE GreenGate(cur)
    <3> DEFINE ks == IF HoldForConfirm THEN {"verified", "staged"} ELSE {"verified"}
    <3>1. /\ Mark(ks) /\ halted \subseteq halted'
          /\ Persisted(ks) \/ cur \in halted'
      BY <2>2 DEF GreenGate, TypeOK
    <3>2. ks \in SUBSET Kinds
      BY DEF Kinds
    <3> HIDE DEF ks
    <3>3. Recorded'
      BY <1>a, <3>1, <3>2, MarkRecorded
    <3> QED
      BY <2>1, <3>3 DEF RecordedFirst
  <2>3. CASE RedGate(cur) /\ attempts[cur] < RepairBudget
    BY <1>a, <1>c, <2>1, <2>3 DEF RedGate, RecordedFirst
  <2>4. CASE RedGate(cur) /\ ~(attempts[cur] < RepairBudget)
    <3>1. PICK ks \in SUBSET Kinds : Mark(ks) /\ halted \subseteq halted' /\ cur \in halted'
      BY <2>4 DEF RedGate, Kinds, TypeOK
    <3> QED
      BY <1>a, <2>1, <3>1, MarkRecorded DEF RecordedFirst
  <2> QED
    BY <1>6, <2>2, <2>3, <2>4 DEF Verify
<1>7. CASE Land
  <2>1. pc' = "pick"
    BY <1>7 DEF Land
  <2>2. CASE LandMerged(cur)
    <3>1. /\ Mark({"landed"}) /\ halted \subseteq halted'
          /\ Persisted({"landed"}) \/ cur \in halted'
      BY <2>2 DEF LandMerged, TypeOK
    <3> QED
      BY <1>a, <2>1, <3>1, MarkRecorded DEF RecordedFirst, Kinds
  <2>3. CASE LandStaged(cur)
    <3>1. /\ Mark({"staged"}) /\ halted \subseteq halted'
          /\ Persisted({"staged"}) \/ cur \in halted'
      BY <2>3 DEF LandStaged, TypeOK
    <3> QED
      BY <1>a, <2>1, <3>1, MarkRecorded DEF RecordedFirst, Kinds
  <2>4. CASE LandBlocked(cur) /\ Park(cur)
    <3>1. Mark({"blocked", "halted"}) /\ halted \subseteq halted' /\ cur \in halted'
      BY <2>4 DEF Park, TypeOK
    <3> QED
      BY <1>a, <2>1, <3>1, MarkRecorded DEF RecordedFirst, Kinds
  <2>5. CASE LandRetryable(cur) \/ (LandBlocked(cur) /\ ~Park(cur))
    <3>1. UNCHANGED <<mem, disk, halted>>
      BY <2>5 DEF LandRetryable, LandBlocked
    <3> QED
      BY <1>a, <1>c, <2>1, <3>1 DEF RecordedFirst
  <2> QED
    BY <1>7, <2>2, <2>3, <2>4, <2>5 DEF Land
<1>8. CASE UnitsDone
  BY <1>8, <1>a, <1>c DEF UnitsDone, RecordedFirst
<1>9. CASE Purge
  <2>1. mem' \subseteq mem /\ (disk' = disk \/ disk' = mem') /\ halted' = halted /\ pc' = "rest"
    BY <1>9 DEF Purge
  <2> QED
    BY <1>a, <2>1 DEF Recorded, Keys, Trees, Unknown, Branch, RecordedFirst
<1>10. ASSUME NEW u \in Units, Steer(u) PROVE Recorded' /\ RecordedFirst'
  <2>1. /\ UNCHANGED <<mem, disk, pc, cur, key>> /\ steers < MaxSteers
    BY <1>10 DEF Steer
  <2>2. ~WriteMayFail
    BY <2>1 DEF TypeOK
  <2> QED
    BY <1>a, <2>1, <2>2 DEF Recorded, Keys, Trees, Unknown, Branch, RecordedFirst
<1>11. ASSUME NEW u \in Units, Edit(u) \/ TurnEnd(u) \/ OperatorLand(u)
       PROVE  Recorded' /\ RecordedFirst'
  BY <1>11, <1>a, <1>c DEF Edit, TurnEnd, OperatorLand, RecordedFirst
<1>12. ASSUME NEW lost \in SUBSET Roster, Restart(lost) PROVE Recorded' /\ RecordedFirst'
  BY <1>12 DEF Restart, Recorded, RecordedFirst
<1>13. CASE UNCHANGED vars
  BY <1>13, <1>a, <1>c DEF vars, RecordedFirst
<1> QED
  BY <1>1, <1>2, <1>3, <1>4, <1>5, <1>6, <1>7, <1>8, <1>9, <1>10, <1>11, <1>12, <1>13 DEF Next, Tick

(* An entry that is only in memory is one of a unit its failed write has    *)
(* halted, when writes cannot fail or no prompt revives a halted unit.      *)
THEOREM GapsHalted ==
  ASSUME MaxSteers = 0 \/ ~WriteMayFail
  PROVE  Spec => []UnrecordedHalted
<1>1. Init => UnrecordedHalted
  BY DEF Init, UnrecordedHalted, Recorded, RecordedFirst
<1> QED
  BY <1>1, RecordedInductive, CountsKept, TypeCorrect, PTL DEF Spec

(* A unit is verified only with "verifying" on disk: always when writes do *)
(* not fail, and with failing writes as long as no prompt revives a unit   *)
(* that a failed write has halted.                                         *)
THEOREM VerifiedRecorded ==
  ASSUME MaxSteers = 0 \/ ~WriteMayFail
  PROVE  Spec => []RecordedFirst
<1>1. UnrecordedHalted => RecordedFirst
  BY DEF UnrecordedHalted
<1> QED
  BY <1>1, GapsHalted, PTL

-----------------------------------------------------------------------------
(* No tree is driven after its decision is on disk, if HEAD can be read.   *)

(* Marking the unit in hand keeps the ledger complete about present trees, *)
(* also when the mark comes with a sweep.                                  *)
LEMMA MarkKeeps ==
  ASSUME TypeOK, TypeOK', Kept, key <= tree[cur], NEW ks \in SUBSET Kinds, Mark(ks),
         status' = status, \A u \in Units : tree[u] <= tree'[u]
  PROVE  Kept'
<1> DEFINE new == {<<k, cur, key>> : k \in ks}
<1>1. /\ mem' = mem \cup new /\ (disk' = disk \/ disk' = mem')
      /\ decided' = decided \cup DecidedBy(disk')
  BY DEF Mark
<1>2. /\ Roster' = Roster /\ Keys' = Keys /\ Trees' = Trees
      /\ Roster \subseteq Units /\ Final \subseteq Kinds
  BY DEF Roster, Keys, Trees, Unknown, Branch, Final, Kinds
<1>a. ASSUME NEW u \in Units
      PROVE  tree[u] \in Trees /\ tree'[u] \in Trees /\ tree[u] \in Nat /\ tree'[u] \in Nat
  BY OrchestratorAssumption DEF TypeOK, Trees
<1>3. ASSUME NEW k \in Kinds, NEW u \in Units, NEW t \in Keys, <<k, u, t>> \in mem' \cup disk'
      PROVE  t <= tree'[u]
  <2>1. t <= tree[u]
    <3>1. CASE <<k, u, t>> \in mem \cup disk
      BY <3>1 DEF Kept
    <3>2. CASE <<k, u, t>> \notin mem \cup disk
      BY <1>1, <1>3, <3>2
    <3> QED
      BY <3>1, <3>2
  <2> QED
    BY <2>1, <1>a, OrchestratorAssumption DEF Keys, Trees, Unknown, Branch
<1>4. ASSUME NEW u \in Roster, NEW k \in Final, <<k, u, tree'[u]>> \in disk'
      PROVE  <<k, u, tree'[u]>> \in mem'
  <2>1. CASE <<k, u, tree'[u]>> \in disk
    <3>1. tree'[u] <= tree[u]
      BY <1>2, <1>a, <2>1 DEF Kept, Keys
    <3>2. tree'[u] = tree[u]
      BY <1>2, <1>a, <3>1
    <3> QED
      BY <1>1, <2>1, <3>2 DEF Kept
  <2> QED
    BY <1>1, <1>4, <2>1
<1>5. ASSUME NEW u \in Roster, <<u, tree'[u]>> \in decided'
      PROVE  \E k \in Final : <<k, u, tree'[u]>> \in mem' \cap disk'
  <2>1. CASE <<u, tree'[u]>> \in decided
    <3>1. tree'[u] <= tree[u]
      BY <1>2, <1>a, <2>1 DEF Kept
    <3>2. tree'[u] = tree[u]
      BY <1>2, <1>a, <3>1
    <3> QED
      BY <1>1, <2>1, <3>2 DEF Kept
  <2>2. CASE <<u, tree'[u]>> \in DecidedBy(disk')
    BY <1>4, <2>2 DEF DecidedBy
  <2> QED
    BY <1>1, <1>5, <2>1, <2>2
<1>6. ASSUME NEW u \in Units, NEW t \in Trees, <<u, t>> \in decided' PROVE t <= tree'[u]
  <2>1. CASE <<u, t>> \in decided
    <3>1. t <= tree[u]
      BY <2>1 DEF Kept
    <3> QED
      BY <3>1, <1>a, OrchestratorAssumption DEF Trees
  <2>2. CASE <<u, t>> \in DecidedBy(disk')
    <3>1. PICK k \in Final : <<k, u, t>> \in disk'
      BY <2>2 DEF DecidedBy
    <3> QED
      BY <1>3, <3>1 DEF Final, Kinds, Keys
  <2> QED
    BY <1>1, <1>6, <2>1, <2>2
<1> QED
  BY <1>2, <1>3, <1>4, <1>5, <1>6 DEF Kept

(* Time passing for the branches: trees only grow and units only leave.    *)
LEMMA GrowthKeeps ==
  ASSUME TypeOK, TypeOK', Kept, UNCHANGED <<mem, disk, decided>>,
         \A u \in Roster' : u \in Roster /\ tree[u] <= tree'[u],
         \A u \in Units : tree[u] <= tree'[u]
  PROVE  Kept'
<1> Keys' = Keys /\ Trees' = Trees
  BY DEF Keys, Trees, Unknown, Branch
<1>1. ASSUME NEW u \in Roster', NEW k \in Kinds, <<k, u, tree'[u]>> \in mem \cup disk
      PROVE  u \in Roster /\ tree'[u] = tree[u]
  <2>1. tree'[u] \in Trees /\ tree[u] \in Trees /\ u \in Units
    BY DEF TypeOK, Roster
  <2>2. tree'[u] <= tree[u]
    BY <1>1, <2>1 DEF Kept, Keys
  <2> QED
    BY <2>1, <2>2, OrchestratorAssumption DEF Trees
<1>2. ASSUME NEW u \in Roster', <<u, tree'[u]>> \in decided
      PROVE  u \in Roster /\ tree'[u] = tree[u]
  <2>1. tree'[u] \in Trees /\ tree[u] \in Trees /\ u \in Units
    BY DEF TypeOK, Roster
  <2>2. tree'[u] <= tree[u]
    BY <1>2, <2>1 DEF Kept
  <2> QED
    BY <2>1, <2>2, OrchestratorAssumption DEF Trees
<1>3. \A k \in Kinds, u \in Units, t \in Keys : <<k, u, t>> \in mem \cup disk => t <= tree'[u]
  BY OrchestratorAssumption DEF Kept, TypeOK, Keys, Trees, Unknown, Branch
<1>4. \A u \in Units, t \in Trees : <<u, t>> \in decided => t <= tree'[u]
  BY OrchestratorAssumption DEF Kept, TypeOK, Trees
<1>5. Final \subseteq Kinds
  BY DEF Final, Kinds
<1> QED
  BY <1>1, <1>2, <1>3, <1>4, <1>5 DEF Kept

(* The purge drops only what is not about a present tree.                  *)
LEMMA PurgeKeeps ==
  ASSUME TypeOK, Kept, Purge, ~HeadMayFail
  PROVE  Kept'
<1>1. PICK h \in [Units -> Trees \cup {Unknown}] :
        /\ \A u \in Units : h[u] = tree[u]
        /\ mem' = {e \in mem : LiveEntry(e, h)}
        /\ disk' = disk \/ disk' = mem'
  BY DEF Purge
<1>2. UNCHANGED <<tree, status, decided>> /\ Roster' = Roster /\ Keys' = Keys
  BY DEF Purge, world, Roster, Keys, Trees, Unknown, Branch
<1>3. ASSUME NEW u \in Roster, NEW k \in Kinds, <<k, u, tree[u]>> \in mem
      PROVE  <<k, u, tree[u]>> \in mem'
  BY <1>1, <1>3 DEF LiveEntry, Roster
<1>4. Final \subseteq Kinds
  BY DEF Final, Kinds
<1>5. mem' \subseteq mem
  BY <1>1
<1>6. ASSUME NEW u \in Roster, NEW k \in Final, <<k, u, tree[u]>> \in disk'
      PROVE  <<k, u, tree[u]>> \in mem'
  BY <1>1, <1>3, <1>4, <1>6 DEF Kept
<1>7. ASSUME NEW u \in Roster, <<u, tree[u]>> \in decided
      PROVE  \E k \in Final : <<k, u, tree[u]>> \in mem' \cap disk'
  <2>1. PICK k \in Final : <<k, u, tree[u]>> \in mem \cap disk
    BY <1>7 DEF Kept
  <2>2. <<k, u, tree[u]>> \in mem'
    BY <1>3, <1>4, <2>1
  <2> QED
    BY <1>1, <2>1, <2>2
<1> QED
  BY <1>1, <1>2, <1>5, <1>6, <1>7 DEF Kept

LEMMA KeptInductive ==
  ASSUME ~HeadMayFail, TypeOK, TypeOK', Kept, Placed, [Next]_vars
  PROVE  Kept' /\ Placed'
<1> USE OrchestratorAssumption DEF world, session, ledger, loop, bounds
<1>a. ASSUME NEW u \in Units PROVE tree[u] \in Nat /\ tree[u] <= tree[u] /\ tree[u] <= tree[u] + 1
  BY DEF TypeOK, Trees
<1>b. ASSUME UNCHANGED <<mem, disk, decided, status, tree>> PROVE Kept' /\ Roster' = Roster
  BY <1>b DEF Kept, Roster, Keys, Trees, Unknown, Branch
<1>1. CASE TickBegin
  BY <1>1, <1>b DEF TickBegin, Placed
<1>2. ASSUME NEW u \in Units, Consider(u) PROVE Kept' /\ Placed'
  BY <1>2, <1>b DEF Consider, NextUnit, Placed, Roster
<1>3. CASE Settle
  <2>1. /\ pc = "settle" /\ pc' = "readKey" /\ UNCHANGED <<status, mem, disk, decided, cur>>
        /\ tree' = tree \/ tree' = [tree EXCEPT ![cur] = @ + 1]
    BY <1>3 DEF Settle, Sweep
  <2>2. Roster' = Roster
    BY <2>1 DEF Roster
  <2>3. \A u \in Units : tree[u] <= tree'[u]
    BY <1>a, <2>1 DEF TypeOK
  <2>4. Kept'
    BY <2>1, <2>2, <2>3, GrowthKeeps DEF Roster
  <2> QED
    BY <2>1, <2>2, <2>4 DEF Placed
<1>4. CASE ReadKey
  <2>1. /\ pc = "readKey" /\ key' = tree[cur] /\ cur' = cur
        /\ pc' = IF Decided(cur, tree[cur]) THEN "pick" ELSE "hasWork"
        /\ UNCHANGED <<mem, disk, decided, status, tree>>
    BY <1>4 DEF ReadKey
  <2>2. cur \in Roster /\ cur \in Units
    BY <2>1 DEF Placed, Roster
  <2>3. <<cur, tree[cur]>> \in decided => Decided(cur, tree[cur])
    BY <2>2 DEF Kept, Decided
  <2> QED
    BY <1>a, <1>b, <2>1, <2>2, <2>3 DEF Placed
<1>5. CASE CheckWork
  <2>1. /\ pc = "hasWork" /\ UNCHANGED <<cur, key, status, tree>>
        /\ pc' \in {"pick", "verify", "land"}
        /\ \/ UNCHANGED <<mem, disk, decided>>
           \/ Mark({"staged"}) \/ Mark({"verifying"})
    BY <1>5 DEF CheckWork, TakeUp
  <2>2. Kept'
    BY <1>a, <1>b, <2>1, MarkKeeps DEF Placed, Kinds
  <2> QED
    BY <1>b, <2>1, <2>2 DEF Placed, Roster
<1>6. CASE Verify
  <2>1. /\ pc = "verify" /\ UNCHANGED <<cur, key, status>> /\ pc' \in {"pick", "land"}
        /\ tree' = tree \/ tree' = [tree EXCEPT ![cur] = @ + 1]
    BY <1>6 DEF Verify, Sweep, GreenGate
  <2>2. /\ \A u \in Units : tree[u] <= tree'[u]
        /\ Roster' = Roster /\ key <= tree[cur] /\ cur \in Units
    BY <1>a, <2>1 DEF TypeOK, Roster, Placed
  <2>3. Kept'
    <3>1. CASE GreenGate(cur)
      <4>1. Mark({"verified", "staged"}) \/ Mark({"verified"})
        BY <3>1 DEF GreenGate
      <4> QED
        BY <2>1, <2>2, <4>1, MarkKeeps DEF Kinds
    <3>2. CASE RedGate(cur) /\ UNCHANGED ledger
      BY <2>1, <2>2, <3>2, GrowthKeeps DEF Roster
    <3>3. CASE RedGate(cur) /\ ~UNCHANGED ledger
      <4>1. Mark({"halted"}) \/ Mark({"blocked", "halted"})
        BY <3>3 DEF RedGate
      <4> QED
        BY <2>1, <2>2, <4>1, MarkKeeps DEF Kinds
    <3> QED
      BY <1>6, <3>1, <3>2, <3>3 DEF Verify
  <2>4. key \in Nat /\ tree[cur] \in Nat /\ tree'[cur] \in Nat
    BY <1>a, <2>2 DEF TypeOK, Trees, Unknown
  <2>5. key <= tree'[cur]
    BY <2>2, <2>4
  <2> QED
    BY <2>1, <2>2, <2>3, <2>5 DEF Placed
<1>7. CASE Land
  <2>1. pc = "land" /\ pc' = "pick" /\ UNCHANGED <<status, tree, cur>>
    BY <1>7 DEF Land
  <2>2. \/ UNCHANGED <<mem, disk, decided>>
        \/ Mark({"landed"}) \/ Mark({"staged"}) \/ Mark({"blocked", "halted"})
    BY <1>7 DEF Land, LandMerged, LandStaged, LandRetryable, LandBlocked, Park
  <2>3. Kept'
    BY <1>a, <1>b, <2>1, <2>2, MarkKeeps DEF Placed, Kinds
  <2> QED
    BY <2>1, <2>3 DEF Placed
<1>8. CASE UnitsDone
  BY <1>8, <1>b DEF UnitsDone, Placed
<1>9. CASE Purge
  BY <1>9, PurgeKeeps DEF Purge, Placed
<1>10. ASSUME NEW u \in Units, Steer(u) \/ Edit(u) \/ TurnEnd(u) \/ OperatorLand(u)
       PROVE  Kept' /\ Placed'
  <2>1. /\ UNCHANGED <<mem, disk, decided, loop>>
        /\ tree' = tree \/ tree' = [tree EXCEPT ![u] = @ + 1]
        /\ status' = status \/ (status[u] # "gone" /\ \E st \in {"working", "idle"} :
                                 status' = [status EXCEPT ![u] = st])
    BY <1>10 DEF Steer, Edit, TurnEnd, OperatorLand
  <2>2. Roster' = Roster
    BY <2>1 DEF Roster, TypeOK
  <2>3. \A v \in Units : tree[v] <= tree'[v]
    BY <1>a, <2>1 DEF TypeOK
  <2>4. Kept'
    BY <2>1, <2>2, <2>3, GrowthKeeps DEF Roster
  <2>5. cur \in Units /\ tree[cur] \in Nat /\ tree'[cur] \in Nat /\ key \in Nat
    BY <2>1 DEF TypeOK, Trees, Unknown
  <2>6. ASSUME pc = "hasWork" PROVE <<cur, tree'[cur]>> \notin decided
    <3>1. CASE tree'[cur] = tree[cur]
      BY <2>6, <3>1 DEF Placed
    <3>2. CASE tree'[cur] = tree[cur] + 1
      <4>1. ~(tree'[cur] <= tree[cur]) /\ tree'[cur] \in Trees
        BY <2>5, <3>2 DEF TypeOK
      <4> QED
        BY <2>5, <4>1 DEF Kept
    <3> QED
      BY <2>1, <2>5, <3>1, <3>2 DEF TypeOK
  <2>7. tree[cur] <= tree'[cur]
    BY <2>3, <2>5
  <2> QED
    BY <2>1, <2>2, <2>4, <2>5, <2>6, <2>7 DEF Placed
<1>11. ASSUME NEW lost \in SUBSET Roster, Restart(lost) PROVE Kept' /\ Placed'
  <2>1. /\ mem' = disk /\ pc' = "rest" /\ UNCHANGED <<tree, disk, decided>>
    BY <1>11 DEF Restart
  <2>2. Roster' \subseteq Roster
    BY <1>11 DEF Restart, Roster, TypeOK
  <2> QED
    BY <2>1, <2>2 DEF Kept, Placed, Keys, Trees, Unknown, Branch
<1>12. CASE UNCHANGED vars
  BY <1>12, <1>b DEF vars, Placed
<1> QED
  BY <1>1, <1>2, <1>3, <1>4, <1>5, <1>6, <1>7, <1>8, <1>9, <1>10, <1>11, <1>12 DEF Next, Tick

(* While HEAD can be read, a decision that reached the disk still holds of  *)
(* the unit's tree, in memory and on disk, and the unit in hand is          *)
(* undecided while its work is looked for.                                  *)
THEOREM DecisionsStand ==
  ASSUME ~HeadMayFail
  PROVE  Spec => []DecisionsKept
<1>1. Init => DecisionsKept
  BY DEF Init, DecisionsKept, Kept, Placed
<1>2. TypeOK /\ TypeOK' /\ DecisionsKept /\ [Next]_vars => DecisionsKept'
  BY KeptInductive DEF DecisionsKept
<1> QED
  BY <1>1, <1>2, TypeCorrect, PTL DEF Spec

(* While HEAD can be read, the loop never drives a tree whose final         *)
(* decision has reached the disk, across restarts, steers, failed writes    *)
(* and purges.                                                              *)
THEOREM DecisionsHold ==
  ASSUME ~HeadMayFail
  PROVE  Spec => NotRedriven
<1>1. DecisionsKept => Placed
  BY DEF DecisionsKept
<1>2. Placed /\ [Next]_vars => [Drives => <<cur, tree[cur]>> \notin decided]_vars
  <2> SUFFICES ASSUME Placed, Next, Drives PROVE <<cur, tree[cur]>> \notin decided
    OBVIOUS
  <2>1. pc = "hasWork"
    BY DEF Drives, Next, Tick, TickBegin, Consider, NextUnit, Settle, ReadKey, CheckWork, Verify,
           Land, UnitsDone, Purge, Steer, Edit, TurnEnd, OperatorLand, Restart, loop
  <2> QED
    BY <2>1 DEF Placed
<1> QED
  BY <1>1, <1>2, DecisionsStand, PTL DEF Spec, NotRedriven
=============================================================================
