---------------------------- MODULE PrLandProofs ----------------------------
(***************************************************************************)
(* Proofs about PrLand, for any deployments and any number of pull         *)
(* requests: the inductive invariant IInv and what follows from it.        *)
(***************************************************************************)
EXTENDS PrLand, TLAPS

(* Where a request's number is used there is one. *)
Numbered ==
    /\ \A c \in Callers : ensuring[c].pc \in {"adopt", "record"} => ensuring[c].num \in Numbers
    /\ land.pc \in {"pin", "gate", "merge", "merged"} => land.num \in Numbers
    /\ tick.pc \in {"view", "assert"} => tick.seen.num \in Numbers

(* A land waits for its ensurePr.  The commit pinned first is in the tree   *)
(* that is gated later, and a branch on its way to the gate has a commit.   *)
Pinned ==
    /\ ensuring["land"].pc # "none" => land.pc = "ensure"
    /\ land.pc \in {"ensure", "pin", "gate", "sync"} => tip > 0
    /\ land.pc = "gate" => land.pin <= tip
    /\ land.pc = "merge" => land.pin <= land.gated

(* Past the gate a gate was green, and so it was for every green proof. *)
Passed ==
    /\ land.pc \in {"merge", "merged", "record"} => passed > 0
    /\ proof.grade = "green" => passed > 0

(* What the daemon merged stays merged as it was. *)
DaemonMerged == \A p \in Numbers : pr[p].by = "daemon" => pr[p].state = "merged"

(* A commit about to be recorded is in main. *)
Recording ==
    /\ land.pc = "record" => Landed(land.commit)
    /\ tick.pc = "record" => Landed(tick.commit)

(* Where a proof is taken for granted there is one, unless a write failed,  *)
(* and what the daemon remembers to have done was done.                     *)
Settling ==
    /\ tick.pc \in {"close", "closing", "update"} => proof.grade # "none" \/ faults > 0
    /\ LostProof => faults > 0
    /\ land.pc = "closing" => proof.grade # "none" /\ passed > 0
    /\ tick.pc = "closing" => proof.grade # "none" /\ passed > 0
    /\ closedIds => issue = "closed"
    /\ escalated => told /\ proof.grade # "none"

(* A step of this kind takes nothing out of main, and no request away, and  *)
(* only a human closes one.                                                 *)
GrowsOnly == /\ main' \in Nat /\ main <= main'
             /\ closes' \in Nat /\ closes <= closes'
             /\ \A p \in Numbers :
               /\ pr[p].state = "merged" => pr'[p] = pr[p]
               /\ pr[p].state # "none" => pr'[p].state # "none"
               /\ pr'[p].state = "closed" => pr[p].state = "closed" \/ closes' > 0

IInv == /\ TypeOK /\ Numbered
        /\ Pinned /\ Passed
        /\ DaemonMerged /\ MergesGated
        /\ Recording /\ ProofMerged
        /\ Settling /\ IssueHonest

-----------------------------------------------------------------------------
(* A step is one of the actions. *)
LEMMA NextCases ==
    ASSUME Next
    PROVE  \/ Commits \/ Flagged \/ LandRefused \/ Automerges \/ ViewFails
           \/ Crash \/ CrashRecording \/ RetryFails \/ Marks
           \/ \E p \in Numbers : HumanCloses(p)
           \/ \E p \in Numbers : HumanReopens(p)
           \/ \E p \in Numbers, how \in Methods : HumanMerges(p, how)
           \/ \E c \in Callers : Lists(c) \/ Pushes(c) \/ Adopts(c)
           \/ \E c \in Callers : Creates(c) \/ CreateRefused(c) \/ Records(c) \/ EnsureFails(c)
           \/ \E swept \in {0, 1} : LandStarts(swept)
           \/ Pins \/ Gates \/ Retries \/ Merges \/ MergeRefused
           \/ Asserts \/ Proves \/ Lands \/ LandCloses
           \/ TickStarts \/ Views \/ TickAsserts \/ TickProves
           \/ TickSettles \/ TickCloses \/ TickUpdates \/ Retires
  BY Zenon DEF Next, EnsureStep, LandStep, TickStep

(* The idle values are of their types. *)
LEMMA Defaults ==
    /\ NoRequest \in Request /\ NoProof \in Proof
    /\ NoEnsure \in Ensure /\ Idle \in Land /\ Off \in Tick
    /\ NoEntry.num = 0 /\ NoEntry \notin Entry
  BY NumbersAssumption DEF NoRequest, Request, NoProof, Proof, NoEnsure, Ensure, Idle, Land,
     Off, Tick, NoEntry, Entry, Numbers

(* No request has the number 0, and every other one may. *)
LEMMA NumbersFacts == /\ 0 \in 0 .. MaxPrs /\ 0 \notin Numbers /\ Numbers \subseteq 0 .. MaxPrs
                      /\ \A n \in 0 .. MaxPrs : n # 0 => n \in Numbers
  BY NumbersAssumption DEF Numbers

(* What is made of the entry of the ledger is an entry, or none as before. *)
LEMMA PatchedTyped ==
    ASSUME entry \in Entry \cup {NoEntry},
           NEW st \in {"open", "merged", "closed"}, NEW b \in BOOLEAN, NEW d \in BOOLEAN
    PROVE  /\ Patched(st, b, d) \in Entry \cup {NoEntry}
           /\ Patched(st, b, d).num = entry.num
           /\ Patched(st, b, d).proven => entry.proven \/ b
           /\ Patched(st, b, d).closed => entry.closed \/ d
  <1>1. CASE entry = NoEntry
    BY <1>1, Defaults DEF Patched
  <1>2. CASE entry \in Entry
    BY <1>2, NumbersAssumption DEF Patched, Entry, Numbers
  <1>3. QED
    BY <1>1, <1>2

(* A write of the ledgers is made, in part or not at all if it fails. *)
LEMMA WrittenKeeps ==
    ASSUME TypeOK, NEW a, NEW e, Written(a, e)
    PROVE  /\ proof' \in {proof, a} /\ entry' \in {entry, e}
           /\ (proof' = a /\ entry' = e) \/ faults' > 0
           /\ faults <= faults' /\ faults' \in Nat
           /\ closes' = closes /\ crashes' = crashes
  <1>1. CASE proof' = a /\ entry' = e /\ UNCHANGED counts
    BY <1>1 DEF TypeOK, counts
  <1>2. CASE /\ Fault
             /\ proof' \in {proof, a} /\ entry' \in {entry, e}
             /\ UNCHANGED <<closes, crashes>>
    BY <1>2 DEF TypeOK, Fault
  <1>3. QED
    BY <1>1, <1>2 DEF Written

(* What the land's recording and the reconciler's update leave. *)
LEMMA ProvesWrites ==
    ASSUME TypeOK, Proves
    PROVE  /\ proof' \in {proof, [grade |-> "green", commit |-> land.commit]}
           /\ entry' \in {entry, Patched("merged", TRUE, FALSE)}
           /\ proof'.grade = "green" \/ faults' > 0
           /\ faults <= faults' /\ faults' \in Nat
           /\ closes' = closes /\ crashes' = crashes
  <1> DEFINE g == [grade |-> "green", commit |-> land.commit]
             e == Patched("merged", TRUE, FALSE)
  <1>1. Written(g, e)
    BY DEF Proves
  <1>2. g.grade = "green"
    OBVIOUS
  <1> HIDE DEF g, e
  <1>3. /\ proof' \in {proof, g} /\ entry' \in {entry, e}
        /\ (proof' = g /\ entry' = e) \/ faults' > 0
        /\ faults <= faults' /\ faults' \in Nat
        /\ closes' = closes /\ crashes' = crashes
    BY <1>1, WrittenKeeps
  <1>4. QED
    BY <1>2, <1>3 DEF g, e

LEMMA UpdatesWrites ==
    ASSUME TypeOK, TickUpdates
    PROVE  /\ proof' = proof
           /\ entry' \in {entry, Patched(entry.state, FALSE, closedIds \/ escalated),
                         Patched("merged", TRUE, closedIds \/ escalated)}
           /\ faults <= faults' /\ faults' \in Nat
           /\ closes' = closes /\ crashes' = crashes
  <1> DEFINE e == Patched(entry.state, FALSE, closedIds \/ escalated)
             f == Patched("merged", TRUE, closedIds \/ escalated)
  <1>1. Written(proof, IF tick.seen.proven THEN e ELSE f)
    BY DEF TickUpdates
  <1> HIDE DEF e, f
  <1>2. Written(proof, e) \/ Written(proof, f)
    BY <1>1
  <1>3. QED
    BY <1>2, WrittenKeeps DEF e, f

(* A fresh entry. *)
LEMMA PendingTyped == \A n \in Numbers : Pending(n) \in Entry
  BY DEF Pending, Entry

(* A list of calls with one of them replaced, or with one field changed. *)
LEMMA StartedTyped ==
    ASSUME ensuring \in [Callers -> Ensure], NEW c \in Callers
    PROVE  Started(c) \in [Callers -> Ensure]
           /\ \A d \in Callers : Started(c)[d].pc \in {"adopt", "record"} => Started(c)[d] = ensuring[d]
  <1>1. [NoEnsure EXCEPT !.pc = "list"] \in Ensure /\ [NoEnsure EXCEPT !.pc = "list"].pc = "list"
    BY NumbersAssumption DEF NoEnsure, Ensure
  <1>2. QED
    BY <1>1 DEF Started

LEMMA CreatedTyped ==
    ASSUME ensuring \in [Callers -> Ensure], NEW c \in Callers, NEW p \in Numbers,
           ensuring' = [ensuring EXCEPT ![c] = [@ EXCEPT !.pc = "record", !.num = p]]
    PROVE  /\ ensuring' \in [Callers -> Ensure]
           /\ ensuring'[c].num = p
           /\ \A d \in Callers \ {c} : ensuring'[d] = ensuring[d]
  <1> DEFINE e == [ensuring[c] EXCEPT !.pc = "record", !.num = p]
  <1>1. e \in Ensure /\ e.num = p
    BY NumbersFacts DEF Ensure
  <1>2. ensuring' = [ensuring EXCEPT ![c] = e]
    OBVIOUS
  <1> HIDE DEF e
  <1>3. QED
    BY <1>1, <1>2

(* There is room for one more request among the numbers. *)
LEMMA FreeTyped == ASSUME cfg \in Deployments PROVE Free \subseteq Numbers
  <1>1. cfg.prs \in Numbers
    BY DeploymentsAssumption DEF Deployment
  <1>2. QED
    BY <1>1, NumbersAssumption DEF Free, Numbers

(* A merge of the daemon ends the land or leads on to the assertion. *)
LEMMA MergesEnds ==
    ASSUME Merges
    PROVE  /\ land.num \in Numbers
           /\ \/ land'.pc = "merged" /\ land'.num = land.num
              \/ land'.pc = "idle"
  <1>1. land.num \in Numbers
    BY DEF Merges, Mergeable, Open
  <1>2. land' = [Idle EXCEPT !.pc = "merged", !.num = land.num] \/ land' = Idle
    BY Zenon DEF Merges
  <1>3. /\ [Idle EXCEPT !.pc = "merged", !.num = land.num].pc = "merged"
        /\ [Idle EXCEPT !.pc = "merged", !.num = land.num].num = land.num
        /\ Idle.pc = "idle"
    BY DEF Idle
  <1>4. QED
    BY <1>1, <1>2, <1>3

(* What an ensurePr() that returns leaves behind. *)
LEMMA ReturnsTyped ==
    ASSUME TypeOK, Numbered, NEW c \in Callers, NEW n \in 0 .. MaxPrs, Returns(c, n)
    PROVE  /\ ensuring' \in [Callers -> Ensure] /\ land' \in Land /\ tick' \in Tick
           /\ Numbered'
  <1>1. /\ ensuring' \in [Callers -> Ensure]
        /\ \A d \in Callers : ensuring'[d].pc \in {"adopt", "record"}
              => ensuring'[d].num \in Numbers
    <2>1. NoEnsure \in Ensure /\ NoEnsure.pc = "none"
      BY Defaults DEF NoEnsure
    <2>2. ensuring' = [ensuring EXCEPT ![c] = NoEnsure] /\ ensuring \in [Callers -> Ensure]
      BY DEF Returns, TypeOK
    <2>3. \A d \in Callers : ensuring[d].pc \in {"adopt", "record"} => ensuring[d].num \in Numbers
      BY DEF Numbered
    <2>4. QED
      BY <2>1, <2>2, <2>3
  <1>2. /\ land' \in Land
        /\ land'.pc \in {"pin", "gate", "merge", "merged"} => land'.num \in Numbers
    <2>1. CASE c # "land"
      BY <2>1 DEF Returns, TypeOK, Numbered
    <2>2. CASE c = "land" /\ n = 0
      <3>1. land' = Idle /\ Idle.pc = "idle"
        BY <2>2 DEF Returns, Idle
      <3>2. QED
        BY <3>1, Defaults
    <2>3. CASE c = "land" /\ n # 0
      <3>1. land' = [land EXCEPT !.pc = "pin", !.num = n] /\ land \in Land
        BY <2>3 DEF Returns, TypeOK
      <3>2. n \in Numbers
        BY <2>3, NumbersFacts
      <3>3. QED
        BY <3>1, <3>2 DEF Land
    <2>4. QED
      BY <2>1, <2>2, <2>3
  <1>3. tick' \in Tick /\ (tick'.pc \in {"view", "assert"} => tick'.seen.num \in Numbers)
    <2>1. Off.pc = "off" /\ Off \in Tick
      BY Defaults DEF Off
    <2>2. tick' = Off \/ tick' = tick
      BY DEF Returns
    <2>3. QED
      BY <2>1, <2>2 DEF TypeOK, Numbered
  <1>4. QED
    BY <1>1, <1>2, <1>3 DEF Numbered

(* What the call to the tracker leaves. *)
LEMMA ClosedTyped ==
    ASSUME TypeOK, IssueClosed
    PROVE  /\ issue' \in {"open", "closed"} /\ closedIds' \in BOOLEAN
           /\ closes' \in Nat /\ faults' \in Nat /\ crashes' \in Nat
  <1>1. CASE issue' = "closed" /\ closedIds' = TRUE /\ UNCHANGED counts
    BY <1>1 DEF TypeOK, counts
  <1>2. CASE Fault /\ issue' \in {issue, "closed"} /\ UNCHANGED <<closedIds, closes, crashes>>
    BY <1>2 DEF TypeOK, Fault
  <1>3. QED
    BY <1>1, <1>2 DEF IssueClosed


(* Steps keep the types, and the numbers. *)
LEMMA TypedStep ==
    ASSUME TypeOK, Numbered, [Next]_vars
    PROVE  TypeOK' /\ Numbered'
  <1>1. CASE Commits
    BY <1>1
    DEF Commits, TypeOK, Numbered, vars, github, ledgers, memory, history, counts
  <1>2. ASSUME NEW p \in Numbers, HumanCloses(p)
       PROVE  TypeOK' /\ Numbered'
    <2>1. pr' \in [Numbers -> Request]
      BY <1>2
      DEF HumanCloses, TypeOK, Request
    <2>2. QED
      BY <1>2, <2>1
      DEF HumanCloses, TypeOK, Numbered, vars, github, ledgers, memory, history, counts
  <1>2a. ASSUME NEW p \in Numbers, HumanReopens(p)
       PROVE  TypeOK' /\ Numbered'
    <2>1. pr' \in [Numbers -> Request]
      BY <1>2a
      DEF HumanReopens, TypeOK, Request
    <2>2. QED
      BY <1>2a, <2>1
      DEF HumanReopens, TypeOK, Numbered, vars, github, ledgers, memory, history, counts
  <1>3. ASSUME NEW p \in Numbers, NEW how \in Methods, HumanMerges(p, how)
       PROVE  TypeOK' /\ Numbered'
    BY <1>3
    DEF HumanMerges, Merge, Open, Larger, TypeOK, Numbered, Request, vars, github, ledgers,
       memory, history, counts
  <1>4. ASSUME NEW c \in Callers, Lists(c)
       PROVE  TypeOK' /\ Numbered'
    BY <1>4, NumbersFacts
    DEF Lists, Stays, Open, TypeOK, Numbered, Ensure, vars, github, ledgers, memory,
       history, counts
  <1>5. ASSUME NEW c \in Callers, Pushes(c)
       PROVE  TypeOK' /\ Numbered'
    <2>1. remote' \in Nat
      BY <1>5
      DEF Pushes, TypeOK
    <2>2. ensuring' \in [Callers -> Ensure]
      BY <1>5
      DEF Pushes, TypeOK, Ensure
    <2>3. \A d \in Callers : ensuring'[d].pc \in {"adopt", "record"}
             => ensuring'[d].num \in Numbers
      BY <1>5, NumbersFacts
      DEF Pushes, TypeOK, Ensure, Numbered
    <2>4. QED
      BY <1>5, <2>1, <2>2, <2>3
      DEF Pushes, Stays, TypeOK, Numbered, vars, github, ledgers, memory, history, counts
  <1>6. ASSUME NEW c \in Callers, Adopts(c)
       PROVE  TypeOK' /\ Numbered'
    <2>1. ensuring[c].num \in Numbers /\ ensuring[c].num \in 0 .. MaxPrs
      BY <1>6, NumbersFacts DEF Adopts, Numbered
    <2>2. /\ entry' \in Entry \cup {NoEntry} /\ proof' \in Proof
          /\ closes' \in Nat /\ faults' \in Nat /\ crashes' \in Nat
      BY <1>6, <2>1, PendingTyped, WrittenKeeps DEF Adopts, TypeOK
    <2>3. /\ ensuring' \in [Callers -> Ensure] /\ land' \in Land /\ tick' \in Tick
          /\ Numbered'
      BY <1>6, <2>1, ReturnsTyped DEF Adopts
    <2>4. QED
      BY <1>6, <2>2, <2>3 DEF Adopts, TypeOK, github, memory, history, counts
  <1>7. ASSUME NEW c \in Callers, Creates(c)
       PROVE  TypeOK' /\ Numbered'
    <2>1. PICK p \in Free :
             /\ pr' = [pr EXCEPT ![p].state = "open"]
             /\ ensuring' = [ensuring EXCEPT ![c] = [@ EXCEPT !.pc = "record", !.num = p]]
      BY <1>7 DEF Creates
    <2>2. p \in Numbers
      BY FreeTyped DEF TypeOK
    <2>3. pr' \in [Numbers -> Request]
      BY <2>1, <2>2 DEF TypeOK, Request
    <2>4. ensuring' \in [Callers -> Ensure]
      BY <2>1, <2>2, CreatedTyped DEF TypeOK
    <2>5. \A d \in Callers : ensuring'[d].pc \in {"adopt", "record"} => ensuring'[d].num \in Numbers
      BY <2>1, <2>2, CreatedTyped DEF TypeOK, Numbered
    <2>6. QED
      BY <1>7, <2>3, <2>4, <2>5
      DEF Creates, Stays, TypeOK, Numbered, vars, github, ledgers, memory, history, counts
  <1>8. ASSUME NEW c \in Callers, CreateRefused(c)
       PROVE  TypeOK' /\ Numbered'
    <2>1. /\ ensuring' \in [Callers -> Ensure] /\ land' \in Land /\ tick' \in Tick
          /\ Numbered'
      BY <1>8, NumbersFacts, ReturnsTyped DEF CreateRefused
    <2>2. QED
      BY <1>8, <2>1 DEF CreateRefused, TypeOK, github, ledgers, memory, history, counts
  <1>9. ASSUME NEW c \in Callers, Records(c)
       PROVE  TypeOK' /\ Numbered'
    <2>1. ensuring[c].num \in Numbers /\ ensuring[c].num \in 0 .. MaxPrs
      BY <1>9, NumbersFacts DEF Records, Numbered
    <2>2. /\ entry' \in Entry \cup {NoEntry} /\ proof' \in Proof
          /\ closes' \in Nat /\ faults' \in Nat /\ crashes' \in Nat
      BY <1>9, <2>1, PendingTyped, WrittenKeeps DEF Records, TypeOK
    <2>3. /\ ensuring' \in [Callers -> Ensure] /\ land' \in Land /\ tick' \in Tick
          /\ Numbered'
      BY <1>9, <2>1, ReturnsTyped DEF Records
    <2>4. QED
      BY <1>9, <2>2, <2>3 DEF Records, TypeOK, github, memory, history, counts
  <1>10. ASSUME NEW c \in Callers, EnsureFails(c)
       PROVE  TypeOK' /\ Numbered'
    <2>1. /\ ensuring' \in [Callers -> Ensure] /\ land' \in Land /\ tick' \in Tick
          /\ Numbered'
      BY <1>10, NumbersFacts, ReturnsTyped DEF EnsureFails
    <2>2. remote' \in Nat /\ faults' \in Nat
      BY <1>10 DEF EnsureFails, Fault, TypeOK
    <2>3. QED
      BY <1>10, <2>1, <2>2 DEF EnsureFails, TypeOK, ledgers, memory, history
  <1>11. CASE Flagged
    <2>1. ensuring' \in [Callers -> Ensure]
      BY <1>11, StartedTyped
      DEF Flagged, TypeOK, Callers
    <2>2. \A d \in Callers : ensuring'[d].pc \in {"adopt", "record"}
             => ensuring'[d].num \in Numbers
      BY <1>11, StartedTyped
      DEF Flagged, TypeOK, Numbered, Callers
    <2>3. QED
      BY <1>11, <2>1, <2>2
      DEF Flagged, Stays, TypeOK, Numbered, vars, github, ledgers, memory, history, counts
  <1>12. ASSUME NEW swept \in {0, 1}, LandStarts(swept)
       PROVE  TypeOK' /\ Numbered'
    <2>1. ensuring' \in [Callers -> Ensure]
      BY <1>12, StartedTyped
      DEF LandStarts, TypeOK, Callers
    <2>2. \A d \in Callers : ensuring'[d].pc \in {"adopt", "record"}
             => ensuring'[d].num \in Numbers
      BY <1>12, StartedTyped
      DEF LandStarts, TypeOK, Numbered, Callers
    <2>3. land' \in Land /\ land'.pc = "ensure"
      BY <1>12, NumbersFacts
      DEF LandStarts, Land, Idle
    <2>4. QED
      BY <1>12, <2>1, <2>2, <2>3
      DEF LandStarts, TypeOK, Numbered, vars, github, ledgers, memory, history, counts
  <1>13. CASE LandRefused
    BY <1>13, Defaults
    DEF LandRefused, TypeOK, Numbered, Land, Idle, vars, github, ledgers, memory, history,
       counts
  <1>14. CASE Pins
    BY <1>14
    DEF Pins, TypeOK, Numbered, Land, Idle, vars, github, ledgers, memory, history, counts
  <1>15. CASE Gates
    BY <1>15
    DEF Gates, Larger, TypeOK, Numbered, Land, Idle, vars, github, ledgers, memory, history,
       counts
  <1>16. CASE Automerges
    BY <1>16
    DEF Automerges, TypeOK, Numbered, Land, Idle, vars, github, ledgers, memory, history,
       counts
  <1>17. CASE Retries
    <2>1. ensuring' \in [Callers -> Ensure]
      BY <1>17, StartedTyped
      DEF Retries, TypeOK, Callers
    <2>2. \A d \in Callers : ensuring'[d].pc \in {"adopt", "record"}
             => ensuring'[d].num \in Numbers
      BY <1>17, StartedTyped
      DEF Retries, TypeOK, Numbered, Callers
    <2>3. land' \in Land /\ land'.pc \in {"ensure", "idle"}
      BY <1>17, NumbersFacts
      DEF Retries, Land, Idle
    <2>4. QED
      BY <1>17, <2>1, <2>2, <2>3
      DEF Retries, TypeOK, Numbered, vars, github, ledgers, memory, history, counts
  <1>17a. CASE RetryFails
    BY <1>17a, Defaults
    DEF RetryFails, Fault, TypeOK, Numbered, Land, Idle, vars, github, ledgers, memory,
       history, counts
  <1>18. CASE Merges
    <2>1. land' \in Land
      BY <1>18, NumbersFacts, Defaults
      DEF Merges, TypeOK, Land, Idle
    <2>2. land'.pc = "merged" => land'.num \in Numbers
      BY <1>18, MergesEnds
    <2>3. land'.pc \in {"idle", "merged"}
      BY <1>18, MergesEnds
    <2>4. pr' \in [Numbers -> Request] /\ main' \in Nat /\ remote' \in Nat
      BY <1>18
      DEF Merges, Mergeable, Open, Merge, Larger, TypeOK, Land, Request
    <2>5. closes' \in Nat /\ faults' \in Nat /\ crashes' \in Nat
      BY <1>18
      DEF Merges, Fault, TypeOK, counts
    <2>6. QED
      BY <1>18, <2>1, <2>2, <2>3, <2>4, <2>5
      DEF Merges, TypeOK, Numbered, vars, github, ledgers, memory, history, counts
  <1>19. CASE MergeRefused
    BY ZenonT(60), <1>19, Defaults, NumbersFacts
    DEF MergeRefused, Mergeable, TypeOK, Numbered, Land, Idle, vars, github, ledgers,
       memory, history, counts
  <1>20. CASE Asserts
    BY ZenonT(60), <1>20, Defaults, NumbersFacts
    DEF Asserts, AssertMerged, TypeOK, Numbered, Land, Idle, vars, github, ledgers, memory,
       history, counts
  <1>21. CASE Proves
    <2>1. Patched("merged", TRUE, FALSE) \in Entry \cup {NoEntry}
      BY PatchedTyped DEF TypeOK
    <2>2. [grade |-> "green", commit |-> land.commit] \in Proof
      BY DEF TypeOK, Land, Proof
    <2>5. /\ entry' \in Entry \cup {NoEntry} /\ proof' \in Proof
          /\ closes' \in Nat /\ faults' \in Nat /\ crashes' \in Nat
      BY <1>21, <2>1, <2>2, ProvesWrites DEF Proves, TypeOK
    <2>3. land' \in Land /\ land'.pc = "landed"
      BY <1>21, NumbersFacts
      DEF Proves, Land, Idle
    <2>4. QED
      BY <1>21, <2>3, <2>5
      DEF Proves, TypeOK, Numbered, vars, github, ledgers, memory, history, counts
  <1>22. CASE Lands
    BY <1>22, Defaults
    DEF Lands, Escalated, MustClose, Escalates, Authorizes, TypeOK, Numbered, Land, Idle,
       vars, github, ledgers, memory, history, counts
  <1>23. CASE LandCloses
    <2>1. issue' \in {"open", "closed"} /\ closedIds' \in BOOLEAN
      BY <1>23, ClosedTyped
      DEF LandCloses
    <2>2. closes' \in Nat /\ faults' \in Nat /\ crashes' \in Nat
      BY <1>23, ClosedTyped
      DEF LandCloses
    <2>3. land' \in Land /\ land'.pc = "idle"
      BY <1>23, Defaults
      DEF LandCloses, Idle
    <2>4. QED
      BY <1>23, <2>1, <2>2, <2>3
      DEF LandCloses, TypeOK, Numbered, vars, github, ledgers, memory, history, counts
  <1>24. CASE TickStarts
    <2>1. tick' \in Tick
      BY <1>24, Defaults, ZenonT(60)
      DEF TickStarts, TypeOK, Tick, Off
    <2>2. tick'.pc \in {"view", "assert"} => tick'.seen.num \in Numbers
      BY <1>24, Defaults
      DEF TickStarts, TypeOK, Unconfirmed, Off, Entry
    <2>3. ensuring' \in [Callers -> Ensure]
      BY <1>24, StartedTyped
      DEF TickStarts, TypeOK, Callers
    <2>4. \A d \in Callers : ensuring'[d].pc \in {"adopt", "record"}
             => ensuring'[d].num \in Numbers
      BY <1>24, StartedTyped
      DEF TickStarts, TypeOK, Numbered, Callers
    <2>5. QED
      BY <1>24, <2>1, <2>2, <2>3, <2>4
      DEF TickStarts, TypeOK, Numbered, vars, github, ledgers, memory, history, counts
  <1>25. CASE Views
    BY <1>25, Defaults
    DEF Views, TypeOK, Numbered, Tick, Off, vars, github, ledgers, memory, history, counts
  <1>25a. CASE Marks
    <2>1. Patched("closed", FALSE, FALSE) \in Entry \cup {NoEntry}
      BY PatchedTyped DEF TypeOK
    <2>2. /\ entry' \in Entry \cup {NoEntry} /\ proof' \in Proof
          /\ closes' \in Nat /\ faults' \in Nat /\ crashes' \in Nat
      BY <1>25a, <2>1, WrittenKeeps DEF Marks, TypeOK
    <2>3. QED
      BY <1>25a, <2>2, Defaults DEF Marks, TypeOK, Numbered, Off, github, memory, history
  <1>26. CASE ViewFails
    BY <1>26, Defaults
    DEF ViewFails, Fault, TypeOK, Numbered, Off, vars, github, ledgers, memory, history,
       counts
  <1>27. CASE TickAsserts
    BY <1>27, Defaults
    DEF TickAsserts, AssertMerged, Methods, TypeOK, Numbered, Tick, Off, vars, github,
       ledgers, memory, history, counts
  <1>28. CASE TickProves
    <2>a. [grade |-> "unverified", commit |-> tick.commit] \in Proof
      BY DEF TypeOK, Tick, Proof
    <2>1. /\ entry' \in Entry \cup {NoEntry} /\ proof' \in Proof
          /\ closes' \in Nat /\ faults' \in Nat /\ crashes' \in Nat
      BY <1>28, <2>a, WrittenKeeps DEF TickProves, TypeOK
    <2>2. tick' \in Tick /\ tick'.pc = "close"
      BY <1>28
      DEF TickProves, TypeOK, Tick
    <2>3. QED
      BY <1>28, <2>1, <2>2
      DEF TickProves, TypeOK, Numbered, vars, github, ledgers, memory, history, counts
  <1>29. CASE TickSettles
    BY <1>29
    DEF TickSettles, Escalated, MustClose, Escalates, Authorizes, TypeOK, Numbered, Tick,
       Off, vars, github, ledgers, memory, history, counts
  <1>30. CASE TickCloses
    <2>1. issue' \in {"open", "closed"} /\ closedIds' \in BOOLEAN
      BY <1>30, ClosedTyped
      DEF TickCloses
    <2>2. closes' \in Nat /\ faults' \in Nat /\ crashes' \in Nat
      BY <1>30, ClosedTyped
      DEF TickCloses
    <2>3. tick' \in Tick /\ tick'.pc = "update"
      BY <1>30
      DEF TickCloses, TypeOK, Tick
    <2>4. QED
      BY <1>30, <2>1, <2>2, <2>3
      DEF TickCloses, TypeOK, Numbered, vars, github, ledgers, memory, history, counts
  <1>31. CASE TickUpdates
    <2>1. entry.state \in {"open", "merged", "closed"}
      BY <1>31
      DEF TypeOK, Entry, NoEntry
    <2>2. (closedIds \/ escalated) \in BOOLEAN
      BY <1>31
      DEF TypeOK
    <2>a. /\ Patched(entry.state, FALSE, closedIds \/ escalated) \in Entry \cup {NoEntry}
          /\ Patched("merged", TRUE, closedIds \/ escalated) \in Entry \cup {NoEntry}
      BY <2>1, <2>2, PatchedTyped DEF TypeOK
    <2>3. /\ entry' \in Entry \cup {NoEntry} /\ proof' \in Proof
          /\ closes' \in Nat /\ faults' \in Nat /\ crashes' \in Nat
      BY <1>31, <2>a, UpdatesWrites DEF TickUpdates, TypeOK
    <2>4. tick' \in Tick /\ tick'.pc = "off"
      BY <1>31, Defaults
      DEF TickUpdates, Off
    <2>5. QED
      BY <1>31, <2>1, <2>2, <2>3, <2>4
      DEF TickUpdates, TypeOK, Numbered, vars, github, ledgers, memory, history, counts
  <1>32. CASE Retires
    BY <1>32, WrittenKeeps, Defaults
    DEF Retires, TypeOK, Numbered, Off, github, memory, history
  <1>33. CASE Crash
    <2>1. ensuring' \in [Callers -> Ensure]
      BY <1>33, Defaults
      DEF Crash, Dies
    <2>2. \A d \in Callers : ensuring'[d].pc \in {"adopt", "record"}
             => ensuring'[d].num \in Numbers
      BY <1>33
      DEF Crash, Dies, NoEnsure
    <2>3. land' \in Land /\ land'.pc = "idle" /\ tick' \in Tick /\ tick'.pc = "off"
      BY <1>33, Defaults
      DEF Crash, Dies, Idle, Off
    <2>4. proof' \in Proof
      BY <1>33
      DEF Crash, TypeOK, Proof, Land
    <2>5. crashes' \in Nat
      BY <1>33
      DEF Crash, Dies, TypeOK
    <2>6. ready' \in BOOLEAN /\ closedIds' \in BOOLEAN /\ escalated' \in BOOLEAN
      BY <1>33
      DEF Crash, Dies
    <2>7. QED
      BY <1>33, <2>1, <2>2, <2>3, <2>4, <2>5, <2>6
      DEF Crash, Dies, TypeOK, Numbered, vars, github, ledgers, memory, history, counts
  <1>34. CASE CrashRecording
    <2>1. ensuring' \in [Callers -> Ensure]
      BY <1>34, Defaults
      DEF CrashRecording, Dies
    <2>2. \A d \in Callers : ensuring'[d].pc \in {"adopt", "record"}
             => ensuring'[d].num \in Numbers
      BY <1>34
      DEF CrashRecording, Dies, NoEnsure
    <2>3. land' \in Land /\ land'.pc = "idle" /\ tick' \in Tick /\ tick'.pc = "off"
      BY <1>34, Defaults
      DEF CrashRecording, Dies, Idle, Off
    <2>4. proof' \in Proof
      BY <1>34
      DEF CrashRecording, TypeOK, Proof, Land
    <2>5. crashes' \in Nat
      BY <1>34
      DEF CrashRecording, Dies, TypeOK
    <2>6. ready' \in BOOLEAN /\ closedIds' \in BOOLEAN /\ escalated' \in BOOLEAN
      BY <1>34
      DEF CrashRecording, Dies
    <2>7. QED
      BY <1>34, <2>1, <2>2, <2>3, <2>4, <2>5, <2>6
      DEF CrashRecording, Dies, TypeOK, Numbered, vars, github, ledgers, memory, history,
         counts
  <1>35. CASE UNCHANGED vars
    BY <1>35
    DEF TypeOK, Numbered, vars, github, ledgers, memory, history, counts
  <1>36. QED
    BY <1>1, <1>2, <1>2a, <1>3, <1>4, <1>5, <1>6, <1>7, <1>8, <1>9, <1>10, <1>11, <1>12,
       <1>13, <1>14, <1>15, <1>16, <1>17, <1>17a, <1>18, <1>19, <1>20, <1>21, <1>22, <1>23,
       <1>24, <1>25, <1>25a, <1>26, <1>27, <1>28, <1>29, <1>30, <1>31, <1>32, <1>33, <1>34,
       <1>35, NextCases

(* Nothing but the gate takes a land to its merge. *)
LEMMA GateStep ==
    ASSUME TypeOK, Pinned, Passed, [Next]_vars
    PROVE  Pinned' /\ Passed'
  <1>1. CASE Commits
    BY <1>1
    DEF Commits, TypeOK, Pinned, Passed, Land, vars, github, ledgers, memory, history,
       counts
  <1>2. ASSUME NEW p \in Numbers, HumanCloses(p)
       PROVE  Pinned' /\ Passed'
    BY <1>2
    DEF HumanCloses, Open, TypeOK, Pinned, Passed, vars, github, ledgers, memory, history,
       counts
  <1>2a. ASSUME NEW p \in Numbers, HumanReopens(p)
       PROVE  Pinned' /\ Passed'
    BY <1>2a
    DEF HumanReopens, Open, TypeOK, Pinned, Passed, vars, github, ledgers, memory, history,
       counts
  <1>3. ASSUME NEW p \in Numbers, NEW how \in Methods, HumanMerges(p, how)
       PROVE  Pinned' /\ Passed'
    BY <1>3
    DEF HumanMerges, Merge, Open, Larger, TypeOK, Pinned, Passed, vars, github, ledgers,
       memory, history, counts
  <1>4. ASSUME NEW c \in Callers, Lists(c)
       PROVE  Pinned' /\ Passed'
    BY <1>4
    DEF Lists, Stays, Open, TypeOK, Pinned, Passed, Ensure, Callers, vars, github, ledgers,
       memory, history, counts
  <1>5. ASSUME NEW c \in Callers, Pushes(c)
       PROVE  Pinned' /\ Passed'
    BY <1>5
    DEF Pushes, Stays, TypeOK, Pinned, Passed, Ensure, Callers, vars, github, ledgers,
       memory, history, counts
  <1>6. ASSUME NEW c \in Callers, Adopts(c)
       PROVE  Pinned' /\ Passed'
    BY <1>6, WrittenKeeps
    DEF Adopts, Returns, TypeOK, Pinned, Passed, Idle, Land, Ensure, Callers, NoEnsure,
       vars, github, ledgers, memory, history, counts
  <1>7. ASSUME NEW c \in Callers, Creates(c)
       PROVE  Pinned' /\ Passed'
    BY <1>7
    DEF Creates, Stays, Free, TypeOK, Pinned, Passed, Ensure, Callers, vars, github,
       ledgers, memory, history, counts
  <1>8. ASSUME NEW c \in Callers, CreateRefused(c)
       PROVE  Pinned' /\ Passed'
    BY <1>8
    DEF CreateRefused, Returns, TypeOK, Pinned, Passed, Idle, Land, Ensure, Callers,
       NoEnsure, vars, github, ledgers, memory, history, counts
  <1>9. ASSUME NEW c \in Callers, Records(c)
       PROVE  Pinned' /\ Passed'
    BY <1>9, WrittenKeeps
    DEF Records, Returns, TypeOK, Pinned, Passed, Idle, Land, Ensure, Callers, NoEnsure,
       vars, github, ledgers, memory, history, counts
  <1>10. ASSUME NEW c \in Callers, EnsureFails(c)
       PROVE  Pinned' /\ Passed'
    BY <1>10
    DEF EnsureFails, Returns, Fault, TypeOK, Pinned, Passed, Idle, Land, Ensure, Callers,
       NoEnsure, vars, github, ledgers, memory, history, counts
  <1>11. CASE Flagged
    BY <1>11
    DEF Flagged, Stays, TypeOK, Pinned, Passed, Started, Callers, vars, github, ledgers,
       memory, history, counts
  <1>12. ASSUME NEW swept \in {0, 1}, LandStarts(swept)
       PROVE  Pinned' /\ Passed'
    BY <1>12
    DEF LandStarts, TypeOK, Pinned, Passed, Idle, Started, Callers, vars, github, ledgers,
       memory, history, counts
  <1>13. CASE LandRefused
    BY <1>13
    DEF LandRefused, TypeOK, Pinned, Passed, Idle, vars, github, ledgers, memory, history,
       counts
  <1>14. CASE Pins
    BY <1>14
    DEF Pins, TypeOK, Pinned, Passed, Idle, Land, vars, github, ledgers, memory, history,
       counts
  <1>15. CASE Gates
    BY <1>15
    DEF Gates, Larger, TypeOK, Pinned, Passed, Idle, Land, vars, github, ledgers, memory,
       history, counts
  <1>16. CASE Automerges
    BY <1>16
    DEF Automerges, TypeOK, Pinned, Passed, Idle, Land, vars, github, ledgers, memory,
       history, counts
  <1>17. CASE Retries
    BY <1>17
    DEF Retries, TypeOK, Pinned, Passed, Idle, Started, Callers, vars, github, ledgers,
       memory, history, counts
  <1>17a. CASE RetryFails
    BY <1>17a
    DEF RetryFails, Fault, TypeOK, Pinned, Passed, Idle, vars, github, ledgers, memory,
       history, counts
  <1>18. CASE Merges
    BY <1>18, MergesEnds
    DEF Merges, Merge, TypeOK, Pinned, Passed, vars, github, ledgers, memory, history,
       counts
  <1>19. CASE MergeRefused
    BY <1>19
    DEF MergeRefused, Mergeable, TypeOK, Pinned, Passed, Idle, Land, vars, github, ledgers,
       memory, history, counts
  <1>20. CASE Asserts
    BY <1>20
    DEF Asserts, AssertMerged, TypeOK, Pinned, Passed, Idle, vars, github, ledgers, memory,
       history, counts
  <1>21. CASE Proves
    BY <1>21, ProvesWrites
    DEF Proves, TypeOK, Pinned, Passed, Idle, Proof, vars, github, ledgers, memory, history,
       counts
  <1>22. CASE Lands
    BY <1>22
    DEF Lands, Escalated, MustClose, Escalates, Authorizes, TypeOK, Pinned, Passed, Idle,
       vars, github, ledgers, memory, history, counts
  <1>23. CASE LandCloses
    BY <1>23
    DEF LandCloses, IssueClosed, Fault, TypeOK, Pinned, Passed, Idle, vars, github, ledgers,
       memory, history, counts
  <1>24. CASE TickStarts
    BY <1>24
    DEF TickStarts, Unconfirmed, Confirmed, TypeOK, Pinned, Passed, Started, Callers, vars,
       github, ledgers, memory, history, counts
  <1>25. CASE Views
    BY <1>25
    DEF Views, TypeOK, Pinned, Passed, vars, github, ledgers, memory, history, counts
  <1>25a. CASE Marks
    BY <1>25a, WrittenKeeps
    DEF Marks, TypeOK, Pinned, Passed, vars, github, memory, history,
       counts
  <1>26. CASE ViewFails
    BY <1>26
    DEF ViewFails, Fault, TypeOK, Pinned, Passed, vars, github, ledgers, memory, history,
       counts
  <1>27. CASE TickAsserts
    BY <1>27
    DEF TickAsserts, AssertMerged, Methods, TypeOK, Pinned, Passed, vars, github, ledgers,
       memory, history, counts
  <1>28. CASE TickProves
    BY <1>28, WrittenKeeps
    DEF TickProves, TypeOK, Pinned, Passed, Proof, vars, github, ledgers, memory, history,
       counts
  <1>29. CASE TickSettles
    BY <1>29
    DEF TickSettles, Escalated, MustClose, Escalates, Authorizes, TypeOK, Pinned, Passed,
       vars, github, ledgers, memory, history, counts
  <1>30. CASE TickCloses
    BY <1>30
    DEF TickCloses, IssueClosed, Fault, TypeOK, Pinned, Passed, vars, github, ledgers,
       memory, history, counts
  <1>31. CASE TickUpdates
    BY <1>31, UpdatesWrites
    DEF TickUpdates, TypeOK, Pinned, Passed, vars, github, ledgers, memory, history, counts
  <1>32. CASE Retires
    BY <1>32, WrittenKeeps
    DEF Retires, TypeOK, Pinned, Passed, vars, github, ledgers, memory, history, counts
  <1>33. CASE Crash
    BY <1>33
    DEF Crash, Dies, TypeOK, Pinned, Passed, Idle, NoEnsure, Callers, vars, github, ledgers,
       memory, history, counts
  <1>34. CASE CrashRecording
    BY <1>34
    DEF CrashRecording, Dies, TypeOK, Pinned, Passed, Idle, Proof, NoEnsure, Callers, vars,
       github, ledgers, memory, history, counts
  <1>35. CASE UNCHANGED vars
    BY <1>35
    DEF TypeOK, Pinned, Passed, vars, github, ledgers, memory, history, counts
  <1>36. QED
    BY <1>1, <1>2, <1>2a, <1>3, <1>4, <1>5, <1>6, <1>7, <1>8, <1>9, <1>10, <1>11, <1>12,
       <1>13, <1>14, <1>15, <1>16, <1>17, <1>17a, <1>18, <1>19, <1>20, <1>21, <1>22, <1>23,
       <1>24, <1>25, <1>25a, <1>26, <1>27, <1>28, <1>29, <1>30, <1>31, <1>32, <1>33, <1>34,
       <1>35, NextCases

(* The daemon merges only what its gate saw, and a merge is final. *)
LEMMA MergedStep ==
    ASSUME TypeOK, Pinned, DaemonMerged, MergesGated, [Next]_vars
    PROVE  DaemonMerged' /\ MergesGated'
  <1>1. CASE Commits
    BY <1>1
    DEF Commits, TypeOK, DaemonMerged, MergesGated, vars, github, ledgers, memory, history,
       counts
  <1>2. ASSUME NEW p \in Numbers, HumanCloses(p)
       PROVE  DaemonMerged' /\ MergesGated'
    BY <1>2
    DEF HumanCloses, Open, TypeOK, DaemonMerged, MergesGated, Request, vars, github,
       ledgers, memory, history, counts
  <1>2a. ASSUME NEW p \in Numbers, HumanReopens(p)
       PROVE  DaemonMerged' /\ MergesGated'
    BY <1>2a
    DEF HumanReopens, Open, TypeOK, DaemonMerged, MergesGated, Request, vars, github,
       ledgers, memory, history, counts
  <1>3. ASSUME NEW p \in Numbers, NEW how \in Methods, HumanMerges(p, how)
       PROVE  DaemonMerged' /\ MergesGated'
    BY <1>3
    DEF HumanMerges, Merge, Open, Larger, TypeOK, DaemonMerged, MergesGated, Request, vars,
       github, ledgers, memory, history, counts
  <1>4. ASSUME NEW c \in Callers, Lists(c)
       PROVE  DaemonMerged' /\ MergesGated'
    BY <1>4
    DEF Lists, Stays, Open, TypeOK, DaemonMerged, MergesGated, vars, github, ledgers,
       memory, history, counts
  <1>5. ASSUME NEW c \in Callers, Pushes(c)
       PROVE  DaemonMerged' /\ MergesGated'
    BY <1>5
    DEF Pushes, Stays, TypeOK, DaemonMerged, MergesGated, vars, github, ledgers, memory,
       history, counts
  <1>6. ASSUME NEW c \in Callers, Adopts(c)
       PROVE  DaemonMerged' /\ MergesGated'
    BY <1>6, WrittenKeeps
    DEF Adopts, TypeOK, DaemonMerged, MergesGated, vars, github, ledgers, memory, history,
       counts
  <1>7. ASSUME NEW c \in Callers, Creates(c)
       PROVE  DaemonMerged' /\ MergesGated'
    BY <1>7, FreeTyped
    DEF Creates, Stays, Free, TypeOK, DaemonMerged, MergesGated, Request, vars, github,
       ledgers, memory, history, counts
  <1>8. ASSUME NEW c \in Callers, CreateRefused(c)
       PROVE  DaemonMerged' /\ MergesGated'
    BY <1>8
    DEF CreateRefused, TypeOK, DaemonMerged, MergesGated, vars, github, ledgers, memory,
       history, counts
  <1>9. ASSUME NEW c \in Callers, Records(c)
       PROVE  DaemonMerged' /\ MergesGated'
    BY <1>9, WrittenKeeps
    DEF Records, TypeOK, DaemonMerged, MergesGated, vars, github, ledgers, memory, history,
       counts
  <1>10. ASSUME NEW c \in Callers, EnsureFails(c)
       PROVE  DaemonMerged' /\ MergesGated'
    BY <1>10
    DEF EnsureFails, TypeOK, DaemonMerged, MergesGated, vars, github, ledgers, memory,
       history, counts
  <1>11. CASE Flagged
    BY <1>11
    DEF Flagged, Stays, TypeOK, DaemonMerged, MergesGated, vars, github, ledgers, memory,
       history, counts
  <1>12. ASSUME NEW swept \in {0, 1}, LandStarts(swept)
       PROVE  DaemonMerged' /\ MergesGated'
    BY <1>12
    DEF LandStarts, TypeOK, DaemonMerged, MergesGated, vars, github, ledgers, memory,
       history, counts
  <1>13. CASE LandRefused
    BY <1>13
    DEF LandRefused, TypeOK, DaemonMerged, MergesGated, vars, github, ledgers, memory,
       history, counts
  <1>14. CASE Pins
    BY <1>14
    DEF Pins, TypeOK, DaemonMerged, MergesGated, vars, github, ledgers, memory, history,
       counts
  <1>15. CASE Gates
    BY <1>15
    DEF Gates, Larger, TypeOK, DaemonMerged, MergesGated, vars, github, ledgers, memory,
       history, counts
  <1>16. CASE Automerges
    BY <1>16
    DEF Automerges, TypeOK, DaemonMerged, MergesGated, vars, github, ledgers, memory,
       history, counts
  <1>17. CASE Retries
    BY <1>17
    DEF Retries, TypeOK, DaemonMerged, MergesGated, vars, github, ledgers, memory, history,
       counts
  <1>17a. CASE RetryFails
    BY <1>17a
    DEF RetryFails, Fault, TypeOK, DaemonMerged, MergesGated, vars, github, ledgers, memory,
       history, counts
  <1>18. CASE Merges
    BY <1>18, MergesEnds
    DEF Merges, Mergeable, Bound, Merge, Open, Larger, Fault, TypeOK, DaemonMerged,
       MergesGated, Pinned, Land, Request, vars, github, ledgers, memory, history, counts
  <1>19. CASE MergeRefused
    BY <1>19
    DEF MergeRefused, Mergeable, TypeOK, DaemonMerged, MergesGated, vars, github, ledgers,
       memory, history, counts
  <1>20. CASE Asserts
    BY <1>20
    DEF Asserts, AssertMerged, TypeOK, DaemonMerged, MergesGated, vars, github, ledgers,
       memory, history, counts
  <1>21. CASE Proves
    BY <1>21, ProvesWrites
    DEF Proves, TypeOK, DaemonMerged, MergesGated, vars, github, ledgers, memory, history,
       counts
  <1>22. CASE Lands
    BY <1>22
    DEF Lands, Escalated, MustClose, Escalates, Authorizes, TypeOK, DaemonMerged,
       MergesGated, vars, github, ledgers, memory, history, counts
  <1>23. CASE LandCloses
    BY <1>23
    DEF LandCloses, IssueClosed, Fault, TypeOK, DaemonMerged, MergesGated, vars, github,
       ledgers, memory, history, counts
  <1>24. CASE TickStarts
    BY <1>24
    DEF TickStarts, Unconfirmed, Confirmed, TypeOK, DaemonMerged, MergesGated, vars, github,
       ledgers, memory, history, counts
  <1>25. CASE Views
    BY <1>25
    DEF Views, TypeOK, DaemonMerged, MergesGated, vars, github, ledgers, memory, history,
       counts
  <1>25a. CASE Marks
    BY <1>25a, WrittenKeeps
    DEF Marks, TypeOK, DaemonMerged, MergesGated, vars, github, memory,
       history, counts
  <1>26. CASE ViewFails
    BY <1>26
    DEF ViewFails, Fault, TypeOK, DaemonMerged, MergesGated, vars, github, ledgers, memory,
       history, counts
  <1>27. CASE TickAsserts
    BY <1>27
    DEF TickAsserts, AssertMerged, Methods, TypeOK, DaemonMerged, MergesGated, vars, github,
       ledgers, memory, history, counts
  <1>28. CASE TickProves
    BY <1>28, WrittenKeeps
    DEF TickProves, TypeOK, DaemonMerged, MergesGated, vars, github, ledgers, memory,
       history, counts
  <1>29. CASE TickSettles
    BY <1>29
    DEF TickSettles, Escalated, MustClose, Escalates, Authorizes, TypeOK, DaemonMerged,
       MergesGated, vars, github, ledgers, memory, history, counts
  <1>30. CASE TickCloses
    BY <1>30
    DEF TickCloses, IssueClosed, Fault, TypeOK, DaemonMerged, MergesGated, vars, github,
       ledgers, memory, history, counts
  <1>31. CASE TickUpdates
    BY <1>31, UpdatesWrites
    DEF TickUpdates, TypeOK, DaemonMerged, MergesGated, vars, github, ledgers, memory,
       history, counts
  <1>32. CASE Retires
    BY <1>32, WrittenKeeps
    DEF Retires, TypeOK, DaemonMerged, MergesGated, vars, github, ledgers, memory, history,
       counts
  <1>33. CASE Crash
    BY <1>33
    DEF Crash, Dies, TypeOK, DaemonMerged, MergesGated, vars, github, ledgers, memory,
       history, counts
  <1>34. CASE CrashRecording
    BY <1>34
    DEF CrashRecording, Dies, TypeOK, DaemonMerged, MergesGated, vars, github, ledgers,
       memory, history, counts
  <1>35. CASE UNCHANGED vars
    BY <1>35
    DEF TypeOK, DaemonMerged, MergesGated, vars, github, ledgers, memory, history, counts
  <1>36. QED
    BY <1>1, <1>2, <1>2a, <1>3, <1>4, <1>5, <1>6, <1>7, <1>8, <1>9, <1>10, <1>11, <1>12,
       <1>13, <1>14, <1>15, <1>16, <1>17, <1>17a, <1>18, <1>19, <1>20, <1>21, <1>22, <1>23,
       <1>24, <1>25, <1>25a, <1>26, <1>27, <1>28, <1>29, <1>30, <1>31, <1>32, <1>33, <1>34,
       <1>35, NextCases

(* Steps only add to main, and a request that is done stays as it was. *)
LEMMA MainGrows ==
    ASSUME TypeOK, [Next]_vars
    PROVE  GrowsOnly
  <1>1. CASE Commits
    BY <1>1
    DEF Commits, GrowsOnly, TypeOK, vars, github, ledgers, memory, history, counts
  <1>2. ASSUME NEW p \in Numbers, HumanCloses(p)
       PROVE  GrowsOnly
    BY <1>2
    DEF HumanCloses, Open, GrowsOnly, TypeOK, vars, github, ledgers, memory, history, counts
  <1>2a. ASSUME NEW p \in Numbers, HumanReopens(p)
       PROVE  GrowsOnly
    BY <1>2a
    DEF HumanReopens, Open, GrowsOnly, TypeOK, vars, github, ledgers, memory, history,
       counts
  <1>3. ASSUME NEW p \in Numbers, NEW how \in Methods, HumanMerges(p, how)
       PROVE  GrowsOnly
    BY <1>3
    DEF HumanMerges, Merge, Open, Larger, GrowsOnly, TypeOK, vars, github, ledgers, memory,
       history, counts
  <1>4. ASSUME NEW c \in Callers, Lists(c)
       PROVE  GrowsOnly
    BY <1>4
    DEF Lists, Stays, GrowsOnly, TypeOK, vars, github, ledgers, memory, history, counts
  <1>5. ASSUME NEW c \in Callers, Pushes(c)
       PROVE  GrowsOnly
    BY <1>5
    DEF Pushes, Stays, GrowsOnly, TypeOK, vars, github, ledgers, memory, history, counts
  <1>6. ASSUME NEW c \in Callers, Adopts(c)
       PROVE  GrowsOnly
    BY <1>6, WrittenKeeps
    DEF Adopts, GrowsOnly, TypeOK, vars, github, ledgers, memory, history, counts
  <1>7. ASSUME NEW c \in Callers, Creates(c)
       PROVE  GrowsOnly
    BY <1>7
    DEF Creates, Stays, Free, GrowsOnly, TypeOK, Request, vars, github, ledgers, memory,
       history, counts
  <1>8. ASSUME NEW c \in Callers, CreateRefused(c)
       PROVE  GrowsOnly
    BY <1>8
    DEF CreateRefused, GrowsOnly, TypeOK, vars, github, ledgers, memory, history, counts
  <1>9. ASSUME NEW c \in Callers, Records(c)
       PROVE  GrowsOnly
    BY <1>9, WrittenKeeps
    DEF Records, GrowsOnly, TypeOK, vars, github, ledgers, memory, history, counts
  <1>10. ASSUME NEW c \in Callers, EnsureFails(c)
       PROVE  GrowsOnly
    BY <1>10
    DEF EnsureFails, GrowsOnly, TypeOK, vars, github, ledgers, memory, history, counts
  <1>11. CASE Flagged
    BY <1>11
    DEF Flagged, Stays, GrowsOnly, TypeOK, vars, github, ledgers, memory, history, counts
  <1>12. ASSUME NEW swept \in {0, 1}, LandStarts(swept)
       PROVE  GrowsOnly
    BY <1>12
    DEF LandStarts, GrowsOnly, TypeOK, vars, github, ledgers, memory, history, counts
  <1>13. CASE LandRefused
    BY <1>13
    DEF LandRefused, GrowsOnly, TypeOK, vars, github, ledgers, memory, history, counts
  <1>14. CASE Pins
    BY <1>14
    DEF Pins, GrowsOnly, TypeOK, vars, github, ledgers, memory, history, counts
  <1>15. CASE Gates
    BY <1>15
    DEF Gates, GrowsOnly, TypeOK, vars, github, ledgers, memory, history, counts
  <1>16. CASE Automerges
    BY <1>16
    DEF Automerges, GrowsOnly, TypeOK, vars, github, ledgers, memory, history, counts
  <1>17. CASE Retries
    BY <1>17
    DEF Retries, GrowsOnly, TypeOK, vars, github, ledgers, memory, history, counts
  <1>17a. CASE RetryFails
    BY <1>17a
    DEF RetryFails, Fault, GrowsOnly, TypeOK, vars, github, ledgers, memory, history, counts
  <1>18. CASE Merges
    BY <1>18
    DEF Merges, Mergeable, Open, Merge, Larger, GrowsOnly, TypeOK, vars, github, ledgers,
       memory, history, counts
  <1>19. CASE MergeRefused
    BY <1>19
    DEF MergeRefused, GrowsOnly, TypeOK, vars, github, ledgers, memory, history, counts
  <1>20. CASE Asserts
    BY <1>20
    DEF Asserts, GrowsOnly, TypeOK, vars, github, ledgers, memory, history, counts
  <1>21. CASE Proves
    <2>1. closes' = closes
      BY <1>21, ProvesWrites
    <2>2. QED
      BY <1>21, <2>1 DEF Proves, GrowsOnly, TypeOK, github
  <1>22. CASE Lands
    BY <1>22
    DEF Lands, GrowsOnly, TypeOK, vars, github, ledgers, memory, history, counts
  <1>23. CASE LandCloses
    BY <1>23
    DEF LandCloses, IssueClosed, Fault, GrowsOnly, TypeOK, vars, github, ledgers, memory,
       history, counts
  <1>24. CASE TickStarts
    BY <1>24
    DEF TickStarts, GrowsOnly, TypeOK, vars, github, ledgers, memory, history, counts
  <1>25. CASE Views
    BY <1>25
    DEF Views, GrowsOnly, TypeOK, vars, github, ledgers, memory, history, counts
  <1>25a. CASE Marks
    <2>1. closes' = closes
      BY <1>25a, WrittenKeeps DEF Marks
    <2>2. QED
      BY <1>25a, <2>1 DEF Marks, GrowsOnly, TypeOK, github
  <1>26. CASE ViewFails
    BY <1>26
    DEF ViewFails, GrowsOnly, TypeOK, vars, github, ledgers, memory, history, counts
  <1>27. CASE TickAsserts
    BY <1>27
    DEF TickAsserts, GrowsOnly, TypeOK, vars, github, ledgers, memory, history, counts
  <1>28. CASE TickProves
    BY <1>28, WrittenKeeps
    DEF TickProves, GrowsOnly, TypeOK, vars, github, ledgers, memory, history, counts
  <1>29. CASE TickSettles
    BY <1>29
    DEF TickSettles, GrowsOnly, TypeOK, vars, github, ledgers, memory, history, counts
  <1>30. CASE TickCloses
    BY <1>30
    DEF TickCloses, IssueClosed, Fault, GrowsOnly, TypeOK, vars, github, ledgers, memory,
       history, counts
  <1>31. CASE TickUpdates
    <2>1. closes' = closes
      BY <1>31, UpdatesWrites
    <2>2. QED
      BY <1>31, <2>1 DEF TickUpdates, GrowsOnly, TypeOK, github
  <1>32. CASE Retires
    BY <1>32, WrittenKeeps
    DEF Retires, GrowsOnly, TypeOK, vars, github, ledgers, memory, history, counts
  <1>33. CASE Crash
    BY <1>33
    DEF Crash, Dies, GrowsOnly, TypeOK, vars, github, ledgers, memory, history, counts
  <1>34. CASE CrashRecording
    BY <1>34
    DEF CrashRecording, Dies, GrowsOnly, TypeOK, vars, github, ledgers, memory, history,
       counts
  <1>35. CASE UNCHANGED vars
    BY <1>35
    DEF GrowsOnly, TypeOK, vars, github, ledgers, memory, history, counts
  <1>36. QED
    BY <1>1, <1>2, <1>2a, <1>3, <1>4, <1>5, <1>6, <1>7, <1>8, <1>9, <1>10, <1>11, <1>12,
       <1>13, <1>14, <1>15, <1>16, <1>17, <1>17a, <1>18, <1>19, <1>20, <1>21, <1>22, <1>23,
       <1>24, <1>25, <1>25a, <1>26, <1>27, <1>28, <1>29, <1>30, <1>31, <1>32, <1>33, <1>34,
       <1>35, NextCases

(* What is in main stays there. *)
LEMMA LandedStays ==
    ASSUME TypeOK, [Next]_vars, NEW n \in Nat, Landed(n)
    PROVE  Landed(n)'
  <1>1. GrowsOnly /\ main \in Nat
    BY MainGrows DEF TypeOK
  <1>2. QED
    BY <1>1 DEF GrowsOnly, Landed


(* What is recorded is in main by then, and stays there. *)
LEMMA RecordStep ==
    ASSUME TypeOK, Numbered, Recording, ProofMerged, [Next]_vars
    PROVE  Recording' /\ ProofMerged'
  <1>a. proof.commit \in Nat /\ land.commit \in Nat /\ tick.commit \in Nat
    BY DEF TypeOK, Proof, Land, Tick
  <1>b. \A n \in Nat : Landed(n) => Landed(n)'
    BY LandedStays
  <1>1. CASE Commits
    BY <1>1, <1>a, <1>b
    DEF Commits, Recording, ProofMerged, vars, github, ledgers, memory, history, counts
  <1>2. ASSUME NEW p \in Numbers, HumanCloses(p)
       PROVE  Recording' /\ ProofMerged'
    BY <1>2, <1>a, <1>b
    DEF HumanCloses, Open, Recording, ProofMerged, vars, github, ledgers, memory, history,
       counts
  <1>2a. ASSUME NEW p \in Numbers, HumanReopens(p)
       PROVE  Recording' /\ ProofMerged'
    BY <1>2a, <1>a, <1>b
    DEF HumanReopens, Open, Recording, ProofMerged, vars, github, ledgers, memory, history,
       counts
  <1>3. ASSUME NEW p \in Numbers, NEW how \in Methods, HumanMerges(p, how)
       PROVE  Recording' /\ ProofMerged'
    BY <1>3, <1>a, <1>b
    DEF HumanMerges, Recording, ProofMerged, vars, github, ledgers, memory, history, counts
  <1>4. ASSUME NEW c \in Callers, Lists(c)
       PROVE  Recording' /\ ProofMerged'
    BY <1>4, <1>a, <1>b
    DEF Lists, Stays, Open, Recording, ProofMerged, vars, github, ledgers, memory, history,
       counts
  <1>5. ASSUME NEW c \in Callers, Pushes(c)
       PROVE  Recording' /\ ProofMerged'
    BY <1>5, <1>a, <1>b
    DEF Pushes, Stays, Recording, ProofMerged, vars, github, ledgers, memory, history,
       counts
  <1>6. ASSUME NEW c \in Callers, Adopts(c)
       PROVE  Recording' /\ ProofMerged'
    BY <1>6, WrittenKeeps, <1>a, <1>b
    DEF Adopts, Returns, Recording, ProofMerged, Idle, TypeOK, Land, Off, Tick, vars,
       github, ledgers, memory, history, counts
  <1>7. ASSUME NEW c \in Callers, Creates(c)
       PROVE  Recording' /\ ProofMerged'
    BY <1>7, <1>a, <1>b
    DEF Creates, Stays, Free, Recording, ProofMerged, vars, github, ledgers, memory,
       history, counts
  <1>8. ASSUME NEW c \in Callers, CreateRefused(c)
       PROVE  Recording' /\ ProofMerged'
    BY <1>8, <1>a, <1>b
    DEF CreateRefused, Returns, Recording, ProofMerged, Idle, TypeOK, Land, Off, Tick, vars,
       github, ledgers, memory, history, counts
  <1>9. ASSUME NEW c \in Callers, Records(c)
       PROVE  Recording' /\ ProofMerged'
    BY <1>9, WrittenKeeps, <1>a, <1>b
    DEF Records, Returns, Recording, ProofMerged, Idle, TypeOK, Land, Off, Tick, vars,
       github, ledgers, memory, history, counts
  <1>10. ASSUME NEW c \in Callers, EnsureFails(c)
       PROVE  Recording' /\ ProofMerged'
    BY <1>10, <1>a, <1>b
    DEF EnsureFails, Returns, Fault, Recording, ProofMerged, Idle, TypeOK, Land, Off, Tick,
       vars, github, ledgers, memory, history, counts
  <1>11. CASE Flagged
    BY <1>11, <1>a, <1>b
    DEF Flagged, Stays, Recording, ProofMerged, vars, github, ledgers, memory, history,
       counts
  <1>12. ASSUME NEW swept \in {0, 1}, LandStarts(swept)
       PROVE  Recording' /\ ProofMerged'
    BY <1>12, <1>a, <1>b
    DEF LandStarts, Recording, ProofMerged, Idle, TypeOK, Land, vars, github, ledgers,
       memory, history, counts
  <1>13. CASE LandRefused
    BY <1>13, <1>a, <1>b
    DEF LandRefused, Recording, ProofMerged, Idle, TypeOK, Land, vars, github, ledgers,
       memory, history, counts
  <1>14. CASE Pins
    BY <1>14, <1>a, <1>b
    DEF Pins, Recording, ProofMerged, Idle, TypeOK, Land, vars, github, ledgers, memory,
       history, counts
  <1>15. CASE Gates
    BY <1>15, <1>a, <1>b
    DEF Gates, Larger, Recording, ProofMerged, Idle, TypeOK, Land, vars, github, ledgers,
       memory, history, counts
  <1>16. CASE Automerges
    BY <1>16, <1>a, <1>b
    DEF Automerges, Recording, ProofMerged, Idle, TypeOK, Land, vars, github, ledgers,
       memory, history, counts
  <1>17. CASE Retries
    BY <1>17, <1>a, <1>b
    DEF Retries, Recording, ProofMerged, Idle, TypeOK, Land, vars, github, ledgers, memory,
       history, counts
  <1>17a. CASE RetryFails
    BY <1>17a, <1>a, <1>b
    DEF RetryFails, Fault, Recording, ProofMerged, Idle, TypeOK, Land, vars, github,
       ledgers, memory, history, counts
  <1>18. CASE Merges
    BY <1>18, <1>a, <1>b, MergesEnds
    DEF Merges, Recording, ProofMerged, vars, github, ledgers, memory, history, counts
  <1>19. CASE MergeRefused
    BY <1>19, <1>a, <1>b
    DEF MergeRefused, Mergeable, Recording, ProofMerged, Idle, TypeOK, Land, vars, github,
       ledgers, memory, history, counts
  <1>20. CASE Asserts
    BY <1>20, <1>a, <1>b
    DEF Asserts, AssertMerged, Recording, ProofMerged, Landed, TypeOK, Numbered, Idle, Land,
       vars, github, ledgers, memory, history, counts
  <1>21. CASE Proves
    <2>1. /\ proof'.grade # "none" /\ proof' = proof => Landed(proof.commit)
          /\ proof' # proof => proof'.commit = land.commit
      BY <1>21, ProvesWrites DEF ProofMerged
    <2>2. land.pc = "record" /\ land'.pc = "landed" /\ tick' = tick
      BY <1>21 DEF Proves, Idle
    <2>3. QED
      BY <1>a, <1>b, <2>1, <2>2 DEF Recording, ProofMerged
  <1>22. CASE Lands
    BY <1>22, <1>a, <1>b
    DEF Lands, Escalated, MustClose, Escalates, Authorizes, Recording, ProofMerged, Idle,
       TypeOK, Land, vars, github, ledgers, memory, history, counts
  <1>23. CASE LandCloses
    BY <1>23, <1>a, <1>b
    DEF LandCloses, IssueClosed, Fault, Recording, ProofMerged, Idle, TypeOK, Land, vars,
       github, ledgers, memory, history, counts
  <1>24. CASE TickStarts
    <2>1. tick'.pc # "record"
      BY <1>24 DEF TickStarts, Off, TypeOK, Tick
    <2>2. QED
      BY <1>24, <1>a, <1>b, <2>1
      DEF TickStarts, Recording, ProofMerged, vars, github, ledgers, memory, history, counts
  <1>25. CASE Views
    BY <1>25, <1>a, <1>b
    DEF Views, Recording, ProofMerged, Off, TypeOK, Tick, vars, github, ledgers, memory,
       history, counts
  <1>25a. CASE Marks
    BY <1>25a, WrittenKeeps, <1>a, <1>b
    DEF Marks, Recording, ProofMerged, Off, TypeOK, Tick, vars, github, ledgers,
       memory, history, counts
  <1>26. CASE ViewFails
    BY <1>26, <1>a, <1>b
    DEF ViewFails, Fault, Recording, ProofMerged, Off, TypeOK, Tick, vars, github, ledgers,
       memory, history, counts
  <1>27. CASE TickAsserts
    BY <1>27, <1>a, <1>b
    DEF TickAsserts, AssertMerged, Methods, Recording, ProofMerged, Landed, TypeOK,
       Numbered, Off, Tick, vars, github, ledgers, memory, history, counts
  <1>28. CASE TickProves
    BY <1>28, WrittenKeeps, <1>a, <1>b
    DEF TickProves, Recording, ProofMerged, Off, TypeOK, Tick, vars, github, ledgers,
       memory, history, counts
  <1>29. CASE TickSettles
    BY <1>29, <1>a, <1>b
    DEF TickSettles, Escalated, MustClose, Escalates, Authorizes, Recording, ProofMerged,
       Off, TypeOK, Tick, vars, github, ledgers, memory, history, counts
  <1>30. CASE TickCloses
    BY <1>30, <1>a, <1>b
    DEF TickCloses, IssueClosed, Fault, Recording, ProofMerged, Off, TypeOK, Tick, vars,
       github, ledgers, memory, history, counts
  <1>31. CASE TickUpdates
    BY <1>31, UpdatesWrites, <1>a, <1>b
    DEF TickUpdates, Recording, ProofMerged, Off, TypeOK, Tick, vars, github, ledgers,
       memory, history, counts
  <1>32. CASE Retires
    BY <1>32, WrittenKeeps, <1>a, <1>b
    DEF Retires, Recording, ProofMerged, Off, TypeOK, Tick, vars, github, ledgers, memory,
       history, counts
  <1>33. CASE Crash
    BY <1>33, <1>a, <1>b
    DEF Crash, Dies, Recording, ProofMerged, Idle, TypeOK, Land, Off, Tick, vars, github,
       ledgers, memory, history, counts
  <1>34. CASE CrashRecording
    BY <1>34, <1>a, <1>b
    DEF CrashRecording, Dies, Recording, ProofMerged, Idle, TypeOK, Land, Off, Tick, vars,
       github, ledgers, memory, history, counts
  <1>35. CASE UNCHANGED vars
    BY <1>35, <1>a, <1>b
    DEF Recording, ProofMerged, vars, github, ledgers, memory, history, counts
  <1>36. QED
    BY <1>1, <1>2, <1>2a, <1>3, <1>4, <1>5, <1>6, <1>7, <1>8, <1>9, <1>10, <1>11, <1>12,
       <1>13, <1>14, <1>15, <1>16, <1>17, <1>17a, <1>18, <1>19, <1>20, <1>21, <1>22, <1>23,
       <1>24, <1>25, <1>25a, <1>26, <1>27, <1>28, <1>29, <1>30, <1>31, <1>32, <1>33, <1>34,
       <1>35, NextCases

(* Only a proof closes the issue, and an entry is closed with its issue or  *)
(* with a human told.                                                       *)
LEMMA SettleStep ==
    ASSUME TypeOK, Passed, Settling, IssueHonest, [Next]_vars
    PROVE  Settling' /\ IssueHonest'
  <1>1. CASE Commits
    BY <1>1
    DEF Commits, Settling, LostProof, IssueHonest, TypeOK, vars, github, ledgers, memory,
       history, counts
  <1>2. ASSUME NEW p \in Numbers, HumanCloses(p)
       PROVE  Settling' /\ IssueHonest'
    BY <1>2
    DEF HumanCloses, Open, Settling, LostProof, IssueHonest, TypeOK, vars, github,
       ledgers, memory, history, counts
  <1>2a. ASSUME NEW p \in Numbers, HumanReopens(p)
       PROVE  Settling' /\ IssueHonest'
    BY <1>2a
    DEF HumanReopens, Open, Settling, LostProof, IssueHonest, vars, github, ledgers,
       memory, history, counts
  <1>3. ASSUME NEW p \in Numbers, NEW how \in Methods, HumanMerges(p, how)
       PROVE  Settling' /\ IssueHonest'
    BY <1>3
    DEF HumanMerges, Settling, LostProof, IssueHonest, TypeOK, vars, github, ledgers,
       memory, history, counts
  <1>4. ASSUME NEW c \in Callers, Lists(c)
       PROVE  Settling' /\ IssueHonest'
    BY <1>4
    DEF Lists, Stays, Open, Settling, LostProof, IssueHonest, TypeOK, vars, github,
       ledgers, memory, history, counts
  <1>5. ASSUME NEW c \in Callers, Pushes(c)
       PROVE  Settling' /\ IssueHonest'
    BY <1>5
    DEF Pushes, Stays, Settling, LostProof, IssueHonest, TypeOK, vars, github, ledgers,
       memory, history, counts
  <1>6. ASSUME NEW c \in Callers, Adopts(c)
       PROVE  Settling' /\ IssueHonest'
    BY <1>6, WrittenKeeps
    DEF Adopts, Returns, Settling, LostProof, IssueHonest, Pending, Idle, TypeOK, Land,
       Off, Tick, vars, github, ledgers, memory, history, counts
  <1>7. ASSUME NEW c \in Callers, Creates(c)
       PROVE  Settling' /\ IssueHonest'
    BY <1>7
    DEF Creates, Stays, Free, Settling, LostProof, IssueHonest, TypeOK, vars, github,
       ledgers, memory, history, counts
  <1>8. ASSUME NEW c \in Callers, CreateRefused(c)
       PROVE  Settling' /\ IssueHonest'
    BY <1>8
    DEF CreateRefused, Returns, Settling, LostProof, IssueHonest, Idle, TypeOK, Land, Off,
       Tick, vars, github, ledgers, memory, history, counts
  <1>9. ASSUME NEW c \in Callers, Records(c)
       PROVE  Settling' /\ IssueHonest'
    BY <1>9, WrittenKeeps
    DEF Records, Returns, Settling, LostProof, IssueHonest, Pending, Idle, TypeOK, Land,
       Off, Tick, vars, github, ledgers, memory, history, counts
  <1>10. ASSUME NEW c \in Callers, EnsureFails(c)
       PROVE  Settling' /\ IssueHonest'
    BY <1>10
    DEF EnsureFails, Returns, Fault, Settling, LostProof, IssueHonest, Idle, TypeOK, Land,
       Off, Tick, vars, github, ledgers, memory, history, counts
  <1>11. CASE Flagged
    BY <1>11
    DEF Flagged, Stays, Settling, LostProof, IssueHonest, TypeOK, vars, github, ledgers,
       memory, history, counts
  <1>12. ASSUME NEW swept \in {0, 1}, LandStarts(swept)
       PROVE  Settling' /\ IssueHonest'
    BY <1>12
    DEF LandStarts, Settling, LostProof, IssueHonest, Idle, TypeOK, Land, vars, github,
       ledgers, memory, history, counts
  <1>13. CASE LandRefused
    BY <1>13
    DEF LandRefused, Settling, LostProof, IssueHonest, Idle, TypeOK, Land, vars, github,
       ledgers, memory, history, counts
  <1>14. CASE Pins
    BY <1>14
    DEF Pins, Settling, LostProof, IssueHonest, Idle, TypeOK, Land, vars, github, ledgers,
       memory, history, counts
  <1>15. CASE Gates
    BY <1>15
    DEF Gates, Larger, Settling, LostProof, IssueHonest, TypeOK, Idle, Land, vars, github,
       ledgers, memory, history, counts
  <1>16. CASE Automerges
    BY <1>16
    DEF Automerges, Settling, LostProof, IssueHonest, Idle, TypeOK, Land, vars, github,
       ledgers, memory, history, counts
  <1>17. CASE Retries
    BY <1>17
    DEF Retries, Settling, LostProof, IssueHonest, Idle, TypeOK, Land, vars, github,
       ledgers, memory, history, counts
  <1>17a. CASE RetryFails
    BY <1>17a
    DEF RetryFails, Fault, Settling, LostProof, IssueHonest, Idle, TypeOK, Land, vars,
       github, ledgers, memory, history, counts
  <1>18. CASE Merges
    <2>1. faults' \in Nat /\ faults <= faults'
      BY <1>18 DEF Merges, Fault, counts, TypeOK
    <2>2. QED
      BY <1>18, <2>1, MergesEnds
      DEF Merges, Settling, LostProof, IssueHonest, TypeOK, ledgers, memory, history
  <1>19. CASE MergeRefused
    BY <1>19
    DEF MergeRefused, Mergeable, Settling, LostProof, IssueHonest, Idle, TypeOK, Land,
       vars, github, ledgers, memory, history, counts
  <1>20. CASE Asserts
    BY <1>20
    DEF Asserts, AssertMerged, Settling, LostProof, IssueHonest, Idle, TypeOK, Land, vars,
       github, ledgers, memory, history, counts
  <1>21. CASE Proves
    <2> DEFINE e == Patched("merged", TRUE, FALSE)
    <2>1. e.closed => entry.closed
      BY PatchedTyped DEF TypeOK
    <2>a. proof' = proof \/ proof'.grade = "green"
      BY <1>21, ProvesWrites
    <2>b. entry' \in {entry, e} /\ (proof'.grade = "green" \/ faults' > 0)
      BY <1>21, ProvesWrites
    <2>2. faults \in Nat /\ faults' \in Nat /\ faults <= faults'
      BY <1>21, ProvesWrites DEF TypeOK
    <2>3. land'.pc = "landed" /\ tick' = tick
      BY <1>21 DEF Proves, Idle
    <2>4. UNCHANGED <<issue, closedIds, escalated, passed, told>>
      BY <1>21 DEF Proves, memory, history
    <2> HIDE DEF e
    <2>5. entry'.closed => entry.closed
      BY <2>1, <2>b
    <2>c. passed > 0 /\ land.pc = "record"
      BY <1>21 DEF Proves, Passed
    <2>6. QED
      BY <2>a, <2>b, <2>2, <2>3, <2>4, <2>5, <2>c DEF Settling, LostProof, IssueHonest
  <1>22. CASE Lands
    BY <1>22
    DEF Lands, Escalated, MustClose, Escalates, Authorizes, Settling, LostProof,
       IssueHonest, Passed, Idle, TypeOK, Land, vars, github, ledgers, memory, history,
       counts
  <1>23. CASE LandCloses
    BY <1>23
    DEF LandCloses, IssueClosed, Fault, Settling, LostProof, IssueHonest, Passed, Idle,
       TypeOK, Land, vars, github, ledgers, memory, history, counts
  <1>24. CASE TickStarts
    BY <1>24
    DEF TickStarts, Unconfirmed, Confirmed, Settling, LostProof, IssueHonest, NoEntry,
       Off, TypeOK, Tick, vars, github, ledgers, memory, history, counts
  <1>25. CASE Views
    BY <1>25
    DEF Views, Settling, LostProof, IssueHonest, TypeOK, Off, Tick, vars, github, ledgers,
       memory, history, counts
  <1>25a. CASE Marks
    <2> DEFINE e == Patched("closed", FALSE, FALSE)
    <2>1. (e.closed => entry.closed) /\ (e.proven => entry.proven)
      BY PatchedTyped DEF TypeOK
    <2>2. /\ proof' = proof /\ entry' \in {entry, e}
          /\ faults \in Nat /\ faults' \in Nat /\ faults <= faults'
      BY <1>25a, WrittenKeeps DEF Marks, TypeOK
    <2>3. tick'.pc = "off" /\ land' = land
      BY <1>25a DEF Marks, Off
    <2>4. UNCHANGED <<issue, closedIds, escalated, passed, told>>
      BY <1>25a DEF Marks, memory, history
    <2> HIDE DEF e
    <2>5. (entry'.closed => entry.closed) /\ (entry'.proven => entry.proven)
      BY <2>1, <2>2
    <2>6. QED
      BY <2>2, <2>3, <2>4, <2>5 DEF Settling, LostProof, IssueHonest
  <1>26. CASE ViewFails
    BY <1>26
    DEF ViewFails, Fault, Settling, LostProof, IssueHonest, Off, TypeOK, Tick, vars,
       github, ledgers, memory, history, counts
  <1>27. CASE TickAsserts
    BY <1>27
    DEF TickAsserts, AssertMerged, Methods, Settling, LostProof, IssueHonest, Off, TypeOK,
       Tick, vars, github, ledgers, memory, history, counts
  <1>28. CASE TickProves
    BY <1>28, WrittenKeeps
    DEF TickProves, Settling, LostProof, IssueHonest, Off, TypeOK, Tick, vars, github,
       ledgers, memory, history, counts
  <1>29. CASE TickSettles
    BY <1>29
    DEF TickSettles, Escalated, MustClose, Escalates, Authorizes, Settling, LostProof,
       IssueHonest, Passed, Off, TypeOK, Tick, vars, github, ledgers, memory, history,
       counts
  <1>30. CASE TickCloses
    BY <1>30
    DEF TickCloses, IssueClosed, Fault, Settling, LostProof, IssueHonest, Passed, Off,
       TypeOK, Tick, vars, github, ledgers, memory, history, counts
  <1>31. CASE TickUpdates
    <2> DEFINE e == Patched(entry.state, FALSE, closedIds \/ escalated)
               f == Patched("merged", TRUE, closedIds \/ escalated)
    <2>1. entry.state \in {"open", "merged", "closed"} /\ (closedIds \/ escalated) \in BOOLEAN
      BY DEF TypeOK, Entry, NoEntry
    <2>2. /\ e.closed => entry.closed \/ closedIds \/ escalated
          /\ f.closed => entry.closed \/ closedIds \/ escalated
      BY <2>1, PatchedTyped DEF TypeOK
    <2>3. /\ proof' = proof /\ entry' \in {entry, e, f}
          /\ faults \in Nat /\ faults' \in Nat /\ faults <= faults'
      BY <1>31, UpdatesWrites DEF TickUpdates, TypeOK
    <2>4. tick'.pc = "off" /\ land' = land
      BY <1>31 DEF TickUpdates, Off
    <2>5. UNCHANGED <<issue, closedIds, escalated, passed, told>>
      BY <1>31 DEF TickUpdates, memory, history
    <2> HIDE DEF e, f
    <2>6. entry'.closed => entry.closed \/ closedIds \/ escalated
      BY <2>2, <2>3
    <2>7. proof.grade # "none" \/ faults > 0
      BY <1>31 DEF TickUpdates, Settling
    <2>8. QED
      BY <2>3, <2>4, <2>5, <2>6, <2>7 DEF Settling, LostProof, IssueHonest
  <1>32. CASE Retires
    BY <1>32, WrittenKeeps
    DEF Retires, Settling, LostProof, IssueHonest, NoEntry, Off, TypeOK, Tick, vars,
       github, ledgers, memory, history, counts
  <1>33. CASE Crash
    BY <1>33
    DEF Crash, Dies, Settling, LostProof, IssueHonest, Idle, TypeOK, Land, Off, Tick,
       vars, github, ledgers, memory, history, counts
  <1>34. CASE CrashRecording
    BY <1>34
    DEF CrashRecording, Dies, Settling, LostProof, IssueHonest, Passed, Idle, TypeOK,
       Land, Off, Tick, vars, github, ledgers, memory, history, counts
  <1>35. CASE UNCHANGED vars
    BY <1>35
    DEF Settling, LostProof, IssueHonest, TypeOK, vars, github, ledgers, memory, history,
       counts
  <1>36. QED
    BY <1>1, <1>2, <1>2a, <1>3, <1>4, <1>5, <1>6, <1>7, <1>8, <1>9, <1>10, <1>11, <1>12,
       <1>13, <1>14, <1>15, <1>16, <1>17, <1>17a, <1>18, <1>19, <1>20, <1>21, <1>22, <1>23,
       <1>24, <1>25, <1>25a, <1>26, <1>27, <1>28, <1>29, <1>30, <1>31, <1>32, <1>33, <1>34,
       <1>35, NextCases

-----------------------------------------------------------------------------
(* What is awaited after a merge: the parts of MergeSettled that are about  *)
(* states and steps.                                                        *)

(* A number in use is that of a request at GitHub. *)
Known(n) == n # 0 => n \in Numbers /\ pr[n].state # "none"

Existing == /\ Known(entry.num) /\ Known(tick.seen.num)
            /\ \A c \in Callers : ensuring[c].pc \in {"push", "adopt", "record"}
                                   => Known(ensuring[c].num)

(* An entry is only called merged together with its proof, retired when it  *)
(* is settled, and called closed when a human has closed a request.         *)
Tracking == /\ entry.num # 0 /\ entry.state = "merged" => entry.proven
            /\ tick.pc = "retire" => Settled
            /\ tick.pc = "mark" => closes > 0
            /\ entry.num # 0 /\ GivenUp => closes > 0
            /\ \A p \in Numbers : pr[p].state = "closed" => closes > 0

(* The call that returns is over, the others go on, and so does the pass    *)
(* unless it was its call.                                                  *)
LEMMA ReturnsLeaves ==
    ASSUME NEW c \in Callers, NEW n, Returns(c, n), ensuring \in [Callers -> Ensure]
    PROVE  /\ ensuring'[c].pc = "none" /\ \A d \in Callers \ {c} : ensuring'[d] = ensuring[d]
           /\ tick' = tick \/ (tick' = Off /\ Off.seen.num = 0 /\ Off.pc = "off")
  BY DEF Returns, NoEnsure, Off, NoEntry

(* The requests the ledger, a pass and a call go by are at GitHub. *)
LEMMA ExistingStep ==
    ASSUME TypeOK, Numbered, Existing, [Next]_vars
    PROVE  Existing'
  <1>g. \A n \in Numbers : pr[n].state # "none" => pr'[n].state # "none"
    BY MainGrows DEF GrowsOnly
  <1>1. CASE Commits
    BY <1>1, <1>g
    DEF Commits, Existing, Known, vars, github, ledgers, memory, history, counts
  <1>2. ASSUME NEW p \in Numbers, HumanCloses(p)
       PROVE  Existing'
    BY <1>2, <1>g
    DEF HumanCloses, Open, Existing, Known, vars, github, ledgers, memory, history,
       counts
  <1>2a. ASSUME NEW p \in Numbers, HumanReopens(p)
       PROVE  Existing'
    BY <1>2a, <1>g
    DEF HumanReopens, Open, Existing, Known, vars, github, ledgers, memory, history,
       counts
  <1>3. ASSUME NEW p \in Numbers, NEW how \in Methods, HumanMerges(p, how)
       PROVE  Existing'
    BY <1>3, <1>g
    DEF HumanMerges, Merge, Open, Existing, Known, vars, github, ledgers, memory,
       history, counts
  <1>4. ASSUME NEW c \in Callers, Lists(c)
       PROVE  Existing'
    BY <1>4, <1>g
    DEF Lists, Stays, Open, Known, TypeOK, Existing, vars, github, ledgers, memory,
       history, counts
  <1>5. ASSUME NEW c \in Callers, Pushes(c)
       PROVE  Existing'
    BY <1>5, <1>g
    DEF Pushes, Stays, TypeOK, Existing, Known, vars, github, ledgers, memory,
       history, counts
  <1>6. ASSUME NEW c \in Callers, Adopts(c)
       PROVE  Existing'
    <2>1. Known(ensuring[c].num) /\ Known(entry'.num)
      BY <1>6, WrittenKeeps DEF Adopts, Pending, Existing
    <2>2. QED
      BY <1>6, WrittenKeeps, <1>g, <2>1, ReturnsLeaves
      DEF Adopts, Existing, Known, github, ledgers, TypeOK
  <1>7. ASSUME NEW c \in Callers, Creates(c)
       PROVE  Existing'
    <2>1. PICK p \in Free :
             /\ pr' = [pr EXCEPT ![p].state = "open"]
             /\ ensuring' = [ensuring EXCEPT ![c] = [@ EXCEPT !.pc = "record", !.num = p]]
      BY <1>7, Zenon DEF Creates
    <2>a. p \in Numbers
      BY FreeTyped DEF TypeOK
    <2>2. ensuring'[c].num = p /\ \A d \in Callers \ {c} : ensuring'[d] = ensuring[d]
      BY <2>1, <2>a, CreatedTyped, Zenon DEF TypeOK
    <2>3. pr'[p].state # "none"
      BY <2>1, <2>a DEF TypeOK, Request
    <2>4. entry' = entry /\ tick' = tick
      BY <1>7 DEF Creates, Stays, ledgers
    <2>5. QED
      BY <1>g, <2>a, <2>2, <2>3, <2>4 DEF Existing, Known
  <1>8. ASSUME NEW c \in Callers, CreateRefused(c)
       PROVE  Existing'
    BY <1>8, <1>g
    DEF CreateRefused, Returns, NoEnsure, Off, NoEntry, Existing, Known, vars,
       github, ledgers, memory, history, counts
  <1>9. ASSUME NEW c \in Callers, Records(c)
       PROVE  Existing'
    <2>1. Known(ensuring[c].num) /\ Known(entry'.num)
      BY <1>9, WrittenKeeps DEF Records, Pending, Existing
    <2>2. QED
      BY <1>9, WrittenKeeps, <1>g, <2>1, ReturnsLeaves
      DEF Records, Existing, Known, github, ledgers, TypeOK
  <1>10. ASSUME NEW c \in Callers, EnsureFails(c)
       PROVE  Existing'
    BY <1>10, <1>g
    DEF EnsureFails, Returns, NoEnsure, Off, NoEntry, Existing, Known, vars, github,
       ledgers, memory, history, counts
  <1>11. CASE Flagged
    BY <1>11, <1>g
    DEF Flagged, Stays, Started, NoEnsure, Existing, Known, vars, github, ledgers,
       memory, history, counts
  <1>12. ASSUME NEW swept \in {0, 1}, LandStarts(swept)
       PROVE  Existing'
    BY <1>12, <1>g
    DEF LandStarts, Started, NoEnsure, Existing, Known, vars, github, ledgers,
       memory, history, counts
  <1>13. CASE LandRefused
    BY <1>13, <1>g
    DEF LandRefused, Existing, Known, vars, github, ledgers, memory, history, counts
  <1>14. CASE Pins
    BY <1>14, <1>g
    DEF Pins, Existing, Known, vars, github, ledgers, memory, history, counts
  <1>15. CASE Gates
    BY <1>15, <1>g
    DEF Gates, Existing, Known, vars, github, ledgers, memory, history, counts
  <1>16. CASE Automerges
    BY <1>16, <1>g
    DEF Automerges, Existing, Known, vars, github, ledgers, memory, history, counts
  <1>17. CASE Retries
    BY <1>17, <1>g
    DEF Retries, Started, NoEnsure, Existing, Known, vars, github, ledgers, memory,
       history, counts
  <1>17a. CASE RetryFails
    BY <1>17a, <1>g
    DEF RetryFails, Fault, Existing, Known, vars, github, ledgers, memory, history, counts
  <1>18. CASE Merges
    BY <1>18, <1>g
    DEF Merges, Merge, Mergeable, Open, Existing, Known, vars, github, ledgers,
       memory, history, counts
  <1>19. CASE MergeRefused
    BY <1>19, <1>g
    DEF MergeRefused, Existing, Known, vars, github, ledgers, memory, history,
       counts
  <1>20. CASE Asserts
    BY <1>20, <1>g
    DEF Asserts, Existing, Known, vars, github, ledgers, memory, history, counts
  <1>21. CASE Proves
    <2>1. Patched("merged", TRUE, FALSE).num = entry.num
      BY PatchedTyped DEF TypeOK
    <2>2. entry'.num = entry.num
      BY <1>21, <2>1, ProvesWrites DEF Proves
    <2>3. QED
      BY <1>21, <2>2 DEF Proves, Existing, Known, github
  <1>22. CASE Lands
    BY <1>22, <1>g
    DEF Lands, Escalated, Existing, Known, vars, github, ledgers, memory, history,
       counts
  <1>23. CASE LandCloses
    BY <1>23, <1>g
    DEF LandCloses, IssueClosed, Existing, Known, vars, github, ledgers, memory,
       history, counts
  <1>24. CASE TickStarts
    <2>1. tick'.seen = entry \/ tick'.seen = NoEntry
      BY <1>24 DEF TickStarts, Off
    <2>2. \A c \in Callers : ensuring'[c] = ensuring[c] \/ ensuring'[c].pc = "list"
      BY <1>24 DEF TickStarts, Started, NoEnsure, TypeOK
    <2>3. entry' = entry /\ pr' = pr
      BY <1>24 DEF TickStarts, ledgers, github
    <2>4. QED
      BY <2>1, <2>2, <2>3, Defaults DEF Existing, Known
  <1>25. CASE Views
    <2>1. tick'.seen.num \in {tick.seen.num, 0}
      BY <1>25 DEF Views, TypeOK, Tick, Off, NoEntry
    <2>2. QED
      BY <1>25, <2>1 DEF Views, Existing, Known, github, ledgers
  <1>25a. CASE Marks
    <2>1. Patched("closed", FALSE, FALSE).num = entry.num
      BY PatchedTyped DEF TypeOK
    <2>2. entry'.num = entry.num
      BY <1>25a, <2>1, WrittenKeeps DEF Marks
    <2>3. tick'.seen.num = 0
      BY <1>25a DEF Marks, Off, NoEntry
    <2>4. QED
      BY <1>25a, <2>2, <2>3 DEF Marks, Existing, Known, github
  <1>26. CASE ViewFails
    BY <1>26, <1>g
    DEF ViewFails, Off, NoEntry, Existing, Known, vars, github, ledgers, memory,
       history, counts
  <1>27. CASE TickAsserts
    BY <1>27, <1>g
    DEF TickAsserts, Off, NoEntry, Existing, Known, vars, github, ledgers, memory,
       history, counts
  <1>28. CASE TickProves
    BY <1>28, WrittenKeeps, <1>g
    DEF TickProves, Existing, Known, vars, github, ledgers, memory, history, counts
  <1>29. CASE TickSettles
    BY <1>29, <1>g
    DEF TickSettles, Escalated, Existing, Known, vars, github, ledgers, memory,
       history, counts
  <1>30. CASE TickCloses
    BY <1>30, <1>g
    DEF TickCloses, IssueClosed, Existing, Known, vars, github, ledgers, memory,
       history, counts
  <1>31. CASE TickUpdates
    <2>1. entry.state \in {"open", "merged", "closed"} /\ (closedIds \/ escalated) \in BOOLEAN
      BY DEF TypeOK, Entry, NoEntry
    <2>a. /\ Patched(entry.state, FALSE, closedIds \/ escalated).num = entry.num
          /\ Patched("merged", TRUE, closedIds \/ escalated).num = entry.num
      BY <2>1, PatchedTyped DEF TypeOK
    <2>2. entry'.num = entry.num
      BY <1>31, <2>a, UpdatesWrites DEF TickUpdates
    <2>3. tick'.seen.num = 0
      BY <1>31, UpdatesWrites DEF TickUpdates, Off, NoEntry
    <2>4. QED
      BY <1>31, UpdatesWrites, <2>2, <2>3 DEF TickUpdates, Existing, Known, github
  <1>32. CASE Retires
    BY <1>32, WrittenKeeps, <1>g
    DEF Retires, Off, NoEntry, Existing, Known, vars, github, ledgers, memory,
       history, counts
  <1>33. CASE Crash
    BY <1>33, <1>g
    DEF Crash, Dies, Off, NoEntry, NoEnsure, Existing, Known, vars, github, ledgers,
       memory, history, counts
  <1>34. CASE CrashRecording
    BY <1>34, <1>g
    DEF CrashRecording, Dies, Off, NoEntry, NoEnsure, Existing, Known, vars, github,
       ledgers, memory, history, counts
  <1>35. CASE UNCHANGED vars
    BY <1>35, <1>g
    DEF Existing, Known, vars, github, ledgers, memory, history, counts
  <1>36. QED
    BY <1>1, <1>2, <1>2a, <1>3, <1>4, <1>5, <1>6, <1>7, <1>8, <1>9, <1>10, <1>11, <1>12,
       <1>13, <1>14, <1>15, <1>16, <1>17, <1>17a, <1>18, <1>19, <1>20, <1>21, <1>22, <1>23,
       <1>24, <1>25, <1>25a, <1>26, <1>27, <1>28, <1>29, <1>30, <1>31, <1>32, <1>33, <1>34,
       <1>35, NextCases

(* What is settled stays so: no step takes a proof, a closed issue or what  *)
(* was told back.                                                           *)
LEMMA SettledStep ==
    ASSUME TypeOK, Settled, [Next]_vars
    PROVE  Settled'
  <1>1. CASE Commits
    BY <1>1
    DEF Commits, Settled, vars, github, ledgers, memory, history, counts
  <1>2. ASSUME NEW p \in Numbers, HumanCloses(p)
       PROVE  Settled'
    BY <1>2
    DEF HumanCloses, Open, Settled, vars, github, ledgers, memory, history, counts
  <1>2a. ASSUME NEW p \in Numbers, HumanReopens(p)
       PROVE  Settled'
    BY <1>2a
    DEF HumanReopens, Open, Settled, vars, github, ledgers, memory, history, counts
  <1>3. ASSUME NEW p \in Numbers, NEW how \in Methods, HumanMerges(p, how)
       PROVE  Settled'
    BY <1>3
    DEF HumanMerges, Merge, Open, Settled, vars, github, ledgers, memory, history,
       counts
  <1>4. ASSUME NEW c \in Callers, Lists(c)
       PROVE  Settled'
    BY <1>4
    DEF Lists, Stays, Open, Settled, vars, github, ledgers, memory, history, counts
  <1>5. ASSUME NEW c \in Callers, Pushes(c)
       PROVE  Settled'
    BY <1>5
    DEF Pushes, Stays, Settled, vars, github, ledgers, memory, history, counts
  <1>6. ASSUME NEW c \in Callers, Adopts(c)
       PROVE  Settled'
    BY <1>6, WrittenKeeps
    DEF Adopts, Returns, Pending, Off, NoEntry, Numbered, Settled, vars, github,
       ledgers, memory, history, counts
  <1>7. ASSUME NEW c \in Callers, Creates(c)
       PROVE  Settled'
    BY <1>7
    DEF Creates, Stays, Free, Settled, vars, github, ledgers, memory, history,
       counts
  <1>8. ASSUME NEW c \in Callers, CreateRefused(c)
       PROVE  Settled'
    BY <1>8
    DEF CreateRefused, Returns, NoEnsure, Off, NoEntry, Settled, vars, github,
       ledgers, memory, history, counts
  <1>9. ASSUME NEW c \in Callers, Records(c)
       PROVE  Settled'
    BY <1>9, WrittenKeeps
    DEF Records, Returns, Pending, Off, NoEntry, Numbered, Settled, vars, github,
       ledgers, memory, history, counts
  <1>10. ASSUME NEW c \in Callers, EnsureFails(c)
       PROVE  Settled'
    BY <1>10
    DEF EnsureFails, Returns, NoEnsure, Off, NoEntry, Settled, vars, github,
       ledgers, memory, history, counts
  <1>11. CASE Flagged
    BY <1>11
    DEF Flagged, Stays, Started, NoEnsure, Settled, vars, github, ledgers, memory,
       history, counts
  <1>12. ASSUME NEW swept \in {0, 1}, LandStarts(swept)
       PROVE  Settled'
    BY <1>12
    DEF LandStarts, Started, NoEnsure, Settled, vars, github, ledgers, memory,
       history, counts
  <1>13. CASE LandRefused
    BY <1>13
    DEF LandRefused, Settled, vars, github, ledgers, memory, history, counts
  <1>14. CASE Pins
    BY <1>14
    DEF Pins, Settled, vars, github, ledgers, memory, history, counts
  <1>15. CASE Gates
    BY <1>15
    DEF Gates, Settled, vars, github, ledgers, memory, history, counts
  <1>16. CASE Automerges
    BY <1>16
    DEF Automerges, Settled, vars, github, ledgers, memory, history, counts
  <1>17. CASE Retries
    BY <1>17
    DEF Retries, Started, NoEnsure, Settled, vars, github, ledgers, memory, history,
       counts
  <1>17a. CASE RetryFails
    BY <1>17a
    DEF RetryFails, Fault, Settled, vars, github, ledgers, memory, history, counts
  <1>18. CASE Merges
    BY <1>18
    DEF Merges, Merge, Mergeable, Open, Settled, vars, github, ledgers, memory,
       history, counts
  <1>19. CASE MergeRefused
    BY <1>19
    DEF MergeRefused, Settled, vars, github, ledgers, memory, history, counts
  <1>20. CASE Asserts
    BY <1>20
    DEF Asserts, Settled, vars, github, ledgers, memory, history, counts
  <1>21. CASE Proves
    BY <1>21, ProvesWrites
    DEF Proves, Settled, vars, github, ledgers, memory, history, counts
  <1>22. CASE Lands
    BY <1>22
    DEF Lands, Escalated, Settled, vars, github, ledgers, memory, history, counts
  <1>23. CASE LandCloses
    BY <1>23
    DEF LandCloses, IssueClosed, Fault, Settled, vars, github, ledgers, memory,
       history, counts
  <1>24. CASE TickStarts
    BY <1>24
    DEF TickStarts, Started, NoEnsure, Confirmed, Unconfirmed, Off, NoEntry,
       Settled, vars, github, ledgers, memory, history, counts
  <1>25. CASE Views
    BY <1>25
    DEF Views, Off, NoEntry, Settled, vars, github, ledgers, memory, history, counts
  <1>25a. CASE Marks
    BY <1>25a, WrittenKeeps
    DEF Marks, Off, NoEntry, Settled, vars, github, memory, history,
       counts
  <1>26. CASE ViewFails
    BY <1>26
    DEF ViewFails, Off, NoEntry, Settled, vars, github, ledgers, memory, history,
       counts
  <1>27. CASE TickAsserts
    BY <1>27
    DEF TickAsserts, Off, NoEntry, Settled, vars, github, ledgers, memory, history,
       counts
  <1>28. CASE TickProves
    BY <1>28, WrittenKeeps
    DEF TickProves, Settled, vars, github, ledgers, memory, history, counts
  <1>29. CASE TickSettles
    BY <1>29
    DEF TickSettles, Escalated, Settled, vars, github, ledgers, memory, history,
       counts
  <1>30. CASE TickCloses
    BY <1>30
    DEF TickCloses, IssueClosed, Fault, Settled, vars, github, ledgers, memory,
       history, counts
  <1>31. CASE TickUpdates
    BY <1>31, UpdatesWrites
    DEF TickUpdates, Off, NoEntry, Settled, vars, github, ledgers, memory, history,
       counts
  <1>32. CASE Retires
    BY <1>32, WrittenKeeps
    DEF Retires, Off, NoEntry, Settled, vars, github, ledgers, memory, history,
       counts
  <1>33. CASE Crash
    BY <1>33
    DEF Crash, Dies, Off, NoEntry, NoEnsure, Settled, vars, github, ledgers, memory,
       history, counts
  <1>34. CASE CrashRecording
    BY <1>34
    DEF CrashRecording, Dies, Off, NoEntry, NoEnsure, Settled, vars, github,
       ledgers, memory, history, counts
  <1>35. CASE UNCHANGED vars
    BY <1>35
    DEF Settled, vars, github, ledgers, memory, history, counts
  <1>36. QED
    BY <1>1, <1>2, <1>2a, <1>3, <1>4, <1>5, <1>6, <1>7, <1>8, <1>9, <1>10, <1>11, <1>12,
       <1>13, <1>14, <1>15, <1>16, <1>17, <1>17a, <1>18, <1>19, <1>20, <1>21, <1>22, <1>23,
       <1>24, <1>25, <1>25a, <1>26, <1>27, <1>28, <1>29, <1>30, <1>31, <1>32, <1>33, <1>34,
       <1>35, NextCases

(* What becomes of an entry that is updated. *)
LEMMA PatchedSays ==
    ASSUME entry \in Entry \cup {NoEntry},
           NEW st \in {"open", "merged", "closed"}, NEW b \in BOOLEAN, NEW d \in BOOLEAN,
           Patched(st, b, d).num # 0
    PROVE  /\ entry.num # 0 /\ Patched(st, b, d).state = st
           /\ Patched(st, b, d).proven = (entry.proven \/ b)
  <1>1. CASE entry = NoEntry
    BY <1>1, Defaults DEF Patched
  <1>2. CASE entry \in Entry
    BY <1>2, NumbersAssumption DEF Patched, Entry, Numbers
  <1>3. QED
    BY <1>1, <1>2

(* Only the pass that retires an entry takes it from the ledger. *)
LEMMA EntryStays ==
    ASSUME TypeOK, Numbered, entry.num # 0, tick.pc # "retire", [Next]_vars
    PROVE  entry'.num # 0
  <1>1. CASE Commits
    BY <1>1
    DEF Commits, vars, github, ledgers, memory, history, counts
  <1>2. ASSUME NEW p \in Numbers, HumanCloses(p)
       PROVE  entry'.num # 0
    BY <1>2
    DEF HumanCloses, Open, vars, github, ledgers, memory, history, counts
  <1>2a. ASSUME NEW p \in Numbers, HumanReopens(p)
       PROVE  entry'.num # 0
    BY <1>2a
    DEF HumanReopens, Open, vars, github, ledgers, memory, history, counts
  <1>3. ASSUME NEW p \in Numbers, NEW how \in Methods, HumanMerges(p, how)
       PROVE  entry'.num # 0
    BY <1>3
    DEF HumanMerges, Merge, Open, vars, github, ledgers, memory, history, counts
  <1>4. ASSUME NEW c \in Callers, Lists(c)
       PROVE  entry'.num # 0
    BY <1>4
    DEF Lists, Stays, Open, vars, github, ledgers, memory, history, counts
  <1>5. ASSUME NEW c \in Callers, Pushes(c)
       PROVE  entry'.num # 0
    BY <1>5
    DEF Pushes, Stays, vars, github, ledgers, memory, history, counts
  <1>6. ASSUME NEW c \in Callers, Adopts(c)
       PROVE  entry'.num # 0
    <2>1. ensuring[c].num # 0
      BY <1>6, WrittenKeeps, NumbersFacts DEF Adopts, Numbered
    <2>2. QED
      BY <1>6, WrittenKeeps, <2>1 DEF Adopts, Pending
  <1>7. ASSUME NEW c \in Callers, Creates(c)
       PROVE  entry'.num # 0
    BY <1>7
    DEF Creates, Stays, Free, vars, github, ledgers, memory, history, counts
  <1>8. ASSUME NEW c \in Callers, CreateRefused(c)
       PROVE  entry'.num # 0
    BY <1>8
    DEF CreateRefused, Returns, NoEnsure, Off, NoEntry, vars, github, ledgers,
       memory, history, counts
  <1>9. ASSUME NEW c \in Callers, Records(c)
       PROVE  entry'.num # 0
    <2>1. ensuring[c].num # 0
      BY <1>9, WrittenKeeps, NumbersFacts DEF Records, Numbered
    <2>2. QED
      BY <1>9, WrittenKeeps, <2>1 DEF Records, Pending
  <1>10. ASSUME NEW c \in Callers, EnsureFails(c)
       PROVE  entry'.num # 0
    BY <1>10
    DEF EnsureFails, Returns, NoEnsure, Off, NoEntry, vars, github, ledgers, memory,
       history, counts
  <1>11. CASE Flagged
    BY <1>11
    DEF Flagged, Stays, Started, NoEnsure, vars, github, ledgers, memory, history,
       counts
  <1>12. ASSUME NEW swept \in {0, 1}, LandStarts(swept)
       PROVE  entry'.num # 0
    BY <1>12
    DEF LandStarts, Started, NoEnsure, vars, github, ledgers, memory, history,
       counts
  <1>13. CASE LandRefused
    BY <1>13
    DEF LandRefused, vars, github, ledgers, memory, history, counts
  <1>14. CASE Pins
    BY <1>14
    DEF Pins, vars, github, ledgers, memory, history, counts
  <1>15. CASE Gates
    BY <1>15
    DEF Gates, vars, github, ledgers, memory, history, counts
  <1>16. CASE Automerges
    BY <1>16
    DEF Automerges, vars, github, ledgers, memory, history, counts
  <1>17. CASE Retries
    BY <1>17
    DEF Retries, Started, NoEnsure, vars, github, ledgers, memory, history, counts
  <1>17a. CASE RetryFails
    BY <1>17a
    DEF RetryFails, Fault, vars, github, ledgers, memory, history, counts
  <1>18. CASE Merges
    BY <1>18
    DEF Merges, Merge, Mergeable, Open, vars, github, ledgers, memory, history,
       counts
  <1>19. CASE MergeRefused
    BY <1>19
    DEF MergeRefused, vars, github, ledgers, memory, history, counts
  <1>20. CASE Asserts
    BY <1>20
    DEF Asserts, vars, github, ledgers, memory, history, counts
  <1>21. CASE Proves
    <2>1. Patched("merged", TRUE, FALSE).num = entry.num
      BY PatchedTyped DEF TypeOK
    <2>2. QED
      BY <1>21, <2>1, ProvesWrites DEF Proves
  <1>22. CASE Lands
    BY <1>22
    DEF Lands, Escalated, vars, github, ledgers, memory, history, counts
  <1>23. CASE LandCloses
    BY <1>23
    DEF LandCloses, IssueClosed, vars, github, ledgers, memory, history, counts
  <1>24. CASE TickStarts
    BY <1>24
    DEF TickStarts, Started, NoEnsure, Confirmed, Unconfirmed, Off, NoEntry, vars,
       github, ledgers, memory, history, counts
  <1>25. CASE Views
    BY <1>25 DEF Views, ledgers
  <1>25a. CASE Marks
    <2>1. Patched("closed", FALSE, FALSE).num = entry.num
      BY PatchedTyped DEF TypeOK
    <2>2. QED
      BY <1>25a, <2>1, WrittenKeeps DEF Marks
  <1>26. CASE ViewFails
    BY <1>26
    DEF ViewFails, Off, NoEntry, vars, github, ledgers, memory, history, counts
  <1>27. CASE TickAsserts
    BY <1>27
    DEF TickAsserts, Off, NoEntry, vars, github, ledgers, memory, history, counts
  <1>28. CASE TickProves
    BY <1>28, WrittenKeeps
    DEF TickProves, vars, github, ledgers, memory, history, counts
  <1>29. CASE TickSettles
    BY <1>29
    DEF TickSettles, Escalated, vars, github, ledgers, memory, history, counts
  <1>30. CASE TickCloses
    BY <1>30
    DEF TickCloses, IssueClosed, vars, github, ledgers, memory, history, counts
  <1>31. CASE TickUpdates
    <2>1. entry.state \in {"open", "merged", "closed"} /\ (closedIds \/ escalated) \in BOOLEAN
      BY DEF TypeOK, Entry, NoEntry
    <2>2. /\ Patched(entry.state, FALSE, closedIds \/ escalated).num = entry.num
          /\ Patched("merged", TRUE, closedIds \/ escalated).num = entry.num
      BY <2>1, PatchedTyped DEF TypeOK
    <2>3. QED
      BY <1>31, <2>2, UpdatesWrites DEF TickUpdates
  <1>32. CASE Retires
    BY <1>32, WrittenKeeps
    DEF Retires, Off, NoEntry, vars, github, ledgers, memory, history, counts
  <1>33. CASE Crash
    BY <1>33
    DEF Crash, Dies, Off, NoEntry, NoEnsure, vars, github, ledgers, memory, history,
       counts
  <1>34. CASE CrashRecording
    BY <1>34
    DEF CrashRecording, Dies, Off, NoEntry, NoEnsure, vars, github, ledgers, memory,
       history, counts
  <1>35. CASE UNCHANGED vars
    BY <1>35
    DEF vars, github, ledgers, memory, history, counts
  <1>36. QED
    BY <1>1, <1>2, <1>2a, <1>3, <1>4, <1>5, <1>6, <1>7, <1>8, <1>9, <1>10, <1>11, <1>12,
       <1>13, <1>14, <1>15, <1>16, <1>17, <1>17a, <1>18, <1>19, <1>20, <1>21, <1>22, <1>23,
       <1>24, <1>25, <1>25a, <1>26, <1>27, <1>28, <1>29, <1>30, <1>31, <1>32, <1>33, <1>34,
       <1>35, NextCases

(* What the ledger says of the one request of a branch is so. *)
LEMMA TrackingStep ==
    ASSUME TypeOK, Numbered, IssueHonest, Existing, Tracking, [Next]_vars
    PROVE  Tracking'
  <1>g. /\ closes \in Nat /\ closes' \in Nat /\ closes <= closes'
        /\ \A p \in Numbers : pr'[p].state = "closed"
                              => pr[p].state = "closed" \/ closes' > 0
    BY MainGrows DEF GrowsOnly, TypeOK
  <1>h. Settled => Settled'
    BY SettledStep
  <1>1. CASE Commits
    BY <1>1, <1>g, <1>h
    DEF Commits, Tracking, GivenUp, vars, github, ledgers, memory, history, counts
  <1>2. ASSUME NEW p \in Numbers, HumanCloses(p)
       PROVE  Tracking'
    BY <1>2, <1>g, <1>h
    DEF HumanCloses, Open, Tracking, GivenUp, vars, github, ledgers, memory, history, counts
  <1>2a. ASSUME NEW p \in Numbers, HumanReopens(p)
       PROVE  Tracking'
    BY <1>2a, <1>g, <1>h
    DEF HumanReopens, Open, Tracking, GivenUp, vars, github, ledgers, memory, history,
       counts
  <1>3. ASSUME NEW p \in Numbers, NEW how \in Methods, HumanMerges(p, how)
       PROVE  Tracking'
    BY <1>3, <1>g, <1>h
    DEF HumanMerges, Merge, Open, Tracking, GivenUp, vars, github, ledgers, memory, history,
       counts
  <1>4. ASSUME NEW c \in Callers, Lists(c)
       PROVE  Tracking'
    BY <1>4, <1>g, <1>h
    DEF Lists, Stays, Open, Tracking, GivenUp, vars, github, ledgers, memory, history,
       counts
  <1>5. ASSUME NEW c \in Callers, Pushes(c)
       PROVE  Tracking'
    BY <1>5, <1>g, <1>h
    DEF Pushes, Stays, Tracking, GivenUp, vars, github, ledgers, memory, history, counts
  <1>6. ASSUME NEW c \in Callers, Adopts(c)
       PROVE  Tracking'
    <2>1. entry' = entry \/ entry'.state = "open"
      BY <1>6, WrittenKeeps DEF Adopts, Pending
    <2>2. QED
      BY <1>6, WrittenKeeps, <1>g, <1>h, <2>1, ReturnsLeaves DEF Adopts, Tracking, GivenUp, TypeOK
  <1>7. ASSUME NEW c \in Callers, Creates(c)
       PROVE  Tracking'
    BY <1>7, <1>g, <1>h
    DEF Creates, Stays, Free, Tracking, GivenUp, vars, github, ledgers, memory, history,
       counts
  <1>8. ASSUME NEW c \in Callers, CreateRefused(c)
       PROVE  Tracking'
    BY <1>8, <1>g, <1>h, ReturnsLeaves DEF CreateRefused, Tracking, GivenUp, TypeOK, ledgers
  <1>9. ASSUME NEW c \in Callers, Records(c)
       PROVE  Tracking'
    <2>1. entry' = entry \/ entry'.state = "open"
      BY <1>9, WrittenKeeps DEF Records, Pending
    <2>2. QED
      BY <1>9, WrittenKeeps, <1>g, <1>h, <2>1, ReturnsLeaves DEF Records, Tracking, GivenUp, TypeOK
  <1>10. ASSUME NEW c \in Callers, EnsureFails(c)
       PROVE  Tracking'
    BY <1>10, <1>g, <1>h, ReturnsLeaves DEF EnsureFails, Tracking, GivenUp, TypeOK, ledgers
  <1>11. CASE Flagged
    BY <1>11, <1>g, <1>h
    DEF Flagged, Stays, Started, NoEnsure, Tracking, GivenUp, vars, github, ledgers, memory,
       history, counts
  <1>12. ASSUME NEW swept \in {0, 1}, LandStarts(swept)
       PROVE  Tracking'
    BY <1>12, <1>g, <1>h
    DEF LandStarts, Started, NoEnsure, Tracking, GivenUp, vars, github, ledgers, memory,
       history, counts
  <1>13. CASE LandRefused
    BY <1>13, <1>g, <1>h
    DEF LandRefused, Tracking, GivenUp, vars, github, ledgers, memory, history, counts
  <1>14. CASE Pins
    BY <1>14, <1>g, <1>h
    DEF Pins, Tracking, GivenUp, vars, github, ledgers, memory, history, counts
  <1>15. CASE Gates
    BY <1>15, <1>g, <1>h
    DEF Gates, Tracking, GivenUp, vars, github, ledgers, memory, history, counts
  <1>16. CASE Automerges
    BY <1>16, <1>g, <1>h
    DEF Automerges, Tracking, GivenUp, vars, github, ledgers, memory, history, counts
  <1>17. CASE Retries
    BY <1>17, <1>g, <1>h
    DEF Retries, Started, NoEnsure, Tracking, GivenUp, vars, github, ledgers, memory,
       history, counts
  <1>17a. CASE RetryFails
    BY <1>17a, <1>g, <1>h
    DEF RetryFails, Fault, Tracking, GivenUp, vars, github, ledgers, memory, history, counts
  <1>18. CASE Merges
    BY <1>18, <1>g, <1>h
    DEF Merges, Merge, Mergeable, Open, Tracking, GivenUp, vars, github, ledgers, memory,
       history, counts
  <1>19. CASE MergeRefused
    BY <1>19, <1>g, <1>h
    DEF MergeRefused, Tracking, GivenUp, vars, github, ledgers, memory, history, counts
  <1>20. CASE Asserts
    BY <1>20, <1>g, <1>h
    DEF Asserts, Tracking, GivenUp, vars, github, ledgers, memory, history, counts
  <1>21. CASE Proves
    <2> DEFINE e == Patched("merged", TRUE, FALSE)
    <2>1. e.num # 0 => e.state = "merged" /\ e.proven
      BY PatchedSays DEF TypeOK
    <2>2. entry' \in {entry, e} /\ tick' = tick
      BY <1>21, ProvesWrites DEF Proves
    <2> HIDE DEF e
    <2>3. QED
      BY <1>g, <1>h, <2>1, <2>2 DEF Tracking, GivenUp
  <1>22. CASE Lands
    BY <1>22, <1>g, <1>h
    DEF Lands, Escalated, Tracking, GivenUp, vars, github, ledgers, memory, history, counts
  <1>23. CASE LandCloses
    BY <1>23, <1>g, <1>h
    DEF LandCloses, IssueClosed, Tracking, GivenUp, vars, github, ledgers, memory, history,
       counts
  <1>24. CASE TickStarts
    <2>1. tick'.pc # "mark" /\ (tick'.pc = "retire" => Confirmed(entry))
      <3>1. CASE Confirmed(entry) /\ tick' = [Off EXCEPT !.pc = "retire", !.seen = entry]
        BY <3>1 DEF Off
      <3>2. CASE tick' = [Off EXCEPT !.pc = IF entry.proven /\ ~entry.closed
                                           THEN "close" ELSE "view",
                                    !.seen = entry]
        BY <3>2 DEF Off
      <3>3. CASE tick' = [Off EXCEPT !.pc = "push"]
        BY <3>3 DEF Off
      <3>4. QED
        BY <1>24, <3>1, <3>2, <3>3, Zenon DEF TickStarts
    <2>2. Confirmed(entry) => Settled
      BY DEF Confirmed, IssueHonest, Settled
    <2>3. entry' = entry
      BY <1>24 DEF TickStarts, ledgers
    <2>4. tick'.pc = "retire" => Settled'
      BY <1>h, <2>1, <2>2
    <2>5. closes > 0 => closes' > 0
      BY <1>g
    <2>6. \A p \in Numbers : pr'[p].state = "closed" => closes' > 0
      BY <1>g, <2>5, Zenon DEF Tracking
    <2>7. entry'.num # 0 /\ entry'.state = "merged" => entry'.proven
      BY <2>3 DEF Tracking
    <2>8. entry'.num # 0 /\ GivenUp' => closes' > 0
      BY <2>3, <2>5 DEF Tracking, GivenUp
    <2>9. QED
      BY <2>1, <2>4, <2>6, <2>7, <2>8, Zenon DEF Tracking
  <1>25. CASE Views
    <2>1. tick'.pc # "retire"
      BY <1>25 DEF Views, TypeOK, Tick, Off
    <2>2. tick'.pc = "mark" => pr[tick.seen.num].state = "closed"
      BY <1>25 DEF Views, TypeOK, Tick, Off
    <2>3. tick.seen.num \in Numbers
      BY <1>25 DEF Views, Numbered
    <2>4. QED
      BY <1>25, <1>g, <2>1, <2>2, <2>3 DEF Views, Tracking, GivenUp, ledgers
  <1>25a. CASE Marks
    <2> DEFINE e == Patched("closed", FALSE, FALSE)
    <2>1. closes > 0 /\ closes' > 0
      BY <1>25a, <1>g DEF Marks, Tracking, GivenUp
    <2>2. e.num # 0 => e.state = "closed"
      BY PatchedSays DEF TypeOK
    <2>3. entry' \in {entry, e} /\ tick'.pc = "off"
      BY <1>25a, WrittenKeeps DEF Marks, Off
    <2> HIDE DEF e
    <2>4. QED
      BY <2>1, <2>2, <2>3 DEF Tracking, GivenUp
  <1>26. CASE ViewFails
    BY <1>26, <1>g, <1>h
    DEF ViewFails, Off, NoEntry, Tracking, GivenUp, vars, github, ledgers, memory, history,
       counts
  <1>27. CASE TickAsserts
    BY <1>27, <1>g, <1>h
    DEF TickAsserts, Off, NoEntry, Tracking, GivenUp, vars, github, ledgers, memory,
       history, counts
  <1>28. CASE TickProves
    BY <1>28, WrittenKeeps, <1>g, <1>h
    DEF TickProves, Tracking, GivenUp, vars, github, ledgers, memory, history, counts
  <1>29. CASE TickSettles
    BY <1>29, <1>g, <1>h
    DEF TickSettles, Escalated, Tracking, GivenUp, vars, github, ledgers, memory, history,
       counts
  <1>30. CASE TickCloses
    BY <1>30, <1>g, <1>h
    DEF TickCloses, IssueClosed, Tracking, GivenUp, vars, github, ledgers, memory, history,
       counts
  <1>31. CASE TickUpdates
    <2> DEFINE e == Patched(entry.state, FALSE, closedIds \/ escalated)
               f == Patched("merged", TRUE, closedIds \/ escalated)
    <2>1. entry.state \in {"open", "merged", "closed"} /\ (closedIds \/ escalated) \in BOOLEAN
      BY DEF TypeOK, Entry, NoEntry
    <2>2. /\ e.num # 0 => entry.num # 0 /\ e.state = entry.state /\ (entry.proven => e.proven)
          /\ f.num # 0 => f.state = "merged" /\ f.proven
      BY <2>1, PatchedSays DEF TypeOK
    <2>3. entry' \in {entry, e, f} /\ tick'.pc = "off"
      BY <1>31, UpdatesWrites DEF TickUpdates, Off
    <2> HIDE DEF e, f
    <2>4. QED
      BY <1>g, <2>2, <2>3 DEF Tracking, GivenUp
  <1>32. CASE Retires
    BY <1>32, <1>g, WrittenKeeps DEF Retires, NoEntry, Off, Tracking, GivenUp
  <1>33. CASE Crash
    BY <1>33, <1>g, <1>h
    DEF Crash, Dies, Off, NoEntry, NoEnsure, Tracking, GivenUp, vars, github, ledgers,
       memory, history, counts
  <1>34. CASE CrashRecording
    BY <1>34, <1>g, <1>h
    DEF CrashRecording, Dies, Off, NoEntry, NoEnsure, Tracking, GivenUp, vars, github,
       ledgers, memory, history, counts
  <1>35. CASE UNCHANGED vars
    BY <1>35, <1>g, <1>h
    DEF Tracking, GivenUp, vars, github, ledgers, memory, history, counts
  <1>36. QED
    BY <1>1, <1>2, <1>2a, <1>3, <1>4, <1>5, <1>6, <1>7, <1>8, <1>9, <1>10, <1>11, <1>12,
       <1>13, <1>14, <1>15, <1>16, <1>17, <1>17a, <1>18, <1>19, <1>20, <1>21, <1>22, <1>23,
       <1>24, <1>25, <1>25a, <1>26, <1>27, <1>28, <1>29, <1>30, <1>31, <1>32, <1>33, <1>34,
       <1>35, NextCases

-----------------------------------------------------------------------------
(* At the start nothing is proven, merged or under way. *)
LEMMA InitIInv == Init => IInv
  <1> SUFFICES ASSUME Init PROVE IInv
    OBVIOUS
  <1>1. TypeOK
    BY Defaults DEF Init, TypeOK
  <1>2. Numbered /\ Pinned /\ Passed
    BY DEF Init, Numbered, Pinned, Passed, NoEnsure, Idle, Off, NoProof, Callers
  <1>3. DaemonMerged /\ MergesGated
    BY DEF Init, DaemonMerged, MergesGated, NoRequest
  <1>4. Recording /\ ProofMerged
    BY DEF Init, Recording, ProofMerged, NoProof, Idle, Off
  <1>5. Settling /\ IssueHonest
    BY DEF Init, Settling, LostProof, IssueHonest, NoProof, NoEntry, Idle, Off
  <1>6. QED
    BY <1>1, <1>2, <1>3, <1>4, <1>5 DEF IInv

(* The invariant is inductive, whoever calls, merges, fails or dies. *)
THEOREM Invariant == Spec => []IInv
  <1>1. IInv /\ [Next]_vars => IInv'
    BY TypedStep, GateStep, MergedStep, RecordStep, SettleStep DEF IInv
  <1>2. QED
    BY InitIInv, <1>1, PTL DEF Spec

(* Every state is well typed, for any deployments. *)
THEOREM Typed == Spec => []TypeOK
  <1>1. IInv => TypeOK
    BY DEF IInv
  <1>2. QED
    BY Invariant, <1>1, PTL

(* What the daemon merges at GitHub the scratch gate has seen, whatever is  *)
(* committed, pushed or opened meanwhile (landAgentPrOnce).                 *)
THEOREM Gated == Spec => []MergesGated
  <1>1. IInv => MergesGated
    BY DEF IInv
  <1>2. QED
    BY Invariant, <1>1, PTL

(* A done proof names a commit that is in main, whoever recorded it and     *)
(* wherever the daemon died (assertMerged, recordDoneProof).                *)
THEOREM ProvenIsMerged == Spec => []ProofMerged
  <1>1. IInv => ProofMerged
    BY DEF IInv
  <1>2. QED
    BY Invariant, <1>1, PTL

(* An issue is closed only with a proof and a green gate behind it, and an  *)
(* entry only with its issue closed or a human told (attemptCloseFor).      *)
THEOREM ClosedHonestly == Spec => []IssueHonest
  <1>1. IInv => IssueHonest
    BY DEF IInv
  <1>2. QED
    BY Invariant, <1>1, PTL

-----------------------------------------------------------------------------
(* While the merge of a branch's only request is not settled, the ledger's  *)
(* entry is one the reconciler takes up, or it is marked closed.            *)
Awaited == Sole /\ Tracked /\ ~Settled => Unconfirmed(entry) \/ GivenUp

(* The ways out of MergeSettled are taken only after a failure, and only    *)
(* after a close by hand.                                                   *)
WaysOut == /\ LostProof => faults > 0
           /\ Tracked /\ GivenUp => closes > 0

(* No step drops the entry of such a merge.                                 *)
Remains == Sole' /\ Tracked /\ ~Settled => Tracked'

(* At the start there is no entry and no request. *)
LEMMA InitTracking == Init => Existing /\ Tracking
  BY Defaults, NumbersAssumption
  DEF Init, Existing, Tracking, GivenUp, Known, NoEnsure, NoRequest, Off, Callers

(* The requests in use are at GitHub, and the ledger says what is so.       *)
LEMMA TrackingInv == Spec => [](IInv /\ Existing /\ Tracking)
  <1>1. IInv /\ Existing /\ Tracking /\ [Next]_vars => Existing' /\ Tracking'
    BY ExistingStep, TrackingStep DEF IInv
  <1>2. QED
    BY Invariant, InitTracking, <1>1, PTL DEF Spec

(* A merge the ledger tracks is taken up by every pass of the reconciler    *)
(* until it is settled, wherever the daemon died and whoever merged it: its *)
(* entry is never called merged without being stamped as proven, it is      *)
(* called closed only where a human closed a request, and it is stamped     *)
(* without a proof only where a write failed (pendingPrs, reconcileOnePr,   *)
(* updatePendingPr, recordDoneProof).                                       *)
THEOREM MergeAwaited == Spec => [](Awaited /\ WaysOut)
  <1>1. IInv /\ Existing /\ Tracking => Awaited /\ WaysOut
    <2> SUFFICES ASSUME IInv, Tracking PROVE Awaited /\ WaysOut
      OBVIOUS
    <2>1. WaysOut
      BY DEF IInv, Settling, Tracking, Tracked, WaysOut
    <2>2. ASSUME Tracked, ~Settled, ~GivenUp PROVE Unconfirmed(entry)
      <3>1. entry \in Entry /\ entry.num # 0
        BY <2>2, Defaults DEF IInv, TypeOK, Tracked, NoEntry
      <3>2. ~entry.closed
        BY <2>2 DEF IInv, IssueHonest, Settled
      <3>3. QED
        BY <2>2, <3>1, <3>2 DEF Entry, Tracking, GivenUp, Unconfirmed
    <2>3. QED
      BY <2>1, <2>2 DEF Awaited
  <1>2. QED
    BY TrackingInv, <1>1, PTL

(* The entry of such a merge stays in the ledger until it is settled, and   *)
(* what is settled stays so (deletePendingPr, upsertPendingPr): with        *)
(* MergeAwaited, what MergeSettled needs but that the passes run.           *)
THEOREM MergeStaysTracked == Spec => [][Remains /\ (Settled => Settled')]_vars
  <1>1. IInv /\ Existing /\ Tracking /\ [Next]_vars => [Remains /\ (Settled => Settled')]_vars
    <2> SUFFICES ASSUME IInv, Existing, Tracking, [Next]_vars
                 PROVE  Remains /\ (Settled => Settled')
      OBVIOUS
    <2>1. TypeOK /\ Numbered
      BY DEF IInv
    <2>2. Settled => Settled'
      BY <2>1, SettledStep
    <2>3. Remains
      <3> SUFFICES ASSUME Sole', Tracked, ~Settled PROVE Tracked'
        BY DEF Remains
      <3>1. pr'[1].state = "merged"
        BY <2>1, MainGrows, NumbersAssumption DEF GrowsOnly, Tracked, Numbers
      <3>2. Existing'
        BY <2>1, ExistingStep
      <3>3. entry'.num # 0 => entry'.num = 1
        BY <3>2 DEF Existing, Known, Sole
      <3>4. entry'.num # 0
        BY <2>1, EntryStays DEF Tracked, Tracking
      <3>5. QED
        BY <3>1, <3>3, <3>4 DEF Tracked
    <2>4. QED
      BY <2>2, <2>3
  <1>2. QED
    BY TrackingInv, <1>1, PTL DEF Spec

=============================================================================
