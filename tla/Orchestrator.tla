----------------------------- MODULE Orchestrator ----------------------------
(***************************************************************************)
(* The control loop that verifies and lands finished units                 *)
(* (src/src/orchestrator.ts) with its durable ledger of decisions          *)
(* (src/src/orchestrator-state.ts) and the edges squad-manager.ts wires    *)
(* into it (buildOrchestrator, commitAgentWip, landInner's proof gate).    *)
(*                                                                         *)
(* One tick runs at a time and handles one unit after the other; every     *)
(* await of the tick is a place where operator prompts, agent turns and a  *)
(* crash of the daemon come in between, so each piece of code between two  *)
(* awaits is one action.  A unit is an agent with a branch; a unit of      *)
(* FeatureUnits is driven through its feature, the others on their own.    *)
(***************************************************************************)
EXTENDS Naturals, FiniteSets

CONSTANTS
  Units,            \* the units on the roster
  FeatureUnits,     \* those linked to a feature (one unit per feature here)
  HoldForConfirm,   \* OMP_SQUAD_LAND_CONFIRM: green work waits for a one-tap Land
  LandRetryCap,     \* LAND_RETRY_CAP
  RepairBudget,     \* OMP_SQUAD_REPAIR_BUDGET
  SteerMidTick,     \* prompts may reach the unit the tick is working on
  WriteMayFail,     \* the ledger's durable write may throw
  HeadMayFail,      \* git rev-parse HEAD may fail
  MaxTree, MaxSteers, MaxCrashes  \* bounds on commits, prompts and restarts

ASSUME OrchestratorAssumption ==
  /\ FeatureUnits \subseteq Units
  /\ LandRetryCap \in Nat \ {0} /\ RepairBudget \in Nat
  /\ MaxTree \in Nat /\ MaxSteers \in Nat /\ MaxCrashes \in Nat
  /\ HoldForConfirm \in BOOLEAN /\ SteerMidTick \in BOOLEAN
  /\ WriteMayFail \in BOOLEAN /\ HeadMayFail \in BOOLEAN

Trees   == 0 .. MaxTree          \* a branch's HEAD, 0 is the base it started from
Unknown == MaxTree + 1           \* stateKey's fallback when HEAD is unreadable
Branch  == MaxTree + 2           \* a bare branch name taken for a key
Kinds   == {"verifying", "verified", "blocked", "halted", "landed", "staged"}
Final   == {"halted", "landed", "staged"}
Keys    == Trees \cup {Unknown, Branch}
Entries == Kinds \X Units \X Keys

VARIABLES
  status,    \* the unit's agent: working, idle, or gone from the roster
  tree,      \* HEAD of its branch
  dirty,     \* uncommitted edits in its worktree
  merged,    \* the last tree of it that reached the base
  proof,     \* the tree its last green proof covers, 0 for none
  adopted,   \* re-created over a surviving worktree, no turn since
  halted, landed, staged,   \* the loop's in-memory sets
  attempts,  \* red gates since the last success
  blocks,    \* blocked lands since the last success
  mem, disk, \* the ledger in memory and on disk
  pc, cur, todo, key,       \* the tick: its place, its unit, the rest, stateKey
  steers, crashes,          \* how many prompts and restarts there were
  tries,     \* history: blocked lands of this tree since a prompt or restart
  decided    \* history: the trees with a final decision on disk

world   == <<status, tree, dirty, merged, proof, adopted>>
session == <<halted, landed, staged, attempts, blocks>>
ledger  == <<mem, disk, decided>>
loop    == <<pc, cur, todo, key>>
bounds  == <<steers, crashes>>
vars    == <<world, session, ledger, loop, bounds, tries>>

TypeOK ==
  /\ status \in [Units -> {"working", "idle", "gone"}]
  /\ tree \in [Units -> Trees] /\ merged \in [Units -> Trees] /\ proof \in [Units -> Trees]
  /\ dirty \in [Units -> BOOLEAN] /\ adopted \in [Units -> BOOLEAN]
  /\ halted \subseteq Units /\ landed \subseteq Units /\ staged \subseteq Units
  /\ attempts \in [Units -> 0 .. RepairBudget] /\ blocks \in [Units -> Nat]
  /\ mem \subseteq Entries /\ disk \subseteq Entries
  /\ pc \in {"rest", "pick", "settle", "readKey", "hasWork", "verify", "land", "purge"}
  /\ cur \in Units /\ todo \subseteq Units /\ key \in Trees \cup {Unknown}
  /\ steers \in 0 .. MaxSteers /\ crashes \in 0 .. MaxCrashes
  /\ tries \in [Units -> Nat]
  /\ decided \subseteq Units \X Trees

Init ==
  /\ status = [u \in Units |-> "working"]
  /\ tree = [u \in Units |-> 0] /\ merged = tree /\ proof = tree
  /\ dirty = [u \in Units |-> FALSE] /\ adopted = dirty
  /\ halted = {} /\ landed = {} /\ staged = {}
  /\ attempts = [u \in Units |-> 0] /\ blocks = attempts /\ tries = attempts
  /\ mem = {} /\ disk = {} /\ decided = {}
  /\ pc = "rest" /\ cur \in Units /\ todo = {} /\ key = 0
  /\ steers = 0 /\ crashes = 0

HasWork(u) == dirty[u] \/ tree[u] # merged[u]

Roster == {u \in Units : status[u] # "gone"}

-----------------------------------------------------------------------------
(* The ledger *)

DecidedBy(d) == {p \in Units \X Trees : \E k \in Final : <<k, p[1], p[2]>> \in d}

(* mark(): an entry already in the set is not written again; a new one is  *)
(* added first and then flushed, and a flush that throws leaves it there.  *)
(* The kinds of one synchronous stretch are written together.              *)
Mark(ks) ==
  LET new == {<<k, cur, key>> : k \in ks}
  IN  /\ mem' = mem \cup new
      /\ disk' \in IF new \subseteq mem THEN {disk}
                   ELSE {mem \cup new} \cup (IF WriteMayFail THEN {disk} ELSE {})
      /\ decided' = decided \cup DecidedBy(disk')

(* persistCritical's result.                                               *)
Persisted(ks) == {<<k, cur, key>> : k \in ks} \subseteq mem \/ disk' = mem'

-----------------------------------------------------------------------------
(* The tick *)

NextUnit == pc' = "pick" /\ UNCHANGED <<cur, key>>

TickBegin ==
  /\ pc = "rest"
  /\ pc' = "pick" /\ todo' = Roster
  /\ UNCHANGED <<world, session, ledger, cur, key, bounds, tries>>

(* The roster's order is by activity: any.                                 *)
Consider(u) ==
  /\ pc = "pick" /\ u \in todo
  /\ todo' = todo \ {u}
  /\ IF status[u] = "idle" /\ u \notin halted
     THEN pc' = "settle" /\ cur' = u /\ UNCHANGED key
     ELSE NextUnit
  /\ UNCHANGED <<world, session, ledger, bounds, tries>>

(* commitAgentWip: an idle unit's edits become a commit, unless it was     *)
(* active within the last few seconds.                                     *)
Sweep(u) ==
  IF dirty[u] /\ status[u] = "idle" /\ tree[u] < MaxTree
  THEN \/ /\ tree' = [tree EXCEPT ![u] = @ + 1]
          /\ dirty' = [dirty EXCEPT ![u] = FALSE]
          /\ tries' = [tries EXCEPT ![u] = 0]
       \/ UNCHANGED <<tree, dirty, tries>>
  ELSE UNCHANGED <<tree, dirty, tries>>

Settle ==
  /\ pc = "settle"
  /\ Sweep(cur)
  /\ pc' = "readKey"
  /\ UNCHANGED <<status, merged, proof, adopted, session, ledger, cur, todo, key, bounds>>

(* The tick's skips: halted, landed or staged, now or before a restart.    *)
Decided(u, k) ==
  \/ u \in landed \cup staged
  \/ \E kind \in Final : <<kind, u, k>> \in mem

(* Bug: the gate runs although its "verifying" could not be recorded.      *)
BugTakeUpUnrecorded(u) ==
  IF adopted[u] \/ HoldForConfirm
  THEN pc' = "pick" /\ UNCHANGED <<ledger, halted, staged>>
  ELSE Mark({"verifying"}) /\ pc' = "verify" /\ UNCHANGED <<halted, staged>>

(* The loop takes up a unit it has found undecided and with work: an       *)
(* adopted one goes straight to its land, the others to the gate once      *)
(* "verifying" is on disk.                                                 *)
TakeUp(u) ==
  IF adopted[u]
  THEN IF HoldForConfirm
       THEN /\ Mark({"staged"})
            /\ IF Persisted({"staged"})
               THEN staged' = staged \cup {u} /\ UNCHANGED halted
               ELSE halted' = halted \cup {u} /\ UNCHANGED staged
            /\ pc' = "pick"
       ELSE pc' = "land" /\ UNCHANGED <<ledger, halted, staged>>
  ELSE /\ Mark({"verifying"})
       /\ UNCHANGED staged
       /\ IF Persisted({"verifying"})
          THEN pc' = "verify" /\ UNCHANGED halted
          ELSE pc' = "pick" /\ halted' = halted \cup {u}

ReadKey ==
  /\ pc = "readKey"
  /\ key' \in {tree[cur]} \cup (IF HeadMayFail THEN {Unknown} ELSE {})
  /\ pc' = IF Decided(cur, key') THEN "pick" ELSE "hasWork"
  /\ UNCHANGED <<world, session, ledger, cur, todo, bounds, tries>>

(* agentHasWork for a plain unit; a feature has no such gate.              *)
CheckWork ==
  /\ pc = "hasWork"
  /\ IF cur \in FeatureUnits \/ HasWork(cur)
     THEN TakeUp(cur)
     ELSE pc' = "pick" /\ UNCHANGED <<ledger, halted, staged>>
  /\ UNCHANGED <<world, landed, attempts, blocks, cur, todo, key, bounds, tries>>

(* Bug: one retry more than the budget.                                    *)
BugRedGateAtBudget(u) ==
  /\ attempts[u] <= RepairBudget
  /\ attempts' = [attempts EXCEPT ![u] = @ + 1]
  /\ UNCHANGED <<halted, ledger>>

(* A red gate: retry within the budget, then park a plain unit or summon a *)
(* human for a feature's.                                                  *)
RedGate(u) ==
  IF attempts[u] < RepairBudget
  THEN /\ attempts' = [attempts EXCEPT ![u] = @ + 1]
       /\ UNCHANGED <<halted, ledger>>
  ELSE /\ Mark(IF u \in FeatureUnits THEN {"halted"} ELSE {"blocked", "halted"})
       /\ halted' = halted \cup {u}
       /\ UNCHANGED attempts

(* A green gate: recorded, then held for the operator or landed.           *)
GreenGate(u) ==
  LET ks == IF HoldForConfirm THEN {"verified", "staged"} ELSE {"verified"}
  IN  /\ Mark(ks)
      /\ IF ~Persisted(ks)
         THEN /\ halted' = halted \cup {u} /\ pc' = "pick"
              /\ UNCHANGED <<staged, attempts>>
         ELSE IF HoldForConfirm
         THEN /\ staged' = staged \cup {u} /\ pc' = "pick"
              /\ attempts' = [attempts EXCEPT ![u] = 0]
              /\ UNCHANGED halted
         ELSE pc' = "land" /\ UNCHANGED <<halted, staged, attempts>>

(* The acceptance suite in the unit's worktree.  A feature's verify sweeps *)
(* once more; a dirty tree is refused, so is never green.                  *)
Verify ==
  /\ pc = "verify"
  /\ IF cur \in FeatureUnits THEN Sweep(cur) ELSE UNCHANGED <<tree, dirty, tries>>
  /\ \/ /\ ~dirty'[cur]
        /\ proof' = [proof EXCEPT ![cur] = tree'[cur]]
        /\ GreenGate(cur)
     \/ /\ RedGate(cur)
        /\ pc' = "pick"
        /\ UNCHANGED <<proof, staged>>
  /\ UNCHANGED <<status, merged, adopted, landed, blocks, cur, todo, key, bounds>>

(* landInner's gate: a fresh green proof of a clean tree.                  *)
ProofGate(u) == ~dirty[u] /\ proof[u] = tree[u]

Park(u) ==
  /\ Mark({"blocked", "halted"})
  /\ halted' = halted \cup {u}

(* tryLand's outcomes.  A success is recorded on disk first; a failed      *)
(* record halts the unit although its work is merged.                      *)
LandMerged(u) ==
  /\ ProofGate(u)
  /\ merged' = [merged EXCEPT ![u] = tree[u]]
  /\ Mark({"landed"})
  /\ IF Persisted({"landed"})
     THEN /\ landed' = landed \cup {u}
          /\ attempts' = [attempts EXCEPT ![u] = 0]
          /\ blocks' = [blocks EXCEPT ![u] = 0]
          /\ UNCHANGED halted
     ELSE halted' = halted \cup {u} /\ UNCHANGED <<landed, attempts, blocks>>
  /\ UNCHANGED <<staged, tries>>

LandStaged(u) ==
  /\ ProofGate(u) /\ u \notin FeatureUnits
  /\ Mark({"staged"})
  /\ IF Persisted({"staged"})
     THEN /\ staged' = staged \cup {u}
          /\ attempts' = [attempts EXCEPT ![u] = 0]
          /\ blocks' = [blocks EXCEPT ![u] = 0]
          /\ UNCHANGED halted
     ELSE halted' = halted \cup {u} /\ UNCHANGED <<staged, attempts, blocks>>
  /\ UNCHANGED <<merged, landed, tries>>

LandRetryable(u) ==
  /\ ProofGate(u) /\ u \notin FeatureUnits
  /\ UNCHANGED <<merged, session, ledger, tries>>

(* Bug: the cap is compared with the count before this block.              *)
BugLandBlockedLate(u) ==
  /\ blocks' = [blocks EXCEPT ![u] = @ + 1]
  /\ tries' = [tries EXCEPT ![u] = @ + 1]
  /\ IF blocks[u] >= LandRetryCap
     THEN Park(u)
     ELSE UNCHANGED <<halted, ledger>>
  /\ UNCHANGED <<merged, landed, staged, attempts>>

LandBlocked(u) ==
  /\ blocks' = [blocks EXCEPT ![u] = @ + 1]
  /\ tries' = [tries EXCEPT ![u] = @ + 1]
  /\ IF blocks[u] + 1 >= LandRetryCap
     THEN Park(u)
     ELSE UNCHANGED <<halted, ledger>>
  /\ UNCHANGED <<merged, landed, staged, attempts>>

Land ==
  /\ pc = "land"
  /\ LandMerged(cur) \/ LandStaged(cur) \/ LandRetryable(cur) \/ LandBlocked(cur)
  /\ pc' = "pick"
  /\ UNCHANGED <<status, tree, dirty, proof, adopted, cur, todo, key, bounds>>

(* The units are done; what follows is the admission drain and the purge.  *)
UnitsDone ==
  /\ pc = "pick" /\ todo = {}
  /\ pc' = "purge"
  /\ UNCHANGED <<world, session, ledger, cur, todo, key, bounds, tries>>

(* Bug: the purge keeps only the trees of the units that are idle.         *)
BugLiveEntryIdle(e, h) == status[e[2]] = "idle" /\ e[3] = h[e[2]]

LiveEntry(e, h) == e[2] \in Roster /\ e[3] = h[e[2]]

(* purgeStale: entries of other trees or of units off the roster go.       *)
Purge ==
  /\ pc = "purge" /\ pc' = "rest"
  /\ \E h \in [Units -> Trees \cup {Unknown}] :
       /\ \A u \in Units : h[u] = tree[u] \/ (HeadMayFail /\ h[u] = Unknown)
       /\ mem' = {e \in mem : LiveEntry(e, h)}
       /\ disk' \in IF mem' = mem THEN {disk}
                    ELSE {mem'} \cup (IF WriteMayFail THEN {disk} ELSE {})
  /\ UNCHANGED <<world, session, decided, cur, todo, key, bounds, tries>>

-----------------------------------------------------------------------------
(* What happens between the tick's steps *)

(* Bug: the steer leaves the in-memory decisions alone.                    *)
BugInvalidateNothing(u) == UNCHANGED <<staged, landed, halted>>

(* invalidate(): a human's new instruction makes the decisions stale.      *)
Invalidate(u) ==
  /\ staged' = staged \ {u} /\ landed' = landed \ {u} /\ halted' = halted \ {u}

InFlight(u) == cur = u /\ pc \notin {"rest", "pick", "purge"}

Steer(u) ==
  /\ status[u] # "gone" /\ steers < MaxSteers
  /\ SteerMidTick \/ ~InFlight(u)
  /\ steers' = steers + 1
  /\ Invalidate(u)
  /\ status' = [status EXCEPT ![u] = "working"]
  /\ adopted' = [adopted EXCEPT ![u] = FALSE]
  /\ tries' = [tries EXCEPT ![u] = 0]
  /\ UNCHANGED <<tree, dirty, merged, proof, attempts, blocks, ledger, loop, crashes>>

(* A working agent edits, or commits what it edited.                       *)
Edit(u) ==
  /\ status[u] = "working" /\ tree[u] < MaxTree
  /\ \/ dirty' = [dirty EXCEPT ![u] = TRUE] /\ UNCHANGED <<tree, tries>>
     \/ /\ dirty' = [dirty EXCEPT ![u] = FALSE]
        /\ tree' = [tree EXCEPT ![u] = @ + 1]
        /\ tries' = [tries EXCEPT ![u] = 0]
  /\ UNCHANGED <<status, merged, proof, adopted, session, ledger, loop, bounds>>

TurnEnd(u) ==
  /\ status[u] = "working"
  /\ status' = [status EXCEPT ![u] = "idle"]
  /\ UNCHANGED <<tree, dirty, merged, proof, adopted, session, ledger, loop, bounds, tries>>

(* The operator lands held or parked work by hand.                         *)
OperatorLand(u) ==
  /\ u \in staged \cup halted /\ ProofGate(u) /\ tree[u] # merged[u]
  /\ ~InFlight(u)
  /\ merged' = [merged EXCEPT ![u] = tree[u]]
  /\ UNCHANGED <<status, tree, dirty, proof, adopted, session, ledger, loop, bounds, tries>>

(* adoptOrphanedAgents' check of the ledger: by the bare branch name.      *)
AdoptionBarred(u) == <<"halted", u, Branch>> \in disk

(* The daemon dies and boots.  The agents of "lost" died with it: theirs   *)
(* are re-created over their worktrees when these hold work.               *)
Restart(lost) ==
  /\ crashes < MaxCrashes
  /\ crashes' = crashes + 1
  /\ LET back == {u \in lost : HasWork(u) /\ ~AdoptionBarred(u)}
     IN  /\ adopted' = [u \in Units |-> u \in back]
         /\ status' = [u \in Units |-> IF u \in back THEN "idle"
                                       ELSE IF u \in lost THEN "gone" ELSE status[u]]
  /\ halted' = {} /\ landed' = {} /\ staged' = {}
  /\ attempts' = [u \in Units |-> 0] /\ blocks' = [u \in Units |-> 0]
  /\ tries' = [u \in Units |-> 0]
  /\ mem' = disk
  /\ pc' = "rest" /\ todo' = {}
  /\ UNCHANGED <<tree, dirty, merged, proof, disk, decided, cur, key, steers>>

-----------------------------------------------------------------------------
Tick ==
  \/ TickBegin \/ Settle \/ ReadKey \/ CheckWork \/ Verify \/ Land
  \/ UnitsDone \/ Purge
  \/ \E u \in Units : Consider(u)

Next ==
  \/ Tick
  \/ \E u \in Units : Steer(u) \/ Edit(u) \/ TurnEnd(u) \/ OperatorLand(u)
  \/ \E lost \in SUBSET Roster : Restart(lost)

Spec == Init /\ [][Next]_vars

(* The timer keeps ticking and every await ends, the acceptance suite's    *)
(* among them; turns end; a main checkout is not busy for ever.            *)
Fairness ==
  /\ WF_vars(Tick)
  /\ \A u \in Units : WF_vars(TurnEnd(u))
  /\ \A u \in Units : SF_vars(pc = "land" /\ cur = u /\ Land /\ ~LandRetryable(u))

FairSpec == Spec /\ Fairness

-----------------------------------------------------------------------------
(* Properties *)

(* The loop takes up no tree for which a final decision was put on disk,   *)
(* in this run of the daemon or before a restart.                          *)
Drives == pc \notin {"verify", "land"} /\ pc' \in {"verify", "land"}

NotRedriven == [][Drives => <<cur, tree[cur]>> \notin decided]_vars

(* Nothing is verified whose "verifying" is not on disk: a write that      *)
(* fails stops the unit before its gate and its land.                      *)
RecordedFirst == pc = "verify" => <<"verifying", cur, key>> \in disk

(* A tree's blocked lands stop at the cap, until a human or a restart.     *)
LandBounded == \A u \in Units : tries[u] <= LandRetryCap

(* What was decided about a branch's present tree is in memory and on disk, *)
(* and nothing is recorded about a tree not reached yet.                    *)
Kept ==
  /\ \A u \in Roster : <<u, tree[u]>> \in decided
                       => \E k \in Final : <<k, u, tree[u]>> \in mem \cap disk
  /\ \A u \in Roster, k \in Final : <<k, u, tree[u]>> \in disk => <<k, u, tree[u]>> \in mem
  /\ \A k \in Kinds, u \in Units, t \in Keys : <<k, u, t>> \in mem \cup disk => t <= tree[u]
  /\ \A u \in Units, t \in Trees : <<u, t>> \in decided => t <= tree[u]

(* The unit in hand is on the roster, its key is no later than its branch,  *)
(* and while its work is looked for it is undecided.                        *)
Placed ==
  /\ pc \in {"settle", "readKey", "hasWork", "verify", "land"} => cur \in Roster
  /\ pc \in {"hasWork", "verify", "land"} => key <= tree[cur]
  /\ pc = "hasWork" => <<cur, tree[cur]>> \notin decided

(* The inductive form of NotRedriven, for a HEAD that can be read.          *)
DecisionsKept == Kept /\ Placed

(* The inductive form of LandBounded: a unit the loop still acts on has a   *)
(* block counted for each of its tries.                                     *)
BlocksCounted ==
  /\ LandBounded
  /\ \A u \in Units \ halted : tries[u] < LandRetryCap
  /\ \A u \in Units \ (halted \cup landed \cup staged) : tries[u] <= blocks[u]
  /\ pc \in {"settle", "readKey", "hasWork", "verify", "land"} => cur \notin halted
  /\ pc \in {"hasWork", "verify", "land"} => cur \notin landed \cup staged

(* An entry that is only in memory is one of a unit its failed write has    *)
(* halted.                                                                  *)
Recorded ==
  \A k \in Kinds, u \in Units, t \in Keys :
    <<k, u, t>> \in mem \ disk => WriteMayFail /\ u \in halted

(* The inductive form of RecordedFirst.                                     *)
UnrecordedHalted == RecordedFirst /\ Recorded

(* What the loop owes an idle unit with unmerged work: to merge it, hold   *)
(* it, park it, or have decided about this very tree.                      *)
Settled(u) ==
  \/ status[u] # "idle"
  \/ ~HasWork(u)
  \/ u \in staged \cup halted
  \/ <<u, tree[u]>> \in decided

Reached(u) == ~Settled(u) ~> Settled(u)

(* No idle unit's work is passed over for ever, a steered unit's included. *)
WorkReached == \A u \in Units : Reached(u)
=============================================================================
