------------------------- MODULE WorkflowRunProofs --------------------------
(* Proofs about WorkflowRun for every graph, cap and bound: its state is well   *)
(* typed, and as long as no checkpoint was lost or overwritten a resume starts  *)
(* where the run stood, the visit and poison caps hold over all resumes, and a  *)
(* marked run stays down.                                                       *)
EXTENDS WorkflowRun, TLAPS

(* What the graph's assumption says of its parts.                               *)
LEMMA GraphTyped ==
  /\ Start \in Nodes /\ None \notin Nodes /\ Edges \subseteq [from : Nodes, on : {"succeeded", "failed", "any", "label"}, to : Nodes]
  /\ Overflow \in [Nodes -> Nodes \cup {None}] /\ Retry \in [Nodes -> Nodes \cup {None}]
BY GraphAssumption

LEMMA RoutesTyped ==
  ASSUME NEW n \in Nodes, NEW o PROVE Routes(n, o) \subseteq Nodes
<1>1. \A on : Targets(n, on) \subseteq Nodes
  BY GraphAssumption DEF Targets
<1> QED
  BY <1>1, GraphAssumption DEF Routes

LEMMA OnwardTyped ==
  ASSUME NEW n \in Nodes, NEW o, NEW out PROVE Onward(n, o, out) \subseteq Nodes
<1>1. \A v : \A m \in Nodes : FirstUntried(m, v) \subseteq Nodes
  BY GraphAssumption DEF FirstUntried
<1> QED
  BY <1>1, RoutesTyped, GraphAssumption DEF Onward

LEMMA CheckpointTyped ==
  ASSUME NEW n \in Nodes, NEW v \in [Nodes -> Nat], NEW k \in Nat
  PROVE  CheckpointAt(n, v, k) \in Checkpoint
BY DEF CheckpointAt, Checkpoint

(* Saving a well-typed record keeps what is saved well typed.                   *)
LEMMA PersistTyped ==
  ASSUME TypeOK, Persist, mem' \in Checkpoint \cup {None}
  PROVE  /\ saving' \in Checkpoint \cup {None} /\ queued' \in BOOLEAN
         /\ disk' \in Checkpoint \cup {None}
<1>1. queued' \in BOOLEAN
  BY Zenon DEF Persist
<1> QED
  BY <1>1 DEF TypeOK, Persist

LEMMA RelaunchTyped ==
  ASSUME TypeOK, NEW c \in Checkpoint, Relaunch(c)
  PROVE  /\ pc' = "arrive" /\ resume' = "cold" /\ host' \in BOOLEAN /\ turn' = "idle"
         /\ at' \in Nodes /\ visits' \in [Nodes -> Nat] /\ attempts' = 0
         /\ said' \in [Nodes -> Outputs \cup {None}]
         /\ mem' \in Checkpoint /\ ghosts' \subseteq Ghost /\ reruns' = 0 /\ warms' = 0
<1>1. mem' \in Checkpoint /\ mem'.attempts = 0
  BY DEF Relaunch, Checkpoint
<1>2. LeftBehind \subseteq Ghost
  BY DEF LeftBehind, Ghost, TypeOK
<1>3. ghosts' \subseteq Ghost
  BY <1>2 DEF Relaunch, TypeOK
<1> QED
  BY <1>1, <1>3 DEF Relaunch, ResumeFrom, Checkpoint

LEMMA TypeInductive == TypeOK /\ [Next]_vars => TypeOK'
<1> SUFFICES ASSUME TypeOK, [Next]_vars PROVE TypeOK'
  OBVIOUS
<1> USE BoundAssumption DEF engine, thread, store, counts, history
<1>1. CASE Begin
  BY <1>1 DEF TypeOK, Begin
<1>2. CASE ReachExit \/ Dangle \/ HitCap \/ PoisonCap \/ Throw
  BY <1>2 DEF TypeOK, ReachExit, Dangle, HitCap, PoisonCap, Throw, Stop
<1>3. CASE FollowOverflow
  BY <1>3, GraphTyped DEF TypeOK, FollowOverflow
<1>4. CASE Enter
  <2>1. visits' \in [Nodes -> Nat] /\ attempts' \in Nat
    BY <1>4 DEF Enter, Counted, TypeOK
  <2>2. mem' \in Checkpoint
    BY <1>4, <2>1, CheckpointTyped DEF Enter, Emit, TypeOK
  <2>3. saving' \in Checkpoint \cup {None} /\ queued' \in BOOLEAN /\ disk' \in Checkpoint \cup {None}
    BY <1>4, <2>2, PersistTyped DEF Enter, Emit
  <2>4. told' \in BOOLEAN
    BY <1>4, Zenon DEF Enter
  <2>5. reruns' \in Nat /\ warms' \in Nat
    BY <1>4 DEF Enter, TypeOK
  <2> QED
    BY <1>4, <2>1, <2>2, <2>3, <2>4, <2>5 DEF Enter, TypeOK
<1>5. CASE Deliver \/ TurnEnds
  BY <1>5 DEF TypeOK, Deliver, TurnEnds
<1>6. CASE Return
  <2>1. PICK o, out, next :
          /\ o \in Outcome(at) /\ out \in Printed(at, o) /\ next \in Onward(at, o, out)
          /\ at' = next
          /\ said' = IF at \in Gate /\ o = "failed" THEN [said EXCEPT ![at] = out] ELSE said
          /\ Emit(ExitCheckpoint(next, visits))
    BY <1>6 DEF Return
  <2>2. next \in Nodes
    BY <2>1, OnwardTyped DEF TypeOK
  <2>3. mem' \in Checkpoint
    BY <2>1, <2>2, CheckpointTyped DEF Emit, ExitCheckpoint, TypeOK
  <2>4. saving' \in Checkpoint \cup {None} /\ queued' \in BOOLEAN /\ disk' \in Checkpoint \cup {None}
    BY <2>1, <2>3, PersistTyped DEF Emit
  <2>5. said' \in [Nodes -> Outputs \cup {None}]
    BY <2>1 DEF Printed, TypeOK
  <2>6. finished' \in [Nodes -> Nat]
    BY <1>6 DEF Return, TypeOK
  <2> QED
    BY <1>6, <2>1, <2>2, <2>3, <2>4, <2>5, <2>6 DEF Return, TypeOK
<1>7. CASE DeadEnd
  BY <1>7 DEF TypeOK, DeadEnd
<1>8. CASE Mark
  <2> DEFINE base == IF mem # None THEN mem ELSE CheckpointAt(at, visits, attempts)
  <2>1. base \in Checkpoint
    BY CheckpointTyped DEF TypeOK
  <2>2. mem' \in Checkpoint
    BY <1>8, <2>1 DEF Mark, Emit, Checkpoint
  <2>3. saving' \in Checkpoint \cup {None} /\ queued' \in BOOLEAN /\ disk' \in Checkpoint \cup {None}
    BY <1>8, <2>2, PersistTyped DEF Mark, Emit
  <2> QED
    BY <1>8, <2>2, <2>3 DEF Mark, TypeOK
<1>9. CASE Saved
  <2>1. /\ disk' \in Checkpoint \cup {None} /\ saving' \in Checkpoint \cup {None}
        /\ queued' \in BOOLEAN
    BY <1>9 DEF TypeOK, Saved
  <2> QED
    BY <1>9, <2>1 DEF TypeOK, Saved
<1>10. CASE Crash
  <2>1. clean' \in BOOLEAN
    BY <1>10, Zenon DEF Crash
  <2>2. crashes' \in 0..MaxCrashes
    BY <1>10 DEF Crash, TypeOK
  <2>3. host' \in BOOLEAN /\ turn' \in {"idle", "streaming"}
    BY <1>10 DEF Crash, TypeOK
  <2>4. said' \in [Nodes -> Outputs \cup {None}] /\ ghosts' \subseteq Ghost
    BY <1>10 DEF Crash, TypeOK
  <2>5. /\ mem' \in Checkpoint \cup {None} /\ disk' \in Checkpoint \cup {None}
        /\ saving' \in Checkpoint \cup {None} /\ queued' \in BOOLEAN
    BY <1>10 DEF Crash, TypeOK
  <2> QED
    BY <1>10, <2>1, <2>2, <2>3, <2>4, <2>5 DEF Crash, TypeOK
<1>11. CASE Boot
  <2>1. CASE disk # None /\ ~Inert(disk)
    BY <1>11, <2>1 DEF Boot, ResumeFrom, TypeOK, Checkpoint
  <2>2. CASE ~(disk # None /\ ~Inert(disk))
    BY <1>11, <2>2 DEF Boot, TypeOK
  <2> QED
    BY <2>1, <2>2
<1>12. CASE OperatorRestart
  <2>1. restarts' \in 0..MaxRestarts
    BY <1>12 DEF OperatorRestart, TypeOK
  <2>2. mem \in Checkpoint
    BY <1>12 DEF OperatorRestart, TypeOK
  <2> QED
    BY <1>12, <2>1, <2>2, RelaunchTyped DEF OperatorRestart, TypeOK
<1>13. CASE ContinueRun
  <2> DEFINE c == [mem EXCEPT !.end = "none",
                              !.visits = [n \in Nodes |-> IF n \in Ladder THEN 0 ELSE @[n]]]
  <2>1. c \in Checkpoint
    BY <1>13 DEF ContinueRun, TypeOK, Checkpoint
  <2>2. continues' \in 0..MaxContinues
    BY <1>13 DEF ContinueRun, TypeOK
  <2>3. Relaunch(c)
    BY <1>13 DEF ContinueRun
  <2> HIDE DEF c
  <2>4. mem' \in Checkpoint
    BY <2>1, <2>3, RelaunchTyped
  <2>5. saving' \in Checkpoint \cup {None} /\ queued' \in BOOLEAN /\ disk' \in Checkpoint \cup {None}
    BY <1>13, <2>4, PersistTyped DEF ContinueRun
  <2> QED
    BY <1>13, <2>1, <2>2, <2>3, <2>5, RelaunchTyped DEF ContinueRun, TypeOK
<1>14. CASE GhostReturns
  <2>1. PICK g \in ghosts, o \in {"succeeded", "failed"} :
          /\ IF Routes(g.at, o) = {}
             THEN /\ mem # None
                  /\ IF o = "failed" THEN Emit([mem EXCEPT !.end = "final"]) ELSE UNCHANGED store
             ELSE \E next \in Routes(g.at, o) : Emit(ExitCheckpoint(next, g.visits))
          /\ ghosts' = ghosts \ {g}
    BY <1>14 DEF GhostReturns
  <2>2. g.at \in Nodes /\ g.visits \in [Nodes -> Nat]
    BY DEF TypeOK, Ghost
  <2>3. mem' \in Checkpoint \cup {None} /\ (UNCHANGED store \/ Persist)
    <3>1. CASE Routes(g.at, o) = {}
      BY <2>1, <3>1 DEF Emit, TypeOK, Checkpoint
    <3>2. CASE Routes(g.at, o) # {}
      <4>1. PICK next \in Routes(g.at, o) : Emit(ExitCheckpoint(next, g.visits))
        BY <2>1, <3>2
      <4>2. ExitCheckpoint(next, g.visits) \in Checkpoint
        BY <2>2, RoutesTyped, CheckpointTyped DEF ExitCheckpoint
      <4> QED
        BY <4>1, <4>2 DEF Emit
    <3> QED
      BY <3>1, <3>2
  <2>4. saving' \in Checkpoint \cup {None} /\ queued' \in BOOLEAN /\ disk' \in Checkpoint \cup {None}
    BY <2>3, PersistTyped DEF TypeOK
  <2> QED
    BY <1>14, <2>1, <2>3, <2>4 DEF GhostReturns, TypeOK
<1>15. CASE UNCHANGED vars
  BY <1>15 DEF vars, TypeOK
<1> QED
  BY <1>1, <1>2, <1>3, <1>4, <1>5, <1>6, <1>7, <1>8, <1>9, <1>10, <1>11, <1>12, <1>13,
     <1>14, <1>15 DEF Next, Arrive, Work, Upset

(* The run, its record and what is saved of it are well typed.                  *)
THEOREM TypeCorrect == Spec => []TypeOK
<1>1. Init => TypeOK
  <2> SUFFICES ASSUME Init PROVE TypeOK
    OBVIOUS
  <2>1. at \in Nodes /\ 0 \in 0..MaxCrashes /\ 0 \in 0..MaxRestarts /\ 0 \in 0..MaxContinues
    BY GraphTyped, BoundAssumption DEF Init
  <2>2. visits \in [Nodes -> Nat] /\ finished \in [Nodes -> Nat]
    BY DEF Init
  <2>3. said \in [Nodes -> Outputs \cup {None}]
    BY DEF Init
  <2>4. told \in BOOLEAN /\ host \in BOOLEAN /\ queued \in BOOLEAN /\ clean \in BOOLEAN
    BY Zenon DEF Init
  <2> QED
    BY <2>1, <2>2, <2>3, <2>4 DEF Init, TypeOK
<1> QED
  BY <1>1, TypeInductive, PTL DEF Spec

------------------------------------------------------------------------------
(* The inductive invariant.                                                     *)

Runs(n) == Kind[n] \notin {"exit", "missing"}

(* A node may be executed: entered, about to be, or to be resumed.              *)
InFlight ==
  \/ pc = "execute"
  \/ pc = "arrive" /\ resume # "no"
  \/ pc = "over" /\ mem # None /\ mem.end = "none"
  \/ pc = "down" /\ disk # None /\ disk.end = "none"

Budget(n) == continues * (Limit[n] + 1)

(* What holds whether or not a checkpoint was lost.                             *)
Phases ==
  /\ pc = "down" => mem = None /\ saving = None
  /\ pc = "off" => mem = None /\ resume = "no" /\ reruns = 0 /\ ghosts = {}
  /\ pc = "execute" => Runs(at)
  /\ pc = "arrive" /\ resume = "no" => reruns = 0

(* The record, or after a crash what is on disk, has the engine's counters ...  *)
Synced ==
  /\ mem # None => mem.visits = visits /\ mem.attempts = attempts
  /\ pc = "down" /\ disk # None => disk.visits = visits /\ disk.attempts = attempts

(* ... and, unless it is marked, names the node where the run stands.           *)
Stands ==
  /\ mem # None /\ mem.end = "none" /\ pc \in {"execute", "over"} => mem.at = at
  /\ mem # None /\ pc = "arrive" /\ ~Runs(at) => mem.at = at
  /\ pc = "down" /\ disk # None /\ disk.end = "none" => disk.at = at

(* A marker in the record means that the run is over, and a final one on disk   *)
(* or on its way there is in the record too.                                    *)
Marked ==
  /\ mem # None /\ mem.end # "none" => pc = "over"
  /\ \A c \in {disk, saving} : c # None /\ c.end = "final"
                                 => (mem # None /\ mem.end = "final") \/ pc = "down"

(* Every finished execution was counted, but for the one each "continue" does   *)
(* not count, and the one in flight has its visit too.                          *)
Visited ==
  /\ \A n \in Nodes : visits[n] <= Limit[n] /\ finished[n] <= visits[n] + Budget(n)
  /\ InFlight /\ Runs(at) => finished[at] + 1 <= visits[at] + Budget(at)

(* Cold executions are counted as attempts until a warm resume forgets them.    *)
Tried == attempts <= ResumeCap /\ reruns <= ResumeCap * warms + attempts

Standing == Phases /\ (clean => Synced /\ Stands /\ Marked /\ Visited /\ Tried)
LEMMA BudgetGrows ==
  ASSUME NEW c \in Nat, NEW l \in Nat
  PROVE  c * (l + 1) \in Nat /\ (c + 1) * (l + 1) = c * (l + 1) + l + 1
OBVIOUS

LEMMA CapGrows ==
  ASSUME NEW r \in Nat, NEW w \in Nat
  PROVE  r * w \in Nat /\ r * (w + 1) = r * w + r
OBVIOUS

LEMMA EmitFacts ==
  ASSUME NEW c, Emit(c)
  PROVE  mem' = c /\ disk' = disk /\ saving' \in {mem', saving}
BY DEF Emit, Persist

(* An overflow target is a node that runs.                                      *)
LEMMA OverflowRuns ==
  \A n \in Nodes : Overflow[n] # None => Overflow[n] \in Nodes /\ Runs(Overflow[n])
BY GraphAssumption DEF Runs

LEMMA EnterStanding ==
  ASSUME TypeOK, TypeOK', Standing, Enter PROVE Standing'
<1> USE BoundAssumption DEF thread, counts
<1>1. /\ mem' = CheckpointAt(at, visits', attempts') /\ disk' = disk /\ saving' \in {mem', saving}
      /\ pc = "arrive" /\ pc' = "execute" /\ at' = at /\ Runs(at)
  BY EmitFacts DEF Enter, Halts, Runs
<1>2. mem' # None => mem'.visits = visits' /\ mem'.attempts = attempts' /\ mem'.end = "none" /\ mem'.at = at
  BY <1>1 DEF CheckpointAt
<1>3. Phases'
  BY <1>1 DEF Phases, Runs
<1>4. ASSUME clean' PROVE Synced' /\ Stands'
  BY <1>1, <1>2 DEF Synced, Stands, Runs
<1>5. clean' = clean
  BY DEF Enter
<1>6. ASSUME clean' PROVE Marked'
  <2>1. \A c \in {disk, saving} : c # None => c.end # "final"
    BY <1>1, <1>5, <1>6 DEF Standing, Marked
  <2>2. mem'.end = "none"
    BY <1>1 DEF CheckpointAt
  <2> QED
    BY <1>1, <2>1, <2>2 DEF Marked
<1>7. ASSUME clean' PROVE Visited'
  <2>1. \A n \in Nodes : Budget(n)' = Budget(n) /\ Budget(n) \in Nat /\ Limit[n] \in Nat
                         /\ visits[n] \in Nat /\ finished[n] \in Nat
    BY BudgetGrows DEF Budget, Enter, TypeOK
  <2>2. finished' = finished /\ at \in Nodes
    BY DEF Enter, TypeOK
  <2>3. CASE resume = "no"
    <3>1. visits' = [visits EXCEPT ![at] = @ + 1] /\ ~(visits[at] >= Limit[at])
      BY <2>3 DEF Enter, Counted, Capped
    <3>2. \A n \in Nodes : visits'[n] = IF n = at THEN visits[n] + 1 ELSE visits[n]
      BY <3>1 DEF TypeOK
    <3>3. \A n \in Nodes : visits[n] <= Limit[n] /\ finished[n] <= visits[n] + Budget(n)
      BY <1>5, <1>7 DEF Standing, Visited
    <3> HIDE DEF Budget
    <3> QED
      BY <1>1, <2>1, <2>2, <3>1, <3>2, <3>3 DEF Visited
  <2>4. CASE resume # "no"
    <3>1. visits' = visits /\ InFlight
      BY <1>1, <2>4 DEF Enter, Counted, InFlight
    <3>2. Visited
      BY <1>5, <1>7 DEF Standing
    <3> QED
      BY <1>1, <2>1, <2>2, <3>1, <3>2 DEF Visited, Runs
  <2> QED
    BY <2>3, <2>4
<1>8. ASSUME clean' PROVE Tried'
  <2>1. Tried /\ attempts \in Nat /\ reruns \in Nat /\ warms \in Nat /\ ResumeCap \in Nat
    BY <1>5, <1>8 DEF Standing, TypeOK
  <2>2. ResumeCap * warms \in Nat /\ ResumeCap * (warms + 1) = ResumeCap * warms + ResumeCap
    BY <2>1, CapGrows
  <2>3. CASE resume = "cold"
    <3>1. attempts' = attempts + 1 /\ reruns' = reruns + 1 /\ warms' = warms /\ ~(attempts >= ResumeCap)
      BY <2>3 DEF Enter, Poisoned
    <3> QED
      BY <2>1, <2>2, <3>1 DEF Tried
  <2>4. CASE resume = "warm"
    <3>1. attempts' = 0 /\ reruns' = reruns /\ warms' = warms + 1
      BY <2>4 DEF Enter
    <3> QED
      BY <2>1, <2>2, <3>1 DEF Tried
  <2>5. CASE resume = "no"
    <3>1. attempts' = 0 /\ reruns' = reruns /\ warms' = warms /\ reruns = 0
      BY <1>1, <2>5 DEF Enter, Standing, Phases
    <3> QED
      BY <2>1, <2>2, <3>1 DEF Tried
  <2> QED
    BY <2>3, <2>4, <2>5 DEF TypeOK
<1> QED
  BY <1>3, <1>4, <1>6, <1>7, <1>8 DEF Standing

LEMMA ReturnStanding ==
  ASSUME TypeOK, TypeOK', Standing, Return PROVE Standing'
<1> USE BoundAssumption DEF thread, counts
<1>1. /\ disk' = disk /\ saving' \in {mem', saving}
      /\ mem' # None => mem'.at = at' /\ mem'.visits = visits /\ mem'.attempts = 0
      /\ mem'.end = "none"
  <2>1. PICK next : at' = next /\ Emit(ExitCheckpoint(next, visits))
    BY DEF Return
  <2> QED
    BY <2>1, EmitFacts DEF ExitCheckpoint, CheckpointAt
<1>2. pc = "execute" /\ pc' = "arrive" /\ resume' = "no" /\ visits' = visits /\ attempts' = 0
      /\ reruns' = 0 /\ warms' = 0 /\ clean' = clean /\ continues' = continues
      /\ finished' = [finished EXCEPT ![at] = @ + 1]
  BY DEF Return
<1>3. Phases'
  BY <1>2 DEF Phases
<1>4. ASSUME clean' PROVE Synced' /\ Stands'
  BY <1>1, <1>2 DEF Synced, Stands
<1>5. ASSUME clean' PROVE Marked'
  <2>1. \A c \in {disk, saving} : c # None => c.end # "final"
    BY <1>2, <1>5 DEF Standing, Marked
  <2> QED
    BY <1>1, <2>1 DEF Marked
<1>6. ASSUME clean' PROVE Visited'
  <2>1. Visited /\ InFlight /\ Runs(at)
    BY <1>2, <1>6 DEF Standing, InFlight, Phases
  <2>2. \A n \in Nodes : Budget(n)' = Budget(n)
    BY <1>2 DEF Budget
  <2>3. at \in Nodes /\ \A n \in Nodes : finished'[n] = IF n = at THEN finished[n] + 1 ELSE finished[n]
    BY <1>2 DEF TypeOK
  <2>4. ~InFlight'
    BY <1>2 DEF InFlight
  <2> QED
    BY <1>2, <2>1, <2>2, <2>3, <2>4 DEF Visited
<1>7. ASSUME clean' PROVE Tried'
  BY <1>2 DEF Tried
<1> QED
  BY <1>3, <1>4, <1>5, <1>6, <1>7 DEF Standing

(* The actions that leave the record, the counters and the history alone.       *)
Moves == \/ Begin \/ ReachExit \/ Dangle \/ HitCap \/ PoisonCap \/ FollowOverflow
         \/ Deliver \/ TurnEnds \/ DeadEnd \/ Throw \/ UNCHANGED vars

LEMMA MoveStanding ==
  ASSUME TypeOK, TypeOK', Standing, Moves PROVE Standing'
<1> USE DEF engine, thread, store, counts, history, vars
<1>1. UNCHANGED <<store, visits, attempts, resume, ghosts, counts, history>>
  BY DEF Moves, Begin, ReachExit, Dangle, HitCap, PoisonCap, FollowOverflow, Deliver, TurnEnds,
         DeadEnd, Throw, Stop
<1>2. /\ pc' = "down" => pc = "down" /\ at' = at
      /\ pc' = "off" => pc = "off"
      /\ pc' = "execute" => pc = "execute" /\ at' = at
      /\ pc' = "over" => at' = at /\ pc \in {"over", "execute", "arrive"}
      /\ pc' = "over" /\ pc = "arrive" => ~Runs(at)
      /\ pc = "over" => pc' = "over"
      /\ pc = "down" => pc' = "down"
  BY DEF Moves, Begin, ReachExit, Dangle, HitCap, PoisonCap, FollowOverflow, Deliver, TurnEnds,
         DeadEnd, Throw, Stop, Runs
<1>3. /\ pc' = "arrive" => \/ pc = "off"
                           \/ pc = "arrive" /\ at' = at
                           \/ pc = "arrive" /\ resume = "no" /\ Runs(at')
  BY OverflowRuns DEF Moves, Begin, ReachExit, Dangle, HitCap, PoisonCap, FollowOverflow, Deliver,
         TurnEnds, DeadEnd, Throw, Stop, Capped, TypeOK
<1>4. Phases'
  BY <1>1, <1>2, <1>3 DEF Standing, Phases
<1>5. ASSUME clean' PROVE Synced' /\ Stands' /\ Marked' /\ Tried'
  <2>1. Phases /\ Synced /\ Stands /\ Marked /\ Tried
    BY <1>1, <1>5 DEF Standing
  <2>2. Synced' /\ Tried'
    BY <1>1, <1>2, <2>1 DEF Synced, Tried
  <2>3. Stands'
    BY <1>1, <1>2, <1>3, <2>1 DEF Stands, Phases
  <2>4. Marked'
    BY <1>1, <1>2, <2>1 DEF Marked
  <2> QED
    BY <2>1, <2>2, <2>3, <2>4
<1>6. ASSUME clean' PROVE Visited'
  <2>1. Visited /\ Phases
    BY <1>1, <1>6 DEF Standing
  <2>2. \A n \in Nodes : Budget(n)' = Budget(n)
    BY <1>1 DEF Budget
  <2>3. InFlight' /\ Runs(at)' => InFlight /\ Runs(at) /\ at' = at
    <3>1. resume \in {"no", "warm", "cold"} /\ resume' = resume /\ mem' = mem /\ disk' = disk
      BY <1>1 DEF TypeOK
    <3>2. pc = "off" => resume = "no"
      BY DEF Standing, Phases
    <3> QED
      BY <1>2, <1>3, <2>1, <3>1, <3>2 DEF InFlight, Runs, Phases
  <2> QED
    BY <1>1, <2>1, <2>2, <2>3 DEF Visited, TypeOK
<1> QED
  BY <1>4, <1>5, <1>6 DEF Standing

LEMMA SavedStanding ==
  ASSUME TypeOK, Standing, Saved PROVE Standing'
<1> USE DEF engine, counts, history
<1>1. /\ disk' = saving /\ saving' \in {mem, None} /\ pc # "down"
      /\ UNCHANGED <<pc, at, visits, attempts, resume, mem, ghosts, continues, finished, reruns, warms, clean>>
  <2>1. pc # "down"
    BY DEF Saved, Standing, Phases
  <2> QED
    BY <2>1 DEF Saved
<1>2. Phases'
  BY <1>1 DEF Standing, Phases
<1>3. ASSUME clean' PROVE Synced' /\ Stands' /\ Tried'
  BY <1>1, <1>3 DEF Standing, Synced, Stands, Tried
<1>4. ASSUME clean' PROVE Marked'
  BY <1>1, <1>4 DEF Standing, Marked
<1>5. ASSUME clean' PROVE Visited'
  <2>1. Visited /\ (InFlight' => InFlight)
    BY <1>1, <1>5 DEF Standing, InFlight
  <2>2. \A n \in Nodes : Budget(n)' = Budget(n)
    BY <1>1 DEF Budget
  <2> QED
    BY <1>1, <2>1, <2>2 DEF Visited, TypeOK
<1> QED
  BY <1>2, <1>3, <1>4, <1>5 DEF Standing

LEMMA MarkStanding ==
  ASSUME TypeOK, Standing, Mark PROVE Standing'
<1> USE DEF thread, counts, history
<1> DEFINE base == IF mem # None THEN mem ELSE CheckpointAt(at, visits, attempts)
           end == IF pc = "capped" /\ at \in Continuable THEN "continuable" ELSE "final"
<1>1. mem' = [base EXCEPT !.end = end] /\ disk' = disk /\ saving' \in {mem', saving}
  BY EmitFacts DEF Mark
<1>2. base \in Checkpoint
  BY CheckpointTyped DEF TypeOK
<1>3. mem'.end = end /\ mem'.visits = base.visits /\ mem'.attempts = base.attempts /\ end # "none"
  BY <1>1, <1>2 DEF Checkpoint
<1>4. /\ pc \in {"capped", "dead"} /\ pc' = "over"
      /\ UNCHANGED <<at, visits, attempts, resume, ghosts, continues, finished, reruns, warms, clean>>
  BY DEF Mark
<1>5. Phases'
  BY <1>4 DEF Phases
<1>6. ASSUME clean' PROVE Synced' /\ Stands' /\ Tried'
  <2>1. Synced /\ Tried
    BY <1>4, <1>6 DEF Standing
  <2>2. base.visits = visits /\ base.attempts = attempts
    BY <2>1 DEF Synced, CheckpointAt
  <2> QED
    BY <1>3, <1>4, <2>1, <2>2 DEF Synced, Stands, Tried
<1>7. ASSUME clean' PROVE Marked'
  <2>1. \A c \in {disk, saving} : c # None => c.end # "final"
    BY <1>4, <1>7 DEF Standing, Marked
  <2> QED
    BY <1>1, <1>4, <2>1 DEF Marked
<1>8. ASSUME clean' PROVE Visited'
  <2>1. Visited /\ ~InFlight'
    BY <1>3, <1>4, <1>8 DEF Standing, InFlight
  <2>2. \A n \in Nodes : Budget(n)' = Budget(n)
    BY <1>4 DEF Budget
  <2> QED
    BY <1>4, <2>1, <2>2 DEF Visited
<1> QED
  BY <1>5, <1>6, <1>7, <1>8 DEF Standing

LEMMA CrashStanding ==
  ASSUME TypeOK, Standing, Crash PROVE Standing'
<1>1. /\ pc \notin {"arrive", "down"} /\ pc' = "down" /\ mem' = None /\ saving' = None /\ ghosts' = {}
      /\ UNCHANGED <<at, visits, attempts, disk, continues, finished, reruns, warms>>
      /\ clean' => clean /\ mem = disk /\ pc \notin {"capped", "dead"}
  BY DEF Crash
<1>2. Phases'
  BY <1>1 DEF Phases
<1>3. ASSUME clean' PROVE Synced' /\ Stands' /\ Marked' /\ Tried'
  <2>1. Phases /\ Synced /\ Stands /\ Tried
    BY <1>1, <1>3 DEF Standing
  <2>2. pc \in {"off", "execute", "over"}
    BY <1>1, <1>3 DEF TypeOK
  <2> QED
    BY <1>1, <1>3, <2>1, <2>2 DEF Synced, Stands, Marked, Tried, Phases
<1>4. ASSUME clean' PROVE Visited'
  <2>1. Visited /\ Phases
    BY <1>1, <1>4 DEF Standing
  <2>2. InFlight' => InFlight
    <3>1. pc \in {"off", "execute", "over"}
      BY <1>1, <1>4 DEF TypeOK
    <3> QED
      BY <1>1, <1>4, <2>1, <3>1 DEF InFlight, Phases
  <2>3. \A n \in Nodes : Budget(n)' = Budget(n)
    BY <1>1 DEF Budget
  <2> QED
    BY <1>1, <2>1, <2>2, <2>3 DEF Visited, TypeOK
<1> QED
  BY <1>2, <1>3, <1>4 DEF Standing

LEMMA BootStanding ==
  ASSUME TypeOK, Standing, Boot PROVE Standing'
<1> USE DEF thread, counts, history
<1>1. /\ pc = "down" /\ mem' = disk /\ disk' = disk /\ saving' = None
      /\ UNCHANGED <<ghosts, continues, finished, reruns, warms, clean>>
  BY DEF Boot, Standing, Phases
<1>2. CASE disk = None \/ disk.end # "none"
  <2>1. pc' = "over" /\ UNCHANGED <<at, visits, attempts, resume>>
    BY <1>2 DEF Boot, Inert
  <2>2. Phases'
    BY <2>1 DEF Phases
  <2>3. ASSUME clean' PROVE Synced' /\ Stands' /\ Marked' /\ Tried'
    BY <1>1, <1>2, <2>1, <2>3 DEF Standing, Synced, Stands, Marked, Tried
  <2>4. ASSUME clean' PROVE Visited'
    <3>1. Visited /\ ~InFlight'
      BY <1>1, <1>2, <2>1, <2>4 DEF Standing, InFlight
    <3>2. \A n \in Nodes : Budget(n)' = Budget(n)
      BY <1>1 DEF Budget
    <3> QED
      BY <1>1, <2>1, <3>1, <3>2 DEF Visited
  <2> QED
    BY <2>2, <2>3, <2>4 DEF Standing
<1>3. CASE disk # None /\ disk.end = "none"
  <2>1. /\ pc' = "arrive" /\ resume' \in {"warm", "cold"}
        /\ at' = disk.at /\ visits' = disk.visits /\ attempts' = disk.attempts
    BY <1>3 DEF Boot, Inert, ResumeFrom
  <2>2. Phases'
    BY <2>1 DEF Phases
  <2>3. ASSUME clean' PROVE at' = at /\ visits' = visits /\ attempts' = attempts
    BY <1>1, <1>3, <2>1, <2>3 DEF Standing, Synced, Stands
  <2>4. ASSUME clean' PROVE Synced' /\ Stands' /\ Marked' /\ Tried'
    BY <1>1, <1>3, <2>1, <2>3, <2>4 DEF Standing, Synced, Stands, Marked, Tried
  <2>5. ASSUME clean' PROVE Visited'
    <3>1. Visited /\ InFlight
      BY <1>1, <1>3, <2>5 DEF Standing, InFlight
    <3>2. \A n \in Nodes : Budget(n)' = Budget(n)
      BY <1>1 DEF Budget
    <3> QED
      BY <1>1, <2>3, <2>5, <3>1, <3>2 DEF Visited, TypeOK
  <2> QED
    BY <2>2, <2>4, <2>5 DEF Standing
<1> QED
  BY <1>2, <1>3

LEMMA RestartStanding ==
  ASSUME TypeOK, Standing, OperatorRestart PROVE Standing'
<1>1. /\ pc \in {"execute", "over"} /\ mem # None /\ mem.end = "none" /\ mem \in Checkpoint
      /\ disk' = disk /\ saving' = saving /\ continues' = continues /\ finished' = finished
      /\ clean' = clean /\ Relaunch(mem)
  BY DEF OperatorRestart, TypeOK
<1>2. /\ pc' = "arrive" /\ resume' = "cold" /\ at' = mem.at /\ visits' = mem.visits /\ attempts' = 0
      /\ mem'.at = mem.at /\ mem'.visits = mem.visits /\ mem'.attempts = 0 /\ mem'.end = "none"
      /\ reruns' = 0 /\ warms' = 0
  BY <1>1 DEF Relaunch, ResumeFrom, Checkpoint
<1>3. Phases'
  BY <1>2 DEF Phases
<1>4. ASSUME clean' PROVE Synced' /\ Stands' /\ Tried'
  BY <1>2, BoundAssumption DEF Synced, Stands, Tried
<1>5. ASSUME clean' PROVE Marked'
  <2>1. \A c \in {disk, saving} : c # None => c.end # "final"
    BY <1>1, <1>5 DEF Standing, Marked
  <2> QED
    BY <1>1, <1>2, <2>1 DEF Marked
<1>6. ASSUME clean' PROVE Visited'
  <2>1. Visited /\ InFlight /\ mem.at = at /\ mem.visits = visits
    BY <1>1, <1>6 DEF Standing, InFlight, Synced, Stands
  <2>2. \A n \in Nodes : Budget(n)' = Budget(n)
    BY <1>1 DEF Budget
  <2> QED
    BY <1>1, <1>2, <2>1, <2>2 DEF Visited, TypeOK, Runs
<1> QED
  BY <1>3, <1>4, <1>5, <1>6 DEF Standing

LEMMA ContinueStanding ==
  ASSUME TypeOK, TypeOK', Standing, ContinueRun PROVE Standing'
<1> DEFINE c == [mem EXCEPT !.end = "none",
                            !.visits = [n \in Nodes |-> IF n \in Ladder THEN 0 ELSE @[n]]]
<1>1. /\ pc = "over" /\ mem # None /\ mem.end = "continuable" /\ mem \in Checkpoint
      /\ continues' = continues + 1 /\ finished' = finished /\ clean' = clean
      /\ Relaunch(c) /\ disk' = disk /\ saving' \in {mem', saving}
  BY DEF ContinueRun, Persist, TypeOK
<1>2. /\ c \in Checkpoint /\ c.end = "none"
      /\ \A n \in Nodes : c.visits[n] = IF n \in Ladder THEN 0 ELSE mem.visits[n]
  BY <1>1 DEF Checkpoint
<1> HIDE DEF c
<1>3. /\ pc' = "arrive" /\ resume' = "cold" /\ at' = c.at /\ visits' = c.visits /\ attempts' = 0
      /\ mem'.at = c.at /\ mem'.visits = c.visits /\ mem'.attempts = 0 /\ mem'.end = "none"
      /\ reruns' = 0 /\ warms' = 0
  BY <1>1, <1>2 DEF Relaunch, ResumeFrom, Checkpoint
<1>4. Phases'
  BY <1>3 DEF Phases
<1>5. ASSUME clean' PROVE Synced' /\ Stands' /\ Tried'
  BY <1>3, BoundAssumption DEF Synced, Stands, Tried
<1>6. ASSUME clean' PROVE Marked'
  <2>1. \A d \in {disk, saving} : d # None => d.end # "final"
    BY <1>1, <1>6 DEF Standing, Marked
  <2> QED
    BY <1>1, <1>3, <2>1 DEF Marked
<1>7. ASSUME clean' PROVE Visited'
  <2>1. \A n \in Nodes : visits[n] <= Limit[n] /\ finished[n] <= visits[n] + Budget(n)
    BY <1>1, <1>7 DEF Standing, Visited
  <2>2. \A n \in Nodes : /\ Budget(n) \in Nat /\ Budget(n)' = Budget(n) + Limit[n] + 1
                         /\ Limit[n] \in Nat /\ visits[n] \in Nat /\ finished[n] \in Nat
    BY <1>1, BudgetGrows, BoundAssumption DEF Budget, TypeOK
  <2>3. \A n \in Nodes : visits'[n] <= Limit[n] /\ visits'[n] \in Nat
    BY <1>1, <1>2, <1>3, <1>7, <2>1, <2>2 DEF Standing, Synced
  <2>4. \A n \in Nodes : finished[n] + 1 <= visits'[n] + Budget(n)'
    <3> HIDE DEF Budget
    <3> QED
      BY <2>1, <2>2, <2>3
  <2>5. \A n \in Nodes : finished[n] <= visits'[n] + Budget(n)'
    <3> HIDE DEF Budget
    <3> QED
      BY <2>1, <2>2, <2>3
  <2>6. at' \in Nodes /\ finished' = finished
    BY <1>1 DEF TypeOK
  <2> HIDE DEF Budget
  <2> QED
    BY <2>3, <2>4, <2>5, <2>6 DEF Visited
<1> QED
  BY <1>4, <1>5, <1>6, <1>7 DEF Standing

LEMMA GhostStanding ==
  ASSUME TypeOK, Standing, GhostReturns PROVE Standing'
<1> USE DEF engine, history
<1>1. ~clean' /\ pc \notin {"arrive", "down", "off"} /\ pc' = pc /\ at' = at
  BY DEF GhostReturns, Standing, Phases
<1>2. Phases'
  BY <1>1 DEF Standing, Phases, Runs
<1> QED
  BY <1>1, <1>2 DEF Standing

LEMMA InitStanding == Init => Standing
<1> SUFFICES ASSUME Init PROVE Standing
  OBVIOUS
<1>1. Phases /\ Synced /\ Stands /\ Marked /\ ~InFlight
  BY DEF Init, Phases, Synced, Stands, Marked, InFlight
<1>2. Tried
  BY BoundAssumption DEF Init, Tried
<1>3. \A n \in Nodes : Budget(n) = 0 /\ Limit[n] \in Nat /\ visits[n] = 0 /\ finished[n] = 0
  BY BoundAssumption DEF Init, Budget
<1>4. Visited
  BY <1>1, <1>3 DEF Visited
<1> QED
  BY <1>1, <1>2, <1>4 DEF Standing

LEMMA StandingInductive == TypeOK /\ Standing /\ [Next]_vars => Standing'
<1> SUFFICES ASSUME TypeOK, Standing, [Next]_vars PROVE Standing'
  OBVIOUS
<1>1. TypeOK'
  BY TypeInductive
<1>2. Moves \/ Enter \/ Return \/ Saved \/ Mark \/ Crash \/ Boot \/ OperatorRestart
      \/ ContinueRun \/ GhostReturns
  BY DEF Moves, Next, Arrive, Work, Upset
<1> QED
  BY <1>1, <1>2, MoveStanding, EnterStanding, ReturnStanding, SavedStanding, MarkStanding,
     CrashStanding, BootStanding, RestartStanding, ContinueStanding, GhostStanding

LEMMA Invariance == Spec => [](TypeOK /\ Standing)
<1>1. Spec => []TypeOK
  BY TypeCorrect
<1> QED
  BY <1>1, InitStanding, StandingInductive, PTL DEF Spec

------------------------------------------------------------------------------

(* The visit caps hold over all the resumes of a run, whatever its graph: what  *)
(* a resume does not count again was counted, except by a "continue".           *)
THEOREM CapsHold == Spec => []CapHeld
<1>1. TypeOK /\ Standing => CapHeld
  <2> SUFFICES ASSUME TypeOK, Standing, clean, NEW n \in Nodes
               PROVE  finished[n] <= Limit[n] + continues * (Limit[n] + 1)
    BY DEF CapHeld
  <2>1. visits[n] <= Limit[n] /\ finished[n] <= visits[n] + Budget(n)
    BY DEF Standing, Visited
  <2>2. Limit[n] \in Nat /\ visits[n] \in Nat /\ finished[n] \in Nat /\ Budget(n) \in Nat
    BY BudgetGrows, BoundAssumption DEF TypeOK, Budget
  <2>3. finished[n] <= Limit[n] + Budget(n)
    <3> HIDE DEF Budget
    <3> QED
      BY <2>1, <2>2
  <2> QED
    BY <2>3 DEF Budget
<1> QED
  BY <1>1, Invariance, PTL

(* A poison node is executed cold no more often than RESUME_ATTEMPT_CAP between *)
(* two warm resumes.                                                            *)
THEOREM PoisonStops == Spec => []PoisonBounded
<1>1. TypeOK /\ Standing => PoisonBounded
  <2> SUFFICES ASSUME TypeOK, Standing, clean PROVE reruns <= ResumeCap * (warms + 1)
    BY DEF PoisonBounded
  <2>1. Tried /\ attempts \in Nat /\ reruns \in Nat /\ warms \in Nat /\ ResumeCap \in Nat
    BY BoundAssumption DEF Standing, TypeOK
  <2>2. ResumeCap * warms \in Nat /\ ResumeCap * (warms + 1) = ResumeCap * warms + ResumeCap
    BY <2>1, CapGrows
  <2> QED
    BY <2>1, <2>2 DEF Tried
<1> QED
  BY <1>1, Invariance, PTL

(* A run that is marked stays where it died until a human continues it.         *)
THEOREM FailedStays == Spec => []FailedStaysDown
<1>1. Standing => FailedStaysDown
  BY DEF Standing, Marked, FailedStaysDown
<1> QED
  BY <1>1, Invariance, PTL

(* A resume after a crash starts where the run stood.                           *)
THEOREM ResumesExactly == Spec => ResumeExact
<1>1. TypeOK /\ Standing /\ [Next]_vars
        => [pc = "down" /\ pc' = "arrive" /\ clean => at' = at /\ visits' = visits]_vars
  <2> SUFFICES ASSUME TypeOK, Standing, [Next]_vars, pc = "down", pc' = "arrive", clean
               PROVE  at' = at /\ visits' = visits
    OBVIOUS
  <2>1. Boot
    BY DEF Next, Arrive, Work, Upset, Begin, ReachExit, Dangle, HitCap, PoisonCap, FollowOverflow,
           Enter, Stop, Deliver, TurnEnds, Return, DeadEnd, Throw, Mark, Saved, Crash,
           OperatorRestart, ContinueRun, GhostReturns, vars, engine
  <2>2. disk # None /\ disk.end = "none" /\ at' = disk.at /\ visits' = disk.visits
    BY <2>1 DEF Boot, Inert, ResumeFrom
  <2> QED
    BY <2>2 DEF Standing, Synced, Stands
<1> QED
  BY <1>1, Invariance, PTL DEF Spec, ResumeExact

------------------------------------------------------------------------------
(* The run as a walk: what of the record and the place the mapping needs besides *)
(* Standing.                                                                    *)
Noted == clean =>
  \A c \in {mem, disk, saving} : c # None /\ c.end = "continuable" => Runs(c.at)

Placed ==
  /\ saving # None \/ pc = "execute" => mem # None
  /\ pc = "arrive" /\ resume # "no" => mem # None /\ mem.at = at /\ mem.end = "none"
  /\ pc = "arrive" /\ Runs(at) /\ mem # None => Runs(mem.at)
  /\ pc = "capped" => /\ Runs(at) /\ visits[at] >= Limit[at] /\ Overflow[at] = None
                      /\ clean /\ mem # None => Runs(mem.at)
  /\ pc = "dead" => Kind[at] # "exit"

Traced == Noted /\ Placed

LEMMA MoveTraced ==
  ASSUME TypeOK, Phases, Traced, Moves PROVE Traced'
<1> USE DEF engine, thread, store, counts, history, vars
<1>1. UNCHANGED <<mem, disk, saving, visits, resume, clean>>
  BY DEF Moves, Begin, ReachExit, Dangle, HitCap, PoisonCap, FollowOverflow, Deliver, TurnEnds,
         DeadEnd, Throw, Stop
<1>2. Noted'
  BY <1>1 DEF Traced, Noted, Runs
<1>3. CASE Begin \/ ReachExit \/ Dangle \/ HitCap
  BY <1>1, <1>2, <1>3 DEF Begin, ReachExit, Dangle, HitCap, Stop, Halts, Capped, Phases, Traced,
     Placed, Runs
<1>4. CASE PoisonCap \/ Throw \/ DeadEnd
  BY <1>1, <1>2, <1>4 DEF PoisonCap, Throw, DeadEnd, Stop, Halts, Phases, Traced, Placed, Runs
<1>5. CASE FollowOverflow
  BY <1>1, <1>2, <1>5 DEF FollowOverflow, Halts, Capped, Traced, Placed, Runs
<1>6. CASE Deliver \/ TurnEnds \/ UNCHANGED vars
  <2>1. pc' = pc /\ at' = at
    BY <1>6 DEF Deliver, TurnEnds
  <2> QED
    BY <1>1, <1>2, <2>1 DEF Traced, Placed, Runs
<1> QED
  BY <1>3, <1>4, <1>5, <1>6 DEF Moves

(* A step that leaves the stretch between two awaits with a record, or starts    *)
(* one over a record of that place, keeps what is known of it.                  *)
LEMMA RecordTraced ==
  ASSUME TypeOK, TypeOK', Phases, Traced, Enter \/ Return \/ Saved \/ Mark PROVE Traced'
<1> USE DEF thread, engine, counts, history
<1>1. CASE Enter
  <2>1. mem' = CheckpointAt(at, visits', attempts') /\ disk' = disk /\ saving' \in {mem', saving}
    BY <1>1, EmitFacts DEF Enter
  <2>2. mem' # None
    BY <2>1, CheckpointTyped, RecordAssumption DEF TypeOK
  <2>3. pc' = "execute" /\ mem'.end = "none" /\ clean' = clean
    BY <1>1, <2>1 DEF Enter, CheckpointAt
  <2> QED
    BY <2>1, <2>2, <2>3 DEF Traced, Noted, Placed, Runs
<1>2. CASE Return
  <2>1. PICK next : at' = next /\ Emit(ExitCheckpoint(next, visits))
    BY <1>2 DEF Return
  <2>2. /\ mem' = CheckpointAt(at', visits, 0) /\ disk' = disk /\ saving' \in {mem', saving}
        /\ pc' = "arrive" /\ resume' = "no" /\ clean' = clean
    BY <1>2, <2>1, EmitFacts DEF ExitCheckpoint, Return
  <2>3. mem' # None
    BY <2>2, CheckpointTyped, RecordAssumption DEF TypeOK
  <2>4. mem'.end = "none" /\ mem'.at = at'
    BY <2>2 DEF CheckpointAt
  <2> QED
    BY <2>2, <2>3, <2>4 DEF Traced, Noted, Placed, Runs
<1>3. CASE Saved
  <2>1. mem' = mem /\ disk' = saving /\ saving' \in {mem, None} /\ pc' = pc /\ at' = at
        /\ visits' = visits /\ resume' = resume /\ clean' = clean
    BY <1>3 DEF Saved
  <2> QED
    BY <1>3, <2>1 DEF Saved, Traced, Noted, Placed, Runs
<1>4. CASE Mark
  <2> DEFINE base == IF mem # None THEN mem ELSE CheckpointAt(at, visits, attempts)
             end == IF pc = "capped" /\ at \in Continuable THEN "continuable" ELSE "final"
  <2>1. mem' = [base EXCEPT !.end = end] /\ disk' = disk /\ saving' \in {mem', saving}
    BY <1>4, EmitFacts DEF Mark
  <2>2. base \in Checkpoint /\ pc' = "over" /\ at' = at /\ clean' = clean
    BY <1>4, CheckpointTyped DEF Mark, TypeOK
  <2>3. mem' \in Checkpoint /\ mem'.at = base.at /\ mem'.end = end
    BY <2>1, <2>2 DEF Checkpoint
  <2>4. clean /\ end = "continuable" => Runs(base.at)
    BY DEF Traced, Placed, CheckpointAt
  <2>5. mem' # None
    BY <2>3, RecordAssumption
  <2>6. Noted'
    <3> HIDE DEF base, end
    <3> QED
      BY <2>1, <2>2, <2>3, <2>4 DEF Traced, Noted, Runs
  <2>7. Placed'
    BY <2>2, <2>5 DEF Placed
  <2> QED
    BY <2>6, <2>7 DEF Traced
<1> QED
  BY <1>1, <1>2, <1>3, <1>4

LEMMA UpsetTraced ==
  ASSUME TypeOK, TypeOK', Phases, Traced, Upset PROVE Traced'
<1> USE DEF thread, engine, counts, history
<1>1. CASE Crash
  BY <1>1 DEF Crash, Traced, Noted, Placed, Runs
<1>2. CASE Boot
  <2>1. pc = "down" /\ mem' = disk /\ disk' = disk /\ saving' = None /\ clean' = clean
    BY <1>2 DEF Boot, Phases
  <2>2. Noted'
    BY <2>1 DEF Traced, Noted, Runs
  <2>3. CASE disk = None \/ disk.end # "none"
    BY <1>2, <2>1, <2>2, <2>3 DEF Boot, Inert, Traced, Placed
  <2>4. CASE disk # None /\ disk.end = "none"
    <3>1. pc' = "arrive" /\ at' = disk.at
      BY <1>2, <2>4 DEF Boot, Inert, ResumeFrom
    <3> QED
      BY <2>1, <2>2, <2>4, <3>1 DEF Traced, Placed
  <2> QED
    BY <2>3, <2>4
<1>3. CASE OperatorRestart \/ ContinueRun
  <2>1. PICK c \in Checkpoint : Relaunch(c) /\ c.end = "none"
    <3>1. CASE OperatorRestart
      BY <1>3, <3>1 DEF OperatorRestart, TypeOK
    <3>2. CASE ContinueRun
      <4> DEFINE c == [mem EXCEPT !.end = "none",
                                  !.visits = [n \in Nodes |-> IF n \in Ladder THEN 0 ELSE @[n]]]
      <4>1. c \in Checkpoint /\ c.end = "none" /\ Relaunch(c)
        BY <3>2 DEF ContinueRun, TypeOK, Checkpoint
      <4> QED
        BY <4>1
    <3> QED
      BY <1>3, <3>1, <3>2
  <2>2. pc' = "arrive" /\ at' = mem'.at /\ mem'.end = "none" /\ mem' \in Checkpoint
    BY <2>1 DEF Relaunch, ResumeFrom, Checkpoint
  <2>3. mem' # None
    BY <2>2, RecordAssumption
  <2>4. disk' = disk /\ saving' \in {saving, mem'} /\ clean' = clean
    BY <1>3 DEF OperatorRestart, ContinueRun, Persist
  <2> QED
    BY <2>2, <2>3, <2>4 DEF Traced, Noted, Placed, Runs
<1>4. CASE GhostReturns
  <2>1. ~clean' /\ UNCHANGED <<pc, at, visits, resume>> /\ pc # "arrive"
    BY <1>4 DEF GhostReturns
  <2>2. (mem' = mem /\ saving' = saving) \/ mem' \in Checkpoint
    <3>1. PICK g \in ghosts, o \in {"succeeded", "failed"} :
            IF Routes(g.at, o) = {}
            THEN mem # None /\ (Emit([mem EXCEPT !.end = "final"]) \/ UNCHANGED store)
            ELSE \E next \in Routes(g.at, o) : Emit(ExitCheckpoint(next, g.visits))
      BY <1>4 DEF GhostReturns
    <3>2. CASE Routes(g.at, o) = {}
      BY <3>1, <3>2 DEF Emit, TypeOK, Checkpoint, store
    <3>3. CASE Routes(g.at, o) # {}
      <4>1. g.at \in Nodes /\ g.visits \in [Nodes -> Nat]
        BY DEF TypeOK, Ghost
      <4>2. PICK next \in Nodes : Emit(ExitCheckpoint(next, g.visits))
        BY <3>1, <3>3, <4>1, RoutesTyped
      <4> QED
        BY <4>1, <4>2, CheckpointTyped DEF Emit, ExitCheckpoint
    <3> QED
      BY <3>2, <3>3
  <2>3. saving' # None \/ pc' = "execute" => mem' # None
    BY <2>1, <2>2, RecordAssumption DEF Traced, Placed
  <2> QED
    BY <2>1, <2>3 DEF Traced, Noted, Placed, Runs
<1> QED
  BY <1>1, <1>2, <1>3, <1>4 DEF Upset

(* The steps of the walk, and those that leave no trace in it.                  *)
Still == at' = at /\ visits' = visits /\ Phase' = Phase /\ Handed' = Handed /\ clean' = clean

LEMMA MoveWalks ==
  ASSUME TypeOK, Standing, Traced, clean, Moves PROVE Still \/ (Abstract!Overflows /\ clean' = clean)
<1> USE DEF engine, thread, store, counts, history, vars
<1>1. UNCHANGED <<mem, disk, visits, resume, clean>>
  BY DEF Moves, Begin, ReachExit, Dangle, HitCap, PoisonCap, FollowOverflow, Deliver, TurnEnds,
         DeadEnd, Throw, Stop
<1>2. CASE Begin
  BY <1>1, <1>2 DEF Begin, Still, Standing, Phases, Phase, Inside, Record, Handed, Halts
<1>3. CASE ReachExit \/ Dangle \/ HitCap
  <2>1. pc = "arrive" /\ pc' \in {"over", "dead", "capped"} /\ at' = at
        /\ (Halts \/ (resume = "no" /\ pc' = "capped"))
    BY <1>3 DEF ReachExit, Dangle, HitCap, Stop, Halts, Capped
  <2> QED
    BY <1>1, <2>1 DEF Still, Phase, Inside, Record, Handed, Halts
<1>4. CASE PoisonCap \/ Throw \/ DeadEnd
  <2>1. /\ ~Halts /\ at' = at /\ pc' \in {"dead", "over"} /\ (pc' = "over" => mem # None)
        /\ pc = "execute" \/ (pc = "arrive" /\ resume # "no")
    BY <1>4 DEF PoisonCap, Throw, DeadEnd, Stop, Poisoned, Halts, Standing, Phases, Runs, Traced, Placed
  <2>2. mem # None => mem.end = "none"
    BY <2>1 DEF Standing, Marked
  <2> QED
    BY <1>1, <2>1, <2>2 DEF Still, Phase, Inside, Record, Handed, Halts
<1>5. CASE FollowOverflow
  <2>1. pc = "arrive" /\ pc' = pc /\ at' = Overflow[at] /\ ~Halts /\ Capped /\ Overflow[at] # None
    BY <1>5 DEF FollowOverflow
  <2>2. Phase = "ready" /\ Phase' = "ready" /\ Handed' = Handed
    BY <1>1, <2>1 DEF Phase, Inside, Record, Handed, Capped, Standing, Marked
  <2>3. Abstract!Capped
    BY <2>1 DEF Abstract!Capped, Capped, Halts
  <2> QED
    BY <1>1, <2>1, <2>2, <2>3 DEF Abstract!Overflows
<1>6. CASE Deliver \/ TurnEnds \/ UNCHANGED vars
  <2>1. pc' = pc /\ at' = at
    BY <1>6 DEF Deliver, TurnEnds
  <2> QED
    BY <1>1, <2>1 DEF Still, Phase, Inside, Record, Handed, Halts
<1> QED
  BY <1>2, <1>3, <1>4, <1>5, <1>6 DEF Moves

LEMMA EnterWalks ==
  ASSUME TypeOK, TypeOK', Standing, Traced, clean, Enter
  PROVE  Still \/ (Abstract!Enter /\ clean' = clean)
<1>1. /\ pc = "arrive" /\ pc' = "execute" /\ at' = at /\ ~Halts /\ ~Halts' /\ clean' = clean
      /\ mem' = CheckpointAt(at, visits', attempts') /\ visits' = Counted /\ ~Capped
  BY EmitFacts DEF Enter, Halts
<1>2. mem' # None
  BY <1>1, CheckpointTyped, RecordAssumption DEF TypeOK
<1>3. Phase' = "inside" /\ Handed' = at
  BY <1>1, <1>2 DEF Phase, Inside, Record, Handed, CheckpointAt
<1>4. CASE resume = "no"
  <2>1. Phase = "ready"
    BY <1>1, <1>4 DEF Phase, Inside, Record, Standing, Marked
  <2>2. at \notin {n \in Nodes : Kind[n] = "exit"} \cup {n \in Nodes : Kind[n] = "missing"}
        /\ ~Abstract!Capped
    BY <1>1, <1>4 DEF Abstract!Capped, Capped, Halts
  <2>3. visits' = [visits EXCEPT ![at] = @ + 1]
    BY <1>1, <1>4 DEF Counted
  <2> QED
    BY <1>1, <1>3, <2>1, <2>2, <2>3 DEF Abstract!Enter
<1>5. CASE resume # "no"
  <2>1. mem # None /\ mem.at = at /\ mem.end = "none"
    BY <1>1, <1>5 DEF Traced, Placed
  <2>2. Phase = "inside" /\ Handed = at
    BY <1>1, <1>5, <2>1 DEF Phase, Inside, Record, Handed
  <2> QED
    BY <1>1, <1>3, <1>5, <2>2 DEF Still, Counted
<1> QED
  BY <1>4, <1>5

LEMMA OnwardSucceeds ==
  ASSUME NEW n \in Nodes, NEW o, NEW out PROVE Onward(n, o, out) \subseteq Successors[n]
<1>1. Successors[n] = {e.to : e \in {f \in Edges : f.from = n}} \cup
        (IF n \in Gate /\ Retry[n] # None
         THEN {Retry[n]} \cup {Tiers[Retry[n]][i] : i \in DOMAIN Tiers[Retry[n]]} ELSE {})
  BY DEF Successors
<1>2. \A on : Targets(n, on) \subseteq {e.to : e \in {f \in Edges : f.from = n}}
  BY DEF Targets
<1>3. Routes(n, o) \subseteq Successors[n]
  BY <1>1, <1>2 DEF Routes
<1>4. FirstUntried(Retry[n], visits) \subseteq {Tiers[Retry[n]][i] : i \in DOMAIN Tiers[Retry[n]]}
  BY DEF FirstUntried
<1> QED
  BY <1>1, <1>3, <1>4 DEF Onward

LEMMA ReturnWalks ==
  ASSUME TypeOK, TypeOK', Standing, Traced, clean, Return
  PROVE  Abstract!HandOn /\ clean' = clean
<1>1. PICK o, out : at' \in Onward(at, o, out) /\ Emit(ExitCheckpoint(at', visits))
  BY DEF Return
<1>2. /\ pc = "execute" /\ pc' = "arrive" /\ resume' = "no" /\ visits' = visits /\ clean' = clean
      /\ mem' = CheckpointAt(at', visits, 0)
  BY <1>1, EmitFacts DEF Return, ExitCheckpoint
<1>3. mem' # None
  BY <1>2, CheckpointTyped, RecordAssumption DEF TypeOK
<1>4. Phase' = "ready" /\ Handed' = at'
  BY <1>2, <1>3 DEF Phase, Inside, Record, Handed, CheckpointAt
<1>5. Phase = "inside"
  BY <1>2 DEF Phase, Inside, Record, Halts, Standing, Phases, Marked, Runs
<1>6. at' \in Successors[at]
  BY <1>1, OnwardSucceeds DEF TypeOK
<1> QED
  BY <1>2, <1>4, <1>5, <1>6 DEF Abstract!HandOn

LEMMA MarkWalks ==
  ASSUME TypeOK, Standing, Traced, clean, Mark PROVE Abstract!GiveUp /\ clean' = clean
<1> DEFINE base == IF mem # None THEN mem ELSE CheckpointAt(at, visits, attempts)
           end == IF pc = "capped" /\ at \in Continuable THEN "continuable" ELSE "final"
<1>1. mem' = [base EXCEPT !.end = end]
  BY EmitFacts DEF Mark
<1>2. /\ pc \in {"capped", "dead"} /\ pc' = "over" /\ at' = at /\ visits' = visits
      /\ clean' = clean
  BY DEF Mark, history
<1>3. base \in Checkpoint
  BY CheckpointTyped DEF TypeOK
<1>4. mem' # None /\ mem'.at = base.at /\ mem'.end = end
  BY <1>1, <1>3, RecordAssumption DEF Checkpoint
<1>5. Handed' = base.at /\ Phase' = IF end = "continuable" THEN "capped" ELSE "dead"
  BY <1>2, <1>4 DEF Handed, Phase, Record
<1>6. mem # None => mem.end = "none"
  BY <1>2 DEF Standing, Marked
<1>7. Handed' \in {Handed, at}
  BY <1>2, <1>5 DEF Handed, Record, CheckpointAt
<1>8. CASE pc = "capped"
  <2>1. Phase = "ready"
    BY <1>6, <1>8 DEF Phase, Inside, Record
  <2>2. Abstract!Capped /\ Overflow[at] = None
    BY <1>8 DEF Abstract!Capped, Traced, Placed, Runs
  <2> QED
    BY <1>2, <1>5, <1>7, <1>8, <2>1, <2>2 DEF Abstract!GiveUp
<1>9. CASE pc = "dead"
  <2>1. Phase' = "dead"
    BY <1>5, <1>9
  <2>2. Phase = "inside" \/ (Phase = "ready" /\ at \in {n \in Nodes : Kind[n] = "missing"})
    BY <1>6, <1>9 DEF Phase, Inside, Record, Halts, Traced, Placed, TypeOK
  <2> QED
    BY <1>2, <1>7, <2>1, <2>2 DEF Abstract!GiveUp
<1> QED
  BY <1>2, <1>8, <1>9

LEMMA SavedWalks == ASSUME Standing, Saved PROVE Still
BY DEF Saved, Standing, Phases, engine, history, Still, Phase, Inside, Record, Handed, Halts

(* A crash leaves on disk what was in memory, a boot takes up what is on disk.  *)
LEMMA CrashWalks ==
  ASSUME TypeOK, Standing, Traced, clean, clean', Crash PROVE Still
<1>1. /\ pc \in {"off", "execute", "over"} /\ pc' = "down" /\ at' = at /\ visits' = visits
      /\ mem = disk /\ disk' = disk
  BY DEF Crash, TypeOK
<1>2. Record' = Record /\ Handed' = Handed /\ (pc = "execute" => mem # None)
      /\ (pc = "off" => mem = None)
  BY <1>1 DEF Record, Handed, Traced, Placed, Standing, Phases
<1> QED
  BY <1>1, <1>2 DEF Still, Phase, Inside, Record, Halts

LEMMA BootWalks ==
  ASSUME TypeOK, Standing, Traced, clean, Boot PROVE Still
<1> USE DEF thread, history
<1>1. pc = "down" /\ mem' = disk /\ clean' = clean
  BY DEF Boot
<1>2. CASE disk = None \/ disk.end # "none"
  <2>1. pc' = "over" /\ at' = at /\ visits' = visits
    BY <1>2 DEF Boot, Inert
  <2> QED
    BY <1>1, <1>2, <2>1 DEF Still, Phase, Inside, Record, Handed, Halts
<1>3. CASE disk # None /\ disk.end = "none"
  <2>1. pc' = "arrive" /\ resume' # "no" /\ at' = disk.at /\ visits' = disk.visits
    BY <1>3 DEF Boot, Inert, ResumeFrom
  <2>2. at' = at /\ visits' = visits
    BY <1>1, <1>3, <2>1 DEF Standing, Synced, Stands
  <2> QED
    BY <1>1, <1>3, <2>1, <2>2 DEF Still, Phase, Inside, Record, Handed, Halts
<1> QED
  BY <1>2, <1>3

LEMMA RestartWalks ==
  ASSUME TypeOK, TypeOK', Standing, clean, OperatorRestart PROVE Still
<1>1. /\ pc \in {"execute", "over"} /\ mem # None /\ mem.end = "none" /\ mem \in Checkpoint
      /\ clean' = clean /\ Relaunch(mem)
  BY DEF OperatorRestart, TypeOK
<1>2. /\ pc' = "arrive" /\ resume' = "cold" /\ at' = mem.at /\ visits' = mem.visits
      /\ mem'.at = mem.at /\ mem'.end = "none" /\ mem' \in Checkpoint
  BY <1>1 DEF Relaunch, ResumeFrom, Checkpoint
<1>3. at' = at /\ visits' = visits /\ mem.at = at /\ mem' # None
  BY <1>1, <1>2, RecordAssumption DEF Standing, Synced, Stands
<1> QED
  BY <1>1, <1>2, <1>3 DEF Still, Phase, Inside, Record, Handed, Halts

LEMMA ContinueWalks ==
  ASSUME TypeOK, TypeOK', Standing, Traced, clean, ContinueRun
  PROVE  Abstract!Continue /\ clean' = clean
<1> DEFINE c == [mem EXCEPT !.end = "none",
                            !.visits = [n \in Nodes |-> IF n \in Ladder THEN 0 ELSE @[n]]]
<1>1. /\ pc = "over" /\ mem # None /\ mem.end = "continuable" /\ mem \in Checkpoint
      /\ clean' = clean /\ Relaunch(c)
  BY DEF ContinueRun, TypeOK
<1>2. /\ c \in Checkpoint /\ c.end = "none" /\ c.at = mem.at
      /\ c.visits = [n \in Nodes |-> IF n \in Ladder THEN 0 ELSE mem.visits[n]]
  BY <1>1 DEF Checkpoint
<1> HIDE DEF c
<1>3. /\ pc' = "arrive" /\ resume' = "cold" /\ at' = c.at /\ visits' = c.visits
      /\ mem'.at = c.at /\ mem'.end = "none" /\ mem' \in Checkpoint
  BY <1>1, <1>2 DEF Relaunch, ResumeFrom, Checkpoint
<1>4. Runs(mem.at) /\ mem' # None /\ mem.visits = visits
  BY <1>1, <1>3, RecordAssumption DEF Standing, Synced, Traced, Noted
<1>5. Phase = "capped" /\ Handed = mem.at
  BY <1>1 DEF Phase, Record, Handed
<1>6. Phase' = "inside" /\ Handed' = mem.at
  BY <1>2, <1>3, <1>4 DEF Phase, Record, Inside, Handed, Halts, Runs
<1> QED
  BY <1>1, <1>2, <1>3, <1>4, <1>5, <1>6 DEF Abstract!Continue

LEMMA GhostLoses == ASSUME GhostReturns PROVE clean' = FALSE
BY DEF GhostReturns

LEMMA NeverCleanAgain == ASSUME ~clean, [Next]_vars PROVE ~clean'
BY DEF Next, Arrive, Work, Upset, Begin, ReachExit, Dangle, HitCap, PoisonCap, FollowOverflow,
       Enter, Stop, Deliver, TurnEnds, Return, DeadEnd, Throw, Mark, Saved, Crash, Boot,
       OperatorRestart, ContinueRun, GhostReturns, vars, counts, history

LEMMA StepWalks ==
  ASSUME TypeOK, TypeOK', Standing, Traced, [Next]_vars
  PROVE  [Abstract!Next]_(Abstract!vars)
<1>1. CASE ~clean'
  BY <1>1 DEF Abstract!Next, Abstract!Lose
<1>2. CASE clean'
  <2>1. clean
    BY <1>2, NeverCleanAgain
  <2>2. CASE Still
    BY <2>2 DEF Still, Abstract!vars
  <2>3. CASE \/ Moves \/ Enter \/ Saved \/ Crash \/ Boot \/ OperatorRestart
    BY <1>2, <2>1, <2>2, <2>3, MoveWalks, EnterWalks, SavedWalks, CrashWalks, BootWalks, RestartWalks
       DEF Abstract!Next
  <2>4. CASE Return \/ Mark \/ ContinueRun
    BY <2>1, <2>4, ReturnWalks, MarkWalks, ContinueWalks DEF Abstract!Next
  <2>5. CASE GhostReturns
    BY <1>2, <2>5, GhostLoses
  <2> QED
    BY <2>3, <2>4, <2>5 DEF Moves, Next, Arrive, Work, Upset
<1> QED
  BY <1>1, <1>2

LEMMA TracedInductive == TypeOK /\ Standing /\ Traced /\ [Next]_vars => Traced'
<1> SUFFICES ASSUME TypeOK, Standing, Traced, [Next]_vars PROVE Traced'
  OBVIOUS
<1>1. TypeOK' /\ Phases
  BY TypeInductive DEF Standing
<1>2. Moves \/ (Enter \/ Return \/ Saved \/ Mark) \/ Upset
  BY DEF Moves, Next, Arrive, Work
<1> QED
  BY <1>1, <1>2, MoveTraced, RecordTraced, UpsetTraced

(* Whatever crashes, boots, saves, restarts and continues there are, a run is   *)
(* one walk of its graph until a checkpoint is lost or overwritten.             *)
THEOREM OneWalk == Spec => ImplementsWalk
<1>1. Init => Abstract!Init /\ Traced
  BY DEF Init, Abstract!Init, Phase, Inside, Record, Handed, Traced, Noted, Placed
<1>2. Spec => [](TypeOK /\ Standing /\ Traced)
  BY <1>1, Invariance, TracedInductive, PTL DEF Spec
<1>3. TypeOK /\ TypeOK' /\ Standing /\ Traced /\ [Next]_vars => [Abstract!Next]_(Abstract!vars)
  BY StepWalks
<1> QED
  BY <1>1, <1>2, <1>3, PTL DEF Spec, ImplementsWalk, Abstract!Spec
=============================================================================
