---------------------------- MODULE WorkflowRun ----------------------------
(* One workflow run: the engine walking its graph (src/src/workflow/engine.ts), *)
(* the driver that hosts it (workflow-driver.ts), the agent thread its nodes    *)
(* share, and the manager that keeps the run's checkpoint in memory, saves it   *)
(* behind the engine's back and resumes the run after a crash, an operator's    *)
(* restart or a "continue" (squad-manager.ts).                                  *)
EXTENDS Naturals, FiniteSets, Sequences

CONSTANTS
  Nodes,        \* the ids of the graph, the targets of dangling edges included
  None,         \* no node, no checkpoint, no output
  Start,        \* Workflow.start
  Kind,         \* node -> kind; "missing" is an id wf.nodes does not hold
  Edges,        \* set of [from, on, to]; `on' is the outcome that takes the edge,
                \* "any" when there is none, "label" on the edges of a human node
  Limit,        \* node -> maxVisits, or the run's default cap
  Overflow,     \* node -> its overflow target, or None
  Tiers,        \* node -> the chain of overflow targets behind it
  Gate,         \* the goal gates
  Retry,        \* node -> retry target of a gate, or None
  Continuable,  \* the nodes isRecoverableTerminalReason names
  ResumeCap,    \* RESUME_ATTEMPT_CAP
  Outputs,      \* the outputs a failing gate can print, after normalisation
  MaxCrashes, MaxRestarts, MaxContinues,  \* bounds on what happens to the run
  MaxSteps      \* bound on finished nodes; no behaviour of the code reaches it

Kinds == {"start", "agent", "command", "human", "exit", "missing"}

ASSUME GraphAssumption ==
  /\ None \notin Nodes /\ None \notin Outputs /\ Start \in Nodes
  /\ Kind \in [Nodes -> Kinds]
  /\ Edges \subseteq [from : Nodes, on : {"succeeded", "failed", "any", "label"}, to : Nodes]
  /\ Gate \subseteq Nodes /\ Continuable \subseteq Nodes
  /\ Overflow \in [Nodes -> Nodes \cup {None}]
  /\ Retry \in [Nodes -> Nodes \cup {None}]
  /\ Tiers \in [Nodes -> Seq(Nodes)]
  /\ \A n \in Nodes :
       /\ Tiers[n] = IF Overflow[n] = None THEN << >>
                     ELSE <<Overflow[n]>> \o Tiers[Overflow[n]]
       /\ Overflow[n] # None => Kind[Overflow[n]] \notin {"exit", "missing"}

ASSUME BoundAssumption ==
  /\ Limit \in [Nodes -> Nat]
  /\ ResumeCap \in Nat
  /\ MaxCrashes \in Nat /\ MaxRestarts \in Nat /\ MaxContinues \in Nat /\ MaxSteps \in Nat

VARIABLES
  pc,        \* "arrive" is the stretch between two awaits of WorkflowEngine.run
  at, visits, attempts, resume, said,            \* the engine
  told,      \* the prompt of this visit went to the thread
  host, turn,                                    \* the agent thread
  mem,       \* rec.options.workflowState
  disk, saving, queued,                          \* persist() and what it wrote
  ghosts,    \* engines that restart() superseded and that still await a node
  crashes, restarts, continues,
  finished,  \* history: how often each node was handed on to its successor
  reruns,    \* history: cold executions since the run last advanced
  warms,     \* history: warm resumes since the run last advanced
  clean      \* history: no checkpoint was lost in a crash or overwritten

engine == <<pc, at, visits, attempts, resume, said, told>>
thread == <<host, turn>>
store == <<mem, disk, saving, queued>>
counts == <<crashes, restarts, continues>>
history == <<finished, reruns, warms, clean>>
vars == <<engine, thread, store, ghosts, counts, history>>

(* WorkflowRunState; `end' is the terminal marker.                              *)
Checkpoint == [at : Nodes, visits : [Nodes -> Nat], attempts : Nat,
               end : {"none", "continuable", "final"}]

ASSUME RecordAssumption == None \notin Checkpoint

Ghost == [at : Nodes, visits : [Nodes -> Nat]]

------------------------------------------------------------------------------
(* Routing.                                                                     *)

Targets(n, on) == {e.to : e \in {f \in Edges : f.from = n /\ f.on = on}}

(* Where a node may go. Empty: nothing routes the run.                          *)
Routes(n, o) ==
  IF Kind[n] = "human" THEN Targets(n, "label")
  ELSE IF Targets(n, o) # {} THEN Targets(n, o)
  ELSE IF n \in Gate /\ Retry[n] # None /\ o = "failed" THEN {Retry[n]}
  ELSE Targets(n, "any")

(* The first tier of the overflow chain behind n that has not run.              *)
FirstUntried(n, v) ==
  {Tiers[n][i] : i \in {j \in DOMAIN Tiers[n] :
                          /\ v[Tiers[n][j]] = 0
                          /\ \A k \in 1..(j - 1) : v[Tiers[n][k]] # 0}}

(* A gate that failed with the output of its previous visit skips the retries.  *)
Onward(n, o, out) ==
  IF /\ n \in Gate /\ o = "failed"
     /\ out # None /\ said[n] = out
     /\ Retry[n] # None /\ Overflow[Retry[n]] # None
  THEN FirstUntried(Retry[n], visits)
  ELSE Routes(n, o)

------------------------------------------------------------------------------
(* Saving. persist() snapshots at once when no write is in flight, and else     *)
(* leaves one write queued that snapshots when its turn comes.                  *)

Persist ==
  /\ saving' = IF saving = None THEN mem' ELSE saving
  /\ queued' = (saving # None)
  /\ UNCHANGED disk

Saved ==
  /\ pc # "arrive" /\ saving # None
  /\ disk' = saving
  /\ saving' = IF queued THEN mem ELSE None
  /\ queued' = FALSE
  /\ UNCHANGED <<mem, engine, thread, ghosts, counts, history>>

(* The manager's "checkpoint" listener.                                         *)
Emit(c) == mem' = c /\ Persist

------------------------------------------------------------------------------
(* The walk. From the exit checkpoint of one node to the entry checkpoint of    *)
(* the next run() awaits nothing, so nothing else happens while pc = "arrive".  *)

Begin ==
  /\ pc = "off"
  /\ pc' = "arrive"
  /\ UNCHANGED <<at, visits, attempts, resume, said, told,
                 thread, store, ghosts, counts, history>>

Capped == resume = "no" /\ visits[at] >= Limit[at]

(* Bug: the attempt that reaches the cap is let through.                        *)
BugPoisoned == resume = "cold" /\ attempts > ResumeCap

Poisoned == resume = "cold" /\ attempts >= ResumeCap

Halts == Kind[at] \in {"exit", "missing"}

Stop(to) ==
  /\ pc' = to
  /\ UNCHANGED <<at, visits, attempts, resume, said, told,
                 thread, store, ghosts, counts, history>>

ReachExit == pc = "arrive" /\ Kind[at] = "exit" /\ Stop("over")

Dangle == pc = "arrive" /\ Kind[at] = "missing" /\ Stop("dead")

HitCap == pc = "arrive" /\ ~Halts /\ Capped /\ Overflow[at] = None /\ Stop("capped")

PoisonCap == pc = "arrive" /\ ~Halts /\ Poisoned /\ Stop("dead")

(* Bug: the overflow of a capped node is followed where there is none.          *)
BugFollowOverflow ==
  /\ pc = "arrive" /\ ~Halts /\ Capped
  /\ at' = Overflow[at]
  /\ UNCHANGED <<pc, visits, attempts, resume, said, told,
                 thread, store, ghosts, counts, history>>

FollowOverflow ==
  /\ pc = "arrive" /\ ~Halts /\ Capped /\ Overflow[at] # None
  /\ at' = Overflow[at]
  /\ UNCHANGED <<pc, visits, attempts, resume, said, told,
                 thread, store, ghosts, counts, history>>

CheckpointAt(n, v, tries) == [at |-> n, visits |-> v, attempts |-> tries, end |-> "none"]

(* Bug: the visit is not counted.                                               *)
BugCounted == visits

Counted == IF resume = "no" THEN [visits EXCEPT ![at] = @ + 1] ELSE visits

(* The node runs. A resumed node was counted before; only a cold one is counted *)
(* as an attempt, and its thread has not seen the prompt.                       *)
Enter ==
  /\ pc = "arrive" /\ ~Halts /\ ~Capped /\ ~Poisoned
  /\ pc' = "execute"
  /\ visits' = Counted
  /\ attempts' = IF resume = "cold" THEN attempts + 1 ELSE 0
  /\ told' = (resume = "warm" /\ told)
  /\ Emit(CheckpointAt(at, visits', attempts'))
  /\ reruns' = IF resume = "cold" THEN reruns + 1 ELSE reruns
  /\ warms' = IF resume = "warm" THEN warms + 1 ELSE warms
  /\ UNCHANGED <<at, resume, said, thread, ghosts, counts, finished, clean>>

(* runAgent hands the prompt to the thread, starting one if there is none.      *)
Deliver ==
  /\ pc = "execute" /\ Kind[at] = "agent" /\ resume # "warm" /\ ~told
  /\ told' = TRUE
  /\ host' = TRUE /\ turn' = "streaming"
  /\ UNCHANGED <<pc, at, visits, attempts, resume, said,
                 store, ghosts, counts, history>>

(* The thread ends its turn, whether or not a daemon is there to hear it.       *)
TurnEnds ==
  /\ pc # "arrive" /\ host /\ turn = "streaming"
  /\ turn' = "idle"
  /\ UNCHANGED <<engine, host, store, ghosts, counts, history>>

(* The outcomes execute() can leave. A turn may always fail (an error, the turn *)
(* timeout); a warm resume takes a thread that is not streaming for success.    *)
Outcome(n) ==
  CASE Kind[n] \in {"start", "human"} -> {"succeeded"}
    [] Kind[n] = "agent" -> {"failed"} \cup
         IF turn = "idle" /\ (told \/ resume = "warm") THEN {"succeeded"} ELSE {}
    [] OTHER -> {"succeeded", "failed"}

Printed(n, o) == IF n \in Gate /\ o = "failed" THEN Outputs ELSE {None}

(* Bug: the second phase records the node that ran, not its successor.          *)
BugExitCheckpoint(next, v) == CheckpointAt(at, v, 0)

ExitCheckpoint(next, v) == CheckpointAt(next, v, 0)

(* The node is done and something follows: the exit checkpoint, at the          *)
(* successor and with no attempts.                                              *)
Return ==
  /\ pc = "execute"
  /\ finished[at] < MaxSteps
  /\ \E o \in Outcome(at) : \E out \in Printed(at, o) : \E next \in Onward(at, o, out) :
       /\ at' = next
       /\ said' = IF at \in Gate /\ o = "failed" THEN [said EXCEPT ![at] = out] ELSE said
       /\ Emit(ExitCheckpoint(next, visits))
  /\ finished' = [finished EXCEPT ![at] = @ + 1]
  /\ pc' = "arrive" /\ resume' = "no" /\ attempts' = 0 /\ told' = FALSE
  /\ reruns' = 0 /\ warms' = 0
  /\ UNCHANGED <<visits, thread, ghosts, counts, clean>>

(* The node is done and nothing follows, or the answer at a gate is none of its *)
(* labels: a failure is escalated, a success ends the run and leaves its entry  *)
(* checkpoint behind.                                                           *)
DeadEnd ==
  /\ pc = "execute"
  /\ \E o \in Outcome(at) : \E out \in Printed(at, o) :
       /\ Onward(at, o, out) = {} \/ Kind[at] = "human"
       /\ pc' = IF o = "failed" THEN "dead" ELSE "over"
  /\ UNCHANGED <<at, visits, attempts, resume, said, told, thread, store, ghosts, counts, history>>

(* run() throws, and no marker is left: a gate is cancelled, the prompt file of *)
(* a node cannot be read, or a command cannot be run.                           *)
Throw ==
  /\ pc = "execute"
  /\ \/ Kind[at] \in {"human", "command"}
     \/ Kind[at] = "agent" /\ resume # "warm" /\ ~told
  /\ Stop("over")

(* handleWorkflowTerminal, some reads after the engine gave up. The marker is   *)
(* continuable when the node that hit its cap is one of the fix-up ladder's.    *)
Mark ==
  /\ pc \in {"capped", "dead"}
  /\ LET base == IF mem # None THEN mem ELSE CheckpointAt(at, visits, attempts)
         end == IF pc = "capped" /\ at \in Continuable THEN "continuable" ELSE "final"
     IN  Emit([base EXCEPT !.end = end])
  /\ pc' = "over"
  /\ UNCHANGED <<at, visits, attempts, resume, said, told,
                 thread, ghosts, counts, history>>

------------------------------------------------------------------------------
(* Crash, boot, restart, continue.                                              *)

(* The daemon dies. The write in flight is lost, and the agent thread, which is *)
(* a process of its own, may survive.                                           *)
Crash ==
  /\ pc \notin {"arrive", "down"} /\ crashes < MaxCrashes
  /\ crashes' = crashes + 1
  /\ pc' = "down" /\ resume' = "no"
  /\ host' \in {host, FALSE}
  /\ turn' = IF host' THEN turn ELSE "idle"
  /\ mem' = None /\ saving' = None /\ queued' = FALSE /\ ghosts' = {}
  /\ said' = [n \in Nodes |-> None]
  /\ clean' = (clean /\ mem = disk /\ pc \notin {"capped", "dead"})
  /\ UNCHANGED <<at, visits, attempts, told, disk,
                 restarts, continues, finished, reruns, warms>>

(* A fresh engine starts from checkpoint c.                                     *)
ResumeFrom(c, how) ==
  /\ pc' = "arrive" /\ resume' = how
  /\ at' = c.at /\ visits' = c.visits /\ attempts' = c.attempts
  /\ said' = [n \in Nodes |-> None]

(* Bug: a run that hit a cap is taken for one that is still under way.          *)
BugInert(c) == c.end = "final"

Inert(c) == c.end # "none"

(* The next boot loads the roster. A marked run comes back inert and its thread *)
(* is shut down; one with no checkpoint is not resumed; the others are resumed  *)
(* warm over a live thread (reconnectLive) or cold (adoptOrphanedAgents).       *)
Boot ==
  /\ pc = "down"
  /\ mem' = disk
  /\ IF disk = None
     THEN pc' = "over" /\ UNCHANGED <<at, visits, attempts, resume, said, thread>>
     ELSE IF Inert(disk)
     THEN /\ pc' = "over" /\ host' = FALSE /\ turn' = "idle"
          /\ UNCHANGED <<at, visits, attempts, resume, said>>
     ELSE ResumeFrom(disk, IF host THEN "warm" ELSE "cold") /\ UNCHANGED thread
  /\ UNCHANGED <<told, disk, saving, queued, ghosts, counts, history>>

(* An engine that is stopped while a node other than a gate runs stays behind,  *)
(* waiting for it.                                                              *)
LeftBehind ==
  IF pc = "execute" /\ Kind[at] \in {"agent", "command"}
  THEN {[at |-> at, visits |-> visits]} ELSE {}

(* restart(): the old driver is stopped, with its thread; the attempts are      *)
(* forgiven; a fresh engine resumes cold from what is in memory.                *)
Relaunch(c) ==
  /\ mem' = [c EXCEPT !.attempts = 0]
  /\ ResumeFrom(mem', "cold")
  /\ host' = FALSE /\ turn' = "idle"
  /\ ghosts' = ghosts \cup LeftBehind
  /\ reruns' = 0 /\ warms' = 0

OperatorRestart ==
  /\ pc \in {"execute", "over"} /\ restarts < MaxRestarts
  /\ mem # None /\ mem.end = "none"
  /\ restarts' = restarts + 1
  /\ Relaunch(mem)
  /\ UNCHANGED <<told, disk, saving, queued, crashes, continues, finished, clean>>

Ladder == UNION {{Retry[g]} \cup {Tiers[Retry[g]][i] : i \in DOMAIN Tiers[Retry[g]]} :
                   g \in {h \in Gate : Retry[h] # None}}

(* continueRun(): clears a continuable marker, forgives the visits of the       *)
(* fix-up ladder, saves, and restarts.                                          *)
ContinueRun ==
  /\ pc = "over" /\ continues < MaxContinues
  /\ mem # None /\ mem.end = "continuable"
  /\ continues' = continues + 1
  /\ Relaunch([mem EXCEPT !.end = "none",
                          !.visits = [n \in Nodes |-> IF n \in Ladder THEN 0 ELSE @[n]]])
  /\ Persist
  /\ UNCHANGED <<told, crashes, restarts, finished, clean>>

(* The node of a superseded engine ends. It was told to stop, so it goes no     *)
(* further, but its exit checkpoint or its failure still reaches the record:    *)
(* the "checkpoint" and "event" listeners do not ask which driver is current.   *)
GhostReturns ==
  /\ pc \notin {"arrive", "down"}
  /\ \E g \in ghosts : \E o \in {"succeeded", "failed"} :
       /\ Kind[g.at] = "agent" => o = "failed"
       /\ IF Routes(g.at, o) = {}
          THEN /\ mem # None
               /\ IF o = "failed" THEN Emit([mem EXCEPT !.end = "final"])
                  ELSE UNCHANGED store
          ELSE \E next \in Routes(g.at, o) :
                 Emit(ExitCheckpoint(next, g.visits))
       /\ ghosts' = ghosts \ {g}
  /\ clean' = FALSE
  /\ UNCHANGED <<engine, thread, counts, finished, reruns, warms>>

------------------------------------------------------------------------------

Init ==
  /\ pc = "off" /\ at = Start /\ visits = [n \in Nodes |-> 0]
  /\ attempts = 0 /\ resume = "no" /\ told = FALSE
  /\ said = [n \in Nodes |-> None]
  /\ host = FALSE /\ turn = "idle"
  /\ mem = None /\ disk = None /\ saving = None /\ queued = FALSE
  /\ ghosts = {}
  /\ crashes = 0 /\ restarts = 0 /\ continues = 0
  /\ finished = [n \in Nodes |-> 0]
  /\ reruns = 0 /\ warms = 0 /\ clean = TRUE

Arrive == ReachExit \/ Dangle \/ HitCap \/ PoisonCap \/ FollowOverflow \/ Enter
Work == Deliver \/ TurnEnds \/ Return \/ DeadEnd \/ Throw \/ Mark \/ Saved
Upset == Crash \/ Boot \/ OperatorRestart \/ ContinueRun \/ GhostReturns

Next == Begin \/ Arrive \/ Work \/ Upset

Spec == Init /\ [][Next]_vars

(* A node that is not a human gate ends: turns time out, and the commands are   *)
(* taken to end.                                                                *)
NodeEnds == Kind[at] # "human" /\ (Return \/ DeadEnd)

FairSpec ==
  /\ Spec
  /\ WF_vars(Arrive) /\ WF_vars(NodeEnds) /\ WF_vars(Mark) /\ WF_vars(Boot)

------------------------------------------------------------------------------

TypeOK ==
  /\ pc \in {"off", "arrive", "execute", "capped", "dead", "over", "down"}
  /\ at \in Nodes /\ visits \in [Nodes -> Nat] /\ attempts \in Nat
  /\ resume \in {"no", "warm", "cold"} /\ told \in BOOLEAN
  /\ said \in [Nodes -> Outputs \cup {None}]
  /\ host \in BOOLEAN /\ turn \in {"idle", "streaming"}
  /\ mem \in Checkpoint \cup {None} /\ disk \in Checkpoint \cup {None}
  /\ saving \in Checkpoint \cup {None} /\ queued \in BOOLEAN
  /\ ghosts \subseteq Ghost
  /\ crashes \in 0..MaxCrashes /\ restarts \in 0..MaxRestarts /\ continues \in 0..MaxContinues
  /\ finished \in [Nodes -> Nat] /\ reruns \in Nat /\ warms \in Nat /\ clean \in BOOLEAN

(* A resume after a crash starts at the node where the run stood, with the      *)
(* visits it had: a node that was handed on is not entered again, and none is   *)
(* passed over, as long as no checkpoint was lost or overwritten.               *)
ResumeExact ==
  [][pc = "down" /\ pc' = "arrive" /\ clean => at' = at /\ visits' = visits]_vars

(* Over all its engines, resumes and restarts a run is one walk of its graph:   *)
(* no node is entered that was not handed on to, counted twice for one visit,   *)
(* entered beyond its cap or passed over, and what gave up goes on only where a *)
(* "continue" lets it.  This is so until a checkpoint is lost or overwritten.   *)
Record == IF pc = "down" THEN disk ELSE mem

Successors == [n \in Nodes |->
  {e.to : e \in {f \in Edges : f.from = n}} \cup
  (IF n \in Gate /\ Retry[n] # None
   THEN {Retry[n]} \cup {Tiers[Retry[n]][i] : i \in DOMAIN Tiers[Retry[n]]} ELSE {})]

Inside ==
  /\ ~Halts
  /\ \/ pc \in {"execute", "dead"}
     \/ pc = "arrive" /\ resume # "no"
     \/ pc \in {"over", "down"} /\ Record # None

Phase ==
  IF Record # None /\ Record.end # "none"
  THEN IF Record.end = "continuable" THEN "capped" ELSE "dead"
  ELSE IF Inside THEN "inside" ELSE "ready"

Handed == IF Record = None THEN Start ELSE Record.at

Abstract == INSTANCE Walk WITH
  Exits   <- {n \in Nodes : Kind[n] = "exit"},
  Missing <- {n \in Nodes : Kind[n] = "missing"},
  phase   <- Phase,
  handed  <- Handed,
  lost    <- ~clean

ImplementsWalk == Abstract!Spec

(* No node is executed to its end more often than its cap allows, over all the  *)
(* resumes of a run; each "continue" adds the ladder's budget once more, and    *)
(* the node it resumes at, which it does not count.                             *)
CapHeld ==
  clean => \A n \in Nodes : finished[n] <= Limit[n] + continues * (Limit[n] + 1)

(* Cold executions of one node that never ends stop at the cap; a warm resume   *)
(* in between starts the count again.                                           *)
PoisonBounded == clean => reruns <= ResumeCap * (warms + 1)

(* A run with a terminal marker stays where it died until a human continues it. *)
FailedStaysDown ==
  clean => /\ mem # None /\ mem.end # "none" => pc = "over"
           /\ disk # None /\ disk.end = "final" => pc \in {"over", "down"}

(* An agent node passes for done only if its prompt reached the thread.         *)
DoneOnlyIfTold ==
  pc = "execute" /\ Kind[at] = "agent" /\ "succeeded" \in Outcome(at) => told

(* A run that is working comes to an end, or to a human gate.                   *)
RunEnds == pc = "execute" ~> pc = "over" \/ (pc = "execute" /\ Kind[at] = "human")
=============================================================================
