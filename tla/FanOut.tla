------------------------------- MODULE FanOut -------------------------------
(***************************************************************************)
(* One parallel node of a workflow run: the engine's fan-out and join      *)
(* (src/src/workflow/engine.ts, runParallel), the roster agents its        *)
(* branches run on (src/src/squad-manager.ts, spawnFleetBranch and         *)
(* runAgentTask) and what a restart of the daemon does with both.          *)
(*                                                                         *)
(* A branch is its index among the node's edges.  Its agent id is a pure   *)
(* function of run, node visit and index, so a branch has one roster slot, *)
(* one host process and one worktree whichever pass runs it.               *)
(***************************************************************************)
EXTENDS Integers, FiniteSets

CONSTANTS
    N,            \* branches of the node
    MaxParallel,  \* the node's max_parallel
    Settings,     \* the deployments considered, see SettingsAssumption
    MaxCrashes,   \* bound: how often the daemon dies
    MaxFaults     \* bound: how often a spawn throws, a host dies or is killed

Branches == 1 .. N
Policies == {"wait_all", "first_success"}
Dispositions == {"not_attempted", "succeeded", "failed"}
Resolved == {"succeeded", "failed"}

(* hard: hardAgentCeiling(), wip: the scheduler's cap, both less what the   *)
(* agents outside the fan-out take of them.  pressed: whether               *)
(* the resource gate is on and may report pressure at any check.  spent:    *)
(* the branches whose node is at its visit cap when the fork is entered.    *)
Setting == [policy : Policies, hard : Nat \ {0}, wip : Nat \ {0},
            pressed : BOOLEAN, spent : SUBSET Branches]

ASSUME BranchAssumption == N \in Nat \ {0}
ASSUME ParallelAssumption == MaxParallel \in Nat \ {0}
ASSUME SettingsAssumption == Settings \subseteq Setting
ASSUME BoundsAssumption == MaxCrashes \in Nat /\ MaxFaults \in Nat

VARIABLES
    cfg,       \* the deployment, fixed at the start
    phase,     \* "fan" while runParallel runs, "joined" after, "dead" with the daemon
    at,        \* where the current pass is with each branch
    out,       \* branchOutcomes: the dispositions of the current pass
    res,       \* results: what the current pass holds for each branch
    aborted,   \* the fan-out's abort controller fired
    roster,    \* status of the record under the branch's id, or "gone";
               \* "stopped" covers error: both free the record's slot
    host,      \* the branch's detached agent host
    mem,       \* the run's state on the parent's roster record: see State
    disk,      \* the snapshot the store last wrote
    up,        \* the daemon runs
    ended,     \* history: branches that finished a turn
    late,      \* history: branches whose turn ran out of its thirty minutes
    crashes, faults

engine == <<phase, at, out, res, aborted>>
fleet == <<roster, host>>
counts == <<crashes, faults>>
history == <<ended, late>>
vars == <<cfg, engine, fleet, mem, disk, up, history, counts>>

-----------------------------------------------------------------------------
(* Where a pass can be with a branch: recorded before the pass ("folded"),  *)
(* not pulled yet, in createWithId up to the roster insert, starting its    *)
(* driver, connected, in its turn, over.                                    *)
Steps == {"folded", "todo", "creating", "starting", "ready", "turn", "over"}
InFlight == {b \in Branches : at[b] \in {"creating", "starting", "ready", "turn"}}
Untried == [b \in Branches |-> "not_attempted"]

(* node: "fork" in the entry checkpoint and its clones; after the join the  *)
(* outcome the exit checkpoint carries to the merge node, without a map.    *)
State(node, map) == [node |-> node, out |-> map]

(* liveAgents and occupyingAgents, over the branches' own records. *)
Live == {b \in Branches : roster[b] \in {"starting", "idle", "working"}}
Occupying == {b \in Branches : roster[b] \in {"starting", "working"}}

(* Bug: the fan-out bypasses the ceiling like the rest of create's checks.  *)
BugAdmits == Cardinality(Occupying) < cfg.wip

Admits == /\ Cardinality(Live) < cfg.hard
          /\ Cardinality(Occupying) < cfg.wip

(* A winner recorded before the pass: nothing is spawned again. *)
Won(map) == cfg.policy = "first_success" /\ \E b \in Branches : map[b] = "succeeded"

(* Bug: a resumed pass runs every branch of the node.                       *)
BugPlace(map) == [b \in Branches |-> "todo"]

(* A pass over recorded dispositions: resolved branches and, when there is  *)
(* a winner, all of them are folded in and not run.                         *)
Place(map) == [b \in Branches |->
    IF map[b] \in Resolved \/ Won(map) THEN "folded" ELSE "todo"]

(* Bugs: a branch nobody ran passes for a success; the raw disposition is   *)
(* taken for a result.                                                      *)
BugFoldAnything(d) == "succeeded"
BugFoldRaw(d) == d

(* What the join holds for a branch the pass did not run. *)
Fold(d) == IF d = "succeeded" THEN "succeeded" ELSE "failed"

(* The join: succeeded when the policy is met by what the pass holds. *)
Joined(held) ==
    LET won == {b \in Branches : held[b] = "succeeded"}
    IN  IF (cfg.policy = "first_success" /\ won # {}) \/ won = Branches
        THEN "succeeded" ELSE "failed"

-----------------------------------------------------------------------------
Init ==
    /\ cfg \in Settings
    /\ phase = "fan" /\ aborted = FALSE
    /\ out = Untried
    /\ at = Place(Untried)
    /\ res = [b \in Branches |-> "none"]
    /\ roster = [b \in Branches |-> "gone"]
    /\ host = [b \in Branches |-> "down"]
    /\ mem = State("fork", Untried)
    /\ disk = [node |-> "fork", out |-> Untried, listed |-> {}]
    /\ up = TRUE
    /\ ended = {} /\ late = {}
    /\ crashes = 0 /\ faults = 0

Running == up /\ phase = "fan"

Fault == faults < MaxFaults /\ faults' = faults + 1

(* A worker takes the next branch when fewer than MaxParallel are in flight *)
(* and nobody aborted.                                                      *)
Pulled(b) ==
    /\ Running /\ ~aborted
    /\ Cardinality(InFlight) < MaxParallel
    /\ at[b] = "todo"
    /\ \A c \in Branches : at[c] = "todo" => b <= c

(* The worker's tail: a result, its disposition, a checkpoint that clones   *)
(* the entry with the whole map.                                            *)
Settled(b, disposition) ==
    /\ out' = [out EXCEPT ![b] = disposition]
    /\ mem' = State("fork", out')

(* A branch at its visit cap fails without a turn. *)
Exhausted(b) ==
    /\ Pulled(b) /\ b \in cfg.spent
    /\ at' = [at EXCEPT ![b] = "over"]
    /\ res' = [res EXCEPT ![b] = "failed"]
    /\ Settled(b, "failed")
    /\ UNCHANGED <<cfg, phase, aborted, fleet, disk, up, history, counts>>

(* No slot, or a loaded host: the branch is not attempted. *)
Refused(b) ==
    /\ Pulled(b) /\ b \notin cfg.spent
    /\ Admits => cfg.pressed
    /\ at' = [at EXCEPT ![b] = "over"]
    /\ res' = [res EXCEPT ![b] = "failed"]
    /\ Settled(b, "not_attempted")
    /\ UNCHANGED <<cfg, phase, aborted, fleet, disk, up, history, counts>>

(* A slot is free now: the spawn goes on, the roster changes only later.    *)
(* The stop of a stale record under the id is left out: Boot has stopped    *)
(* every branch that a pass will run, when it can read the graph.           *)
Admitted(b) ==
    /\ Pulled(b) /\ b \notin cfg.spent
    /\ Admits
    /\ at' = [at EXCEPT ![b] = "creating"]
    /\ UNCHANGED <<cfg, phase, out, res, aborted, fleet, mem, disk, up, history, counts>>

(* createWithId puts the record in the roster. *)
Registered(b) ==
    /\ Running /\ at[b] = "creating"
    /\ at' = [at EXCEPT ![b] = "starting"]
    /\ roster' = [roster EXCEPT ![b] = "starting"]
    /\ UNCHANGED <<cfg, phase, out, res, aborted, host, mem, disk, up, history, counts>>

(* The driver's start: the host is attached or spawned. *)
Connected(b) ==
    /\ Running /\ at[b] = "starting"
    /\ at' = [at EXCEPT ![b] = "ready"]
    /\ roster' = [roster EXCEPT ![b] = "idle"]
    /\ host' = [host EXCEPT ![b] = "up"]
    /\ UNCHANGED <<cfg, phase, out, res, aborted, mem, disk, up, history, counts>>

(* A start that throws is settled by createWithId itself: the record stays, *)
(* in error, and the branch is prompted all the same.                       *)
StartFailed(b) ==
    /\ Running /\ at[b] = "starting" /\ Fault
    /\ at' = [at EXCEPT ![b] = "ready"]
    /\ roster' = [roster EXCEPT ![b] = "stopped"]
    /\ host' = [host EXCEPT ![b] = "down"]
    /\ UNCHANGED <<cfg, phase, out, res, aborted, mem, disk, up, history, crashes>>

(* The abort signal reaches every branch in its turn: its host is told to   *)
(* stop, taken here to obey at once, its record marked, its result not      *)
(* attempted.                                                               *)
InTurn == {b \in Branches : at[b] = "turn"}
Torn(set) ==
    /\ roster' = [b \in Branches |-> IF b \in set THEN "stopped" ELSE roster[b]]
    /\ host' = [b \in Branches |-> IF b \in set THEN "down" ELSE host[b]]

(* createWithId rejects (a conflict, no worktree; or behind the roster      *)
(* insert, which nothing takes back): the branch fails and its siblings are *)
(* torn down.                                                               *)
CreateThrew(b) ==
    /\ Running /\ at[b] \in {"creating", "starting"} /\ Fault
    /\ aborted' = TRUE
    /\ at' = [c \in Branches |-> IF c = b \/ c \in InTurn THEN "over" ELSE at[c]]
    /\ res' = [c \in Branches |-> IF c = b \/ c \in InTurn THEN "failed" ELSE res[c]]
    /\ Settled(b, "not_attempted")
    /\ Torn(InTurn)
    /\ UNCHANGED <<cfg, phase, disk, up, history, crashes>>

(* Bug: the signal is only listened to, not read first.                     *)
BugVoid(b) == host[b] = "down"
Void(b) == aborted \/ host[b] = "down"

(* runAgentTask: an aborted fan-out stops the agent it just made; a dead    *)
(* driver rejects the prompt and leaves its record working; otherwise the   *)
(* turn begins.                                                             *)
Prompted(b) ==
    /\ Running /\ at[b] = "ready"
    /\ ~Void(b)
    /\ at' = [at EXCEPT ![b] = "turn"]
    /\ roster' = [roster EXCEPT ![b] = "working"]
    /\ host' = [host EXCEPT ![b] = "working"]
    /\ UNCHANGED <<cfg, phase, out, res, aborted, mem, disk, up, history, counts>>

NotPrompted(b) ==
    /\ Running /\ at[b] = "ready"
    /\ Void(b)
    /\ at' = [at EXCEPT ![b] = "over"]
    /\ res' = [res EXCEPT ![b] = "failed"]
    /\ roster' = [roster EXCEPT ![b] = IF aborted THEN "stopped" ELSE "working"]
    /\ host' = [host EXCEPT ![b] = "down"]
    /\ Settled(b, "not_attempted")
    /\ UNCHANGED <<cfg, phase, aborted, disk, up, history, counts>>

(* The agent's turn ends while the branch listens.  Under first_success     *)
(* that decides the fan-out: the others are torn down.                      *)
TurnEnded(b) ==
    LET losers == IF cfg.policy = "first_success" THEN InTurn \ {b} ELSE {}
    IN  /\ Running /\ at[b] = "turn" /\ host[b] = "working"
        /\ aborted' = (aborted \/ cfg.policy = "first_success")
        /\ at' = [c \in Branches |-> IF c = b \/ c \in losers THEN "over" ELSE at[c]]
        /\ res' = [c \in Branches |-> IF c = b THEN "succeeded" ELSE IF c \in losers THEN "failed" ELSE res[c]]
        /\ Settled(b, "succeeded")
        /\ roster' = [c \in Branches |-> IF c = b THEN "idle" ELSE IF c \in losers THEN "stopped" ELSE roster[c]]
        /\ host' = [c \in Branches |-> IF c = b THEN "up" ELSE IF c \in losers THEN "down" ELSE host[c]]
        /\ ended' = ended \cup {b}
        /\ UNCHANGED <<cfg, phase, disk, up, late, counts>>

(* Bug: a driver that has gone takes the timer with it.                     *)
BugExpires(b) == at[b] = "turn" /\ host[b] # "down"
Expires(b) == at[b] = "turn"

(* The thirty minutes are over: a failed turn.  The agent is not stopped.   *)
TimedOut(b) ==
    /\ Running /\ Expires(b)
    /\ at' = [at EXCEPT ![b] = "over"]
    /\ res' = [res EXCEPT ![b] = "failed"]
    /\ Settled(b, "failed")
    /\ late' = late \cup {b}
    /\ UNCHANGED <<cfg, phase, aborted, fleet, disk, up, ended, counts>>

(* The branch hears the exit of its agent during its turn. *)
Heard(b, disposition) ==
    /\ at' = [at EXCEPT ![b] = "over"]
    /\ res' = [res EXCEPT ![b] = "failed"]
    /\ Settled(b, disposition)
NotHeard == UNCHANGED <<at, res, out, mem>>

(* The agent host dies: not attempted when that cuts a turn short. *)
HostDied(b) ==
    /\ host[b] # "down" /\ Fault
    /\ host' = [host EXCEPT ![b] = "down"]
    /\ roster' = [roster EXCEPT ![b] = IF up /\ roster[b] # "gone" THEN "stopped" ELSE roster[b]]
    /\ \/ Running /\ at[b] = "turn" /\ Heard(b, "not_attempted")
       \/ ~(Running /\ at[b] = "turn") /\ NotHeard
    /\ UNCHANGED <<cfg, phase, aborted, disk, up, history, crashes>>

(* The operator kills a branch's agent: a failed turn.  RpcAgent.stop marks *)
(* itself exited before its socket closes, so the exit may never be told;   *)
(* the branch then waits for its timer.                                     *)
Kill(b) ==
    /\ up /\ Fault
    /\ host[b] # "down" /\ roster[b] # "gone"
    /\ host' = [host EXCEPT ![b] = "down"]
    /\ roster' = [roster EXCEPT ![b] = "stopped"]
    /\ \/ Running /\ at[b] = "turn" /\ Heard(b, "failed")
       \/ NotHeard
    /\ UNCHANGED <<cfg, phase, aborted, disk, up, history, crashes>>

(* A turn nobody listens to ends. *)
TurnEndedAlone(b) ==
    /\ host[b] = "working" /\ ~(Running /\ at[b] = "turn")
    /\ host' = [host EXCEPT ![b] = "up"]
    /\ roster' = [roster EXCEPT ![b] = IF roster[b] = "working" THEN "idle" ELSE roster[b]]
    /\ UNCHANGED <<cfg, engine, mem, disk, up, history, counts>>

(* Every worker is done: what the pass did not run is folded in, the join   *)
(* returns and the exit checkpoint replaces the fan-out's state.            *)
Held == [b \in Branches |-> IF res[b] = "none" THEN Fold(out[b]) ELSE res[b]]
Join ==
    /\ Running /\ InFlight = {}
    /\ aborted \/ \A b \in Branches : at[b] # "todo"
    /\ phase' = "joined"
    /\ res' = Held
    /\ mem' = State(Joined(Held), Untried)
    /\ UNCHANGED <<cfg, at, out, aborted, fleet, disk, up, history, counts>>

-----------------------------------------------------------------------------
(* The store writes the roster and the run's state as they are now. *)
Save ==
    /\ up
    /\ disk' = [node |-> mem.node, out |-> mem.out, listed |-> {b \in Branches : roster[b] # "gone"}]
    /\ UNCHANGED <<cfg, engine, fleet, mem, up, history, counts>>

(* The daemon dies; the agent hosts are detached and live on. *)
Crash ==
    /\ up /\ crashes < MaxCrashes
    /\ crashes' = crashes + 1
    /\ up' = FALSE /\ phase' = "dead"
    /\ at' = [b \in Branches |-> "over"] /\ aborted' = FALSE
    /\ out' = Untried /\ res' = [b \in Branches |-> "none"]
    /\ mem' = State("fork", Untried)
    /\ roster' = [b \in Branches |-> "gone"]
    /\ UNCHANGED <<cfg, host, disk, history, faults>>

(* Bug: no branch is stopped before the run resumes.                        *)
BugUnresolved(state) == {}

(* The branches a resumed fan-out will spawn again. *)
Unresolved(state) ==
    IF state.node # "fork" THEN {} ELSE {b \in Branches : state.out[b] \notin Resolved}

(* The next daemon reattaches the saved agents whose host lives, stops and  *)
(* forgets the unresolved branches among them, reaps the hosts nobody owns  *)
(* and resumes the run.  The engine then emits the fork's entry checkpoint  *)
(* again, without the map it resumed from.                                  *)
Kept == {b \in disk.listed : host[b] # "down"} \ Unresolved(disk)
Boot ==
    /\ ~up /\ up' = TRUE
    /\ host' = [b \in Branches |-> IF b \in Kept THEN host[b] ELSE "down"]
    /\ roster' = [b \in Branches |-> IF b \notin Kept THEN "gone"
                                     ELSE IF host[b] = "working" THEN "working" ELSE "idle"]
    /\ phase' = IF disk.node = "fork" THEN "fan" ELSE "joined"
    /\ out' = disk.out
    /\ at' = Place(disk.out)
    /\ mem' = State(disk.node, Untried)
    /\ UNCHANGED <<cfg, res, aborted, disk, history, counts>>

Pull(b) == Exhausted(b) \/ Refused(b) \/ Admitted(b)
Spawn(b) == Registered(b) \/ Connected(b) \/ StartFailed(b) \/ CreateThrew(b)
Turn(b) == Prompted(b) \/ NotPrompted(b) \/ TimedOut(b)
Agent(b) == TurnEnded(b) \/ HostDied(b) \/ Kill(b) \/ TurnEndedAlone(b)

(* What the daemon does by itself: it pulls, spawns, prompts, times out,    *)
(* joins; and a dead one is started again.                                  *)
Progress == \/ \E b \in Branches : Pull(b) \/ Spawn(b) \/ Turn(b)
            \/ Join \/ Boot

Next == Progress \/ Save \/ Crash \/ \E b \in Branches : Agent(b)

Spec == Init /\ [][Next]_vars
FairSpec == Spec /\ WF_vars(Progress)

-----------------------------------------------------------------------------
TypeOK ==
    /\ cfg \in Settings
    /\ phase \in {"fan", "joined", "dead"}
    /\ at \in [Branches -> Steps]
    /\ out \in [Branches -> Dispositions]
    /\ res \in [Branches -> {"none"} \cup Resolved]
    /\ aborted \in BOOLEAN
    /\ roster \in [Branches -> {"gone", "starting", "idle", "working", "stopped"}]
    /\ host \in [Branches -> {"down", "up", "working"}]
    /\ mem \in [node : {"fork"} \cup Resolved, out : [Branches -> Dispositions]]
    /\ disk \in [node : {"fork"} \cup Resolved, out : [Branches -> Dispositions], listed : SUBSET Branches]
    /\ up \in BOOLEAN
    /\ ended \subseteq Branches /\ late \subseteq Branches
    /\ crashes \in 0 .. MaxCrashes /\ faults \in 0 .. MaxFaults

(* A branch that the last save calls resolved is not being run.             *)
(* Source: runParallel runs only what is recorded not_attempted, and a      *)
(* checkpoint carries the whole map, over every restart.                    *)
ResolvedNotRerun == \A b \in InFlight : disk.out[b] = "not_attempted"

(* A join reports success only for turns that ended: all of them under      *)
(* wait_all, one under first_success; whether this pass or an earlier one,  *)
(* before a restart, ran them.                                              *)
JoinHonest ==
    \A state \in {mem, [node |-> disk.node, out |-> disk.out]} :
        state.node = "succeeded" =>
            \/ ended = Branches
            \/ cfg.policy = "first_success" /\ ended # {}

(* No agent of the fan-out that obeys its stop works with nobody waiting    *)
(* for it, unless its turn ran out of time: neither after a win, a throw or *)
(* a join nor after a restart.  Source: the abort signal, the stop of       *)
(* unresolved branches at boot, the reaping of hosts nobody owns.           *)
NoneDetached ==
    up => \A b \in Branches : host[b] = "working" => at[b] = "turn" \/ b \in late

(* Once the controller fired no branch is in its turn, those whose spawn    *)
(* was under way included.                                                  *)
AbortReachesAll == aborted => InTurn = {}

(* The ceiling is read before a spawn's awaits and the record appears after *)
(* them, so a fan-out can pass it, by its parallelism less one at most.     *)
WithinSlack == up => Cardinality(Live \cup InFlight) <= cfg.hard + MaxParallel - 1

(* The fan-out ends, whatever its agents do, if the daemon is started again *)
(* after a crash.                                                           *)
FanOutEnds == <>[](up /\ phase = "joined")
=============================================================================
