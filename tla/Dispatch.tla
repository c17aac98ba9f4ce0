------------------------------ MODULE Dispatch ------------------------------
(***************************************************************************)
(* How an open issue gets exactly one agent: the dispatcher's tick and its *)
(* add-only ledger (src/src/dispatch.ts), the admission of a spawn and the *)
(* queue of the scheduler (create and start of src/src/squad-manager.ts),  *)
(* the one race sibling a failed run may have, and what a restart of the   *)
(* daemon keeps of all this.                                               *)
(*                                                                         *)
(* Four callers create agents: the tick, an operator who starts a task,    *)
(* the orchestrator that drains the queue, and the race.  A create awaits  *)
(* four times, and the others run in between.                              *)
(***************************************************************************)
EXTENDS Integers, Sequences, FiniteSets

CONSTANTS
    Issues,        \* issues of the tracker
    PoolSize,      \* bound: agent ids that something refers to at a time
    RaceIssues,    \* issues whose lane buys a race, by a human's decision
    Deployments,   \* the deployments considered, see Deployment
    MaxActive,     \* OMP_SQUAD_DISPATCH_MAX
    MaxWip         \* the scheduler's cap

Agents == 1 .. PoolSize

Callers == {"tick", "hand", "drain", "race"}
Origins == {"tick", "hand", "race"}
Kinds   == {"plain", "graph"}
Ended   == {"stopped", "error"}

(* queue: OMP_SQUAD_QUEUE_ON_FULL.  tracker: the issues to begin with, a    *)
(* held one behind a gate that claims nothing.  hands, faults, crashes are  *)
(* bounds: on tasks started by hand, on polls, spawns, stops and hosts that *)
(* fail, on deaths of the daemon.                                           *)
Deployment == [queue : BOOLEAN, tracker : [Issues -> {"held", "open", "closed"}],
               hands : Nat, faults : Nat, crashes : Nat]

ASSUME IssuesAssumption == Issues # {} /\ RaceIssues \subseteq Issues
ASSUME PoolAssumption == PoolSize \in Nat \ {0}
ASSUME CapsAssumption == MaxActive \in Nat /\ MaxWip \in Nat
ASSUME DeploymentsAssumption == Deployments \subseteq Deployment

VARIABLES
    cfg,        \* the deployment, fixed at the start
    tracker,    \* per issue: "held", "open" or "closed"
    shipped,    \* issues whose work is on the main branch
    up,         \* the daemon runs
    tick,       \* the dispatcher's poll, see Tick
    dispatched, \* issues claimed in memory since the boot
    ledger,     \* the dispatch ledger, in memory and on disk alike
    creating,   \* per caller, the create() it awaits
    queue,      \* requests parked at the cap, in memory
    what,       \* per agent: its issue, who asked for it, and its kind
    status,     \* per agent: its roster record, "gone" without one
    terminal,   \* agents whose record has the marker of a failed run
    host,       \* per agent: its detached host, in a turn or not, or "wedged":
                \* alive after its stop, and heard by nobody
    trees,      \* worktrees on disk, see TreeOf
    dirty,      \* those that hold unlanded work
    saved,      \* the snapshot on disk, see Snapshot
    race,       \* the race that parks its original
    raced,      \* the race ledger: per issue the stamp and the original
    siblings,   \* history: how many siblings an issue was given
    given,      \* history: issues an agent was started for by the tick
    hands, faults, crashes

issueVars == <<tracker, shipped>>
claims == <<tick, dispatched, ledger>>
records == <<what, status, terminal>>
workers == <<host, trees, dirty>>
races == <<race, raced, siblings>>
counts == <<hands, faults, crashes>>
vars == <<cfg, issueVars, up, claims, creating, queue, records, workers,
          saved, races, given, counts>>

AnIssue == CHOOSE i \in Issues : TRUE
AnAgent == 1

Tick   == [pc : {"off", "list", "guard", "spawn"}, claimed : SUBSET Issues,
           todo : SUBSET Issues, at : Issues, budget : Int]
Create == [st : {"none", "prime", "build", "start", "save"}, issue : Issues,
           by : Origins, agent : Agents]
Work   == [issue : Issues, by : Origins, kind : Kinds]
Race   == [on : BOOLEAN, orig : Agents]
Stamp  == [state : {"none", "pending", "spawned"}, orig : Agents]

Off     == [pc |-> "off", claimed |-> {}, todo |-> {}, at |-> AnIssue, budget |-> 0]
NoCall  == [st |-> "none", issue |-> AnIssue, by |-> "tick", agent |-> AnAgent]
NoWork  == [issue |-> AnIssue, by |-> "tick", kind |-> "plain"]
NoRace  == [on |-> FALSE, orig |-> AnAgent]
NoStamp == [state |-> "none", orig |-> AnAgent]

(* planeIssueBranch names branch and worktree after the issue, the race     *)
(* adds a suffix: agents for one issue share a worktree.                    *)
Tree(w)   == <<w.issue, IF w.by = "race" THEN "race" ELSE "base">>
TreeOf(a) == Tree(what[a])

Roster   == {a \in Agents : status[a] # "gone"}
Owners(i) == {a \in Roster : what[a].issue = i}

(* starting, working or waiting for input *)
Occupying == {a \in Agents : \/ status[a] = "starting"
                             \/ status[a] = "live" /\ host[a] = "busy"}
Live      == {a \in Roster : status[a] \notin Ended}

(* Bug: the marker of a failed run is kept in memory.                       *)
BugSnapshot ==
    [rec |-> [a \in Agents |-> IF status[a] = "gone" THEN "none"
                               ELSE IF status[a] = "starting" THEN "fresh" ELSE "begun"],
     terminal |-> {}]

(* What persistNow writes: every record's options.  A graph's checkpoint is *)
(* among them once it has started; the status of the record is not.         *)
Snapshot ==
    [rec |-> [a \in Agents |-> IF status[a] = "gone" THEN "none"
                               ELSE IF status[a] = "starting" THEN "fresh" ELSE "begun"],
     terminal |-> terminal]

(* newAgentId mints no id twice: one nothing refers to any more. *)
Unused(a) == /\ status[a] = "gone" /\ saved.rec[a] = "none" /\ host[a] = "dead"
             /\ \A i \in Issues : raced[i].state = "none" \/ raced[i].orig # a

-----------------------------------------------------------------------------
Init ==
    /\ cfg \in Deployments
    /\ tracker = cfg.tracker
    /\ shipped = {}
    /\ up = TRUE
    /\ tick = Off /\ dispatched = {} /\ ledger = {}
    /\ creating = [c \in Callers |-> NoCall]
    /\ queue = <<>>
    /\ what = [a \in Agents |-> NoWork]
    /\ status = [a \in Agents |-> "gone"]
    /\ terminal = {}
    /\ host = [a \in Agents |-> "dead"]
    /\ trees = {} /\ dirty = {}
    /\ saved = [rec |-> [a \in Agents |-> "none"], terminal |-> {}]
    /\ race = NoRace
    /\ raced = [i \in Issues |-> NoStamp]
    /\ siblings = [i \in Issues |-> 0]
    /\ given = {}
    /\ hands = 0 /\ faults = 0 /\ crashes = 0

Fault == faults < cfg.faults /\ faults' = faults + 1

(* The gate of an issue opens: a state change, a blocker closed. *)
Released(i) ==
    /\ tracker[i] = "held"
    /\ tracker' = [tracker EXCEPT ![i] = "open"]
    /\ UNCHANGED <<cfg, shipped, up, claims, creating, queue, records, workers,
                   saved, races, given, counts>>

-----------------------------------------------------------------------------
(* Bug: the claims and the ledger are thought to say what the roster says.  *)
BugCandidates(todo, seen) == todo \ seen

(* The dispatcher.  Between two awaits the tick passes over every issue     *)
(* that is claimed or gated and stops at the caps; it halts at an issue it  *)
(* may spawn, or it is over.                                                *)
Candidates(todo, seen) == todo \ (tick.claimed \cup seen)

Resumed(todo, seen, budget) ==
    LET next == Candidates(todo, seen)
    IN  IF budget <= 0 \/ Cardinality(Occupying) >= MaxWip \/ next = {}
        THEN tick' = Off
        ELSE \E i \in next : tick' = [tick EXCEPT !.pc = "guard", !.at = i,
                                          !.todo = todo \ {i}, !.budget = budget]

(* Bug: an agent keeps its slot under the cap after its turn, and that none *)
(* is left shows after the poll.                                            *)
BugTickStarts ==
    /\ up /\ tick.pc = "off"
    /\ Cardinality(Occupying) < MaxWip
    /\ tick' = [Off EXCEPT !.pc = "list", !.budget = MaxActive - Cardinality(Live),
                           !.claimed = {what[a].issue : a \in Roster}]
    /\ UNCHANGED <<cfg, issueVars, up, dispatched, ledger, creating, queue, records,
                   workers, saved, races, given, counts>>

(* The issues of the roster and the room under the cap are read once. *)
TickStarts ==
    /\ up /\ tick.pc = "off"
    /\ LET room == MaxActive - Cardinality(Occupying)
       IN  /\ room > 0 /\ Cardinality(Occupying) < MaxWip
           /\ tick' = [Off EXCEPT !.pc = "list", !.budget = room,
                                  !.claimed = {what[a].issue : a \in Roster}]
    /\ UNCHANGED <<cfg, issueVars, up, dispatched, ledger, creating, queue, records,
                   workers, saved, races, given, counts>>

(* listIssues answers; or it throws twice or is unconfigured. *)
Listed ==
    /\ up /\ tick.pc = "list"
    /\ Resumed({i \in Issues : tracker[i] = "open"}, dispatched \cup ledger, tick.budget)
    /\ UNCHANGED <<cfg, issueVars, up, dispatched, ledger, creating, queue, records,
                   workers, saved, races, given, counts>>

ListFails ==
    /\ up /\ tick.pc = "list"
    /\ Fault
    /\ tick' = Off
    /\ UNCHANGED <<cfg, issueVars, up, dispatched, ledger, creating, queue, records,
                   workers, saved, races, given, hands, crashes>>

(* The stale-issue guard: the repository records the work as done.  It      *)
(* closes the issue when it can.                                            *)
FoundDone ==
    /\ up /\ tick.pc = "guard" /\ tick.at \in shipped
    /\ dispatched' = dispatched \cup {tick.at}
    /\ ledger' = ledger \cup {tick.at}
    /\ Resumed(tick.todo, dispatched' \cup ledger', tick.budget)
    /\ \/ tracker' = [tracker EXCEPT ![tick.at] = "closed"]
       \/ UNCHANGED tracker
    /\ UNCHANGED <<cfg, shipped, up, creating, queue, records, workers, saved, races,
                   given, counts>>

(* Bug: both claims come before the spawn.                                  *)
BugClaims ==
    /\ up /\ tick.pc = "guard"
    /\ dispatched' = dispatched \cup {tick.at}
    /\ ledger' = ledger \cup {tick.at}
    /\ tick' = [tick EXCEPT !.pc = "spawn"]
    /\ creating' = [creating EXCEPT !["tick"] =
                        [NoCall EXCEPT !.st = "prime", !.issue = tick.at, !.by = "tick"]]
    /\ UNCHANGED <<cfg, issueVars, up, queue, records, workers, saved, races, given,
                   counts>>

(* The claim in memory comes before the spawn, the ledger after it. *)
Claims ==
    /\ up /\ tick.pc = "guard"
    /\ dispatched' = dispatched \cup {tick.at}
    /\ tick' = [tick EXCEPT !.pc = "spawn"]
    /\ creating' = [creating EXCEPT !["tick"] =
                        [NoCall EXCEPT !.st = "prime", !.issue = tick.at, !.by = "tick"]]
    /\ UNCHANGED <<cfg, issueVars, up, ledger, queue, records, workers, saved, races,
                   given, counts>>

-----------------------------------------------------------------------------
(* create().  Its return, with what the caller does before it awaits again. *)
Returns(c, ok) ==
    LET i == creating[c].issue
    IN  /\ creating' = [creating EXCEPT ![c] = NoCall]
        /\ IF c = "tick"
           THEN /\ ledger' = IF ok THEN ledger \cup {i} ELSE ledger
                /\ Resumed(tick.todo, dispatched \cup ledger',
                           IF ok THEN tick.budget - 1 ELSE tick.budget)
           ELSE UNCHANGED <<ledger, tick>>
        /\ IF c = "race"
           THEN /\ race' = NoRace
                /\ raced' = IF ok THEN [raced EXCEPT ![i].state = "spawned"] ELSE raced
                /\ status' = IF ok THEN status ELSE [status EXCEPT ![race.orig] = "error"]
           ELSE UNCHANGED <<race, raced, status>>

(* goalConflict: a record for the issue that is neither stopped nor failed. *)
Conflict(i) == \E a \in Live : what[a].issue = i

CanAdmit(count) == count < MaxWip

Refused(c) ==
    /\ up /\ creating[c].st = "prime"
    /\ \/ Conflict(creating[c].issue)
       \/ ~CanAdmit(Cardinality(Occupying)) /\ ~cfg.queue
    /\ Returns(c, FALSE)
    /\ UNCHANGED <<cfg, issueVars, up, dispatched, queue, what, terminal, workers,
                   saved, siblings, given, counts>>

(* At the cap the request is parked and the caller is answered as if an     *)
(* agent existed.                                                           *)
Parks(c) ==
    /\ up /\ creating[c].st = "prime" /\ cfg.queue
    /\ ~Conflict(creating[c].issue) /\ ~CanAdmit(Cardinality(Occupying))
    /\ queue' = Append(queue, [issue |-> creating[c].issue, by |-> creating[c].by])
    /\ Returns(c, TRUE)
    /\ UNCHANGED <<cfg, issueVars, up, dispatched, what, terminal, workers, saved,
                   siblings, given, counts>>

Admitted(c) ==
    /\ up /\ creating[c].st = "prime"
    /\ ~Conflict(creating[c].issue) /\ CanAdmit(Cardinality(Occupying))
    /\ creating' = [creating EXCEPT ![c].st = "build"]
    /\ UNCHANGED <<cfg, issueVars, up, claims, queue, records, workers, saved, races,
                   given, counts>>

(* The cost gate denies, the sandbox is missing, git fails. *)
BuildFails(c) ==
    /\ up /\ creating[c].st = "build"
    /\ Fault
    /\ Returns(c, FALSE)
    /\ UNCHANGED <<cfg, issueVars, up, dispatched, queue, what, terminal, workers,
                   saved, siblings, given, hands, crashes>>

(* resolveWorktree takes the worktree of the branch, the one there is or a  *)
(* new one; then the record enters the roster.                              *)
Registered(c) ==
    /\ up /\ creating[c].st = "build"
    /\ \E a \in Agents, k \in Kinds :
          LET w == [issue |-> creating[c].issue, by |-> creating[c].by, kind |-> k]
          IN  /\ Unused(a) /\ \A b \in Agents : Unused(b) => a <= b
              /\ creating[c].by = "race" => k = "graph"
              /\ creating' = [creating EXCEPT ![c].st = "start", ![c].agent = a]
              /\ what' = [what EXCEPT ![a] = w]
              /\ status' = [status EXCEPT ![a] = "starting"]
              /\ trees' = trees \cup {Tree(w)}
    /\ siblings' = IF creating[c].by = "race"
                   THEN [siblings EXCEPT ![creating[c].issue] = @ + 1] ELSE siblings
    /\ given' = IF creating[c].by = "tick" THEN given \cup {creating[c].issue} ELSE given
    /\ UNCHANGED <<cfg, issueVars, up, claims, queue, terminal, host, dirty, saved,
                   race, raced, counts>>

(* The driver is up and the task is sent. *)
Started(c) ==
    /\ up /\ creating[c].st = "start"
    /\ creating' = [creating EXCEPT ![c].st = "save"]
    /\ status' = [status EXCEPT ![creating[c].agent] = "live"]
    /\ host' = [host EXCEPT ![creating[c].agent] = "busy"]
    /\ UNCHANGED <<cfg, issueVars, up, claims, queue, what, terminal, trees, dirty,
                   saved, races, given, counts>>

(* Bug: what the removed worktree held is still taken for unlanded work.    *)
BugStartFails(c) ==
    /\ up /\ creating[c].st = "start"
    /\ Fault
    /\ creating' = [creating EXCEPT ![c].st = "save"]
    /\ status' = [status EXCEPT ![creating[c].agent] = "error"]
    /\ trees' = trees \ {TreeOf(creating[c].agent)}
    /\ UNCHANGED <<cfg, issueVars, up, claims, queue, what, terminal, host, dirty, saved,
                   races, given, hands, crashes>>

(* start() throws: the worktree goes, with --force, then the driver. *)
StartFails(c) ==
    /\ up /\ creating[c].st = "start"
    /\ Fault
    /\ creating' = [creating EXCEPT ![c].st = "save"]
    /\ status' = [status EXCEPT ![creating[c].agent] = "error"]
    /\ trees' = trees \ {TreeOf(creating[c].agent)}
    /\ dirty' = dirty \ {TreeOf(creating[c].agent)}
    /\ UNCHANGED <<cfg, issueVars, up, claims, queue, what, terminal, host, saved,
                   races, given, hands, crashes>>

(* The persist create awaits; it then resolves, whatever became of start(). *)
Resolves(c) ==
    /\ up /\ creating[c].st = "save"
    /\ saved' = Snapshot
    /\ Returns(c, TRUE)
    /\ UNCHANGED <<cfg, issueVars, up, dispatched, queue, what, terminal, workers,
                   siblings, given, counts>>

-----------------------------------------------------------------------------
(* startTask answers with the issue's record when there is one. *)
StartTask(i) ==
    /\ up /\ hands < cfg.hands /\ hands' = hands + 1
    /\ creating["hand"].st = "none" /\ tracker[i] # "closed" /\ Owners(i) = {}
    /\ creating' = [creating EXCEPT !["hand"] =
                        [NoCall EXCEPT !.st = "prime", !.issue = i, !.by = "hand"]]
    /\ UNCHANGED <<cfg, issueVars, up, claims, queue, records, workers, saved, races,
                   given, faults, crashes>>

(* The orchestrator takes a parked request off the queue and spawns it. *)
Drains ==
    /\ up /\ creating["drain"].st = "none" /\ queue # <<>>
    /\ CanAdmit(Cardinality(Live))
    /\ queue' = Tail(queue)
    /\ creating' = [creating EXCEPT !["drain"] =
                        [NoCall EXCEPT !.st = "prime", !.issue = Head(queue).issue,
                                       !.by = Head(queue).by]]
    /\ UNCHANGED <<cfg, issueVars, up, claims, records, workers, saved, races, given,
                   counts>>

-----------------------------------------------------------------------------
(* Agents.  A turn, or a graph's run, ends with or without work to land;    *)
(* a plain agent's does so without the daemon too.                          *)
TurnEnds(a) ==
    /\ host[a] = "busy"
    /\ (up /\ status[a] = "live") \/ what[a].kind = "plain"
    /\ host' = [host EXCEPT ![a] = "idle"]
    /\ \/ TreeOf(a) \in trees /\ dirty' = dirty \cup {TreeOf(a)}
       \/ UNCHANGED dirty
    /\ UNCHANGED <<cfg, issueVars, up, claims, creating, queue, records, trees, saved,
                   races, given, counts>>

(* Verified work is merged; the tracker is told, which may fail. *)
Lands(a) ==
    /\ up /\ status[a] = "live" /\ host[a] = "idle" /\ a \notin terminal
    /\ TreeOf(a) \in dirty
    /\ dirty' = dirty \ {TreeOf(a)}
    /\ shipped' = shipped \cup {what[a].issue}
    /\ \/ tracker' = [tracker EXCEPT ![what[a].issue] = "closed"]
       \/ UNCHANGED tracker
    /\ UNCHANGED <<cfg, up, claims, creating, queue, records, host, trees, saved, races,
                   given, counts>>

(* The host process is killed: the exit fails the record (or stops it, after *)
(* a turn that ended; nothing here tells the two apart).                     *)
HostDies(a) ==
    /\ host[a] # "dead" /\ Fault
    /\ host' = [host EXCEPT ![a] = "dead"]
    /\ status' = IF status[a] = "live" THEN [status EXCEPT ![a] = "error"] ELSE status
    /\ UNCHANGED <<cfg, issueVars, up, claims, creating, queue, what, terminal, trees,
                   dirty, saved, races, given, hands, crashes>>

(* Bug: only the race under way counts, not the ledger.                     *)
BugMayRace(i) == /\ i \in RaceIssues
                 /\ ~(race.on /\ what[race.orig].issue = i)

(* Never twice for an issue: not once the ledger has it, nor while its race *)
(* is under way.  (Races of two issues take turns in the model.)            *)
MayRace(i) == /\ i \in RaceIssues /\ raced[i].state = "none"
              /\ ~(race.on /\ what[race.orig].issue = i)

(* A graph run fails for good.  The marker is set; then the issue's one     *)
(* race begins, or a human is summoned.                                     *)
RunFails(a) ==
    LET i == what[a].issue
    IN  /\ up /\ status[a] = "live" /\ host[a] = "busy" /\ what[a].kind = "graph"
        /\ host' = [host EXCEPT ![a] = "idle"]
        /\ terminal' = terminal \cup {a}
        /\ IF MayRace(i)
           THEN ~race.on /\ race' = [on |-> TRUE, orig |-> a] /\ UNCHANGED status
           ELSE status' = [status EXCEPT ![a] = "error"] /\ UNCHANGED race
        /\ UNCHANGED <<cfg, issueVars, up, claims, creating, queue, what, trees, dirty,
                       saved, raced, siblings, given, counts>>

(* stop() sends the shutdown frame, waits and resolves: it never throws and *)
(* never looks whether the host went.  One that hangs outlives it, wedged.  *)
ToldToStop(a) ==
    \/ host' = [host EXCEPT ![a] = "dead"] /\ UNCHANGED faults
    \/ host[a] # "dead" /\ Fault /\ host' = [host EXCEPT ![a] = "wedged"]

(* The original is stopped, the budget spent, the sibling asked for. *)
Parked ==
    LET i == what[race.orig].issue
    IN  /\ up /\ race.on /\ creating["race"].st = "none"
        /\ ToldToStop(race.orig)
        /\ status' = [status EXCEPT ![race.orig] = "stopped"]
        /\ raced' = [raced EXCEPT ![i] = [state |-> "pending", orig |-> race.orig]]
        /\ creating' = [creating EXCEPT !["race"] =
                            [NoCall EXCEPT !.st = "prime", !.issue = i, !.by = "race"]]
        /\ UNCHANGED <<cfg, issueVars, up, claims, queue, what, terminal, trees, dirty,
                       saved, race, siblings, given, hands, crashes>>

(* A harness that outlived its stop commits on. *)
Lingers(a) ==
    /\ host[a] = "wedged" /\ TreeOf(a) \in trees \ dirty
    /\ dirty' = dirty \cup {TreeOf(a)}
    /\ UNCHANGED <<cfg, issueVars, up, claims, creating, queue, records, host, trees,
                   saved, races, given, counts>>

-----------------------------------------------------------------------------
(* persist() of any of its other callers. *)
Persists ==
    /\ up /\ saved # Snapshot
    /\ saved' = Snapshot
    /\ UNCHANGED <<cfg, issueVars, up, claims, creating, queue, records, workers, races,
                   given, counts>>

(* The daemon dies.  Hosts are detached and live on, also one whose start   *)
(* was under way.                                                           *)
Crash ==
    /\ up /\ crashes < cfg.crashes /\ crashes' = crashes + 1
    /\ up' = FALSE
    /\ tick' = Off /\ dispatched' = {}
    /\ creating' = [c \in Callers |-> NoCall]
    /\ queue' = <<>>
    /\ status' = [a \in Agents |-> "gone"]
    /\ terminal' = {}
    /\ race' = NoRace
    /\ \E S \in SUBSET {a \in Agents : status[a] = "starting"} :
          host' = [a \in Agents |-> IF a \in S THEN "idle" ELSE host[a]]
    /\ UNCHANGED <<cfg, issueVars, ledger, what, trees, dirty, saved, raced, siblings,
                   given, hands, faults>>

(* The boot, in its order: records with a live host are attached again (a   *)
(* graph only with a checkpoint), failed runs come back inert, every other  *)
(* host is told to stop, and of the rest those with work in their worktree  *)
(* are taken over under fresh ids, as far as their issue has no owner by    *)
(* then.                                                                    *)
Listings  == {a \in Agents : saved.rec[a] # "none"}
Inert     == Listings \cap saved.terminal
Attached  == {a \in Listings \ Inert : /\ host[a] # "dead"
                                       /\ what[a].kind = "graph" => saved.rec[a] = "begun"}
Resumable(a) == what[a].kind = "graph" /\ saved.rec[a] = "begun"
Adoptable == {a \in Listings \ (Inert \cup Attached) :
                  /\ TreeOf(a) \in trees
                  /\ TreeOf(a) \in dirty \/ Resumable(a)
                  /\ \A b \in Attached : what[b].issue # what[a].issue}

(* The first of an issue's records to be taken over keeps the others out. *)
TakeOver(D) == /\ D \subseteq Adoptable
               /\ \A a, b \in D : what[a].issue = what[b].issue => a = b
               /\ \A a \in Adoptable : \E b \in D : what[b].issue = what[a].issue

(* reattachTerminal: the human is summoned again, unless the run was raced. *)
Silenced(a) == LET r == raced[what[a].issue] IN r.state # "none" /\ r.orig = a

Boot ==
    /\ ~up /\ up' = TRUE
    /\ \E D \in SUBSET Adoptable, W \in SUBSET {a \in Agents \ Attached : host[a] # "dead"} :
       LET fresh == {a \in Agents \ W : /\ saved.rec[a] = "none"
                                        /\ \A i \in Issues : raced[i].orig # a}
           new   == CHOOSE f \in [D -> fresh] : \A a, b \in D : f[a] = f[b] => a = b
           ids   == {new[a] : a \in D}
           old(a) == CHOOSE b \in D : new[b] = a
       IN  /\ TakeOver(D)
           /\ IF W = {} THEN UNCHANGED faults ELSE Fault
           /\ new \in [D -> fresh] /\ \A a, b \in D : new[a] = new[b] => a = b
           /\ what' = [a \in Agents |-> IF a \in ids THEN what[old(a)] ELSE what[a]]
           /\ status' = [a \in Agents |->
                 IF a \in Attached \cup ids THEN "live"
                 ELSE IF a \in Inert THEN IF Silenced(a) THEN "stopped" ELSE "error"
                 ELSE "gone"]
           /\ host' = [a \in Agents |->
                 IF a \in ids THEN IF what'[a].kind = "graph" THEN "busy" ELSE "idle"
                 ELSE IF a \in Attached
                      THEN IF what[a].kind = "graph" THEN "busy" ELSE host[a]
                 ELSE IF a \in W THEN "wedged" ELSE "dead"]
           /\ terminal' = Inert
           /\ saved' = IF D = {} THEN saved
                       ELSE [rec |-> [a \in Agents |->
                                         IF status'[a] = "gone" THEN "none" ELSE "begun"],
                             terminal |-> Inert]
    /\ UNCHANGED <<cfg, issueVars, claims, creating, queue, trees, dirty, race, raced,
                   siblings, given, hands, crashes>>

-----------------------------------------------------------------------------
Steps(c) == \/ Refused(c) \/ Parks(c) \/ Admitted(c) \/ BuildFails(c) \/ Registered(c)
            \/ Started(c) \/ StartFails(c) \/ Resolves(c)
Polls == Listed \/ ListFails \/ FoundDone \/ Claims
Runs(a) == TurnEnds(a) \/ RunFails(a)

Next ==
    \/ TickStarts \/ Polls \/ Parked \/ Drains
    \/ Persists \/ Crash \/ Boot
    \/ \E i \in Issues : Released(i) \/ StartTask(i)
    \/ \E c \in Callers : Steps(c)
    \/ \E a \in Agents : Runs(a) \/ Lands(a) \/ HostDies(a) \/ Lingers(a)

Spec == Init /\ [][Next]_vars

(* The poll timer fires, the tick's awaits end, another await of the daemon *)
(* does, somebody boots a dead daemon, a turn ends.                         *)
Serves == \/ Parked \/ Drains \/ Boot
          \/ \E c \in Callers : Steps(c)
Fairness == /\ WF_vars(TickStarts) /\ WF_vars(Polls) /\ WF_vars(Serves)
            /\ WF_vars(\E a \in Agents : Runs(a))
FairSpec == Spec /\ Fairness

-----------------------------------------------------------------------------
TypeOK ==
    /\ cfg \in Deployments /\ up \in BOOLEAN
    /\ tracker \in [Issues -> {"held", "open", "closed"}]
    /\ shipped \subseteq Issues
    /\ tick \in Tick /\ dispatched \subseteq Issues /\ ledger \subseteq Issues
    /\ creating \in [Callers -> Create]
    /\ queue \in Seq([issue : Issues, by : Origins])
    /\ what \in [Agents -> Work]
    /\ status \in [Agents -> {"gone", "starting", "live", "stopped", "error"}]
    /\ terminal \subseteq Agents
    /\ host \in [Agents -> {"dead", "idle", "busy", "wedged"}]
    /\ trees \subseteq Issues \X {"base", "race"} /\ dirty \subseteq trees
    /\ saved \in [rec : [Agents -> {"none", "fresh", "begun"}], terminal : SUBSET Agents]
    /\ race \in Race /\ raced \in [Issues -> Stamp] /\ siblings \in [Issues -> Nat]
    /\ given \subseteq Issues
    /\ hands \in Nat /\ faults \in Nat /\ crashes \in Nat

(* Over crashes between the spawn, the snapshot and the ledger, the         *)
(* dispatcher never has two agents on the roster for one issue.             *)
OneByDispatch ==
    \A a, b \in Roster :
        what[a].by = "tick" /\ what[b].by = "tick" /\ what[a].issue = what[b].issue => a = b

(* An issue is given at most one race sibling, over any number of restarts  *)
(* and whatever the first one came to.                                      *)
RacedOnce == \A i \in Issues : siblings[i] <= 1

(* The daemon never drives or lands a sibling and its original together:    *)
(* whenever a sibling is on the roster, so is the original, marked as       *)
(* failed and its record ended, over refusals, deaths of hosts and daemon   *)
(* and the boot that brings both back.  Of the harness of the original      *)
(* nothing is said: it may have outlived its stop (see ToldToStop).         *)
OriginalParked ==
    \A b \in Roster : what[b].by = "race" =>
        LET r == raced[what[b].issue]
        IN  r.state # "none" /\ r.orig \in terminal \cap Roster /\ status[r.orig] \in Ended

(* Without the queue nothing enters the add-only ledger but an issue that   *)
(* got an agent or was found done: a spawn refused or failed before its     *)
(* record exists leaves the issue to the next boot.                         *)
LedgerEarned == ~cfg.queue => ledger \subseteq given \cup shipped

(* A claim whose spawn was refused or failed: for this tenure the tick      *)
(* passes over the issue, only a boot forgets the claim.                    *)
PassedOver(i) == i \in dispatched \ ledger /\ ~(tick.pc = "spawn" /\ tick.at = i)

(* Every open issue gets its attempt in a tenure of the daemon that lasts:  *)
(* again and again each one has an agent, is in the ledger or had its spawn *)
(* refused since the boot.  So no failed poll, full fleet, claim of another *)
(* caller or restart keeps an issue from being tried, and a boot has a      *)
(* refused one tried again; until then it stays passed over.                *)
TakenUp ==
    []<>(\A i \in Issues :
            tracker[i] = "open" => i \in ledger \/ Owners(i) # {} \/ PassedOver(i))

=============================================================================
