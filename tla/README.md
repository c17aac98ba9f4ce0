# Verification of the glance daemon

glance runs a fleet of coding agents from one Bun daemon. Agents work in git
worktrees; the daemon dispatches them, walks them through workflow graphs,
verifies what they produce, lands it, and survives its own crashes and
upgrades. This directory holds TLA+ models of the parts of the daemon whose
correctness depends on interleavings, crashes and retries, the TLC
configurations that check them, and proofs checked by TLAPS.

Paths such as `src/src/orchestrator.ts` are relative to the parent of `src/`.
`PROJECT.json` maps every definition to the lines it models.

| Module | Models | Theorems in | Runs |
| --- | --- | --- | --- |
| `StateLock` | the single-writer lock of a state directory | `StateLockProofs` | `lock_handoff`, `lock_release_race` |
| `WriterLock` | what that lock promises, abstractly | | via `ImplementsWriterLock` |
| `Orchestrator` | the loop that verifies and lands finished units, and its ledger | `OrchestratorProofs` | `orch_live`, `orch_fleet`, `orch_steer` |
| `WorkflowRun` | one workflow run: engine, driver, agent thread, saved checkpoint | `WorkflowRunProofs` | `wf_run`, `wf_skip` |
| `Walk` | what a run and its record promise together, abstractly | | via `ImplementsWalk` |
| `FanOut` | one parallel node: workers, branch agents, join, restart | `FanOutProofs` | `fan` |
| `BoundarySync` | turns of several sessions applied to the operator's checkout | `BoundarySyncProofs`, `BoundarySyncAccounts` | `sync` |
| `Dispatch` | issues to agents: poll, ledger, admission, race, adoption | `DispatchProofs` | `disp` |
| `PrLand` | a branch to the main branch through GitHub: land, float, reconciler, ledgers | `PrLandProofs` | `land`, `land_race` |

To check: `tlc -config MCStateLock_handoff.cfg MCStateLock` and so on (the
`Orchestrator` configurations run on the module itself), and
`tlapm StateLockProofs.tla`.

A definition whose name starts with `Bug` is a mutant: the form another
definition would have under a plausible mistake. No specification uses one.
Each property of a passing run is violated when one mutant takes the place of
the definition it belongs to, so that each of them depends on the code.

## The system

One daemon per state directory. It holds the roster of units (agents with a
branch and a worktree) in memory and saves it whole; every other store is a
file of its own. The daemon is a single-threaded event loop: code between two
awaits is atomic, everything else interleaves. Agents are processes of their own
(`agent-host`), and outlive the daemon.

### Components, state and operations

**State lock** (`state-lock.ts`, called from `boot.ts`). State: the file
`daemon.lock`, the fence file and its kernel flock, the process table.
Operations: `acquireStateLock`, `reclaimOrCreate`, `release`. Talks to no other
component; everything that writes the state directory relies on it. Hard:
two daemons during an upgrade, a stale record after a crash, pid reuse, file
systems whose flock lies, a stopped process that holds the fence. Correct when
at most one daemon owns the directory, when it is left alone rather than
shared in doubt, and when a boot always ends.

**Autodrive orchestrator** (`orchestrator.ts`, `orchestrator-state.ts`, the
edges of `squad-manager.ts` that it is built from). State: three in-memory sets
(landed, staged, halted), two counters per unit, the durable ledger of
decisions keyed by repository, branch and HEAD. Operations: `tick` (sweep, take
up, verify, land, purge), `invalidate` on a prompt. Reads the roster; calls the
verifier, the landing code, the resolver of conflicts, the scheduler. Hard: a
prompt while a verify or land is awaited, a crash between an action and its
record, a write that throws, HEAD moving, counters across restarts. Correct
when no decided tree is driven again, nothing is verified that is not recorded,
blocked lands are bounded, and no unit's finished work is passed over for ever.

**Workflow engine, driver, persistence** (`workflow/engine.ts`,
`workflow/executor.ts`, `workflow-driver.ts`, and `startWorkflow`, `persist`,
`restart`, `continueRun`, `reconnectLive`, `handleWorkflowTerminal` of
`squad-manager.ts`). State: the node, the visit counts and the attempts in the
engine; the checkpoint in the roster record; its copy on disk; the agent thread
in its host. Operations: `run`, the two phases of a checkpoint, resume (warm
over a live thread, cold over none), restart and continue by the operator, the
terminal marker. Hard: a crash at each await, a save that lags, a superseded
engine whose node is still running, a node that kills the daemon. Correct when
a resume starts where the run stood, caps hold over resumes, a failed run stays
down, and a run ends.

**Boundary sync** (`boundary-sync.ts`, `boundary-sync-lane.ts`, the frames of
`squad-manager.ts`). State: one promise chain per checkout, what each session's
turn began with, the ledger of held patches and their bodies on disk, attention
rows in memory. Operations: turn start (fingerprint), turn end (capture, diff,
recheck, `git apply` or hold), Apply, Discard, acknowledge, sweep and re-key at
boot, promotion. Hard: the operator and several sessions edit one checkout at
any moment, a capture or a ledger write fails, a daemon restarts with patches
held. Correct when nobody's edit is overwritten, patches arrive in turn order,
and what did not arrive is on show.

**Parallel fan-out** (`runParallel` in `workflow/engine.ts`, `spawnFleetBranch`,
`runAgentTask`, `reconcileParallelResume` in `squad-manager.ts`). State: the place
of each branch, the dispositions in the checkpoint, the abort controller, one
roster agent and host per branch. Operations: pull, admission, spawn, prompt,
the turn's end, its timer, the join, resume at boot. Hard: the first success must
reach branches whose spawn is under way, a crash leaves hosts at work, ceilings
are read before the awaits of a spawn. Correct when nothing resolved runs again,
nothing works unattended, the join is true and comes.

**Dispatcher** (`dispatch.ts`, `dispatch-ledger.ts`), **scheduler**
(`scheduler.ts`), **race-once** (`race-ledger.ts`), and `create`, `startTask`,
`tryRaceOnce`, `reattachTerminal`, `adoptOrphanedAgents` of `squad-manager.ts`.
State: claims in memory, the add-only ledger, a FIFO of parked requests, the
race ledger, the roster and its snapshot. Operations: poll, claim, spawn, stamp,
drain, park and race, adopt. Hard: a crash or refusal between any two of these,
four callers of one `create` with four awaits. Correct when an issue has one
agent, one race, and is not lost.

**Fork** (`squad-manager.ts`, `workflow/checkpoint-log.ts`). State: the lineage,
the log. Hard: one live successor per run.

**Landing** (`land-pr.ts`, `done-proof.ts`, `land-mode.ts`, `land.ts`, and `land`,
`closeLandedIssue`, the float and `prReconcileTick` of `squad-manager.ts`). State:
the branch here and at GitHub, its pull requests, the ledgers of pending requests
and of done proofs, three sets in memory that guard the close of an issue.
Operations: open or adopt a request, gate a scratch merge, merge, assert, prove,
reconcile what was merged or closed outside, close the issue. Hard: the agent
commits and the float pushes while a land is under way, the answer of a call is
lost, the reconciler runs beside the land, a merge has happened while its record
has not. Correct when nothing ungated is merged, a proof names merged work, an
issue closes only on a proof with a gate behind it, and no merge is forgotten.

**Roster** (`squad-manager.ts`, `removed-ledger.ts`, `manager-registry.ts`).
State: the records and tombstones. Operations: remove, evict a
tenant's manager, the ceiling on adoptions. Hard: adoption against removal over
a restart.

**Agent host and drivers** (`agent-host.ts`, `rpc-agent.ts` and the other
drivers). State: a ring of frames, sequence numbers. Hard: replay after a
reconnect, frames that fell out of the ring.

**Leases, presence, federation** (`ttl-registry.ts`, `leases.ts`,
`federation.ts`). State: files with expiry times, gossiped copies. Hard:
heartbeat against expiry. Advisory by design.

**Gate semaphore** (`gate-semaphore.ts`). A counter and a queue of waiters;
the hand-off is one synchronous step.

The rest is listed in `PROJECT.json` with the reason it is not modelled: pure
classifiers, parsers, presentation, telemetry, clients of outside services.

### How they interact

```
 operator ──prompt/restart/continue/land──> SquadManager ──persist──> roster file
                                             │   ▲  │
                    invalidate               │   │  └─ spawn/reconnect ─> agent-host
 dispatcher ──spawn──> scheduler ──> roster ─┤   │                          ▲
                                             ▼   │ checkpoint, event        │ prompt
                                    orchestrator │                          │
                                     │   │   └── WorkflowDriver ─ engine ─ executor
                              verify │   │ land
                              (gates)▼   ▼ (land, land-pr)
                                   decision ledger
```

All of it runs under the state lock of one directory. The boundaries the models
cut are the calls in this picture: `Orchestrator` takes the verdict of a gate
and the outcome of a land as nondeterministic choices restricted by the code's
own checks; `WorkflowRun` takes the outcome of a node that way, `FanOut` that of a
turn, `Dispatch` that of a run.

## The models

### `StateLock`: one action per system call

Each daemon incarnation `d` has a place `pc[d]` in `acquireStateLock` or
`reclaimOrCreate`; `lock` is the file, `fence` the processes whose flock was
granted, `obs[d]` the record it last read, `late` those past their deadline.

| Code | Actions |
| --- | --- |
| `tryCreate` by link(2) | `FastCreate`, `FencedCreate`, `FencedRecreate` |
| `readRecord` | `Observe`, `RecheckRead`, `FencedRead`, `ReleaseRead` |
| `ownerAlive` | `ProbeObserved`, `RecheckProbe`, `FencedProbe` |
| `ensureFlockExclusive`, the fence | `EnterReclaim`, `AcquireFence`, `RecheckDeadline`, `Unlock` |
| `unlinkSync` under the fence, in `release` | `FencedUnlink`, `ReleaseUnlink` |

The environment starts and kills processes (`Start`, `Die`), stops and continues
them (`SigStop`, `SigCont`), gives their pids to others (`Recycle`,
`SquatterExits`) and lets deadlines pass. `FlockModes` says what flock(2) does on
the file system: exclude, succeed for everybody, or be missing. `Pinned` says
whether records hold a start time. The start is a fresh, corrupt or left-over
file, also one from another machine. A daemon that owned the directory and
died never comes back; its successor is another member of `Daemons`.

`ownerAlive`'s two probes are one action: only a squatter that exits between
them is lost, and then the code errs on the side of "alive".

`WriterLock` is the promise: `owners` is empty or one daemon.
`ImplementsWriterLock` maps its `owners` to the daemons whose
`acquireStateLock` made the file theirs.

### `Orchestrator`: one action per stretch between awaits

| Code | Actions |
| --- | --- |
| `tick`, the roster loop | `TickBegin`, `Consider`, `UnitsDone` |
| `commitAgentWip` | `Sweep`, in `Settle` and a feature's `Verify` |
| `stateKey`, the skips | `ReadKey` |
| `agentHasWork`, take-up, `markState("verifying")` | `CheckWork` |
| verify, `handleRed`, the green path | `Verify` |
| land and its outcomes | `Land` |
| `purgeStale` | `Purge` |
| `invalidate`, prompts, turns, landing by hand | `Steer`, `Edit`, `TurnEnd`, `OperatorLand` |
| crash, boot, `adoptOrphanedAgents` | `Restart` |

A branch's HEAD is a number that commits increase (`Trees`); `Unknown` is the
key `stateKey` falls back to when HEAD cannot be read. The ledger is `mem` and
`disk`; `Mark` adds to the first, then writes the second, which may throw. The
sets and counters of the loop live in memory only. `tries` and `decided` are
history. Marks of one synchronous stretch are written together: no other part of
the daemon runs between them, and a crash between them leaves a prefix of
entries that cannot decide a tree without the last of them.

### `WorkflowRun`: one action per await of the engine

`pc = "arrive"` is the stretch in which the engine awaits nothing: from one
node's exit checkpoint over caps, overflow and routing to the entry checkpoint of
the next. `pc = "execute"` is the await of a node.

| Code | Actions |
| --- | --- |
| `run`, the head of the loop | `Begin`, `ReachExit`, `Dangle`, `HitCap`, `PoisonCap`, `FollowOverflow`, `Enter` |
| `execute` | `Deliver`, `TurnEnds`, `Outcome`, `Throw` |
| the exit checkpoint, `nextEdge`, the no-progress cascade | `Return`, `DeadEnd`, `Routes`, `Onward` |
| the "checkpoint" listener, `persist` | `Emit`, `Persist`, `Saved` |
| `handleWorkflowTerminal` | `Mark` |
| crash and boot (`reconnectLive`, `adoptOrphanedAgents`) | `Crash`, `Boot` |
| `restart`, `continueRun` | `OperatorRestart`, `ContinueRun` |
| a superseded engine whose node ends | `GhostReturns` |

`mem` is the record's checkpoint, `disk` the saved one, `saving` and `queued` the
write in flight and the one behind it. `finished`, `reruns`, `warms` and `clean`
are history: how often a node was handed on, its cold executions and warm
resumes without progress, and whether every checkpoint so far survived. `clean`
is needed because of the lagging save: see the observations below.

`Walk` is the promise: one walk along the edges of the graph, each visit counted once and
within its cap, given up at a failure or a cap, and taken up again where a continue may.
It knows no crash, no save and no engine. `ImplementsWalk` maps its `phase` to what `pc`
and the record in force (`Record`: memory, or the disk while no daemon is up) say
together, `handed` to the record's node and `lost` to `~clean`. So crashes, boots,
saves and an operator's restarts are stutters, and the states in which the engine is
between two things (`dead` before its marker, a resume before it enters) are inside the node.

Not in `WorkflowRun`: the data of a run (`outcome`, variables, prompts), the order
of equal edges (any is taken), the node kinds `conditional`, `merge`,
`parallel` and `wait`, `fork` and `abort`, a save that fails, a restart while a
terminal marker is still pending, the ceiling on adoptions, and race-once. An
orderly stop of the daemon is a crash with the save done and the host alive.

### `FanOut`: the workers and the agents they drive

`at[b]` is where the worker of branch `b` stands between its awaits, `roster[b]`
and `host[b]` its agent's record and process, `out` the dispositions the
engine recorded, `mem` and `disk` the checkpoint in the record and in the last
save. A branch has one roster slot because its agent id is a function of
run, visit and index.

| Code | Actions |
| --- | --- |
| `runOne`, the visit cap and the admission | `Exhausted`, `Refused`, `Admitted` |
| the awaits of a spawn | `Registered`, `Connected`, `StartFailed`, `CreateThrew` |
| `runAgentTask` | `Prompted`, `NotPrompted`, `TurnEnded`, `TimedOut` |
| exits and kills | `HostDied`, `Kill`, `TurnEndedAlone` |
| the join | `Join` |
| checkpoint, save, crash, boot | `Save`, `Crash`, `Boot` |

`Admits` is the check of both ceilings, `Torn` what an abort does to the branches
in their turn. `ended` and `late` are history: turns that ended, and turns whose
time ran out. Not in `FanOut`: an operator's restart of the parent in mid-fan-out,
the sequential fallback without a fleet, removal of a branch record by hand, the
harnesses without a host, replayed frames. The abort's `agent.stop()` is not awaited and
verifies nothing (squad-manager.ts:8011-8016): `host` is "down" here from the moment the
host is told, so a harness that ignores the signal may outlive what `NoneDetached` says
(`Dispatch` models such a harness for the stop of a parked original). A `create` may
throw before or behind the roster insert (`CreateThrew`); a record inserted by then stays. A boot is one step and reads the
graph, so the spawn's own stop of a stale record finds none (`SpawnsFresh`).

### `BoundarySync`: one chain, one action per await of a job

A tree says what stands at each hunk; a file is a set of hunks. `git apply` checks
the hunks a patch changes and rewrites the files they are in, with its read
and its write apart.

| Code | Actions |
| --- | --- |
| `turnStart`, `turnEnd`, the queue | `TurnStart`, `TurnEnd`, `StartJob`, `EndJob` |
| `applyPatchToRealTree` | `Snapshot`, `Read`, `Write`, `Compare`, `CompareFails` |
| `applyHeldNow`, `discardHeldNow` | `ApplyJob`, `Check`, `Resolve`, `DiscardJob` |
| the operator's clicks | `Click`, `Acknowledge`, `Promote` |
| edits of agents and operator | `AgentEdit`, `OperatorEdit` |
| boot sweep, rows, re-key | `Restart`, `Launch` |

`raced`, `credit`, `delivered` and `mixed` are history: what the operator changed
inside git's window, what a decision was made about, the last patch written,
the compared writes that mixed with an edit; so is `listed` of a hold: whether the last
boot could list it. A boot that cannot read the ledger takes it for empty and raises no row
(`Restart`), a re-key may move a part of what is held or nothing (`Launch`), and the
comparison behind a write may throw (`CompareFails`). The capture of a tree is one step, and the
bytes of a file are its hunks.

### `Dispatch`: four callers of one `create`

`creating[c]` is the `create` that caller `c` awaits: the tick, a task started by
hand, the drain, the race. `tick` is the poll's place and its locals (`claimed` and
`budget` are read once, as in the code). `saved` is the snapshot, `trees` and `dirty`
the worktrees on disk.

| Code | Actions |
| --- | --- |
| `tick` | `TickStarts`, `Listed`, `ListFails`, `FoundDone`, `Claims` |
| `create` | `Refused`, `Parks`, `Admitted`, `BuildFails`, `Registered`, `Started`, `StartFails`, `Resolves` |
| `startTask`, the orchestrator's drain | `StartTask`, `Drains` |
| `handleWorkflowTerminal`, `tryRaceOnce`, `RpcAgent.stop` | `RunFails`, `Parked` |
| a unit's turns and its land | `TurnEnds`, `Lands`, `HostDies`, `Lingers` |
| `persist` | `Persists`, in `Resolves` and `Boot` |
| crash, `reconnectLive`, `reapOrphans`, `adoptOrphanedAgents` | `Crash`, `Boot` |

`Returns` is what a caller does when its `create` answers, up to its next await: the
tick stamps the ledger and goes on to the next issue in the same step. `Resumed`
is the loop's passing over what is claimed or gated. Agent ids are reused once
nothing on the roster, on disk or among the hosts refers to them; the code mints
fresh ones. `given` and `siblings` are history. `stop` and `shutdownHost` send one frame
and look at nothing: a host told to stop, by the park or by a boot, is dead or, by a fault,
"wedged", and then commits on (`ToldToStop`, `Lingers`). The catch arm of the park
(`src/src/squad-manager.ts:9621-9625`) has no action: the driver of a workflow record is
`WorkflowDriver`, whose `stop` awaits those of two `RpcAgent`s, which never throw. The boot
is one step. Not in `Dispatch`: a crash in mid-boot, the
human's clear of a starved issue (the one removal from the ledger), provider
pauses and difficulty verdicts (they skip an issue for one tick and claim
nothing), several repositories, ledger writes that fail, the adoption ceiling,
removal and restart of an agent by the operator, two races at once.

### `PrLand`: one branch, and two steps for a call to GitHub

A branch is a number of commits: `tip` of them in the agent's worktree, `remote` at
GitHub, `main` in the history of the main branch. A merge by ancestry advances `main`
to the request's head; a squash leaves it, and the request alone tells. `entry`
and `proof` are the branch's lines in the two ledgers, `pr` its requests with who
merged them and, for the daemon, what its gate saw (`gated`). A call to GitHub takes
effect in one step and is continued by the daemon in another.

| Code | Actions |
| --- | --- |
| `ensurePr`, for the land, the float and the reconciler | `Lists`, `Pushes`, `Adopts`, `Creates`, `CreateRefused`, `Records`, `EnsureFails` |
| `landAgentPrOnce` up to the merge | `LandStarts`, `LandRefused`, `Pins`, `Gates` |
| `attemptCleanAutomergeAndRetry` | `Automerges`, `Retries`, `RetryFails` |
| `gh pr merge`, `assertMerged`, the records | `Merges`, `MergeRefused`, `Asserts`, `Proves` |
| `land`, `closeLandedIssue` | `Lands`, `LandCloses` |
| `markLandReady`, `floatPrOnLandReady` | `Flagged` |
| `prReconcileTick`, `reconcileOnePr`, `attemptCloseFor` | `TickStarts`, `Views`, `ViewFails`, `Marks`, `TickAsserts`, `TickProves`, `TickSettles`, `TickCloses`, `TickUpdates`, `Retires` |
| death and boot of the daemon | `Crash`, `CrashRecording` |

The agent commits (`Commits`), a human merges, closes or reopens a request (`HumanMerges`,
`HumanCloses`, `HumanReopens`). Both ledgers swallow a write that fails (`done-proof.ts:61-67`,
`land-pr.ts:212-218`): every write goes through `Written`, which may lose it, and the caller
goes on. `Patched` is `updatePendingPr`, which looks the entry up by branch and
not by request, as the code does. `passed` and `told` are history. The read of the
tip and the assertion on it are one step; the proof "green" stands for "red-baseline"
too, which the code treats alike; closing issues on land is on; one float of the
branch is in flight at a time. Not in `PrLand`: the land in the local checkout,
forced lands and a daemon that lands itself, drafts and the bodies of requests, the
fast-forward of the checkout after a merge, two overlapping passes of the
reconciler, pushes to the branch by hand.

## The runs

CHECK_DEADLOCK is FALSE in all but the dispatcher's, whose poll never stops: the
daemons may all be gone, the bounds on edits and prompts used up, the run over.

| Run | Instance | What it shows |
| --- | --- | --- |
| `lock_handoff` | 2 daemons, 2 pids, every flock mode, orderly release, no pinned start times | one writer whatever races, crashes, stops and pid reuse there are (`SingleWriter`), nothing is removed in doubt (`FailClosed`), the file protocol implements `WriterLock`, every boot ends (`BootBounded`) |
| `lock_release_race` | 3 daemons, an excluding flock, orderly release | violation of `SingleWriter` |
| `orch_live` | 1 unit, 2 commits, 2 prompts outside its tick, 1 restart, cap 3 | decided trees are not driven again, and no work is passed over for ever (`WorkReached`) |
| `orch_fleet` | a plain unit and a feature's, writes that fail, 1 restart | nothing is verified unrecorded with failing writes (`RecordedFirst`), blocked lands stop at the cap |
| `orch_steer` | 1 unit, 1 prompt at any time | violation of `WorkReached` |
| `wf_run` | the verify loop: gate, fix-up tier, human gate, dangling edge; 1 crash, 1 restart, 1 continue | over all resumes one walk (`ImplementsWalk`), caps over resumes, failed runs stay down, a working run ends |
| `wf_skip` | the same, 3 crashes | violation of `DoneOnlyIfTold` |
| `fan` | 3 branches, 2 at a time, both join policies, ample and tight ceilings, 1 crash, 1 fault | resolved branches stay resolved, nobody works unattended, the join is honest and comes, the abort reaches all, the ceiling is passed by less than the parallelism |
| `sync` | 2 sessions, 2 hunks of one file, eight budgets: side by side, a replay, failing steps, an unreadable checkout, a restart with a successor, a ledger that takes no lines, one that cannot be read, comparisons that throw | nobody is overwritten outside git's own window, patches arrive in order, what is held or lost is shown |
| `disp` | 2 issues, 1 slot, seven deployments: queue on and off, by hand, behind a gate, a fault or up to 2 restarts | one agent and one race per issue, the record of the original stays parked, the ledger is earned, every open issue gets its attempt in a tenure that lasts |
| `land` | 1 branch, both merge methods, a human who merges: 1 commit with a fault (a call or a write) and a death, or a fault and a request closed and reopened; 2 requests of which 1 is closed by hand; 2 commits, with a human, and with a fault without one | nothing ungated is merged by the daemon (`MergesGated`), proofs name merged work (`ProofMerged`), issues close on a proof with a gate behind it (`IssueHonest`), no merge is left unsettled but by a lost proof or behind a close by hand (`MergeSettled`) |
| `land_race` | 1 commit, no failure, nobody else at GitHub | violation of `GreenKept` |

### Bounds

- Two daemons are the handoff, and liveness excludes symmetry and a third. A third is
  needed where an owner, a holder of the fence and one that creates without it meet:
  with orderly releases that is `lock_release_race`; without them `OneWriter`,
  `FailsClosed` and `Implementation` hold for any number.
- `MaxTree` 2 lets a unit be decided, prompted, and have new work; `LandRetryCap` 3
  with two prompts makes counts survive a prompt. One restart is enough to lose
  every in-memory set between any two steps. `orch_fleet` has no prompts because
  with them `RecordedFirst` is false (see the observations).
- The graph of `wf_run` has each way a run can stop and go on: a retry target,
  a tier of overflow, a human gate, a missing node, an exit. `MaxSteps` 9 is never
  reached: the visit caps end each run first. `ResumeCap` 1 meets the poison cap
  with one crash.
- Three branches with two workers: one finishes while one is in its spawn and one
  has not begun. The proofs have any number. A tight ceiling of one makes
  admissions race; `spent` is a branch at its visit cap.
- Two hunks of one file are two edits that need not conflict and still share a
  rewrite; two sessions are the smallest that race. `InOrder` needs two
  held turns and a third, which `Replay` and `Failing` have. In `sync` a step does not
  fail before its session's first synced turn (`FirstMayFail = FALSE`): with it
  `Accounted` is false, see the observations.
- Two issues contend for one slot; the raced one may have an original, a sibling
  and what a restart makes of both. `PoolSize` 5 agent ids are never exhausted in
  the runs. Two restarts let a snapshot taken after the first be read by the second.
- One commit, one fault and one death meet every step of the land and the reconciler;
  the second commit lets the branch move under a land; the second request needs
  the first closed, for GitHub has one open request for a branch. The theorems have
  any number of each.

### Fairness

- `StateLock`: a process that is not stopped is scheduled, deadlines pass. Nobody
  is required to start, die, be continued or release.
- `Orchestrator`: the timer ticks and each await of the tick ends (`WF_vars(Tick)`).
  The suite has no timeout in the code, so this assumes that suites end; a suite
  that does not is a hazard without a property. Turns end (the turn timeout). A
  land is not answered "busy, retry" for ever (SF on the other answers): that
  answer is given while the main checkout is dirty or held, which the operator
  ends. No prompt, edit or restart is fair.
- `WorkflowRun`: the engine goes on (`Arrive`), the failure is marked, a boot
  follows a crash, and a node that is no human gate ends: agent turns by their
  timeout, commands by assumption, for `defaultExecCommand` has no timeout.
  Human gates, the operator and the save are not fair.
- `FanOut`: `WF_vars(Progress)`: a worker goes on (the awaits of a spawn end), the
  thirty-minute timer of a turn fires, and a dead daemon is started again. No turn
  is required to end by itself, and no save to happen.
- `BoundarySync`: none; its properties are safety.
- `Dispatch`: the poll timer fires (`TickStarts`), the tick's awaits end (`Polls`),
  other awaits of the daemon end and a dead one boots (`Serves`), turns end (their
  timeout). Nobody is required to start a task, open a gate or land.
- `PrLand`: what is awaited returns, for the reconciler's timer and passes (`TickStep`),
  the land (`LandStep`) and each `ensurePr`. Nobody is required to commit, land, merge or
  close; faults and deaths are bounded, and not fair.

## The proofs

**The lock.** `FenceInv` is inductive under `NoThirdRacer`: owners leave only by dying
(`GracefulRelease = FALSE`), with any number of daemons, or they release in good order
and at most two incarnations meet, as in `lock_handoff`. Pids, flock modes and pinned
start times are arbitrary. Its parts: live processes have distinct pids
(`PidsDistinct`); the record of whoever owns the directory, or is about to release it, is in
the file (`RecordKept`); one process at a time is past the fence, and only where
flock excludes (`FenceHeld`); the file cannot vanish between the fenced create and the
unlink while somebody else could take it (`FileStays`); once the holder has judged it
stale, nobody has it and nobody can come to have it (`JudgedStale`). `SingleWriter` alone
is not inductive: a state with one owner and a second daemon at the unlink
satisfies it. With orderly releases and a third racer `FileStays` fails, which is the
race of `lock_release_race`, so the hypothesis is needed. `FencedAlone` (the invariant
itself), `OwnerOnDisk`, `OneWriter`, `FailsClosed` and `Implementation` (every step is
a step of `WriterLock` or a stutter) follow. `TypeCorrect` has no hypothesis.

**The orchestrator.** `LandsBounded`: for every roster, a unit the loop still acts
on has a block counted for each blocked land (`BlocksCounted`, by `CountsKept`).
`VerifiedRecorded`, from `GapsHalted` (`UnrecordedHalted`): an entry that is only in
memory belongs to a unit its failed write halted (`Recorded`), under
`MaxSteers = 0 \/ ~WriteMayFail`; without that it is false (see the observations).
`DecisionsHold`: what was decided about the present tree is in memory and on disk
(`Kept`) and the unit in hand is undecided (`Placed`), under `~HeadMayFail`
(`DecisionsKept`, by `DecisionsStand`). Conditions like these three, which only serve
an induction, are stated by theorems and need no run.
Confirm mode (`HoldForConfirm`) and unreadable HEADs are covered by the theorems
and by no run.

**The workflow run.** One invariant, `Standing` of `WorkflowRunProofs`, serves
`CapsHold`, `PoisonStops`, `FailedStays` and `ResumesExactly`: while `clean`, memory
and disk agree up to the write in flight (`Synced`), the checkpoint is where the
engine is (`Stands`), a marker means that the run is over (`Marked`), each node was
counted at most as often as its cap and handed on at most as often as it was counted,
but for what the continues add (`Visited`), and the attempts bound the cold executions
since the last warm resume (`Tried`).
`OneWalk` proves `ImplementsWalk`, step by step. Besides `Standing` the mapping needs
`Traced`: a resume that has not entered its node has the record of that place, a capped
node is where it can be given up, and a marker that a continue clears names a node that
can run (`Noted`), however far the overflow chain carried the engine from it.
The invariant is for every graph that satisfies `GraphAssumption`: overflow targets are nodes
that can run, and `Tiers` lists the chain of them. An overflow target that is an
exit node would be executed again at each resume, since resumes are neither
counted nor capped.

**The fan-out.** `IInv` of `FanOutProofs`, for any number of branches, any
parallelism, ceilings and bounds. `AbortReachesAll` and `ResolvedNotRerun` are not
inductive: a branch in its spawn when the controller fires, or a checkpoint that
the next save brings to disk, escapes them. The parts: what the modes of daemon and
fan-out say of places and records (`Modes`); a recorded disposition belongs to
a branch that is through (`Open`), and was earned by a turn (`Earned`), in memory, in
the record and on disk alike; a host at work has its branch in the turn (`Attended`);
a branch that was not started has neither record nor host, one that is starting no host (`Fresh`); and each branch counted against the ceilings was admitted below them (`Lived`,
`Counted`), which with the parallelism gives `WithinSlack`.

**The sync.** For any sessions, hunks and files. The chain's argument is
`Exclusive`: one job at a time is past its first step, its locals are what it read, and
what it is about to write was found at each hunk but those the operator changed
since (`Pinned`). `NoClobber` follows. `InOrder` needs that a replay takes the holds
of its session from the oldest, that a turn end which finds a hold adds one, and that
what runs is at the head of the chain. `HeldShown` goes over restarts and re-keys, for what the last boot could list.
`DivergenceTold` is not inductive: when the operator saves a file between git apply's
write and the comparison, a divergence could seem to be undone. It cannot, for what the
operator writes next stands nowhere yet (`Stamped`): not in the checkout, a worktree, a held
patch or a job's copy. So a comparison that is to come finds the mixed write (`Torn`), and one
that was made has its row (`Told`). `Accounted` speaks of sessions at rest. `Accounts` follows a session
through its turn: the baseline of the next patch, established or queued, is the content
that was last decided about (`Baseline`); the patch in hand starts there and, when no
further turn is queued, ends at the worktree (`InHand`); a turn that runs has a start
with no end behind it, otherwise every start has its end (`Framed`); and of a session
this daemon saw no turn of nothing is established (`Away`). A start that fails before its
session has a baseline breaks `Baseline`, hence the hypothesis `~FirstMayFail`.

**The dispatcher.** `IInv` of `DispatchProofs`, for any issues, ids, caps and
deployments. `OneByDispatch` is not inductive: an agent of an issue may be on its
way while its request is parked, in `create`, or in the tick's hands. `OneRequest`
and `NoneTwice` count these with the roster: claimed in memory, in the tick's
`claimed`, or in the snapshot, an issue has one request by the dispatcher at
most, and whoever has a record is claimed (`Claimed`). `SavedOnce` says the same of the
snapshot, from which a restart takes the roster. For the race, the stamp precedes
the sibling and outlives everything (`Stamps`): an issue with a sibling, on its way or
on record, is stamped, its original marked in the roster (`SiblingMarked`) and in every
snapshot that has the sibling (`SavedParked`). A stamp names an agent for its issue, and
one that is marked and stamped has ended (`Halted`): it failed, was parked, or came back
inert. Both give `OriginalParked`. A crash may lose the mark of an original whose sibling
was not saved either; it then runs again, alone.

**The land.** `IInv` of `PrLandProofs`, for any commits, requests, faults and deaths,
both methods, with or without a human at GitHub. `MergesGated` rests on `Pinned`: what a
land pinned it gated, with whatever came after, so a merge bound to the pin
(`Bound`) takes nothing beyond the gate. `ProofMerged` needs that a land at its
records and a pass at its own hold a commit that is in main (`Recording`), that what
the daemon merged is a merged request (`DaemonMerged`), and that entries, copies and calls
name requests there are (`Numbered`). For `IssueHonest`: a green proof, and a land
past its merge, have a green gate behind them (`Passed`), and whoever is closing or has
marked the issue closed found a proof that allowed it (`Settling`).
Of `MergeSettled` two parts are about states and steps, and proved: while a branch's only
request is merged, tracked and not settled, its entry is one every pass takes up or is marked
closed, and the two ways out of `MergeSettled` are taken only after a failure and only after
a close by hand (`MergeAwaited`); and no step drops that entry, or unsettles what is settled
(`MergeStaysTracked`). The argument is `Existing` (the ledger, a pass and a call name
requests GitHub has, so with one request they name the same one), `Tracking` (an entry
is called merged only when it is stamped as proven, closed only when a human has closed a
request, and retired only when it is settled) and, of `Settling`, that a stamp without a proof
takes a write that failed. TLC adds that passes run and end. With a second request both are
false: the pass of an older one marks the newer entry, see the observations.

Left to TLC: `BootBounded`, `WorkReached`, `RunEnds`, `FanOutEnds`, `TakenUp`, `MergeSettled` (liveness),
the violations, and that the modelled graph's `Tiers` are what the engine's loop over the chain computes
(induction over data).

## Disagreements found

1. `lock_release_race`. The fence holder unlinks what it judged stale some calls
   earlier. If the owner releases in between, another daemon may create the file
   without the fence, and its live lock is unlinked: two owners.
   (`src/src/state-lock.ts:72` and `:934` say otherwise.)
2. `orch_steer`. A prompt during a verify or land clears the unit's sets; the
   outcome in flight then marks the unit landed, and what the prompt produces is
   skipped while the daemon runs.
3. `wf_skip`. A warm resume takes an idle thread for a finished turn, also when
   the daemon died before the prompt was sent: the node is passed over.
4. `land_race`. The reconciler takes no land lock and acts on a copy of the pending
   ledger. When it views the request between the land's `gh pr merge` and its proof,
   it replaces the green proof of that commit by an unverified one, and a gated land
   can end before a human instead of closing its issue.

More of them came up and have no run of their own:

- Adoption at boot asks the decision ledger for a bare branch name, which is never
  a key (`src/src/squad-manager.ts:2407`): parked units are adopted again.
- A decision-ledger write that throws leaves its entry in memory; marked once
  more, it is taken for written, and the unit is verified with nothing on disk.
- A warm resume stores 0 attempts though no node has finished: the poison cap's
  count of cold executions starts again.
- The entry checkpoint of a resumed fork is emitted without the map it resumed
  from (`src/src/workflow/engine.ts:121`; `workflow/types.ts:236-240` says otherwise) and
  saved over the recorded one: a second crash before the next branch settles runs
  every resolved branch again and stops the winners' agents.
- A replay that stops half way returns without the divergences of what it wrote
  (`src/src/boundary-sync.ts:1132`; line 1099 says each needs its own loud
  surfacing): no row is raised. Hence `DivergenceTold` is about turns.
- The comparison behind a successful `git apply` can throw: the scratch copy it writes, or
  the directory of what it retains. The catch of `syncTurnEnd` says that nothing was
  written (`src/src/boundary-sync.ts:795-796`), and holds a patch that is in the checkout; no
  divergence is told. A replay ends there with its hold open. Hence `DivergenceTold` is about
  writes that were compared, and `CompareFails` is the rest.
- A task started by hand races the tick's `create` for one issue. Both pass the overlap
  check, `addWorktree` reuses the worktree that is there (`src/src/worktree.ts:153`),
  and `createdWorktree` is true for both: if one start fails, it removes the worktree
  with `--force` under the other. Without the failure, two agents work in one
  worktree. Hence `OneByDispatch` is about the dispatcher's own agents.
- The park waits for `stop` and fails closed if it throws, because a wedged harness "keeps
  committing on its branch" beside the sibling (`src/src/squad-manager.ts:9616-9618`). `stop`
  never throws, so a wedged one takes the other way: `Parked` with the host "wedged", then
  `Lingers` while the sibling works. Hence `OriginalParked` is about the records, which the
  daemon drives and lands, and not about the processes.
- Three comments say that the open issue of an agent which a restart does not take over
  is dispatched again (`src/src/spawn-identity.ts:23` and `:38-39`,
  `src/src/squad-manager.ts:2414-2415`). The issue is in the add-only ledger since its
  spawn resolved, and the tick passes over it for good.
- The comment at `src/src/land-pr.ts:1188-1189` has `--match-head-commit` keep the merge to
  what was gated. The pin is read before the scratch merge takes the branch as it is by then:
  a commit in between is gated and not merged. Nothing ungated merges (`MergesGated`), but
  what merges was gated only together with that commit.

Seen while modelling, with no statement in the repository that they contradict:

- The count of blocked lands survives a prompt: work that was blocked before the
  prompt and is then changed can be parked at its first block.
- An adopted unit goes straight to its land; with no fresh proof it is refused
  there and parked after the cap, never verified.
- A HEAD that cannot be read once yields the key "unknown", under which nothing was
  decided: the tree is driven again.
- A verify that throws ends the tick for the units behind it.
- An issue whose spawn was refused or failed stays claimed in memory and is passed over until
  the next boot (`src/src/dispatch.ts:453-454`) or the human's clear (`:497`). `TakenUp` counts
  it as tried (`PassedOver`): on a daemon that never restarts it has no agent, for good. It also
  counts what is in the ledger, a parked request that was lost included.
- A parked request answers its caller as if an agent existed, so the issue enters
  the ledger; the queue is in memory, and the drain takes a request off it before
  the spawn: a restart, or a spawn that rejects, loses it. Hence `LedgerEarned` is
  about deployments without the queue.
- The save lags behind the engine: a crash resumes from an older checkpoint and
  re-enters nodes that were handed on. Hence `clean` in the workflow's properties.
- The engine that a restart supersedes still reports the end of its node; its
  checkpoint overwrites the new run's, and its failure marks it. Hence the same.
- A run that ends at a node without a successor keeps its entry checkpoint: a restart
  executes that node again. Command nodes are executed again by each warm
  resume, with no cap.
- `reattachTerminal` asks the race ledger for the original, not whether a sibling
  came of it: after a crash between stamp and spawn, or with the sibling parked
  or failed before its record, the original is silently stopped and nobody is summoned.
- A host whose start was under way at a crash, and whose record was not saved, is
  reaped; an agent saved while starting comes back idle without its task.
- `WithinSlack` bounds by how much a fan-out passes the ceiling; the check
  (`src/src/squad-manager.ts:7932-7936`) is before the awaits.
- After a branch's time ran out its agent works on, detached. A branch killed by
  an operator, whose exit is suppressed, stays "not attempted" until the timer, and a
  restart runs it again. A spawn that fails in `start` leaves a record with a dead
  driver. An operator's restart of the parent leaves the old engine's workers going.
- A first turn whose start could not be captured has no baseline: the next turn's
  is taken live and absorbs its edits, and a later spanning patch clears the row.
  "The NEXT turn's spanning patch" of the comment holds from the second turn on.
- `git apply` overwrites what the operator writes between its read and its write.
- A patch body without a ledger line is re-tracked at boot, also when a spanning patch
  has delivered it since. Hence `InOrder` leaves out swept holds.
- The end job captures the worktree when the chain comes to it: behind a slow job it
  delivers a part of the next turn. An edit of the operator between a turn's start
  and its queued fingerprint counts as baseline.
- Rows other than "held" are lost at a restart. So is "held" when that boot cannot read the
  ledger: it is taken for empty and, as the log line says, what is held has no row in
  this tenure. Hence `listed` in `HeldShown`.
- A proof whose write fails is stamped as written all the same (`src/src/land-pr.ts:1261-1281`,
  `src/src/squad-manager.ts:10060-10106`). From then on each pass asks only for the close, which
  without a proof ends in a warning and an audit line (9807-9811): the merge is never proven and
  its issue stays open, for good. Hence `LostProof` in `MergeSettled`.
- An entry marked closed is not taken up again (`src/src/squad-manager.ts:9879`), whatever becomes
  of its request: reopened and merged at GitHub, it is proven only if a later land finds it. The
  request may be open again when the mark is made. Hence `GivenUp` in `MergeSettled`.
- A death between the proof (`src/src/land-pr.ts:1261`) and the pending entry (1281) leaves
  an open entry for a proven merge: the reconciler replaces the green proof by an
  unverified one.
- `updatePendingPr` and `deletePendingPr` go by branch: a pass that began with an older
  request stamps, or deletes, the entry of the newer one (the comment at
  `src/src/land-pr.ts:366-371` knows the pattern).
- `gh pr merge` takes a merged request for a success, and the assertion by ancestry looks
  at the present tip: a land of work somebody merges by hand meanwhile can end with a
  green proof for a commit its gate did not see.
- A request created just before a death, and merged by hand before the branch is floated
  again, is in no ledger: nobody proves it. Hence `Tracked` in `MergeSettled`.
- A commit after a squash merge moves the tip beyond what was merged, and the reconciler
  never asserts the merge. Hence `Moved`.

## Not modelled

The land in the local checkout (`land.ts`), fork and the checkpoint log, removal and
eviction, the replay ring of the agent host, leases and federation, voice calls,
the HTTP surface, and the rest of the list in `PROJECT.json`, with reasons there.
Most of the repository's lines are presentation, telemetry, prompts and
clients of outside services, in which nothing interleaves that a property
could be about. In the modelled components the data is abstracted: prompts,
names, diffs and costs do not occur.

The gate semaphore is modelled nowhere: its hand-off is one step. That a command
without a timeout blocks whoever waits behind it is listed as a hazard; the fairness of
`Orchestrator` and `WorkflowRun` assumes that commands end.

## Plan

Done: `StateLock`, `Orchestrator`, `WorkflowRun`, `BoundarySync`, `FanOut`, `Dispatch`,
`PrLand`. What is left, in this order; each module gets its runs, its mutants and, where the
argument is inductive, its proofs.

1. `Succession`: fork and the checkpoint log. One live successor per run.
2. `Roster`: removal, eviction, the adoption ceiling over restarts.
3. `HostReplay`: the ring and the reconnect. Abstract specification: a client sees
   a subsequence, without repeats, and knows of gaps.
4. `Leases`: expiry against heartbeats, gossip.
5. Compositions: `WorkflowRun` with `FanOut` as one of its nodes; `Orchestrator` with
   `PrLand` as its land, in place of a nondeterministic outcome.
6. The parts of `WorkflowRun` left out above that change control: `wait`, `merge`,
   `abort`.
