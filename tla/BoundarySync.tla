----------------------------- MODULE BoundarySync -----------------------------
(***************************************************************************)
(* Boundary sync (src/src/boundary-sync.ts, boundary-sync-lane.ts): the    *)
(* edits that sessions make in their own worktrees are applied, turn by    *)
(* turn, to the one checkout the operator works in.                        *)
(*                                                                         *)
(* Several sessions may target one checkout; their jobs go through one     *)
(* chain.  A job awaits git at each step, so the operator edits the        *)
(* checkout and the agents their worktrees between any two steps.  A file  *)
(* is a set of hunks; git apply checks the hunks a patch changes and       *)
(* rewrites the files they are in.  A tree (and a fingerprint) is what     *)
(* stands at each hunk.  The capture of a tree is taken to be atomic.      *)
(***************************************************************************)
EXTENDS Naturals, FiniteSets

CONSTANTS
  Sessions,       \* `glance here` sessions on this checkout
  Operator,       \* the author of what no session wrote
  Hunks, FileOf,  \* the places of the checkout, and the file each is in
  None,           \* a capture that failed, or was not made
  FirstMayFail,   \* a step may fail while its session has no synced turn behind it
  Budgets         \* bounds, one of which a behaviour has: the start frames of each
                  \* session, the edits of each author, the clicks of Apply and
                  \* Discard, the restarts of the daemon, and what may fail

Authors == Sessions \cup {Operator}
Stamps  == Authors \X Nat
Trees   == [Hunks -> Stamps]
Patches == [from : Trees, to : Trees]
Base    == [h \in Hunks |-> <<Operator, 0>>]

(* What may fail: the capture of a worktree and the fingerprint of the     *)
(* checkout, the write of a patch body, a line appended to the ledger, a   *)
(* read of the ledger, and the comparison behind a git apply.              *)
Faults == {"capture", "fingerprint", "body", "ledger", "read", "compare"}

ASSUME BoundarySyncAssumption ==
  /\ Operator \notin Sessions
  /\ None \notin Trees /\ None \notin Patches /\ None \notin Sessions
  /\ None \notin [real : Trees \cup {None}, tree : Trees \cup {None}]
  /\ FirstMayFail \in BOOLEAN
  /\ \A b \in Budgets :
       /\ b.frames \in [Sessions -> Nat] /\ b.edits \in [Authors -> Nat]
       /\ b.clicks \in Nat /\ b.restarts \in Nat
       /\ b.faults \subseteq Faults

VARIABLES
  real,      \* the operator's checkout
  tree,      \* each session's worktree
  status,    \* the session's agent: absent, idle, running, gone, or cut: in a
             \* turn whose start this daemon has not seen
  promoted,  \* sessions that became fleet units: their turns sync no more
  chain,     \* the jobs queued for the checkout, numbered in queue order
  ticket,    \* the number of the last of them
  at, hand,  \* where the session's running job is, and its locals
  start,     \* boundarySyncStart: what turn start established
  endTree,   \* boundarySyncEndTree: the last tree that was synced or held
  holds,     \* the open holds of the ledger; history of each: it was re-tracked by
             \* a boot sweep, it was listed when the daemon last booted, or is newer
  orphans,   \* patch bodies with a sidecar but no ledger line
  patches,   \* the number of the latest patch
  rows,      \* the attention rows of each session
  frames, edits, clicks, restarts, faults,   \* what is left of the budget
  raced,     \* history: hunks the operator edited since a job's git apply read them
  credit,    \* history: the worktree content that a decision was made about
  delivered, \* history: the latest patch of each session that was written
  mixed      \* history: whose write, of a turn or of a replay, was compared, had
             \* mixed with an edit and was not acknowledged

lane    == <<chain, ticket, at, hand, start, endTree>>
store   == <<holds, orphans, patches>>
history == <<raced, credit, delivered, mixed>>
counts  == <<frames, edits, clicks, restarts, faults>>
vars    == <<real, tree, status, promoted, lane, store, rows, counts, history>>

-----------------------------------------------------------------------------
(* Patches *)

Touched(p) == {h \in Hunks : p.from[h] # p.to[h]}

(* The hunks of the files a patch rewrites: patchTouchedPaths.             *)
Rewritten(p) == {h \in Hunks : \E g \in Touched(p) : FileOf[g] = FileOf[h]}

(* git apply --check: what each changed hunk replaces is there.            *)
Applies(p, t) == \A h \in Touched(p) : t[h] = p.from[h]

Patched(p, t) == [h \in Hunks |-> IF h \in Touched(p) THEN p.to[h] ELSE t[h]]

(* git apply's write, file by file, of what it read.                       *)
Overwrite(p, read, t) ==
  [h \in Hunks |-> IF h \in Rewritten(p) THEN Patched(p, read)[h] ELSE t[h]]

(* detectPostApplyDivergence: a rewritten file is not what the patch alone *)
(* makes of the snapshot.                                                  *)
Diverged(p, pre, t) ==
  ~Applies(p, pre) \/ \E h \in Rewritten(p) : t[h] # Patched(p, pre)[h]

-----------------------------------------------------------------------------
(* The chain of jobs *)

Kinds == {"start", "end", "apply", "discard"}
Jobs  == [n : Nat, session : Sessions, kind : Kinds, early : Trees \cup {None}]

(* A job's locals: the patch in hand and its number, the fingerprint its   *)
(* write is pinned to, the snapshot, what git apply read, the holds still  *)
(* to replay, and whether a divergence was found.                          *)
Empty == [patch |-> None, n |-> 0, pin |-> None, pre |-> None, got |-> None,
          todo |-> {}, torn |-> FALSE]

(* queue(): behind everything that is queued for this checkout.            *)
Enqueue(s, kind, early) ==
  /\ ticket' = ticket + 1
  /\ chain' = chain \cup {[n |-> ticket + 1, session |-> s, kind |-> kind, early |-> early]}

(* Bug: one chain per session instead of one per checkout.                 *)
BugFirst(j) == \A k \in chain : k.session = j.session => j.n <= k.n

First(j) == \A k \in chain : j.n <= k.n

Begins(s, kind, j) ==
  /\ j \in chain /\ First(j) /\ j.session = s /\ j.kind = kind
  /\ at[s] = "none"

Goes(s, place, h) ==
  /\ at' = [at EXCEPT ![s] = place]
  /\ hand' = [hand EXCEPT ![s] = h]
  /\ UNCHANGED <<chain, ticket>>

(* The job of s ends and the next one may run.                             *)
Done(s) ==
  /\ chain' = {j \in chain : j.session # s \/ ~First(j)}
  /\ ticket' = IF chain' = {} THEN 0 ELSE ticket
  /\ at' = [at EXCEPT ![s] = "none"]
  /\ hand' = [hand EXCEPT ![s] = Empty]

Only(cond, x) == IF cond THEN {x} ELSE {}

Mine(s) == {x \in holds : x.owner = s}

Raise(s, row) == rows' = [rows EXCEPT ![s] = @ \cup {row}]
Clear(s, row) == rows' = [rows EXCEPT ![s] = @ \ {row}]

(* Which step of git or of the file system may fail for s.                 *)
May(s, fault) == fault \in faults /\ (FirstMayFail \/ endTree[s] # None)

-----------------------------------------------------------------------------
(* Turn frames and edits *)

(* A session begins, as the successor of a lost one or of none; what is    *)
(* held for the lost one on this checkout becomes its own, but for what    *)
(* cannot be listed or re-keyed.  The row is raised for what was; a second *)
(* listing that fails counts all that should have been.                    *)
Launch(s, prior) ==
  /\ status[s] = "absent"
  /\ prior \in {q \in Sessions : status[q] = "gone"} \cup Only(frames[s] > 0, None)
  /\ status' = [status EXCEPT ![s] = "idle"]
  /\ \E moved \in SUBSET Mine(prior) :
       /\ \/ moved = Mine(prior)
          \/ "ledger" \in faults
          \/ "read" \in faults /\ moved = {}
       /\ holds' = (holds \ moved) \cup {[x EXCEPT !.owner = s, !.listed = TRUE] : x \in moved}
       /\ \/ rows' = [rows EXCEPT ![s] = Only(moved # {}, "held")]
          \/ "read" \in faults /\ Mine(prior) # {} /\ rows' = [rows EXCEPT ![s] = {"held"}]
  /\ UNCHANGED <<real, tree, promoted, lane, orphans, patches, counts, history>>

(* agent_start or turn_start, of which a turn may have several.  Without a *)
(* synced tree the worktree is captured at once, off the chain.            *)
TurnStart(s) ==
  /\ status[s] \in {"idle", "running", "cut"} /\ frames[s] > 0
  /\ frames' = [frames EXCEPT ![s] = @ - 1]
  /\ status' = [status EXCEPT ![s] = "running"]
  /\ IF s \in promoted THEN UNCHANGED <<chain, ticket>>
     ELSE \E early \in IF endTree[s] # None THEN {None}
                       ELSE {tree[s]} \cup (IF May(s, "capture") THEN {None} ELSE {}) :
            Enqueue(s, "start", early)
  /\ UNCHANGED <<real, tree, promoted, at, hand, start, endTree, store, rows,
                 edits, clicks, restarts, faults, history>>

(* agent_end.                                                              *)
TurnEnd(s) ==
  /\ status[s] \in {"running", "cut"}
  /\ status' = [status EXCEPT ![s] = "idle"]
  /\ IF s \in promoted THEN UNCHANGED <<chain, ticket>> ELSE Enqueue(s, "end", None)
  /\ UNCHANGED <<real, tree, promoted, at, hand, start, endTree, store, rows, counts, history>>

(* An agent edits a hunk of its worktree during its turn.                  *)
AgentEdit(s, h) ==
  /\ status[s] \in {"running", "cut"} /\ edits[s] > 0
  /\ edits' = [edits EXCEPT ![s] = @ - 1]
  /\ tree' = [tree EXCEPT ![s][h] = <<s, edits[s]>>]
  /\ credit' = IF status[s] = "cut" THEN [credit EXCEPT ![s][h] = tree'[s][h]] ELSE credit
  /\ UNCHANGED <<real, status, promoted, lane, store, rows, frames, clicks, restarts, faults,
                 raced, delivered, mixed>>

(* The operator edits the checkout.                                        *)
OperatorEdit(h) ==
  /\ edits[Operator] > 0
  /\ edits' = [edits EXCEPT ![Operator] = @ - 1]
  /\ real' = [real EXCEPT ![h] = <<Operator, edits[Operator]>>]
  /\ raced' = [s \in Sessions |-> raced[s] \cup {h}]
  /\ UNCHANGED <<tree, status, promoted, lane, store, rows, frames, clicks, restarts, faults,
                 credit, delivered, mixed>>

(* promote() takes the checkout away from a session.                       *)
Promote(s) ==
  /\ status[s] \notin {"absent", "gone"} /\ s \notin promoted
  /\ promoted' = promoted \cup {s}
  /\ UNCHANGED <<real, tree, status, lane, store, rows, counts, history>>

(* The operator's Apply and Discard of what is held for a session.         *)
Click(s, kind) ==
  /\ status[s] \in {"idle", "running", "cut"} /\ clicks > 0
  /\ s \notin promoted \/ Mine(s) # {}
  /\ clicks' = clicks - 1
  /\ Enqueue(s, kind, None)
  /\ UNCHANGED <<real, tree, status, promoted, at, hand, start, endTree, store, rows,
                 frames, edits, restarts, faults, history>>

(* acknowledgeDivergence().                                                *)
Acknowledge(s) ==
  /\ "divergence" \in rows[s]
  /\ Clear(s, "divergence")
  /\ mixed' = {m \in mixed : m[1] # s}
  /\ UNCHANGED <<real, tree, status, promoted, lane, store, counts, raced, credit, delivered>>

-----------------------------------------------------------------------------
(* Turn start and turn end *)

(* beginTurn(): the previous end tree is the baseline, if there is one.    *)
StartJob(s) ==
  \E j \in chain :
    /\ Begins(s, "start", j)
    /\ LET base == IF endTree[s] # None THEN endTree[s] ELSE j.early
       IN  \E fp \in {real} \cup (IF "fingerprint" \in faults THEN {None} ELSE {}) :
             start' = [start EXCEPT ![s] = [real |-> fp, tree |-> base]]
    /\ credit' = IF start[s] # None /\ endTree[s] = None /\ j.early # None
                 THEN [credit EXCEPT ![s] = j.early] ELSE credit
    /\ Done(s)
    /\ UNCHANGED <<real, tree, status, promoted, endTree, store, rows, counts,
                   raced, delivered, mixed>>

(* Does the patch of this turn contain what an uncapturable turn left?     *)
Spans(s, from) == endTree[s] # None /\ from = endTree[s]

Uncapturable(s) ==
  /\ Raise(s, "uncapturable")
  /\ UNCHANGED <<store, endTree, credit>>

(* Bug: the baseline moves although nothing tracks the patch.              *)
BugUntracked(s, p, n) ==
  /\ orphans' = orphans \cup {[n |-> n, owner |-> s, patch |-> p]}
  /\ Raise(s, "uncapturable")
  /\ endTree' = [endTree EXCEPT ![s] = p.to]
  /\ UNCHANGED <<holds, credit>>

(* The patch body is on disk and its ledger line is not: the baseline      *)
(* stays, so that the next turn's patch contains this one.                 *)
Untracked(s, p, n) ==
  /\ orphans' = orphans \cup {[n |-> n, owner |-> s, patch |-> p]}
  /\ Raise(s, "uncapturable")
  /\ UNCHANGED <<holds, endTree, credit>>

Tracked(s, p, n) ==
  /\ holds' = holds \cup {[n |-> n, owner |-> s, patch |-> p, swept |-> FALSE,
                           listed |-> TRUE]}
  /\ rows' = [rows EXCEPT ![s] = (@ \ Only(Spans(s, p.from), "uncapturable")) \cup {"held"}]
  /\ endTree' = [endTree EXCEPT ![s] = p.to]
  /\ credit' = [credit EXCEPT ![s] = Patched(p, @)]
  /\ UNCHANGED orphans

(* hold(): the body first, then the ledger line.                           *)
Hold(s, p, n) ==
  /\ \/ Tracked(s, p, n)
     \/ May(s, "ledger") /\ Untracked(s, p, n)
     \/ May(s, "body") /\ Raise(s, "uncapturable") /\ UNCHANGED <<holds, orphans, endTree, credit>>
  /\ patches' = n
  /\ Done(s)

(* Bug: a turn is applied although earlier ones of its session are held.   *)
BugBacklog(s) == FALSE

Backlog(s) == Mine(s) # {}

(* syncTurnEnd() up to git apply.  From the re-fingerprint at turn end to  *)
(* the one behind git apply --check an edit has the effect it would have   *)
(* before the first of them: the patch is held.                            *)
EndJob(s) ==
  \E j \in chain :
    /\ Begins(s, "end", j)
    /\ start' = [start EXCEPT ![s] = None]
    /\ LET p == [from |-> start[s].tree, to |-> tree[s]]
       IN  \/ /\ start[s] = None
              /\ Done(s)
              /\ UNCHANGED <<store, endTree, rows, credit>>
           \/ /\ start[s] # None /\ (start[s].tree = None \/ May(s, "capture"))
              /\ Uncapturable(s)
              /\ Done(s)
           \/ /\ start[s] # None /\ start[s].tree # None /\ Touched(p) = {}
              /\ rows' = [rows EXCEPT ![s] = @ \ Only(Spans(s, p.from), "uncapturable")]
              /\ endTree' = [endTree EXCEPT ![s] = p.to]
              /\ Done(s)
              /\ UNCHANGED <<store, credit>>
           \/ /\ start[s] # None /\ start[s].tree # None /\ Touched(p) # {}
              /\ \/ Backlog(s) \/ real # start[s].real \/ ~Applies(p, real)
                 \/ {"fingerprint", "read"} \cap faults # {}
              /\ Hold(s, p, patches + 1)
           \/ /\ start[s] # None /\ start[s].tree # None /\ Touched(p) # {}
              /\ ~Backlog(s) /\ real = start[s].real /\ Applies(p, real)
              /\ patches' = patches + 1
              /\ Goes(s, "snapshot", [Empty EXCEPT !.patch = p, !.n = patches + 1])
              /\ UNCHANGED <<holds, orphans, endTree, rows, credit>>
    /\ UNCHANGED <<real, tree, status, promoted, counts, raced, delivered, mixed>>

-----------------------------------------------------------------------------
(* Apply and Discard *)

Stopped(s) == Raise(s, "held") /\ Done(s)

(* applyHeldNow(): the checkout is captured, then the holds are listed.    *)
ApplyJob(s) ==
  \E j \in chain :
    /\ Begins(s, "apply", j)
    /\ \/ Mine(s) = {} /\ Clear(s, "held") /\ Done(s)
       \/ {"fingerprint", "read"} \cap faults # {} /\ Stopped(s)
       \/ /\ Mine(s) # {}
          /\ Goes(s, "check", [Empty EXCEPT !.pin = real, !.todo = Mine(s)])
          /\ UNCHANGED rows
    /\ UNCHANGED <<real, tree, status, promoted, start, endTree, store, counts, history>>

(* The next hold in ledger order is checked against the checkout, which    *)
(* must be the one pinned, as a fresh fingerprint says.                    *)
Check(s) ==
  /\ at[s] = "check"
  /\ \E x \in hand[s].todo :
       /\ \A y \in hand[s].todo : x.n <= y.n
       /\ \/ /\ real = hand[s].pin /\ Applies(x.patch, real)
             /\ Goes(s, "snapshot", [hand[s] EXCEPT !.patch = x.patch, !.n = x.n])
             /\ UNCHANGED rows
          \/ /\ real # hand[s].pin \/ ~Applies(x.patch, real) \/ "fingerprint" \in faults
             /\ Stopped(s)
  /\ UNCHANGED <<real, tree, status, promoted, start, endTree, store, counts, history>>

(* discardHeldNow(): one hold or all of them, up to a line that fails.     *)
DiscardJob(s) ==
  \E j \in chain :
    /\ Begins(s, "discard", j)
    /\ \/ \E dropped \in SUBSET Mine(s) :
            /\ \/ dropped = Mine(s) \/ Cardinality(dropped) = 1
               \/ "ledger" \in faults
            /\ holds' = holds \ dropped
            /\ IF dropped = Mine(s) THEN Clear(s, "held") ELSE Raise(s, "held")
       \/ "read" \in faults /\ UNCHANGED <<holds, rows>>
    /\ Done(s)
    /\ UNCHANGED <<real, tree, status, promoted, start, endTree, orphans, patches, counts, history>>

-----------------------------------------------------------------------------
(* applyPatchToRealTree(), from the snapshot on *)

Replays(s) == hand[s].todo # {}

Snapshot(s) ==
  /\ at[s] = "snapshot"
  /\ Goes(s, "read", [hand[s] EXCEPT !.pre = real])
  /\ UNCHANGED <<real, tree, status, promoted, start, endTree, store, rows, counts, history>>

(* git apply reads the files and checks the patch once more.               *)
Read(s) ==
  /\ at[s] = "read"
  /\ IF Applies(hand[s].patch, real)
     THEN /\ Goes(s, "write", [hand[s] EXCEPT !.got = real])
          /\ UNCHANGED <<store, endTree, rows, credit>>
     ELSE IF Replays(s)
     THEN Stopped(s) /\ UNCHANGED <<store, endTree, credit>>
     ELSE Hold(s, hand[s].patch, hand[s].n)
  /\ raced' = [raced EXCEPT ![s] = {}]
  /\ UNCHANGED <<real, tree, status, promoted, start, counts, delivered, mixed>>

Written(s) == Overwrite(hand[s].patch, hand[s].got, real)

Write(s) ==
  /\ at[s] = "write"
  /\ real' = Written(s)
  /\ delivered' = [delivered EXCEPT ![s] = hand[s].n]
  /\ Goes(s, "compare", hand[s])
  /\ UNCHANGED <<tree, status, promoted, start, endTree, store, rows, counts, raced, credit, mixed>>

(* Bug: a turn that is applied clears every row of its session.            *)
BugApplied(s, torn) ==
  rows' = [rows EXCEPT ![s] = Only(torn, "divergence")]

(* The rows after a turn was applied: its session has nothing held.        *)
Applied(s, torn) ==
  rows' = [rows EXCEPT ![s] =
    (@ \ ({"held"} \cup Only(Spans(s, hand[s].patch.from), "uncapturable")))
       \cup Only(torn, "divergence")]

(* The write just made mixed with an edit: what git apply read of the      *)
(* files is not what the snapshot has.                                     *)
Mixed(s) == \E h \in Rewritten(hand[s].patch) : hand[s].pre[h] # hand[s].got[h]

Compare(s) ==
  /\ at[s] = "compare"
  /\ mixed' = mixed \cup Only(Mixed(s), <<s, Replays(s)>>)
  /\ LET torn == Diverged(hand[s].patch, hand[s].pre, real)
     IN  IF Replays(s)
         THEN /\ Goes(s, "resolve", [hand[s] EXCEPT !.torn = @ \/ torn])
              /\ UNCHANGED <<rows, endTree, credit>>
         ELSE /\ Applied(s, torn)
              /\ endTree' = [endTree EXCEPT ![s] = hand[s].patch.to]
              /\ credit' = [credit EXCEPT ![s] = Patched(hand[s].patch, @)]
              /\ Done(s)
  /\ UNCHANGED <<real, tree, status, promoted, start, store, counts, raced, delivered>>

(* The scratch copy the comparison needs, or the directory for what it     *)
(* retains, cannot be made: it throws behind the write.  The turn's patch, *)
(* in the checkout already, is held; a replay stops with its hold open.    *)
(* No divergence is told.                                                  *)
CompareFails(s) ==
  /\ at[s] = "compare" /\ "compare" \in faults
  /\ IF Replays(s)
     THEN Stopped(s) /\ UNCHANGED <<store, endTree, credit>>
     ELSE Hold(s, hand[s].patch, hand[s].n)
  /\ UNCHANGED <<real, tree, status, promoted, start, counts, raced, delivered, mixed>>

(* Bug: the hold just written stays in the list.                           *)
BugRemaining(s) == hand[s].todo

Remaining(s) == {x \in hand[s].todo : x.n # hand[s].n}

(* The hold is resolved and the next write pinned to the checkout as it is *)
(* now; the rows are set when the replay is over.  A replay that stops at  *)
(* a check or a read says nothing of the divergences before (Stopped).     *)
Resolve(s) ==
  /\ at[s] = "resolve"
  /\ LET done == {x \in hand[s].todo : x.n = hand[s].n}
         told == Only(hand[s].torn, "divergence")
         End(clear, raise) ==
           rows' = [rows EXCEPT ![s] = (@ \ clear) \cup raise \cup told] /\ Done(s)
     IN  \/ /\ holds' = holds \ done
            /\ IF Remaining(s) = {}
               THEN End({"held"}, {})
               ELSE \/ /\ Goes(s, "check", [hand[s] EXCEPT !.todo = Remaining(s), !.pin = real])
                       /\ UNCHANGED rows
                    \/ "fingerprint" \in faults /\ End({}, {"held"})
         \/ /\ "ledger" \in faults
            /\ UNCHANGED holds
            /\ End({}, {"held"})
  /\ UNCHANGED <<real, tree, status, promoted, start, endTree, orphans, patches, counts, history>>

-----------------------------------------------------------------------------
(* The daemon dies and boots: the queue, the baselines and the rows go.    *)
(* The agents of "lost" are gone too; a git apply that has read its files  *)
(* may still write them.  The boot sweep re-tracks the bodies that no      *)
(* ledger line names, unless an append fails still.  Then the holds are    *)
(* listed and their rows raised; a ledger that cannot be read counts as    *)
(* empty.                                                                  *)
Swept == {[n |-> x.n + patches, owner |-> x.owner, patch |-> x.patch, swept |-> TRUE,
           listed |-> TRUE] : x \in orphans}

Marked(all, readable) == {[x EXCEPT !.listed = readable] : x \in all}

(* Bug: the rows of what is held are not raised again.                     *)
BugRowsAtBoot == [s \in Sessions |-> {}]

RowsAtBoot == [s \in Sessions |-> Only(\E x \in holds' : x.owner = s /\ x.listed, "held")]

Restart(lost) ==
  /\ restarts > 0
  /\ restarts' = restarts - 1
  /\ status' = [s \in Sessions |->
       IF s \in lost THEN "gone"
       ELSE IF status[s] = "running" THEN "cut" ELSE status[s]]
  /\ \/ UNCHANGED <<real, delivered>>
     \/ \E s \in Sessions :
          /\ at[s] = "write" /\ real' = Written(s)
          /\ delivered' = [delivered EXCEPT ![s] = hand[s].n]
  /\ chain' = {} /\ ticket' = 0
  /\ at' = [s \in Sessions |-> "none"] /\ hand' = [s \in Sessions |-> Empty]
  /\ start' = [s \in Sessions |-> None] /\ endTree' = [s \in Sessions |-> None]
  /\ \E readable \in {TRUE} \cup Only("read" \in faults, FALSE) :
       \/ /\ holds' = Marked(holds \cup Swept, readable) /\ orphans' = {}
          /\ patches' = IF orphans = {} THEN patches ELSE patches + patches
       \/ /\ "ledger" \in faults /\ orphans # {}
          /\ holds' = Marked(holds, readable) /\ UNCHANGED <<orphans, patches>>
  /\ rows' = RowsAtBoot
  /\ credit' = tree /\ mixed' = {}
  /\ UNCHANGED <<tree, promoted, frames, edits, clicks, faults, raced>>

-----------------------------------------------------------------------------
Init ==
  /\ real = Base /\ tree = [s \in Sessions |-> Base]
  /\ status = [s \in Sessions |-> "absent"] /\ promoted = {}
  /\ chain = {} /\ ticket = 0
  /\ at = [s \in Sessions |-> "none"] /\ hand = [s \in Sessions |-> Empty]
  /\ start = [s \in Sessions |-> None] /\ endTree = [s \in Sessions |-> None]
  /\ holds = {} /\ orphans = {} /\ patches = 0
  /\ rows = [s \in Sessions |-> {}]
  /\ \E b \in Budgets :
       /\ frames = b.frames /\ edits = b.edits /\ clicks = b.clicks
       /\ restarts = b.restarts /\ faults = b.faults
  /\ raced = [s \in Sessions |-> {}] /\ credit = tree
  /\ delivered = [s \in Sessions |-> 0] /\ mixed = {}

Job(s) ==
  \/ StartJob(s) \/ EndJob(s) \/ ApplyJob(s) \/ DiscardJob(s) \/ Check(s)
  \/ Snapshot(s) \/ Read(s) \/ Write(s) \/ Compare(s) \/ CompareFails(s)
  \/ Resolve(s)

Present == {s \in Sessions : status[s] \notin {"absent", "gone"}}

Next ==
  \/ \E s \in Sessions : Job(s)
  \/ \E s \in Sessions, prior \in Sessions \cup {None} : Launch(s, prior)
  \/ \E s \in Sessions : TurnStart(s) \/ TurnEnd(s) \/ Promote(s) \/ Acknowledge(s)
  \/ \E s \in Sessions, kind \in {"apply", "discard"} : Click(s, kind)
  \/ \E s \in Sessions, h \in Hunks : AgentEdit(s, h)
  \/ \E h \in Hunks : OperatorEdit(h)
  \/ \E lost \in SUBSET Present : Restart(lost)

Spec == Init /\ [][Next]_vars

-----------------------------------------------------------------------------
(* Properties *)

Hands == [patch : Patches \cup {None}, n : Nat, pin : Trees \cup {None},
          pre : Trees \cup {None}, got : Trees \cup {None},
          todo : SUBSET holds, torn : BOOLEAN]
Held  == [n : Nat, owner : Sessions, patch : Patches, swept : BOOLEAN, listed : BOOLEAN]

TypeOK ==
  /\ real \in Trees /\ tree \in [Sessions -> Trees]
  /\ status \in [Sessions -> {"absent", "idle", "running", "cut", "gone"}]
  /\ promoted \subseteq Sessions
  /\ chain \subseteq Jobs /\ ticket \in Nat
  /\ at \in [Sessions -> {"none", "check", "snapshot", "read", "write", "compare", "resolve"}]
  /\ hand \in [Sessions -> Hands]
  /\ start \in [Sessions -> [real : Trees \cup {None}, tree : Trees \cup {None}] \cup {None}]
  /\ endTree \in [Sessions -> Trees \cup {None}]
  /\ holds \subseteq Held
  /\ orphans \subseteq [n : Nat, owner : Sessions, patch : Patches]
  /\ patches \in Nat
  /\ rows \in [Sessions -> SUBSET {"held", "uncapturable", "divergence"}]
  /\ frames \in [Sessions -> Nat] /\ edits \in [Authors -> Nat]
  /\ clicks \in Nat /\ restarts \in Nat
  /\ faults \subseteq Faults
  /\ raced \in [Sessions -> SUBSET Hunks] /\ credit \in [Sessions -> Trees]
  /\ delivered \in [Sessions -> Nat]
  /\ mixed \subseteq Sessions \X BOOLEAN

(* The daemon writes to a hunk of the checkout only where its patch found  *)
(* what the agent started from.  Nobody's edit is overwritten, neither the *)
(* operator's nor another session's, except an operator's edit that comes  *)
(* between git apply's read of the file and its write.                     *)
Overwrites(h, s) ==
  /\ at[s] = "write"
  /\ \/ h \in Touched(hand[s].patch) /\ real[h] = hand[s].patch.from[h]
     \/ h \in raced[s]

NoClobber ==
  [][\A h \in Hunks : real'[h] # real[h] /\ edits' = edits
        => \E s \in Sessions : Overwrites(h, s)]_vars

(* A session's patches reach the checkout in the order of its turns: while *)
(* one is held, none that came after it was written.  What a boot sweep    *)
(* has re-tracked is left out: a later patch may contain it.               *)
InOrder == \A x \in holds : ~x.swept => delivered[x.owner] <= x.n

(* What is held for a session that is present is shown as held.  Left out  *)
(* is what a boot could not list: its rows stay down in this tenure, as    *)
(* the log line of that boot says.                                         *)
HeldShown == \A x \in holds : x.owner \in Present /\ x.listed => "held" \in rows[x.owner]

(* Between the turns of a session whose jobs are done, what it edited was  *)
(* applied or held, or its row says that edits live only in the worktree.  *)
(* Left out are turns a restart cuts, and what a session's first turn did  *)
(* before the last of its start frames.                                    *)
Quiet(s) ==
  status[s] = "idle" /\ s \notin promoted /\ \A j \in chain : j.session # s

Accounted ==
  \A s \in Sessions : Quiet(s) => tree[s] = credit[s] \/ "uncapturable" \in rows[s]

(* A turn's write that mixed with an operator's edit to the same file, and  *)
(* could be compared with what the patch alone makes, is shown as a         *)
(* divergence until it is acknowledged.  A comparison that throws tells     *)
(* nobody (CompareFails), nor does a replay that stops half way.            *)
DivergenceTold ==
  \A s \in Sessions : <<s, FALSE>> \in mixed /\ at[s] = "none" => "divergence" \in rows[s]
=============================================================================
