------------------------------- MODULE PrLand -------------------------------
(***************************************************************************)
(* How the work of one branch reaches the main branch through GitHub, and  *)
(* how the daemon's ledgers and the issue tracker follow: the land of      *)
(* src/src/land-pr.ts, the float that opens a pull request early, and the  *)
(* reconciler of src/src/squad-manager.ts, which looks for merges and      *)
(* closes made outside the daemon.                                         *)
(*                                                                         *)
(* The land holds the repository's land lock; the float and the reconciler *)
(* do not.  Each step is the code between two awaits.  A call to GitHub is *)
(* two steps, its effect there and the daemon's continuation: the daemon   *)
(* may die in between, and the human at GitHub acts at any time.           *)
(***************************************************************************)
EXTENDS Integers, FiniteSets

CONSTANTS
    MaxPrs,        \* bound: pull requests the branch ever has
    Deployments    \* the deployments considered, see Deployment

Numbers == 1 .. MaxPrs
Callers == {"land", "float", "tick"}

(* method: OMP_SQUAD_PR_MERGE_METHOD; "squash" stands for rebase as well,   *)
(* both rewrite the commits.  human: somebody merges at GitHub too.         *)
(* commits, prs, closes, faults, crashes are bounds: on commits, on pull    *)
(* requests opened for the branch and on closes by hand, on calls and       *)
(* writes that fail or whose answer is lost, on deaths of the daemon.       *)
Methods == {"merge", "squash"}
Deployment == [method : Methods, human : BOOLEAN, commits : Nat, prs : Numbers,
               closes : Nat, faults : Nat, crashes : Nat]

ASSUME NumbersAssumption == MaxPrs \in Nat \ {0}
ASSUME DeploymentsAssumption == Deployments \subseteq Deployment

VARIABLES
    cfg,        \* the deployment, fixed at the start
    tip,        \* the local branch: how many commits it has over its fork point
    remote,     \* how many of them the branch at GitHub has
    main,       \* how many of them are in the history of the main branch
    pr,         \* the pull requests at GitHub, see Request
    issue,      \* the issue in the tracker, "open" or "closed"
    entry,      \* the branch's entry in the ledger of pending pull requests
    proof,      \* the branch's entry in the ledger of done proofs
    ready,      \* landReady of the agent's record, in memory
    closedIds,  \* the issue is in closedIssues, in memory
    escalated,  \* the issue is in unverifiedProofEscalated, in memory
    ensuring,   \* per caller, the ensurePr() it awaits
    land,       \* the land in progress, one at a time by the land lock
    tick,       \* the reconciler's pass in progress
    passed,     \* history: the longest branch a scratch gate was green for
    told,       \* history: a human was told of an unverified merge
    closes, faults, crashes

github   == <<remote, main, pr>>
ledgers  == <<entry, proof>>
memory   == <<ready, closedIds, escalated>>
history  == <<passed, told>>
counts   == <<closes, faults, crashes>>
vars == <<cfg, tip, github, issue, ledgers, memory, ensuring, land, tick,
          history, counts>>

(* head: the commits the request merged, or had when it was closed.         *)
Request == [state : {"none", "open", "merged", "closed"}, head : Nat,
            by : {"nobody", "daemon", "human"}, gated : Nat]
(* num 0: no entry.  proven and closed stand for proofAt and issueClosedAt. *)
Entry   == [num : Numbers, state : {"open", "merged", "closed"},
            proven : BOOLEAN, closed : BOOLEAN]
Proof   == [grade : {"none", "green", "unverified"}, commit : Nat]
Ensure  == [pc : {"none", "list", "push", "adopt", "create", "record"},
            num : 0 .. MaxPrs, head : Nat]
Land    == [pc : {"idle", "ensure", "pin", "gate", "sync", "merge", "merged",
                  "record", "landed", "closing"},
            num : 0 .. MaxPrs, pin : Nat, gated : Nat, commit : Nat, retried : BOOLEAN]

NoRequest == [state |-> "none", head |-> 0, by |-> "nobody", gated |-> 0]
NoEntry   == [num |-> 0, state |-> "closed", proven |-> FALSE, closed |-> FALSE]
NoProof   == [grade |-> "none", commit |-> 0]
NoEnsure  == [pc |-> "none", num |-> 0, head |-> 0]
Idle      == [pc |-> "idle", num |-> 0, pin |-> 0, gated |-> 0, commit |-> 0,
              retried |-> FALSE]

Tick == [pc : {"off", "view", "mark", "assert", "record", "close", "closing",
               "update", "push", "retire"},
         seen : Entry \cup {NoEntry}, commit : Nat]
Off  == [pc |-> "off", seen |-> NoEntry, commit |-> 0]

Larger(m, n) == IF m < n THEN n ELSE m

Open  == {p \in Numbers : pr[p].state = "open"}
Free  == {p \in 1 .. cfg.prs : pr[p].state = "none"}

(* The commits are in main: by ancestry, or inside what a request merged.   *)
Landed(c) == \/ c <= main
             \/ \E p \in Numbers : pr[p].state = "merged" /\ pr[p].head = c

-----------------------------------------------------------------------------
Init ==
    /\ cfg \in Deployments
    /\ tip = 0 /\ remote = 0 /\ main = 0
    /\ pr = [p \in Numbers |-> NoRequest]
    /\ issue = "open"
    /\ entry = NoEntry
    /\ proof = NoProof
    /\ ready = FALSE /\ closedIds = FALSE /\ escalated = FALSE
    /\ ensuring = [c \in Callers |-> NoEnsure]
    /\ land = Idle
    /\ tick = Off
    /\ passed = 0 /\ told = FALSE
    /\ closes = 0 /\ faults = 0 /\ crashes = 0

Fault == faults < cfg.faults /\ faults' = faults + 1

-----------------------------------------------------------------------------
(* The agent and the human.                                                *)

Commits ==
    /\ tip < cfg.commits
    /\ tip' = tip + 1
    /\ UNCHANGED <<cfg, github, issue, ledgers, memory, ensuring, land, tick, history, counts>>

(* A merge freezes the head of the request; only a true merge carries the   *)
(* commits themselves into the history of main.                             *)
Merge(p, who, how, gated) ==
    /\ pr' = [pr EXCEPT ![p] = [state |-> "merged", head |-> remote, by |-> who,
                                gated |-> gated]]
    /\ main' = IF how = "merge" THEN Larger(main, remote) ELSE main
    /\ remote' = remote

HumanMerges(p, how) ==
    /\ cfg.human
    /\ p \in Open
    /\ Merge(p, "human", how, 0)
    /\ UNCHANGED <<cfg, tip, issue, ledgers, memory, ensuring, land, tick, history, counts>>

HumanCloses(p) ==
    /\ closes < cfg.closes
    /\ closes' = closes + 1
    /\ p \in Open
    /\ pr' = [pr EXCEPT ![p] = [@ EXCEPT !.state = "closed", !.head = remote]]
    /\ UNCHANGED <<cfg, tip, remote, main, issue, ledgers, memory, ensuring, land, tick,
                   history, faults, crashes>>

(* A branch has one open request at most.                                   *)
HumanReopens(p) ==
    /\ pr[p].state = "closed" /\ Open = {}
    /\ pr' = [pr EXCEPT ![p] = [@ EXCEPT !.state = "open", !.head = 0]]
    /\ UNCHANGED <<cfg, tip, remote, main, issue, ledgers, memory, ensuring, land, tick,
                   history, counts>>

-----------------------------------------------------------------------------
(* The ledgers of src/src/land-pr.ts and src/src/done-proof.ts, and the     *)
(* close of the issue.                                                      *)

Pending(n) == [num |-> n, state |-> "open", proven |-> FALSE, closed |-> FALSE]

(* Bug: an update makes the entry it does not find.                         *)
BugPatched(st, isProven, isClosed) ==
    [entry EXCEPT !.state = st, !.proven = entry.proven \/ isProven,
                  !.closed = entry.closed \/ isClosed]

(* updatePendingPr: by branch, whichever request the entry is about now.    *)
Patched(st, isProven, isClosed) ==
    IF entry.num = 0 THEN entry
    ELSE [entry EXCEPT !.state = st, !.proven = entry.proven \/ isProven,
                       !.closed = entry.closed \/ isClosed]

(* The two files are written best-effort: a write that fails is swallowed,  *)
(* the file stays as it was, and the caller goes on.                        *)
Written(newProof, newEntry) ==
    \/ /\ proof' = newProof /\ entry' = newEntry
       /\ UNCHANGED counts
    \/ /\ Fault
       /\ proof' \in {proof, newProof} /\ entry' \in {entry, newEntry}
       /\ UNCHANGED <<closes, crashes>>

Confirmed(e) == e.num # 0 /\ e.state = "merged" /\ e.proven /\ e.closed

(* Bug: any proof closes the issue.                                         *)
BugAuthorizes == proof.grade # "none"

(* Only a proof this daemon's gate stands behind closes the issue; a merge  *)
(* nobody verified is brought before a human, once per run of the daemon.   *)
Authorizes == proof.grade = "green"
MustClose  == ~closedIds /\ Authorizes
Escalates  == ~closedIds /\ proof.grade = "unverified"

Escalated == /\ escalated' = (escalated \/ Escalates)
             /\ told' = (told \/ Escalates)

(* closePlaneIssue: the answer may be lost, and the call may fail.          *)
IssueClosed ==
    \/ /\ issue' = "closed" /\ closedIds' = TRUE
       /\ UNCHANGED counts
    \/ /\ Fault
       /\ issue' \in {issue, "closed"}
       /\ UNCHANGED <<closedIds, closes, crashes>>

-----------------------------------------------------------------------------
(* ensurePr, for a land, for a float and for the reconciler's push retry.   *)

Stays == /\ land' = land /\ tick' = tick

(* It returns the request's number, or 0 when it failed.  A land goes on to *)
(* its gate or is refused; the other two are done.                          *)
Returns(c, n) ==
    /\ ensuring' = [ensuring EXCEPT ![c] = NoEnsure]
    /\ land' = IF c # "land" THEN land
               ELSE IF n = 0 THEN Idle ELSE [land EXCEPT !.pc = "pin", !.num = n]
    /\ tick' = IF c = "tick" THEN Off ELSE tick

Lists(c) ==
    /\ ensuring[c].pc = "list"
    /\ ensuring' = [ensuring EXCEPT ![c] =
           [pc |-> "push", num |-> IF Open = {} THEN 0 ELSE CHOOSE p \in Open : TRUE,
            head |-> remote]]
    /\ Stays
    /\ UNCHANGED <<cfg, tip, github, issue, ledgers, memory, history, counts>>

(* With an open request the local tip is pushed only where it differs from  *)
(* the head that was listed.                                                *)
Pushes(c) ==
    /\ ensuring[c].pc = "push"
    /\ remote' = IF ensuring[c].num # 0 /\ ensuring[c].head = tip THEN remote ELSE tip
    /\ ensuring' = [ensuring EXCEPT
           ![c].pc = IF ensuring[c].num # 0 THEN "adopt" ELSE "create"]
    /\ Stays
    /\ UNCHANGED <<cfg, tip, main, pr, issue, ledgers, memory, history, counts>>

(* An entry that tracks this very request is left as it is.                 *)
Adopts(c) ==
    /\ ensuring[c].pc = "adopt"
    /\ Written(proof, IF entry.num = ensuring[c].num THEN entry
                      ELSE Pending(ensuring[c].num))
    /\ Returns(c, ensuring[c].num)
    /\ UNCHANGED <<cfg, tip, github, issue, memory, history>>

(* GitHub refuses a second open request for a branch, and an empty one.     *)
Creates(c) ==
    /\ ensuring[c].pc = "create"
    /\ Open = {} /\ remote > main
    /\ \E p \in Free :
         /\ \A q \in Free : p <= q
         /\ pr' = [pr EXCEPT ![p].state = "open"]
         /\ ensuring' = [ensuring EXCEPT ![c] = [@ EXCEPT !.pc = "record", !.num = p]]
    /\ Stays
    /\ UNCHANGED <<cfg, tip, remote, main, issue, ledgers, memory, history, counts>>

(* It fails as well where the bound on requests is reached.                 *)
CreateRefused(c) ==
    /\ ensuring[c].pc = "create"
    /\ Open # {} \/ remote <= main \/ Free = {}
    /\ Returns(c, 0)
    /\ UNCHANGED <<cfg, tip, github, issue, ledgers, memory, history, counts>>

Records(c) ==
    /\ ensuring[c].pc = "record"
    /\ Written(proof, Pending(ensuring[c].num))
    /\ Returns(c, ensuring[c].num)
    /\ UNCHANGED <<cfg, tip, github, issue, memory, history>>

(* gh or git fails, or only its answer is lost: then the push was done, or  *)
(* the request is there, and the ledger does not know of it.                *)
EnsureFails(c) ==
    /\ ensuring[c].pc \in {"list", "push", "create", "record"}
    /\ Fault
    /\ remote' \in IF ensuring[c].pc = "push" THEN {remote, tip} ELSE {remote}
    /\ Returns(c, 0)
    /\ UNCHANGED <<cfg, tip, main, pr, issue, ledgers, memory, history, closes, crashes>>

EnsureStep(c) == \/ Lists(c)
                 \/ Pushes(c)
                 \/ Adopts(c)
                 \/ Creates(c)
                 \/ CreateRefused(c)
                 \/ Records(c)

Started(c) == [ensuring EXCEPT ![c] = [NoEnsure EXCEPT !.pc = "list"]]

(* markLandReady, and a land that is held for the operator: the branch has  *)
(* verified work, and the float is fired and forgotten.                     *)
Flagged ==
    /\ tip > main /\ proof.commit # tip
    /\ ensuring["float"].pc = "none"
    /\ ready' = TRUE
    /\ ensuring' = Started("float")
    /\ Stays
    /\ UNCHANGED <<cfg, tip, github, issue, ledgers, closedIds, escalated, history, counts>>

-----------------------------------------------------------------------------
(* landAgentPrOnce, under the land lock.                                   *)

(* Uncommitted edits of an idle agent are swept into a commit first.  A     *)
(* branch with nothing ahead of main is refused.                            *)
LandStarts(swept) ==
    /\ land.pc = "idle"
    /\ tip + swept <= cfg.commits /\ tip + swept > main
    /\ tip' = tip + swept
    /\ land' = [Idle EXCEPT !.pc = "ensure"]
    /\ ensuring' = Started("land")
    /\ UNCHANGED <<cfg, github, issue, ledgers, memory, tick, history, counts>>

(* The proof gate, the scratch worktree, the gates in it, or gh pr ready.   *)
LandRefused ==
    /\ land.pc \in {"pin", "gate", "sync", "merge"}
    /\ land' = Idle
    /\ UNCHANGED <<cfg, tip, github, issue, ledgers, memory, ensuring, tick, history, counts>>

(* rev-parse of the branch whose merge is about to be gated.                *)
Pins ==
    /\ land.pc = "pin"
    /\ land' = [land EXCEPT !.pc = "gate", !.pin = tip]
    /\ UNCHANGED <<cfg, tip, github, issue, ledgers, memory, ensuring, tick, history, counts>>

(* The branch, as it is by now, merges into the scratch worktree, and the   *)
(* gates are green there.                                                   *)
Gates ==
    /\ land.pc = "gate"
    /\ land' = [land EXCEPT !.pc = "merge", !.gated = tip]
    /\ passed' = Larger(passed, tip)
    /\ UNCHANGED <<cfg, tip, github, issue, ledgers, memory, ensuring, tick, told, counts>>

(* The scratch merge conflicts, main merges cleanly into the agent's own    *)
(* worktree: the branch has one commit more.  Once per land.                *)
Automerges ==
    /\ land.pc = "gate" /\ ~land.retried
    /\ tip < cfg.commits
    /\ tip' = tip + 1
    /\ land' = [land EXCEPT !.pc = "sync"]
    /\ UNCHANGED <<cfg, github, issue, ledgers, memory, ensuring, tick, history, counts>>

(* It is pushed, and the land starts over, if the branch is ahead of main   *)
(* still.                                                                   *)
Retries ==
    /\ land.pc = "sync"
    /\ remote' = tip
    /\ land' = IF tip > main THEN [Idle EXCEPT !.pc = "ensure", !.retried = TRUE] ELSE Idle
    /\ ensuring' = IF tip > main THEN Started("land") ELSE ensuring
    /\ UNCHANGED <<cfg, tip, main, pr, issue, ledgers, memory, tick, history, counts>>

(* The push fails, or only its answer is lost: the land is refused.         *)
RetryFails ==
    /\ land.pc = "sync"
    /\ Fault
    /\ remote' \in {remote, tip}
    /\ land' = Idle
    /\ UNCHANGED <<cfg, tip, main, pr, issue, ledgers, memory, ensuring, tick, history,
                   closes, crashes>>

(* Bug: the merge is not bound to the commit that was gated.                *)
BugBound == TRUE

(* --match-head-commit *)
Bound == remote = land.pin

Mergeable == land.num \in Open /\ Bound

(* gh pr merge.  The answer of one that took effect may be lost.            *)
Merges ==
    /\ land.pc = "merge"
    /\ Mergeable
    /\ Merge(land.num, "daemon", cfg.method, land.gated)
    /\ \/ land' = [Idle EXCEPT !.pc = "merged", !.num = land.num] /\ UNCHANGED counts
       \/ land' = Idle /\ Fault /\ UNCHANGED <<closes, crashes>>
    /\ UNCHANGED <<cfg, tip, issue, ledgers, memory, ensuring, tick, history>>

(* GitHub refuses; but gh takes a request that is merged already for a      *)
(* success.                                                                 *)
MergeRefused ==
    /\ land.pc = "merge"
    /\ ~Mergeable
    /\ land' = IF pr[land.num].state = "merged"
               THEN [Idle EXCEPT !.pc = "merged", !.num = land.num] ELSE Idle
    /\ UNCHANGED <<cfg, tip, github, issue, ledgers, memory, ensuring, tick, history, counts>>

(* Bug: any merged request will do for its branch.                          *)
BugAssertMerged(p, how) ==
    IF how = "merge" THEN tip <= main ELSE pr[p].state = "merged"

(* assertMerged for a request and one method: the tip is in main, or it is  *)
(* the head the request was merged with.                                    *)
AssertMerged(p, how) ==
    IF how = "merge" THEN tip <= main
    ELSE pr[p].state = "merged" /\ pr[p].head = tip

Asserts ==
    /\ land.pc = "merged"
    /\ land' = IF AssertMerged(land.num, cfg.method)
               THEN [Idle EXCEPT !.pc = "record", !.commit = tip] ELSE Idle
    /\ UNCHANGED <<cfg, tip, github, issue, ledgers, memory, ensuring, tick, history, counts>>

(* The proof first, then the pending entry.                                 *)
Proves ==
    /\ land.pc = "record"
    /\ Written([grade |-> "green", commit |-> land.commit], Patched("merged", TRUE, FALSE))
    /\ land' = [Idle EXCEPT !.pc = "landed"]
    /\ UNCHANGED <<cfg, tip, github, issue, memory, ensuring, tick, history>>

(* land() has awaited other ledgers meanwhile; now it closes the issue.     *)
Lands ==
    /\ land.pc = "landed"
    /\ ready' = FALSE
    /\ Escalated
    /\ land' = IF MustClose THEN [land EXCEPT !.pc = "closing"] ELSE Idle
    /\ UNCHANGED <<cfg, tip, github, issue, ledgers, closedIds, ensuring, tick, passed, counts>>

LandCloses ==
    /\ land.pc = "closing"
    /\ IssueClosed
    /\ land' = Idle
    /\ UNCHANGED <<cfg, tip, github, ledgers, ready, escalated, ensuring, tick, history>>

LandStep == \/ Pins
            \/ Gates
            \/ Retries
            \/ Merges
            \/ MergeRefused
            \/ Asserts
            \/ Proves
            \/ Lands
            \/ LandCloses

-----------------------------------------------------------------------------
(* prReconcileTick and reconcileOnePr.  What the pass acts on is a copy of  *)
(* the ledger taken at its start; other branches' entries come before this  *)
(* one and await GitHub as well.                                            *)

(* Bug: a merge that is proven counts as done, its issue closed or not.     *)
BugUnconfirmed(e) == e.num # 0 /\ e.state = "open"

Unconfirmed(e) == /\ e.num # 0
                  /\ \/ e.state = "open"
                     \/ e.state = "merged" /\ e.proven /\ ~e.closed

TickStarts ==
    /\ tick.pc = "off"
    /\ \/ /\ Unconfirmed(entry)
          /\ tick' = [Off EXCEPT !.pc = IF entry.proven /\ ~entry.closed
                                        THEN "close" ELSE "view",
                                 !.seen = entry]
       \/ /\ Confirmed(entry)
          /\ tick' = [Off EXCEPT !.pc = "retire", !.seen = entry]
       \/ /\ entry.num = 0 /\ ready
          /\ tick' = [Off EXCEPT !.pc = "push"]
    /\ ensuring' = IF tick'.pc = "push" THEN Started("tick") ELSE ensuring
    /\ UNCHANGED <<cfg, tip, github, issue, ledgers, memory, land, history, counts>>

(* gh pr view of the request the copy names.                                *)
Views ==
    /\ tick.pc = "view"
    /\ tick' = CASE pr[tick.seen.num].state = "merged" -> [tick EXCEPT !.pc = "assert"]
                 [] pr[tick.seen.num].state = "closed" -> [tick EXCEPT !.pc = "mark"]
                 [] OTHER -> Off
    /\ UNCHANGED <<cfg, tip, github, issue, ledgers, memory, ensuring, land, history, counts>>

(* The request was closed when GitHub answered; it may be open again.       *)
Marks ==
    /\ tick.pc = "mark"
    /\ Written(proof, Patched("closed", FALSE, FALSE))
    /\ tick' = Off
    /\ UNCHANGED <<cfg, tip, github, issue, memory, ensuring, land, history>>

(* gh fails, or the default branch of the repository does not resolve.      *)
ViewFails ==
    /\ tick.pc = "view"
    /\ Fault
    /\ tick' = Off
    /\ UNCHANGED <<cfg, tip, github, issue, ledgers, memory, ensuring, land, history,
                   closes, crashes>>

(* By whichever method the merge was made: either check will do.            *)
TickAsserts ==
    /\ tick.pc = "assert"
    /\ tick' = IF \E how \in Methods : AssertMerged(tick.seen.num, how)
               THEN [tick EXCEPT !.pc = "record", !.commit = tip] ELSE Off
    /\ UNCHANGED <<cfg, tip, github, issue, ledgers, memory, ensuring, land, history, counts>>

TickProves ==
    /\ tick.pc = "record"
    /\ Written([grade |-> "unverified", commit |-> tick.commit], entry)
    /\ ready' = FALSE
    /\ tick' = [tick EXCEPT !.pc = "close", !.commit = 0]
    /\ UNCHANGED <<cfg, tip, github, issue, closedIds, escalated, ensuring, land, history>>

(* attemptCloseFor *)
TickSettles ==
    /\ tick.pc = "close"
    /\ Escalated
    /\ tick' = [tick EXCEPT !.pc = IF MustClose THEN "closing" ELSE "update"]
    /\ UNCHANGED <<cfg, tip, github, issue, ledgers, ready, closedIds, ensuring, land,
                   passed, counts>>

TickCloses ==
    /\ tick.pc = "closing"
    /\ IssueClosed
    /\ tick' = [tick EXCEPT !.pc = "update"]
    /\ UNCHANGED <<cfg, tip, github, ledgers, ready, escalated, ensuring, land, history>>

(* A copy that was proven has only its close stamped.                       *)
TickUpdates ==
    /\ tick.pc = "update"
    /\ Written(proof, IF tick.seen.proven
                      THEN Patched(entry.state, FALSE, closedIds \/ escalated)
                      ELSE Patched("merged", TRUE, closedIds \/ escalated))
    /\ tick' = Off
    /\ UNCHANGED <<cfg, tip, github, issue, memory, ensuring, land, history>>

(* deletePendingPr: by branch, too.                                         *)
Retires ==
    /\ tick.pc = "retire"
    /\ Written(proof, NoEntry)
    /\ tick' = Off
    /\ UNCHANGED <<cfg, tip, github, issue, memory, ensuring, land, history>>

TickStep == \/ TickStarts
            \/ Views
            \/ Marks
            \/ TickAsserts
            \/ TickProves
            \/ TickSettles
            \/ TickCloses
            \/ TickUpdates
            \/ Retires

-----------------------------------------------------------------------------
(* The daemon dies and boots: the ledgers and GitHub are left.  It may die  *)
(* between the two files of one record.                                     *)
Dies ==
    /\ crashes < cfg.crashes
    /\ crashes' = crashes + 1
    /\ ready' = FALSE /\ closedIds' = FALSE /\ escalated' = FALSE
    /\ ensuring' = [c \in Callers |-> NoEnsure]
    /\ land' = Idle
    /\ tick' = Off
    /\ UNCHANGED <<cfg, tip, github, issue, entry, history, closes, faults>>

Crash == Dies /\ proof' = proof

CrashRecording ==
    /\ land.pc = "record"
    /\ proof' = [grade |-> "green", commit |-> land.commit]
    /\ Dies

Next ==
    \/ Commits
    \/ \E p \in Numbers : \/ HumanCloses(p)
                          \/ HumanReopens(p)
                          \/ \E how \in Methods : HumanMerges(p, how)
    \/ \E c \in Callers : EnsureStep(c) \/ EnsureFails(c)
    \/ Flagged
    \/ \E swept \in {0, 1} : LandStarts(swept)
    \/ LandRefused
    \/ Automerges
    \/ RetryFails
    \/ LandStep
    \/ TickStep
    \/ ViewFails
    \/ Crash
    \/ CrashRecording

Spec == Init /\ [][Next]_vars

(* What is awaited returns, and the timer of the reconciler fires.  Nobody  *)
(* need land, merge or commit anything.                                     *)
Fairness == /\ WF_vars(TickStep)
            /\ WF_vars(LandStep)
            /\ \A c \in Callers : WF_vars(EnsureStep(c))

FairSpec == Spec /\ Fairness

-----------------------------------------------------------------------------
TypeOK ==
    /\ cfg \in Deployments
    /\ tip \in Nat /\ remote \in Nat /\ main \in Nat
    /\ pr \in [Numbers -> Request]
    /\ issue \in {"open", "closed"}
    /\ entry \in Entry \cup {NoEntry}
    /\ proof \in Proof
    /\ ready \in BOOLEAN /\ closedIds \in BOOLEAN /\ escalated \in BOOLEAN
    /\ ensuring \in [Callers -> Ensure]
    /\ land \in Land
    /\ tick \in Tick
    /\ passed \in Nat /\ told \in BOOLEAN
    /\ closes \in Nat /\ faults \in Nat /\ crashes \in Nat

(* What the daemon merges at GitHub holds no commit the scratch gate did    *)
(* not see: a float that pushes the agent's next commit while the gate runs *)
(* makes the merge fail.                                                    *)
MergesGated == \A p \in Numbers : pr[p].by = "daemon" => pr[p].head <= pr[p].gated

(* A done proof names a commit whose work is in the main branch, whoever    *)
(* merged it by whichever method, and whoever recorded it.                  *)
ProofMerged == proof.grade # "none" => Landed(proof.commit)

(* The tracker and the ledgers agree: an issue is closed only when a gate   *)
(* of this daemon was green and the proven work is in main, and an entry is *)
(* done with only when its issue is closed or a human was told.             *)
IssueHonest ==
    /\ issue = "closed" => proof.grade # "none" /\ passed > 0
    /\ entry.closed => proof.grade # "none" /\ (issue = "closed" \/ told)

(* A request that merges while the ledger tracks it is proven, and its      *)
(* issue closed or brought before a human, whoever merged it and wherever   *)
(* the daemon died: as long as the branch has no second request and no      *)
(* commit beyond the one that was merged.  There are two ways out, and the  *)
(* code has no way back from them: the write of the proof failed, and the   *)
(* entry was stamped as proven all the same; or the entry was marked closed *)
(* before a human reopened the request.  No other failure loses a merge.    *)
Sole     == \A p \in Numbers \ {1} : pr[p].state = "none"
Tracked  == pr[1].state = "merged" /\ entry.num = 1
Moved    == tip # pr[1].head
Settled  == proof.grade # "none" /\ (issue = "closed" \/ told)
LostProof == entry.proven /\ proof.grade = "none"
GivenUp  == entry.state = "closed"
MergeSettled == []Sole => (Tracked ~> (Settled \/ Moved \/ LostProof \/ GivenUp))

(* The proof of a merge this daemon gated keeps its grade.                  *)
GreenKept == [][proof.grade = "green" /\ proof'.commit = proof.commit
                => proof'.grade = "green"]_vars

=============================================================================
