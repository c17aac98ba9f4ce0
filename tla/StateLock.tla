------------------------------ MODULE StateLock ------------------------------
(***************************************************************************)
(* The single-writer lock of a state directory (src/src/state-lock.ts).    *)
(*                                                                         *)
(* Several daemon incarnations on one machine race for the file            *)
(* "daemon.lock".  The file is created with link(2), an atomic             *)
(* create-if-absent; a record left by a dead owner is removed only under   *)
(* the reclaim fence, a kernel flock that its holder loses by dying.  Each *)
(* system call of acquireStateLock and reclaimOrCreate is one action, so   *)
(* that whatever lies between two of them can be interleaved.              *)
(*                                                                         *)
(* ownerAlive's two probes (kill(pid,0), then /proc/<pid>/stat) are one    *)
(* action: each answer of the pair is the answer of an instant between     *)
(* them, except that an unrelated process that exits exactly there makes   *)
(* the code say "alive" once more, which only delays a reclaim.            *)
(***************************************************************************)
EXTENDS Naturals, FiniteSets

CONSTANTS
  Daemons,          \* daemon incarnations of this machine, each runs once
  Ghost,            \* the owner of a record written before the model starts
  Pids,             \* the process ids the kernel hands out
  Here, Elsewhere,  \* this machine's hostname, and another one
  Absent,           \* no lock file; also readRecord's null
  Garbage,          \* a lock file that does not parse
  FlockModes,       \* what flock(2) may do on the file system of the state dir
  Pinned,           \* /proc is there, so that records hold a start time
  GracefulRelease   \* owners may call release(), not only crash

ASSUME ConstantsAssumption ==
  /\ Ghost \notin Daemons
  /\ Here # Elsewhere
  /\ FlockModes \subseteq {"exclusive", "noop", "absent"}
  /\ Pinned \in BOOLEAN
  /\ GracefulRelease \in BOOLEAN

(* A lock record.  "owner" stands for the pinned start time: one value per *)
(* process, whatever its pid.                                              *)
LockRecord == [host : {Here, Elsewhere}, pid : Pids, owner : Daemons \cup {Ghost}]

ASSUME SentinelAssumption ==
  /\ Absent \notin LockRecord
  /\ Garbage \notin LockRecord
  /\ Absent # Garbage

VARIABLES
  lock,     \* the lock file
  fence,    \* the processes whose flock(LOCK_EX) on the fence file succeeded
  pc,       \* where each incarnation is
  pid,      \* its process id, once started
  obs,      \* the last record it read, Absent when null
  late,     \* the incarnations past their handoff deadline
  stopped,  \* the incarnations under SIGSTOP
  squat,    \* pids taken by processes that are no daemon
  flock     \* what flock(2) does here: excludes, succeeds for all, is missing

vars == <<lock, fence, pc, pid, obs, late, stopped, squat, flock>>

Looping   == {"create", "observe", "probe", "wait"}
Degraded  == {"recheckRead", "recheckProbe"}
Critical  == {"fenced", "csCreate", "csRead", "csProbe", "csUnlink", "csRecreate",
              "unlockLive", "unlockRetry", "unlockCreated"}
Acquiring == Looping \cup Degraded \cup Critical \cup {"reclaim", "fence"}
Leaving   == {"relRead", "relUnlink", "released"}

Live == {d \in Daemons : pc[d] \notin {"off", "gone"}}

(* The incarnations whose acquireStateLock made the lock file theirs.      *)
Owns(d) == pc[d] \in {"unlockCreated", "held"}

SelfRecord(d) == [host |-> Here, pid |-> pid[d], owner |-> d]

(* Bug: the JSON is not checked for the fields of a record.                *)
BugReadRecordUnchecked == lock

ReadRecord == IF lock \in LockRecord THEN lock ELSE Absent

PidTaken(p) == p \in squat \/ \E e \in Live : pid[e] = p

(* Bug: the hostname is not compared, a foreign pid is probed here.        *)
BugOwnerAliveAnyHost(d, rec) ==
  /\ rec.pid # pid[d]
  /\ PidTaken(rec.pid)
  /\ Pinned => rec.owner \in Live

(* Bug: with no pinned start time the owner counts as gone.                *)
BugOwnerAliveNeedsPin(d, rec) ==
  \/ rec.host # Here
  \/ rec.pid # pid[d] /\ PidTaken(rec.pid) /\ Pinned /\ rec.owner \in Live

(* What ownerAlive answers to d about a record: a foreign record counts as *)
(* alive, d's own pid as dead, a vanished pid as dead, and so does a pid   *)
(* whose start time is not the pinned one.                                 *)
OwnerAlive(d, rec) ==
  \/ rec.host # Here
  \/ /\ rec.pid # pid[d]
     /\ PidTaken(rec.pid)
     /\ Pinned => rec.owner \in Live

TypeOK ==
  /\ lock \in {Absent, Garbage} \cup LockRecord
  /\ fence \subseteq Daemons
  /\ pc \in [Daemons -> {"off", "gone", "held"} \cup Acquiring \cup Leaving]
  /\ pid \in [Daemons -> Pids]
  /\ obs \in [Daemons -> {Absent} \cup LockRecord]
  /\ late \subseteq Daemons
  /\ stopped \subseteq Daemons
  /\ squat \subseteq Pids
  /\ flock \in FlockModes

(* The directory is fresh, corrupt, or holds the record of an owner that   *)
(* is gone from this machine or that lives on another one.                 *)
Init ==
  /\ lock \in {Absent, Garbage}
       \cup {[host |-> h, pid |-> p, owner |-> Ghost] : h \in {Here, Elsewhere}, p \in Pids}
  /\ fence = {}
  /\ pc = [d \in Daemons |-> "off"]
  /\ pid \in [Daemons -> Pids]
  /\ obs = [d \in Daemons |-> Absent]
  /\ late = {}
  /\ stopped = {}
  /\ squat = {}
  /\ flock \in FlockModes

At(d, s) == pc[d] = s /\ d \notin stopped

Goto(d, s) == pc' = [pc EXCEPT ![d] = s]

-----------------------------------------------------------------------------
(* acquireStateLock's loop *)

Start(d) ==
  /\ pc[d] = "off"
  /\ ~PidTaken(pid[d])
  /\ Goto(d, "create")
  /\ UNCHANGED <<lock, fence, pid, obs, late, stopped, squat, flock>>

(* One tryCreate: link(2) makes the file ours or fails with EEXIST.        *)
TryCreate(d, won, lost) ==
  IF lock = Absent
  THEN lock' = SelfRecord(d) /\ Goto(d, won)
  ELSE lock' = lock /\ Goto(d, lost)

FastCreate(d) ==
  /\ At(d, "create")
  /\ TryCreate(d, "held", "observe")
  /\ UNCHANGED <<fence, pid, obs, late, stopped, squat, flock>>

(* One readRecord: null for a missing or corrupt file.                     *)
Read(d, from, found, null) ==
  /\ At(d, from)
  /\ obs' = [obs EXCEPT ![d] = ReadRecord]
  /\ Goto(d, IF ReadRecord = Absent THEN null ELSE found)
  /\ UNCHANGED <<lock, fence, pid, late, stopped, squat, flock>>

(* One ownerAlive on the record just read.                                 *)
Probe(d, from, alive, dead) ==
  /\ At(d, from)
  /\ Goto(d, IF OwnerAlive(d, obs[d]) THEN alive ELSE dead)
  /\ UNCHANGED <<lock, fence, pid, obs, late, stopped, squat, flock>>

Observe(d) == Read(d, "observe", "probe", "reclaim")

ProbeObserved(d) == Probe(d, "probe", "wait", "reclaim")

(* A live owner: give up past the deadline, else sleep and try again.      *)
WaitForHandoff(d) ==
  /\ At(d, "wait")
  /\ Goto(d, IF d \in late THEN "gone" ELSE "create")
  /\ UNCHANGED <<lock, fence, pid, obs, late, stopped, squat, flock>>

-----------------------------------------------------------------------------
(* reclaimOrCreate *)

(* The self-test opens a private file twice and finds out whether the      *)
(* second flock is refused; no libc at all leads the same way.             *)
EnsureFlockExclusive(d) == flock = "exclusive"

EnterReclaim(d) ==
  /\ At(d, "reclaim")
  /\ Goto(d, IF flock # "absent" /\ EnsureFlockExclusive(d) THEN "fence" ELSE "recheckRead")
  /\ UNCHANGED <<lock, fence, pid, obs, late, stopped, squat, flock>>

(* Before StateLockReclaimUnsupportedError, is the lock live right now?    *)
RecheckRead(d) == Read(d, "recheckRead", "recheckProbe", "gone")

RecheckProbe(d) == Probe(d, "recheckProbe", "wait", "gone")

FlockGranted(d) == fence = {} \/ flock = "noop"

(* Bug: the deadline is not looked at while the fence is taken.            *)
BugAcquireFenceForever(d) ==
  /\ At(d, "fence")
  /\ FlockGranted(d)
  /\ Goto(d, "fenced")
  /\ fence' = fence \cup {d}
  /\ UNCHANGED <<lock, pid, obs, late, stopped, squat, flock>>

(* acquireFenceOrThrow: the deadline first, on every iteration.            *)
AcquireFence(d) ==
  /\ At(d, "fence")
  /\ IF d \in late
     THEN Goto(d, "gone") /\ UNCHANGED fence
     ELSE /\ FlockGranted(d)
          /\ Goto(d, "fenced")
          /\ fence' = fence \cup {d}
  /\ UNCHANGED <<lock, pid, obs, late, stopped, squat, flock>>

(* ... and once more after the flock was granted.                          *)
RecheckDeadline(d) ==
  /\ At(d, "fenced")
  /\ IF d \in late
     THEN Goto(d, "gone") /\ fence' = fence \ {d}
     ELSE Goto(d, "csCreate") /\ UNCHANGED fence
  /\ UNCHANGED <<lock, pid, obs, late, stopped, squat, flock>>

(* Bug: under the fence, the caller's earlier observation is trusted.      *)
BugFencedCreateTrusts(d) ==
  /\ At(d, "csCreate")
  /\ TryCreate(d, "unlockCreated", "csUnlink")
  /\ UNCHANGED <<fence, pid, obs, late, stopped, squat, flock>>

FencedCreate(d) ==
  /\ At(d, "csCreate")
  /\ TryCreate(d, "unlockCreated", "csRead")
  /\ UNCHANGED <<fence, pid, obs, late, stopped, squat, flock>>

FencedRead(d) == Read(d, "csRead", "csProbe", "csUnlink")

FencedProbe(d) == Probe(d, "csProbe", "unlockLive", "csUnlink")

(* unlinkSync(file): whatever the file holds by now.                       *)
FencedUnlink(d) ==
  /\ At(d, "csUnlink")
  /\ lock' = Absent
  /\ Goto(d, "csRecreate")
  /\ UNCHANGED <<fence, pid, obs, late, stopped, squat, flock>>

FencedRecreate(d) ==
  /\ At(d, "csRecreate")
  /\ TryCreate(d, "unlockCreated", "unlockRetry")
  /\ UNCHANGED <<fence, pid, obs, late, stopped, squat, flock>>

(* The finally block: LOCK_UN, then the outcome's path in the loop.        *)
Unlock(d) ==
  /\ d \notin stopped
  /\ \/ pc[d] = "unlockCreated" /\ Goto(d, "held")
     \/ pc[d] = "unlockRetry"   /\ Goto(d, "create")
     \/ pc[d] = "unlockLive"    /\ Goto(d, "wait")
  /\ fence' = fence \ {d}
  /\ UNCHANGED <<lock, pid, obs, late, stopped, squat, flock>>

-----------------------------------------------------------------------------
(* release(), from the shutdown handler or the "exit" hook *)

ReleaseBegin(d) ==
  /\ GracefulRelease
  /\ At(d, "held")
  /\ Goto(d, "relRead")
  /\ UNCHANGED <<lock, fence, pid, obs, late, stopped, squat, flock>>

(* Only a record with our pid and host is deleted.                         *)
ReleaseRead(d) ==
  /\ At(d, "relRead")
  /\ obs' = [obs EXCEPT ![d] = ReadRecord]
  /\ Goto(d, IF ReadRecord # Absent /\ lock.pid = pid[d] /\ lock.host = Here
             THEN "relUnlink" ELSE "released")
  /\ UNCHANGED <<lock, fence, pid, late, stopped, squat, flock>>

ReleaseUnlink(d) ==
  /\ At(d, "relUnlink")
  /\ lock' = Absent
  /\ Goto(d, "released")
  /\ UNCHANGED <<fence, pid, obs, late, stopped, squat, flock>>

-----------------------------------------------------------------------------
(* The environment *)

(* The process ends, by a crash or otherwise; the kernel drops its flock.  *)
Die(d) ==
  /\ d \in Live
  /\ Goto(d, "gone")
  /\ fence' = fence \ {d}
  /\ stopped' = stopped \ {d}
  /\ UNCHANGED <<lock, pid, obs, late, squat, flock>>

DeadlinePasses(d) ==
  /\ d \notin late
  /\ pc[d] \in Acquiring
  /\ late' = late \cup {d}
  /\ UNCHANGED <<lock, fence, pc, pid, obs, stopped, squat, flock>>

SigStop(d) ==
  /\ d \in Live \ stopped
  /\ stopped' = stopped \cup {d}
  /\ UNCHANGED <<lock, fence, pc, pid, obs, late, squat, flock>>

SigCont(d) ==
  /\ d \in stopped
  /\ stopped' = stopped \ {d}
  /\ UNCHANGED <<lock, fence, pc, pid, obs, late, squat, flock>>

Recycle(p) ==
  /\ ~PidTaken(p)
  /\ squat' = squat \cup {p}
  /\ UNCHANGED <<lock, fence, pc, pid, obs, late, stopped, flock>>

SquatterExits(p) ==
  /\ p \in squat
  /\ squat' = squat \ {p}
  /\ UNCHANGED <<lock, fence, pc, pid, obs, late, stopped, flock>>

-----------------------------------------------------------------------------
(* acquireStateLock's own steps, everything a booting daemon's code does.  *)
Boot(d) ==
  \/ FastCreate(d) \/ Observe(d) \/ ProbeObserved(d) \/ WaitForHandoff(d)
  \/ EnterReclaim(d) \/ RecheckRead(d) \/ RecheckProbe(d)
  \/ AcquireFence(d) \/ RecheckDeadline(d)
  \/ FencedCreate(d) \/ FencedRead(d) \/ FencedProbe(d)
  \/ FencedUnlink(d) \/ FencedRecreate(d) \/ Unlock(d)

Release(d) == ReleaseBegin(d) \/ ReleaseRead(d) \/ ReleaseUnlink(d)

Environment(d) == Start(d) \/ Die(d) \/ DeadlinePasses(d) \/ SigStop(d) \/ SigCont(d)

Next ==
  \/ \E d \in Daemons : Boot(d) \/ Release(d) \/ Environment(d)
  \/ \E p \in Pids : Recycle(p) \/ SquatterExits(p)

Spec == Init /\ [][Next]_vars

(* A process that is not stopped is scheduled, and time passes.            *)
Fairness == \A d \in Daemons : WF_vars(Boot(d)) /\ WF_vars(DeadlinePasses(d))

FairSpec == Spec /\ Fairness

-----------------------------------------------------------------------------
(* Properties *)

(* Two daemons never own the state directory at once: the promise of       *)
(* state-lock.ts, whatever races, crashes, stops and pid reuse happen.     *)
SingleWriter == \A d, e \in Daemons : Owns(d) /\ Owns(e) => d = e

(* While a daemon owns the directory the file holds its record, so that    *)
(* every other daemon that looks can find it.                              *)
HeldOnDisk == \A d \in Daemons : Owns(d) => lock = SelfRecord(d)

(* The parts of the inductive invariant behind SingleWriter, for as long as *)
(* nobody can be fooled by a release: owners leave only by dying, or there  *)
(* is no third incarnation to create the file that a release made vanish    *)
(* under the fence holder.  One process at a time is past the fence, the    *)
(* file stays there while somebody else could take it, and once it has been *)
(* judged stale nobody has it or can come to have it.                       *)
PidsDistinct == \A d, e \in Live : pid[d] = pid[e] => d = e

(* The record in the file is d's, which owns or is about to release it.     *)
Keeps(d) == Owns(d) \/ pc[d] \in {"relRead", "relUnlink"}

RecordKept == \A d \in Daemons : Keeps(d) => lock = SelfRecord(d)

(* Nobody else will touch the file any more.                                *)
Alone(d) == \A e \in Daemons \ {d} : pc[e] \in {"released", "gone"}

FenceHeld ==
  /\ \A d \in Daemons : pc[d] \in Critical => fence = {d}
  /\ \A d \in Daemons : pc[d] \in Critical \cup {"fence"} => flock = "exclusive"

FileStays ==
  \A d \in Daemons :
    /\ pc[d] \in {"csRead", "csProbe", "csUnlink"} => lock # Absent \/ Alone(d)
    /\ pc[d] = "csProbe" => lock \in {obs[d], Absent}

JudgedStale ==
  \A d \in Daemons : pc[d] = "csUnlink" =>
    /\ \A e \in Daemons : ~Keeps(e)
    /\ lock \in LockRecord => lock.host = Here

FenceInv ==
  /\ \A d \in Daemons : pc[d] \in Leaving => GracefulRelease
  /\ PidsDistinct /\ RecordKept /\ FenceHeld /\ FileStays /\ JudgedStale

(* Fail closed: without a flock known to exclude, a file no running daemon *)
(* wrote is never removed, for two racers could both decide to; and a      *)
(* record of another host, whose owner cannot be probed, is never touched. *)
Untouchable ==
  \/ /\ flock # "exclusive"
     /\ lock = Garbage \/ (lock \in LockRecord /\ lock.owner \notin Live)
  \/ lock \in LockRecord /\ lock.host # Here

FailClosed == [][Untouchable => lock' = lock]_lock

(* A boot ends: a daemon that keeps running owns the directory or gave up, *)
(* even when the holder of the fence is stopped for good.                  *)
BootBounded ==
  \A d \in Daemons : pc[d] \in Acquiring ~> (pc[d] \notin Acquiring \/ d \in stopped)

(* The lock file and all its protocol implement the abstract lock, whose   *)
(* owners are the incarnations that own the directory here.                *)
Owners == {d \in Daemons : Owns(d)}

Abstract == INSTANCE WriterLock WITH owners <- Owners

ImplementsWriterLock == Abstract!Spec
=============================================================================
