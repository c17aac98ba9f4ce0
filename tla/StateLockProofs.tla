--------------------------- MODULE StateLockProofs ---------------------------
(***************************************************************************)
(* Proofs about StateLock for every number of daemons and pids: type       *)
(* correctness in every regime and, unless a third racer meets a release,  *)
(* that the directory has one writer at a time.                            *)
(***************************************************************************)
EXTENDS StateLock, TLAPS

(* Every reachable state of the lock protocol is well typed, in particular *)
(* the lock file always parses, is garbage, or is absent.                  *)
THEOREM TypeCorrect == Spec => []TypeOK
<1>1. Init => TypeOK
  BY ConstantsAssumption, SentinelAssumption DEF Init, TypeOK, LockRecord
<1>2. TypeOK /\ [Next]_vars => TypeOK'
  <2> SUFFICES ASSUME TypeOK, [Next]_vars PROVE TypeOK'
    OBVIOUS
  <2> USE SentinelAssumption DEF TypeOK, Looping, Degraded, Critical, Acquiring, Leaving
  <2>1. ASSUME NEW d \in Daemons PROVE SelfRecord(d) \in LockRecord
    BY DEF SelfRecord, LockRecord
  <2>2. ReadRecord \in {Absent} \cup LockRecord
    BY DEF ReadRecord
  <2>3. ASSUME NEW d \in Daemons, Boot(d) PROVE TypeOK'
    <3>1. CASE FastCreate(d)
      BY <2>1, <3>1 DEF FastCreate, TryCreate, Goto, At
    <3>2. CASE Observe(d)
      BY <2>2, <3>2 DEF Observe, Read, Goto, At
    <3>3. CASE ProbeObserved(d)
      BY <3>3 DEF ProbeObserved, Probe, Goto, At
    <3>4. CASE WaitForHandoff(d)
      BY <3>4 DEF WaitForHandoff, Goto, At
    <3>5. CASE EnterReclaim(d)
      BY <3>5 DEF EnterReclaim, Goto, At
    <3>6. CASE RecheckRead(d)
      BY <2>2, <3>6 DEF RecheckRead, Read, Goto, At
    <3>7. CASE RecheckProbe(d)
      BY <3>7 DEF RecheckProbe, Probe, Goto, At
    <3>8. CASE AcquireFence(d)
      BY <3>8 DEF AcquireFence, Goto, At
    <3>9. CASE RecheckDeadline(d)
      BY <3>9 DEF RecheckDeadline, Goto, At
    <3>10. CASE FencedCreate(d)
      BY <2>1, <3>10 DEF FencedCreate, TryCreate, Goto, At
    <3>11. CASE FencedRead(d)
      BY <2>2, <3>11 DEF FencedRead, Read, Goto, At
    <3>12. CASE FencedProbe(d)
      BY <3>12 DEF FencedProbe, Probe, Goto, At
    <3>13. CASE FencedUnlink(d)
      BY <3>13 DEF FencedUnlink, Goto, At
    <3>14. CASE FencedRecreate(d)
      BY <2>1, <3>14 DEF FencedRecreate, TryCreate, Goto, At
    <3>15. CASE Unlock(d)
      BY <3>15 DEF Unlock, Goto, At
    <3> QED
      BY <2>3, <3>1, <3>2, <3>3, <3>4, <3>5, <3>6, <3>7, <3>8, <3>9, <3>10, <3>11,
         <3>12, <3>13, <3>14, <3>15 DEF Boot
  <2>4. ASSUME NEW d \in Daemons, Release(d) PROVE TypeOK'
    <3>1. CASE ReleaseBegin(d)
      BY <3>1 DEF ReleaseBegin, Goto, At
    <3>2. CASE ReleaseRead(d)
      BY <2>2, <3>2 DEF ReleaseRead, Goto, At
    <3>3. CASE ReleaseUnlink(d)
      BY <3>3 DEF ReleaseUnlink, Goto, At
    <3> QED
      BY <2>4, <3>1, <3>2, <3>3 DEF Release
  <2>5. ASSUME NEW d \in Daemons, Environment(d) PROVE TypeOK'
    <3>1. CASE Start(d)
      BY <3>1 DEF Start, Goto
    <3>2. CASE Die(d)
      BY <3>2 DEF Die, Goto
    <3>3. CASE DeadlinePasses(d) \/ SigStop(d) \/ SigCont(d)
      BY <3>3 DEF DeadlinePasses, SigStop, SigCont
    <3> QED
      BY <2>5, <3>1, <3>2, <3>3 DEF Environment
  <2>6. ASSUME NEW p \in Pids, Recycle(p) \/ SquatterExits(p) PROVE TypeOK'
    BY <2>6 DEF Recycle, SquatterExits
  <2>7. CASE UNCHANGED vars
    BY <2>7 DEF vars
  <2> QED
    BY <2>3, <2>4, <2>5, <2>6, <2>7 DEF Next
<1> QED
  BY <1>1, <1>2, PTL DEF Spec

-----------------------------------------------------------------------------
(* The hypothesis: nobody releases, or at most two incarnations meet.       *)
NoThirdRacer == ~GracefulRelease \/ \A d, e, f \in Daemons : d = e \/ e = f \/ d = f

(* A record an owner wrote is judged alive by every other live incarnation: *)
(* the kernel gives no two of them one pid, and the pinned start time, if   *)
(* there is one, is the owner's own.                                        *)
LEMMA OwnerJudgedAlive ==
  ASSUME TypeOK, PidsDistinct,
         NEW d \in Live, NEW e \in Daemons, Keeps(e), d # e
  PROVE  OwnerAlive(d, SelfRecord(e))
<1>1. e \in Live
  BY DEF Live, Owns, Keeps
<1>2. pid[e] # pid[d]
  BY <1>1 DEF PidsDistinct
<1>3. PidTaken(pid[e])
  BY <1>1 DEF PidTaken
<1> QED
  BY <1>1, <1>2, <1>3 DEF OwnerAlive, SelfRecord

(* No record stands for an absent or a corrupt file.                        *)
LEMMA RecordIsNoSentinel ==
  ASSUME TypeOK, NEW d \in Daemons
  PROVE  /\ SelfRecord(d) \in LockRecord
         /\ SelfRecord(d) # Absent
         /\ SelfRecord(d) # Garbage
         /\ SelfRecord(d).host = Here
  BY SentinelAssumption DEF SelfRecord, LockRecord, TypeOK

(* The inductive step of FenceInv, action by action.                    *)
LEMMA FenceStep ==
  ASSUME NoThirdRacer, TypeOK, TypeOK', FenceInv, [Next]_vars
  PROVE  FenceInv'
<1> USE DEF FenceInv, Critical, Leaving
<1>0. /\ \A d \in Daemons : pc[d] \in Leaving => GracefulRelease
      /\ PidsDistinct /\ RecordKept /\ FenceHeld /\ FileStays /\ JudgedStale
  OBVIOUS
<1>1. ASSUME NEW d \in Daemons, lock = Absent, d \notin stopped,
             pc[d] \in {"create", "csCreate", "csRecreate"},
             lock' = SelfRecord(d),
             pc' = [pc EXCEPT ![d] = IF pc[d] = "create" THEN "held" ELSE "unlockCreated"],
             UNCHANGED <<fence, pid, obs, late, stopped, squat, flock>>
      PROVE  FenceInv'
  <2>1. \A e \in Daemons : ~Keeps(e)
    BY <1>1, RecordIsNoSentinel DEF RecordKept
  <2>2. PidsDistinct'
    BY <1>1 DEF PidsDistinct, Live, TypeOK
  <2>3. RecordKept'
    BY <1>1, <2>1 DEF RecordKept, Keeps, Owns, SelfRecord, TypeOK
  <2>4. FenceHeld'
    BY <1>1 DEF FenceHeld, TypeOK
  <2>5. \A e \in Daemons : pc[e] \notin {"csRead", "csProbe", "csUnlink"}
    BY <1>1 DEF FileStays, Alone
  <2>6. FileStays' /\ JudgedStale'
    BY <1>1, <2>5 DEF FileStays, JudgedStale, TypeOK
  <2> QED
    BY <1>1, <2>2, <2>3, <2>4, <2>6 DEF TypeOK
<1>2. ASSUME NEW d \in Daemons, NEW s, NEW t,
             pc[d] = s, pc' = [pc EXCEPT ![d] = t],
             UNCHANGED <<lock, fence, pid, flock>>,
             \A e \in Daemons : e # d => obs'[e] = obs[e],
             s \notin {"off", "gone", "released"}, t \notin {"off", "held", "unlockCreated"} \cup Leaving,
             t \in Critical => s \in Critical,
             t = "fence" => flock = "exclusive",
             t \in {"csRead", "csProbe", "csUnlink"} => lock # Absent \/ Alone(d),
             t = "csProbe" => lock \in {obs'[d], Absent},
             t = "csUnlink" => /\ \A e \in Daemons : ~Keeps(e)
                               /\ lock \in LockRecord => lock.host = Here
      PROVE  FenceInv'
  <2>1. PidsDistinct'
    BY <1>2 DEF PidsDistinct, Live, TypeOK
  <2>2. RecordKept'
    BY <1>2 DEF RecordKept, Keeps, Owns, SelfRecord, TypeOK
  <2>3. FenceHeld'
    BY <1>2 DEF FenceHeld, TypeOK
  <2>4. FileStays'
    <3>1. (Alone(d) => Alone(d)') /\ \A e \in Daemons : e # d => ~Alone(e)
      BY <1>2 DEF Alone, TypeOK
    <3> QED
      BY <1>2, <3>1 DEF FileStays, TypeOK
  <2>5. JudgedStale'
    BY <1>2 DEF JudgedStale, Keeps, Owns, TypeOK
  <2> QED
    BY <1>2, <2>1, <2>2, <2>3, <2>4, <2>5 DEF TypeOK
<1>3. ASSUME NEW d \in Daemons, Boot(d) PROVE FenceInv'
  <2>1. CASE FastCreate(d)
    <3>1. CASE lock = Absent
      BY <1>1, <2>1, <3>1 DEF FastCreate, TryCreate, At, Goto
    <3>2. CASE lock # Absent
      BY <1>2, <2>1, <3>2 DEF FastCreate, TryCreate, At, Goto
    <3> QED
      BY <3>1, <3>2
  <2>2. CASE Observe(d)
    BY <1>2, <2>2 DEF Observe, Read, At, Goto, TypeOK
  <2>3. CASE ProbeObserved(d)
    BY <1>2, <2>3 DEF ProbeObserved, Probe, At, Goto
  <2>4. CASE WaitForHandoff(d)
    BY <1>2, <2>4 DEF WaitForHandoff, At, Goto
  <2>5. CASE EnterReclaim(d)
    BY <1>2, <2>5 DEF EnterReclaim, EnsureFlockExclusive, At, Goto
  <2>6. CASE RecheckRead(d)
    BY <1>2, <2>6 DEF RecheckRead, Read, At, Goto, TypeOK
  <2>7. CASE RecheckProbe(d)
    BY <1>2, <2>7 DEF RecheckProbe, Probe, At, Goto
  <2>8. CASE AcquireFence(d)
    <3>1. CASE d \in late
      BY <1>2, <2>8, <3>1 DEF AcquireFence, At, Goto
    <3>2. CASE d \notin late
      <4>1. fence = {} /\ fence' = {d} /\ pc' = [pc EXCEPT ![d] = "fenced"]
        BY <2>8, <3>2 DEF AcquireFence, FlockGranted, FenceHeld, At, Goto
      <4>2. \A e \in Daemons : pc[e] \notin Critical
        BY <4>1 DEF FenceHeld
      <4>3. UNCHANGED <<lock, pid, obs, flock>> /\ pc[d] = "fence"
        BY <2>8 DEF AcquireFence, At
      <4>4. PidsDistinct' /\ RecordKept'
        BY <4>1, <4>3 DEF PidsDistinct, RecordKept, Live, Keeps, Owns, SelfRecord, TypeOK
      <4>5. FenceHeld'
        BY <4>1, <4>2, <4>3 DEF FenceHeld, TypeOK
      <4>6. FileStays' /\ JudgedStale'
        BY <4>1, <4>2, <4>3 DEF FileStays, JudgedStale, TypeOK
      <4> QED
        BY <4>1, <4>4, <4>5, <4>6 DEF TypeOK
    <3> QED
      BY <3>1, <3>2
  <2>9. CASE RecheckDeadline(d)
    <3>1. CASE d \in late
      <4>1. pc[d] = "fenced" /\ pc' = [pc EXCEPT ![d] = "gone"] /\ fence' = fence \ {d}
        BY <2>9, <3>1 DEF RecheckDeadline, At, Goto
      <4>2. UNCHANGED <<lock, pid, obs, flock>>
        BY <2>9 DEF RecheckDeadline
      <4> QED
        BY <4>1, <4>2 DEF PidsDistinct, RecordKept, FenceHeld, FileStays, JudgedStale,
                          Live, Keeps, Owns, SelfRecord, TypeOK
    <3>2. CASE d \notin late
      BY <1>2, <2>9, <3>2 DEF RecheckDeadline, At, Goto
    <3> QED
      BY <3>1, <3>2
  <2>10. CASE FencedCreate(d)
    <3>1. CASE lock = Absent
      BY <1>1, <2>10, <3>1 DEF FencedCreate, TryCreate, At, Goto
    <3>2. CASE lock # Absent
      BY <1>2, <2>10, <3>2 DEF FencedCreate, TryCreate, At, Goto
    <3> QED
      BY <3>1, <3>2
  <2>11. CASE FencedRead(d)
    <3>1. pc[d] = "csRead" /\ (lock # Absent \/ Alone(d))
      BY <2>11 DEF FencedRead, Read, At, FileStays
    <3>2. CASE lock \in LockRecord
      BY <1>2, <2>11, <3>1, <3>2, SentinelAssumption DEF FencedRead, Read, ReadRecord, At, Goto, TypeOK
    <3>3. CASE lock \notin LockRecord
      <4>1. \A e \in Daemons : ~Keeps(e)
        BY <3>3, RecordIsNoSentinel DEF RecordKept
      <4> QED
        BY <1>2, <2>11, <3>1, <3>3, <4>1 DEF FencedRead, Read, ReadRecord, At, Goto, TypeOK
    <3> QED
      BY <3>2, <3>3
  <2>12. CASE FencedProbe(d)
    <3>1. pc[d] = "csProbe" /\ (lock # Absent \/ Alone(d)) /\ lock \in {obs[d], Absent}
      BY <2>12 DEF FencedProbe, Probe, At, FileStays
    <3>2. CASE OwnerAlive(d, obs[d])
      BY <1>2, <2>12, <3>1, <3>2 DEF FencedProbe, Probe, At, Goto
    <3>3. CASE ~OwnerAlive(d, obs[d])
      <4>1. \A e \in Daemons : ~Keeps(e)
        <5>1. SUFFICES ASSUME NEW e \in Daemons, Keeps(e) PROVE FALSE
          OBVIOUS
        <5>2. lock = SelfRecord(e) /\ d # e /\ d \in Live
          BY <3>1, <5>1 DEF RecordKept, Keeps, Owns, Live
        <5>3. obs[d] = SelfRecord(e)
          BY <3>1, <5>2, RecordIsNoSentinel
        <5> QED
          BY <3>3, <5>1, <5>2, <5>3, OwnerJudgedAlive
      <4>2. lock \in LockRecord => lock.host = Here
        BY <3>1, <3>3, SentinelAssumption DEF OwnerAlive
      <4> QED
        BY <1>2, <2>12, <3>1, <3>3, <4>1, <4>2 DEF FencedProbe, Probe, At, Goto
    <3> QED
      BY <3>2, <3>3
  <2>13. CASE FencedUnlink(d)
    <3>1. /\ pc[d] = "csUnlink" /\ pc' = [pc EXCEPT ![d] = "csRecreate"]
          /\ lock' = Absent /\ UNCHANGED <<fence, pid, obs, flock>>
      BY <2>13 DEF FencedUnlink, At, Goto
    <3>2. \A e \in Daemons : ~Keeps(e)
      BY <3>1 DEF JudgedStale
    <3>3. \A e \in Daemons : e # d => pc[e] \notin Critical
      BY <3>1 DEF FenceHeld
    <3>4. PidsDistinct' /\ RecordKept'
      BY <3>1, <3>2 DEF PidsDistinct, RecordKept, Live, Keeps, Owns, TypeOK
    <3>5. FenceHeld' /\ FileStays' /\ JudgedStale'
      BY <3>1, <3>3 DEF FenceHeld, FileStays, JudgedStale, TypeOK
    <3> QED
      BY <3>1, <3>4, <3>5 DEF TypeOK
  <2>14. CASE FencedRecreate(d)
    <3>1. CASE lock = Absent
      BY <1>1, <2>14, <3>1 DEF FencedRecreate, TryCreate, At, Goto
    <3>2. CASE lock # Absent
      BY <1>2, <2>14, <3>2 DEF FencedRecreate, TryCreate, At, Goto
    <3> QED
      BY <3>1, <3>2
  <2>15. CASE Unlock(d)
    <3>1. /\ UNCHANGED <<lock, pid, obs, flock>> /\ fence' = fence \ {d}
          /\ \/ pc[d] = "unlockCreated" /\ pc' = [pc EXCEPT ![d] = "held"]
             \/ pc[d] = "unlockRetry" /\ pc' = [pc EXCEPT ![d] = "create"]
             \/ pc[d] = "unlockLive" /\ pc' = [pc EXCEPT ![d] = "wait"]
      BY <2>15 DEF Unlock, Goto
    <3>2. \A e \in Daemons : e # d => pc[e] \notin Critical
      BY <3>1 DEF FenceHeld
    <3>3. PidsDistinct' /\ RecordKept'
      BY <3>1 DEF PidsDistinct, RecordKept, Live, Keeps, Owns, SelfRecord, TypeOK
    <3>4. FenceHeld' /\ FileStays' /\ JudgedStale'
      BY <3>1, <3>2 DEF FenceHeld, FileStays, JudgedStale, TypeOK
    <3> QED
      BY <3>1, <3>3, <3>4 DEF TypeOK
  <2> QED
    BY <1>3, <2>1, <2>2, <2>3, <2>4, <2>5, <2>6, <2>7, <2>8, <2>9, <2>10, <2>11,
       <2>12, <2>13, <2>14, <2>15 DEF Boot
<1>4. ASSUME NEW d \in Daemons, Release(d) PROVE FenceInv'
  <2>1. /\ Keeps(d) /\ pc[d] \in {"held", "relRead", "relUnlink"}
        /\ UNCHANGED <<fence, pid, flock>> /\ \A e \in Daemons : e # d => obs'[e] = obs[e]
    BY <1>4 DEF Release, ReleaseBegin, ReleaseRead, ReleaseUnlink, At, Keeps, Owns, TypeOK
  <2>2. PICK t \in Leaving :
          /\ pc' = [pc EXCEPT ![d] = t] /\ (lock' = lock \/ (lock' = Absent /\ t = "released"))
    BY <1>4 DEF Release, ReleaseBegin, ReleaseRead, ReleaseUnlink, Goto
  <2>3. GracefulRelease
    BY <1>4, <2>1 DEF Release, ReleaseBegin, ReleaseRead, ReleaseUnlink, At
  <2>4. \A e \in Daemons : Keeps(e) => e = d
    BY <2>1 DEF RecordKept, SelfRecord
  <2>5. PidsDistinct' /\ RecordKept' /\ FenceHeld'
    BY <2>1, <2>2, <2>4 DEF PidsDistinct, RecordKept, FenceHeld, Live, Keeps, Owns, SelfRecord, TypeOK
  <2>6. FileStays'
    <3>1. ASSUME NEW e \in Daemons, pc'[e] \in {"csRead", "csProbe", "csUnlink"}
          PROVE  lock' # Absent \/ Alone(e)'
      <4>1. e # d /\ pc[e] = pc'[e] /\ ~Alone(e)
        BY <2>1, <2>2, <3>1 DEF Alone, TypeOK
      <4>2. lock # Absent
        BY <3>1, <4>1 DEF FileStays
      <4>3. t = "released" => Alone(e)'
        BY <2>2, <2>3, <4>1 DEF Alone, NoThirdRacer, TypeOK
      <4> QED
        BY <2>2, <4>2, <4>3
    <3>2. ASSUME NEW e \in Daemons, pc'[e] = "csProbe" PROVE lock' \in {obs'[e], Absent}
      BY <2>1, <2>2, <3>2 DEF FileStays, TypeOK
    <3> QED
      BY <3>1, <3>2 DEF FileStays
  <2>7. JudgedStale'
    BY <2>1, <2>2 DEF JudgedStale, TypeOK
  <2> QED
    BY <2>2, <2>3, <2>5, <2>6, <2>7 DEF TypeOK
<1>5. ASSUME NEW d \in Daemons, Environment(d) PROVE FenceInv'
  <2>1. CASE Start(d)
    <3>1. /\ pc[d] = "off" /\ pc' = [pc EXCEPT ![d] = "create"] /\ ~PidTaken(pid[d])
          /\ UNCHANGED <<lock, fence, pid, obs, flock>>
      BY <2>1 DEF Start, Goto
    <3>2. PidsDistinct' /\ RecordKept' /\ FenceHeld'
      BY <3>1 DEF PidTaken, PidsDistinct, RecordKept, FenceHeld, Live, Keeps, Owns, SelfRecord, TypeOK
    <3>3. (Alone(d) => Alone(d)') /\ \A e \in Daemons : e # d => ~Alone(e)
      BY <3>1 DEF Alone, TypeOK
    <3>4. FileStays' /\ JudgedStale'
      BY <3>1, <3>3 DEF FileStays, JudgedStale, Keeps, Owns, TypeOK
    <3> QED
      BY <3>1, <3>2, <3>4 DEF TypeOK
  <2>2. CASE Die(d)
    <3>1. /\ pc' = [pc EXCEPT ![d] = "gone"] /\ fence' = fence \ {d}
          /\ UNCHANGED <<lock, pid, obs, flock>>
      BY <2>2 DEF Die, Goto
    <3>2. PidsDistinct' /\ RecordKept' /\ FenceHeld'
      BY <3>1 DEF PidsDistinct, RecordKept, FenceHeld, Live, Keeps, Owns, SelfRecord, TypeOK
    <3>3. \A e \in Daemons : Alone(e) => Alone(e)'
      BY <3>1 DEF Alone, TypeOK
    <3>4. FileStays' /\ JudgedStale'
      BY <3>1, <3>3 DEF FileStays, JudgedStale, Keeps, Owns, TypeOK
    <3> QED
      BY <3>1, <3>2, <3>4 DEF TypeOK
  <2>3. CASE DeadlinePasses(d) \/ SigStop(d) \/ SigCont(d)
    BY <2>3 DEF DeadlinePasses, SigStop, SigCont, PidsDistinct, RecordKept, FenceHeld,
                FileStays, JudgedStale, Alone, Live, Keeps, Owns, SelfRecord
  <2> QED
    BY <1>5, <2>1, <2>2, <2>3 DEF Environment
<1>6. ASSUME UNCHANGED <<lock, fence, pc, pid, obs, flock>> PROVE FenceInv'
  BY <1>6 DEF PidsDistinct, RecordKept, FenceHeld, FileStays, JudgedStale, Alone, Live, Keeps,
              Owns, SelfRecord
<1> QED
  BY <1>3, <1>4, <1>5, <1>6 DEF Next, Recycle, SquatterExits, vars

LEMMA FenceInvariant ==
  ASSUME NoThirdRacer PROVE Spec => [](TypeOK /\ FenceInv)
<1>1. Init => FenceInv
  BY DEF Init, FenceInv, PidsDistinct, RecordKept, FenceHeld, FileStays, JudgedStale,
         Live, Keeps, Owns, Critical, Leaving
<1>2. TypeOK /\ TypeOK' /\ FenceInv /\ [Next]_vars => FenceInv'
  BY FenceStep
<1> QED
  BY <1>1, <1>2, TypeCorrect, PTL DEF Spec

(* The protocol's own argument: past the fence one process at a time, the   *)
(* file stays under it, and what it has judged stale nobody comes to own.   *)
THEOREM FencedAlone ==
  ASSUME NoThirdRacer PROVE Spec => []FenceInv
<1> QED
  BY FenceInvariant, PTL

(* An owner's record is the one in the lock file for as long as it owns.    *)
THEOREM OwnerOnDisk ==
  ASSUME NoThirdRacer PROVE Spec => []HeldOnDisk
<1>1. FenceInv => HeldOnDisk
  BY DEF FenceInv, RecordKept, Keeps, HeldOnDisk
<1> QED
  BY <1>1, FencedAlone, PTL

(* With owners that leave only by dying, and in the handoff of one daemon   *)
(* to another with orderly releases, no interleaving of boots, crashes,     *)
(* stops and recycled pids, on any file system, makes two daemons own the   *)
(* state directory: what acquireStateLock exists for.                       *)
THEOREM OneWriter ==
  ASSUME NoThirdRacer PROVE Spec => []SingleWriter
<1>1. TypeOK /\ FenceInv => SingleWriter
  <2> SUFFICES ASSUME TypeOK, FenceInv, NEW d \in Daemons, NEW e \in Daemons,
                      Owns(d), Owns(e)
               PROVE  d = e
    BY DEF SingleWriter
  <2>1. SelfRecord(d) = SelfRecord(e)
    BY DEF FenceInv, RecordKept, Keeps
  <2> QED
    BY <2>1 DEF SelfRecord
<1> QED
  BY <1>1, FenceInvariant, PTL

(* Without a flock that excludes, a stale file is left for the operator; a  *)
(* foreign host's record is left alone in any case.                         *)
THEOREM FailsClosed ==
  ASSUME NoThirdRacer PROVE Spec => FailClosed
<1>1. TypeOK /\ FenceInv /\ [Next]_vars => [Untouchable => lock' = lock]_lock
  <2> SUFFICES ASSUME TypeOK, FenceInv, Next, Untouchable PROVE lock' = lock
    BY DEF vars
  <2>1. lock # Absent
    BY SentinelAssumption DEF Untouchable
  <2>2. ASSUME NEW d \in Daemons PROVE ~FencedUnlink(d)
    BY DEF FenceInv, FenceHeld, JudgedStale, Critical, FencedUnlink, At, Untouchable
  <2>3. ASSUME NEW d \in Daemons, Release(d) PROVE lock' = lock
    <3>1. CASE ReleaseUnlink(d)
      <4>1. lock = SelfRecord(d) /\ d \in Live
        BY <3>1 DEF ReleaseUnlink, At, FenceInv, RecordKept, Keeps, Live
      <4> QED
        BY <4>1, RecordIsNoSentinel DEF Untouchable, SelfRecord
    <3> QED
      BY <2>3, <3>1 DEF Release, ReleaseBegin, ReleaseRead
  <2>4. ASSUME NEW d \in Daemons, Boot(d) PROVE lock' = lock
    BY <2>1, <2>2, <2>4
       DEF Boot, FastCreate, TryCreate, Observe, Read, ProbeObserved, Probe, WaitForHandoff,
           EnterReclaim, RecheckRead, RecheckProbe, AcquireFence, RecheckDeadline,
           FencedCreate, FencedRead, FencedProbe, FencedRecreate, Unlock
  <2>5. ASSUME NEW d \in Daemons, Environment(d) PROVE lock' = lock
    BY <2>5 DEF Environment, Start, Die, DeadlinePasses, SigStop, SigCont
  <2> QED
    BY <2>3, <2>4, <2>5 DEF Next, Recycle, SquatterExits
<1> QED
  BY <1>1, FenceInvariant, PTL DEF Spec, FailClosed

(* The file protocol implements the abstract lock: at every step the owners *)
(* are unchanged, or one daemon comes to own a directory nobody owned, or   *)
(* the only owner ends.                                                     *)
THEOREM Implementation ==
  ASSUME NoThirdRacer PROVE Spec => ImplementsWriterLock
<1>1. Init => Abstract!Init
  BY DEF Init, Abstract!Init, Owners, Owns
<1>2. TypeOK /\ FenceInv /\ FenceInv' /\ [Next]_vars => [Abstract!Next]_Owners
  <2> SUFFICES ASSUME TypeOK, FenceInv, FenceInv', [Next]_vars
               PROVE  [Abstract!Next]_Owners
    OBVIOUS
  <2>1. ASSUME NEW d \in Daemons, lock = Absent, ~Owns(d), Owns(d)',
               \A e \in Daemons : e # d => pc'[e] = pc[e]
        PROVE  Abstract!Acquire(d)
    <3>1. \A e \in Daemons : ~Owns(e)
      BY <2>1, RecordIsNoSentinel DEF FenceInv, RecordKept, Keeps
    <3> QED
      BY <2>1, <3>1 DEF Abstract!Acquire, Owners, Owns
  <2>2. ASSUME NEW d \in Daemons, Owns(d), ~Owns(d)',
               \A e \in Daemons : e # d => pc'[e] = pc[e]
        PROVE  Abstract!Leave(d)
    <3>1. \A e \in Daemons : Owns(e) => e = d
      BY <2>2 DEF FenceInv, RecordKept, Keeps, SelfRecord
    <3> QED
      BY <2>2, <3>1 DEF Abstract!Leave, Owners, Owns
  <2>3. ASSUME NEW d \in Daemons, Owns(d)' <=> Owns(d),
               \A e \in Daemons : e # d => pc'[e] = pc[e]
        PROVE  Owners' = Owners
    BY <2>3 DEF Owners, Owns
  <2>4. ASSUME NEW d \in Daemons, Boot(d)
        PROVE  (\E e \in Daemons : Abstract!Acquire(e)) \/ Owners' = Owners
    <3>1. \A e \in Daemons : e # d => pc'[e] = pc[e]
      BY <2>4 DEF Boot, FastCreate, TryCreate, Observe, Read, ProbeObserved, Probe,
           WaitForHandoff, EnterReclaim, RecheckRead, RecheckProbe, AcquireFence,
           RecheckDeadline, FencedCreate, FencedRead, FencedProbe, FencedUnlink,
           FencedRecreate, Unlock, Goto, At, TypeOK
    <3>2. CASE FastCreate(d) \/ FencedCreate(d) \/ FencedRecreate(d)
      <4>1. CASE lock = Absent
        BY <2>1, <3>1, <3>2, <4>1
           DEF FastCreate, FencedCreate, FencedRecreate, TryCreate, At, Goto, Owns, TypeOK
      <4>2. CASE lock # Absent
        BY <2>3, <3>1, <3>2, <4>2
           DEF FastCreate, FencedCreate, FencedRecreate, TryCreate, At, Goto, Owns, TypeOK
      <4> QED
        BY <4>1, <4>2
    <3>3. CASE Observe(d) \/ RecheckRead(d) \/ FencedRead(d)
      BY <2>3, <3>1, <3>3 DEF Observe, RecheckRead, FencedRead, Read, At, Goto, Owns, TypeOK
    <3>4. CASE ProbeObserved(d) \/ RecheckProbe(d) \/ FencedProbe(d)
      BY <2>3, <3>1, <3>4
         DEF ProbeObserved, RecheckProbe, FencedProbe, Probe, At, Goto, Owns, TypeOK
    <3>5. CASE WaitForHandoff(d) \/ EnterReclaim(d) \/ FencedUnlink(d)
      BY <2>3, <3>1, <3>5
         DEF WaitForHandoff, EnterReclaim, FencedUnlink, At, Goto, Owns, TypeOK
    <3>6. CASE AcquireFence(d) \/ RecheckDeadline(d) \/ Unlock(d)
      BY <2>3, <3>1, <3>6 DEF AcquireFence, RecheckDeadline, Unlock, At, Goto, Owns, TypeOK
    <3> QED
      BY <2>4, <3>2, <3>3, <3>4, <3>5, <3>6 DEF Boot
  <2>5. ASSUME NEW d \in Daemons, Release(d)
        PROVE  (\E e \in Daemons : Abstract!Leave(e)) \/ Owners' = Owners
    BY <2>2, <2>3, <2>5 DEF Release, ReleaseBegin, ReleaseRead, ReleaseUnlink, At, Goto, Owns, TypeOK
  <2>6. ASSUME NEW d \in Daemons, Environment(d)
        PROVE  (\E e \in Daemons : Abstract!Leave(e)) \/ Owners' = Owners
    <3>1. CASE Die(d)
      BY <2>2, <2>3, <3>1 DEF Die, Goto, Owns, TypeOK
    <3>2. CASE Start(d)
      BY <2>3, <3>2 DEF Start, Goto, Owns, TypeOK
    <3>3. CASE DeadlinePasses(d) \/ SigStop(d) \/ SigCont(d)
      BY <3>3 DEF DeadlinePasses, SigStop, SigCont, Owners, Owns
    <3> QED
      BY <2>6, <3>1, <3>2, <3>3 DEF Environment
  <2>7. ASSUME UNCHANGED pc PROVE Owners' = Owners
    BY <2>7 DEF Owners, Owns
  <2> QED
    BY <2>4, <2>5, <2>6, <2>7 DEF Next, Recycle, SquatterExits, vars, Abstract!Next
<1> QED
  BY <1>1, <1>2, FenceInvariant, PTL DEF Spec, ImplementsWriterLock, Abstract!Spec
=============================================================================
