---------------------------- MODULE FanOutProofs ----------------------------
(***************************************************************************)
(* Proofs about FanOut, for any number of branches, any parallelism and    *)
(* any deployment: the inductive invariant IInv and what follows from it.  *)
(***************************************************************************)
EXTENDS FanOut, FiniteSetTheorems, TLAPS

(* The engine runs exactly while the phase is "fan"; the run's state then   *)
(* stands at the fork, in memory and on disk.                               *)
Modes ==
    /\ up <=> phase # "dead"
    /\ phase = "fan" => mem.node = "fork" /\ disk.node = "fork"
    /\ phase # "fan" => InFlight = {}

(* What the pass has not finished with is unresolved wherever it is recorded. *)
Unfinished(b) == at[b] \notin {"folded", "over"}
Open == \A b \in Branches : Unfinished(b) =>
            /\ out[b] = "not_attempted"
            /\ mem.out[b] = "not_attempted"
            /\ disk.out[b] = "not_attempted"

(* A success that is recorded anywhere is a turn that ended. *)
Earned == \A b \in Branches :
    "succeeded" \in {out[b], res[b], mem.out[b], disk.out[b]} => b \in ended

(* An agent at work is unresolved on disk, or its turn ran out of time. *)
Attended == \A b \in Branches : host[b] = "working" =>
    \/ b \in late
    \/ /\ up => at[b] = "turn"
       /\ disk.node = "fork" /\ disk.out[b] = "not_attempted"

(* A branch the pass has not started has neither a record nor a host, one   *)
(* that is starting has no host.                                            *)
Fresh == phase = "fan" =>
    \A b \in Branches :
        /\ at[b] \in {"todo", "creating"} => roster[b] = "gone"
        /\ at[b] \in {"todo", "creating", "starting"} => host[b] = "down"

(* A host that lives has a live record or is on its way to one, while the   *)
(* daemon runs; with the daemon down the hosts alone count.                 *)
Hosts == {b \in Branches : host[b] # "down"}
Busy == Live \cup InFlight \cup Hosts
Slack == cfg.hard + MaxParallel - 1
Lived ==
    /\ Fresh
    /\ up => /\ Hosts \subseteq Live \cup InFlight
             /\ \A b \in Branches : at[b] = "turn" /\ host[b] # "down" => b \in Live
Counted ==
    /\ Lived
    /\ Cardinality(Busy) <= Slack

IInv == TypeOK /\ Modes /\ Open /\ Earned /\ JoinHonest
        /\ AbortReachesAll /\ Attended /\ Counted

-----------------------------------------------------------------------------
LEMMA NextCases ==
    ASSUME Next
    PROVE  \/ \E b \in Branches : Exhausted(b) \/ Refused(b) \/ Admitted(b)
           \/ \E b \in Branches : Registered(b) \/ Connected(b)
                                  \/ StartFailed(b) \/ CreateThrew(b)
           \/ \E b \in Branches : Prompted(b) \/ NotPrompted(b) \/ TimedOut(b)
           \/ \E b \in Branches : TurnEnded(b) \/ HostDied(b) \/ Kill(b) \/ TurnEndedAlone(b)
           \/ Join \/ Boot \/ Save \/ Crash
  BY Zenon DEF Next, Progress, Pull, Spawn, Turn, Agent

(* Every step keeps the state well typed. *)
LEMMA TypePreserved ==
    ASSUME TypeOK, [Next]_vars
    PROVE  TypeOK'
  <1>1. ASSUME NEW b \in Branches, Exhausted(b) PROVE TypeOK'
    BY <1>1, BoundsAssumption DEF TypeOK, Steps, Dispositions, Resolved, vars, engine, fleet, history, counts, Exhausted, Pulled, Settled, Running, State
  <1>2. ASSUME NEW b \in Branches, Refused(b) PROVE TypeOK'
    BY <1>2, BoundsAssumption DEF TypeOK, Steps, Dispositions, Resolved, vars, engine, fleet, history, counts, Refused, Pulled, Settled, Running, State
  <1>3. ASSUME NEW b \in Branches, Admitted(b) PROVE TypeOK'
    BY <1>3, BoundsAssumption DEF TypeOK, Steps, Dispositions, Resolved, vars, engine, fleet, history, counts, Admitted, Pulled, Running
  <1>4. ASSUME NEW b \in Branches, Registered(b) PROVE TypeOK'
    BY <1>4, BoundsAssumption DEF TypeOK, Steps, Dispositions, Resolved, vars, engine, fleet, history, counts, Registered, Running
  <1>5. ASSUME NEW b \in Branches, Connected(b) PROVE TypeOK'
    BY <1>5, BoundsAssumption DEF TypeOK, Steps, Dispositions, Resolved, vars, engine, fleet, history, counts, Connected, Running
  <1>6. ASSUME NEW b \in Branches, StartFailed(b) PROVE TypeOK'
    BY <1>6, BoundsAssumption DEF TypeOK, Steps, Dispositions, Resolved, vars, engine, fleet, history, counts, StartFailed, Running, Fault
  <1>7. ASSUME NEW b \in Branches, CreateThrew(b) PROVE TypeOK'
    BY <1>7, BoundsAssumption DEF TypeOK, Steps, Dispositions, Resolved, vars, engine, fleet, history, counts, CreateThrew, Running, Fault, Settled, State, Torn, InTurn
  <1>8. ASSUME NEW b \in Branches, Prompted(b) PROVE TypeOK'
    BY <1>8, BoundsAssumption DEF TypeOK, Steps, Dispositions, Resolved, vars, engine, fleet, history, counts, Prompted, Running, Void
  <1>9. ASSUME NEW b \in Branches, NotPrompted(b) PROVE TypeOK'
    BY <1>9, BoundsAssumption DEF TypeOK, Steps, Dispositions, Resolved, vars, engine, fleet, history, counts, NotPrompted, Running, Void, Settled, State
  <1>10. ASSUME NEW b \in Branches, TimedOut(b) PROVE TypeOK'
    BY <1>10, BoundsAssumption DEF TypeOK, Steps, Dispositions, Resolved, vars, engine, fleet, history, counts, TimedOut, Running, Expires, Settled, State
  <1>11. ASSUME NEW b \in Branches, TurnEnded(b) PROVE TypeOK'
    BY <1>11, BoundsAssumption DEF TypeOK, Steps, Dispositions, Resolved, vars, engine, fleet, history, counts, TurnEnded, Running, Settled, State, InTurn
  <1>12. ASSUME NEW b \in Branches, HostDied(b) PROVE TypeOK'
    BY <1>12, BoundsAssumption DEF TypeOK, Steps, Dispositions, Resolved, vars, engine, fleet, history, counts, HostDied, Running, Fault, Heard, NotHeard, Settled, State
  <1>13. ASSUME NEW b \in Branches, Kill(b) PROVE TypeOK'
    BY <1>13, BoundsAssumption DEF TypeOK, Steps, Dispositions, Resolved, vars, engine, fleet, history, counts, Kill, Running, Fault, Heard, NotHeard, Settled, State
  <1>14. ASSUME NEW b \in Branches, TurnEndedAlone(b) PROVE TypeOK'
    BY <1>14, BoundsAssumption DEF TypeOK, Steps, Dispositions, Resolved, vars, engine, fleet, history, counts, TurnEndedAlone, Running
  <1>15. CASE Join
    BY <1>15, BoundsAssumption DEF TypeOK, Steps, Dispositions, Resolved, vars, engine, fleet, history, counts, Join, Running, State, Untried, Held, Fold, Joined
  <1>16. CASE Boot
    BY <1>16, BoundsAssumption DEF TypeOK, Steps, Dispositions, Resolved, vars, engine, fleet, history, counts, Boot, Place, Won, Unresolved, State, Untried, Kept
  <1>17. CASE Save
    BY <1>17, BoundsAssumption DEF TypeOK, Steps, Dispositions, Resolved, vars, engine, fleet, history, counts, Save, Running
  <1>18. CASE Crash
    <2>1. crashes' \in 0 .. MaxCrashes
      BY <1>18, BoundsAssumption DEF TypeOK, Crash
    <2>2. mem' \in [node : {"fork"} \cup Resolved, out : [Branches -> Dispositions]]
      BY <1>18 DEF Crash, State, Untried, Dispositions
    <2>3. /\ at' \in [Branches -> Steps]
          /\ out' \in [Branches -> Dispositions]
          /\ res' \in [Branches -> {"none"} \cup Resolved]
          /\ roster' \in [Branches -> {"gone", "starting", "idle", "working", "stopped"}]
      BY <1>18 DEF Crash, Untried, Dispositions, Steps
    <2>4. QED
      BY <1>18, <2>1, <2>2, <2>3 DEF TypeOK, Crash, history
  <1>19. CASE UNCHANGED vars
    BY <1>19, BoundsAssumption DEF TypeOK, Steps, Dispositions, Resolved, vars, engine, fleet, history, counts
  <1>20. QED
    BY <1>1, <1>2, <1>3, <1>4, <1>5, <1>6, <1>7, <1>8, <1>9, <1>10, <1>11, <1>12, <1>13, <1>14, <1>15, <1>16, <1>17, <1>18, <1>19, NextCases, Zenon

(* The engine's phase follows the daemon and the record. *)
LEMMA ModesPreserved ==
    ASSUME TypeOK, Modes, Open, [Next]_vars
    PROVE  Modes'
  <1>1. ASSUME NEW b \in Branches, Exhausted(b) PROVE Modes'
    BY <1>1 DEF TypeOK, Modes, InFlight, vars, engine, fleet, history, counts, Exhausted, Pulled, Settled, Running, State
  <1>2. ASSUME NEW b \in Branches, Refused(b) PROVE Modes'
    BY <1>2 DEF TypeOK, Modes, InFlight, vars, engine, fleet, history, counts, Refused, Pulled, Settled, Running, State
  <1>3. ASSUME NEW b \in Branches, Admitted(b) PROVE Modes'
    BY <1>3 DEF TypeOK, Modes, InFlight, vars, engine, fleet, history, counts, Admitted, Pulled, Running
  <1>4. ASSUME NEW b \in Branches, Registered(b) PROVE Modes'
    BY <1>4 DEF TypeOK, Modes, InFlight, vars, engine, fleet, history, counts, Registered, Running
  <1>5. ASSUME NEW b \in Branches, Connected(b) PROVE Modes'
    BY <1>5 DEF TypeOK, Modes, InFlight, vars, engine, fleet, history, counts, Connected, Running
  <1>6. ASSUME NEW b \in Branches, StartFailed(b) PROVE Modes'
    BY <1>6 DEF TypeOK, Modes, InFlight, vars, engine, fleet, history, counts, StartFailed, Running, Fault
  <1>7. ASSUME NEW b \in Branches, CreateThrew(b) PROVE Modes'
    BY <1>7 DEF TypeOK, Modes, InFlight, vars, engine, fleet, history, counts, CreateThrew, Running, Fault, Settled, State, Torn, InTurn
  <1>8. ASSUME NEW b \in Branches, Prompted(b) PROVE Modes'
    BY <1>8 DEF TypeOK, Modes, InFlight, vars, engine, fleet, history, counts, Prompted, Running, Void
  <1>9. ASSUME NEW b \in Branches, NotPrompted(b) PROVE Modes'
    BY <1>9 DEF TypeOK, Modes, InFlight, vars, engine, fleet, history, counts, NotPrompted, Running, Void, Settled, State
  <1>10. ASSUME NEW b \in Branches, TimedOut(b) PROVE Modes'
    BY <1>10 DEF TypeOK, Modes, InFlight, vars, engine, fleet, history, counts, TimedOut, Running, Expires, Settled, State
  <1>11. ASSUME NEW b \in Branches, TurnEnded(b) PROVE Modes'
    BY <1>11 DEF TypeOK, Modes, InFlight, vars, engine, fleet, history, counts, TurnEnded, Running, Settled, State, InTurn
  <1>12. ASSUME NEW b \in Branches, HostDied(b) PROVE Modes'
    BY <1>12 DEF TypeOK, Modes, InFlight, vars, engine, fleet, history, counts, HostDied, Running, Fault, Heard, NotHeard, Settled, State
  <1>13. ASSUME NEW b \in Branches, Kill(b) PROVE Modes'
    BY <1>13 DEF TypeOK, Modes, InFlight, vars, engine, fleet, history, counts, Kill, Running, Fault, Heard, NotHeard, Settled, State
  <1>14. ASSUME NEW b \in Branches, TurnEndedAlone(b) PROVE Modes'
    BY <1>14 DEF TypeOK, Modes, InFlight, vars, engine, fleet, history, counts, TurnEndedAlone, Running
  <1>15. CASE Join
    BY <1>15 DEF TypeOK, Modes, InFlight, vars, engine, fleet, history, counts, Join, Running, State, Untried, Held, Fold, Joined
  <1>16. CASE Boot
    BY <1>16 DEF TypeOK, Modes, InFlight, vars, engine, fleet, history, counts, Boot, Place, Won, Unresolved, State, Untried, Kept
  <1>17. CASE Save
    BY <1>17 DEF TypeOK, Modes, InFlight, vars, engine, fleet, history, counts, Save, Running
  <1>18. CASE Crash
    BY <1>18 DEF TypeOK, Modes, InFlight, vars, engine, fleet, history, counts, Crash, State, Untried
  <1>19. CASE UNCHANGED vars
    BY <1>19 DEF TypeOK, Modes, InFlight, vars, engine, fleet, history, counts
  <1>20. QED
    BY <1>1, <1>2, <1>3, <1>4, <1>5, <1>6, <1>7, <1>8, <1>9, <1>10, <1>11, <1>12, <1>13, <1>14, <1>15, <1>16, <1>17, <1>18, <1>19, NextCases, Zenon

(* A branch is finished with before it is recorded as resolved. *)
LEMMA OpenPreserved ==
    ASSUME TypeOK, Modes, Open, [Next]_vars
    PROVE  Open'
  <1>1. ASSUME NEW b \in Branches, Exhausted(b) PROVE Open'
    BY <1>1 DEF TypeOK, Modes, Open, Unfinished, Dispositions, Resolved, vars, engine, fleet, history, counts, Exhausted, Pulled, Settled, Running, State
  <1>2. ASSUME NEW b \in Branches, Refused(b) PROVE Open'
    BY <1>2 DEF TypeOK, Modes, Open, Unfinished, Dispositions, Resolved, vars, engine, fleet, history, counts, Refused, Pulled, Settled, Running, State
  <1>3. ASSUME NEW b \in Branches, Admitted(b) PROVE Open'
    BY <1>3 DEF TypeOK, Modes, Open, Unfinished, Dispositions, Resolved, vars, engine, fleet, history, counts, Admitted, Pulled, Running
  <1>4. ASSUME NEW b \in Branches, Registered(b) PROVE Open'
    BY <1>4 DEF TypeOK, Modes, Open, Unfinished, Dispositions, Resolved, vars, engine, fleet, history, counts, Registered, Running
  <1>5. ASSUME NEW b \in Branches, Connected(b) PROVE Open'
    BY <1>5 DEF TypeOK, Modes, Open, Unfinished, Dispositions, Resolved, vars, engine, fleet, history, counts, Connected, Running
  <1>6. ASSUME NEW b \in Branches, StartFailed(b) PROVE Open'
    BY <1>6 DEF TypeOK, Modes, Open, Unfinished, Dispositions, Resolved, vars, engine, fleet, history, counts, StartFailed, Running, Fault
  <1>7. ASSUME NEW b \in Branches, CreateThrew(b) PROVE Open'
    BY <1>7 DEF TypeOK, Modes, Open, Unfinished, Dispositions, Resolved, vars, engine, fleet, history, counts, CreateThrew, Running, Fault, Settled, State, Torn, InTurn
  <1>8. ASSUME NEW b \in Branches, Prompted(b) PROVE Open'
    BY <1>8 DEF TypeOK, Modes, Open, Unfinished, Dispositions, Resolved, vars, engine, fleet, history, counts, Prompted, Running, Void
  <1>9. ASSUME NEW b \in Branches, NotPrompted(b) PROVE Open'
    BY <1>9 DEF TypeOK, Modes, Open, Unfinished, Dispositions, Resolved, vars, engine, fleet, history, counts, NotPrompted, Running, Void, Settled, State
  <1>10. ASSUME NEW b \in Branches, TimedOut(b) PROVE Open'
    BY <1>10 DEF TypeOK, Modes, Open, Unfinished, Dispositions, Resolved, vars, engine, fleet, history, counts, TimedOut, Running, Expires, Settled, State
  <1>11. ASSUME NEW b \in Branches, TurnEnded(b) PROVE Open'
    BY <1>11 DEF TypeOK, Modes, Open, Unfinished, Dispositions, Resolved, vars, engine, fleet, history, counts, TurnEnded, Running, Settled, State, InTurn
  <1>12. ASSUME NEW b \in Branches, HostDied(b) PROVE Open'
    BY <1>12 DEF TypeOK, Modes, Open, Unfinished, Dispositions, Resolved, vars, engine, fleet, history, counts, HostDied, Running, Fault, Heard, NotHeard, Settled, State
  <1>13. ASSUME NEW b \in Branches, Kill(b) PROVE Open'
    BY <1>13 DEF TypeOK, Modes, Open, Unfinished, Dispositions, Resolved, vars, engine, fleet, history, counts, Kill, Running, Fault, Heard, NotHeard, Settled, State
  <1>14. ASSUME NEW b \in Branches, TurnEndedAlone(b) PROVE Open'
    BY <1>14 DEF TypeOK, Modes, Open, Unfinished, Dispositions, Resolved, vars, engine, fleet, history, counts, TurnEndedAlone, Running
  <1>15. CASE Join
    BY <1>15 DEF TypeOK, Modes, Open, Unfinished, Dispositions, Resolved, vars, engine, fleet, history, counts, Join, Running, State, Untried, Held, Fold, Joined
  <1>16. CASE Boot
    BY <1>16 DEF TypeOK, Modes, Open, Unfinished, Dispositions, Resolved, vars, engine, fleet, history, counts, Boot, Place, Won, Unresolved, State, Untried, Kept
  <1>17. CASE Save
    BY <1>17 DEF TypeOK, Modes, Open, Unfinished, Dispositions, Resolved, vars, engine, fleet, history, counts, Save, Running
  <1>18. CASE Crash
    BY <1>18 DEF TypeOK, Modes, Open, Unfinished, Dispositions, Resolved, vars, engine, fleet, history, counts, Crash, State, Untried
  <1>19. CASE UNCHANGED vars
    BY <1>19 DEF TypeOK, Modes, Open, Unfinished, Dispositions, Resolved, vars, engine, fleet, history, counts
  <1>20. QED
    BY <1>1, <1>2, <1>3, <1>4, <1>5, <1>6, <1>7, <1>8, <1>9, <1>10, <1>11, <1>12, <1>13, <1>14, <1>15, <1>16, <1>17, <1>18, <1>19, NextCases, Zenon

(* A success is recorded only for a turn that ended. *)
LEMMA EarnedPreserved ==
    ASSUME TypeOK, Modes, Earned, [Next]_vars
    PROVE  Earned'
  <1>1. ASSUME NEW b \in Branches, Exhausted(b) PROVE Earned'
    BY <1>1 DEF TypeOK, Earned, vars, engine, fleet, history, counts, Exhausted, Pulled, Settled, Running, State
  <1>2. ASSUME NEW b \in Branches, Refused(b) PROVE Earned'
    BY <1>2 DEF TypeOK, Earned, vars, engine, fleet, history, counts, Refused, Pulled, Settled, Running, State
  <1>3. ASSUME NEW b \in Branches, Admitted(b) PROVE Earned'
    BY <1>3 DEF TypeOK, Earned, vars, engine, fleet, history, counts, Admitted, Pulled, Running
  <1>4. ASSUME NEW b \in Branches, Registered(b) PROVE Earned'
    BY <1>4 DEF TypeOK, Earned, vars, engine, fleet, history, counts, Registered, Running
  <1>5. ASSUME NEW b \in Branches, Connected(b) PROVE Earned'
    BY <1>5 DEF TypeOK, Earned, vars, engine, fleet, history, counts, Connected, Running
  <1>6. ASSUME NEW b \in Branches, StartFailed(b) PROVE Earned'
    BY <1>6 DEF TypeOK, Earned, vars, engine, fleet, history, counts, StartFailed, Running, Fault
  <1>7. ASSUME NEW b \in Branches, CreateThrew(b) PROVE Earned'
    BY <1>7 DEF TypeOK, Earned, vars, engine, fleet, history, counts, CreateThrew, Running, Fault, Settled, State, Torn, InTurn
  <1>8. ASSUME NEW b \in Branches, Prompted(b) PROVE Earned'
    BY <1>8 DEF TypeOK, Earned, vars, engine, fleet, history, counts, Prompted, Running, Void
  <1>9. ASSUME NEW b \in Branches, NotPrompted(b) PROVE Earned'
    BY <1>9 DEF TypeOK, Earned, vars, engine, fleet, history, counts, NotPrompted, Running, Void, Settled, State
  <1>10. ASSUME NEW b \in Branches, TimedOut(b) PROVE Earned'
    BY <1>10 DEF TypeOK, Earned, vars, engine, fleet, history, counts, TimedOut, Running, Expires, Settled, State
  <1>11. ASSUME NEW b \in Branches, TurnEnded(b) PROVE Earned'
    BY <1>11 DEF TypeOK, Earned, vars, engine, fleet, history, counts, TurnEnded, Running, Settled, State, InTurn
  <1>12. ASSUME NEW b \in Branches, HostDied(b) PROVE Earned'
    BY <1>12 DEF TypeOK, Earned, vars, engine, fleet, history, counts, HostDied, Running, Fault, Heard, NotHeard, Settled, State
  <1>13. ASSUME NEW b \in Branches, Kill(b) PROVE Earned'
    BY <1>13 DEF TypeOK, Earned, vars, engine, fleet, history, counts, Kill, Running, Fault, Heard, NotHeard, Settled, State
  <1>14. ASSUME NEW b \in Branches, TurnEndedAlone(b) PROVE Earned'
    BY <1>14 DEF TypeOK, Earned, vars, engine, fleet, history, counts, TurnEndedAlone, Running
  <1>15. CASE Join
    BY <1>15 DEF TypeOK, Earned, vars, engine, fleet, history, counts, Join, Running, State, Untried, Held, Fold, Joined
  <1>16. CASE Boot
    BY <1>16 DEF TypeOK, Earned, vars, engine, fleet, history, counts, Boot, Place, Won, Unresolved, State, Untried, Kept
  <1>17. CASE Save
    BY <1>17 DEF TypeOK, Earned, vars, engine, fleet, history, counts, Save, Running
  <1>18. CASE Crash
    BY <1>18 DEF TypeOK, Earned, vars, engine, fleet, history, counts, Crash, State, Untried
  <1>19. CASE UNCHANGED vars
    BY <1>19 DEF TypeOK, Earned, vars, engine, fleet, history, counts
  <1>20. QED
    BY <1>1, <1>2, <1>3, <1>4, <1>5, <1>6, <1>7, <1>8, <1>9, <1>10, <1>11, <1>12, <1>13, <1>14, <1>15, <1>16, <1>17, <1>18, <1>19, NextCases, Zenon

(* The join succeeds on turns that ended. *)
LEMMA HonestPreserved ==
    ASSUME TypeOK, Modes, Earned, JoinHonest, [Next]_vars
    PROVE  JoinHonest'
  <1>1. ASSUME NEW b \in Branches, Exhausted(b) PROVE JoinHonest'
    BY <1>1 DEF TypeOK, Modes, Earned, JoinHonest, vars, engine, fleet, history, counts, Exhausted, Pulled, Settled, Running, State
  <1>2. ASSUME NEW b \in Branches, Refused(b) PROVE JoinHonest'
    BY <1>2 DEF TypeOK, Modes, Earned, JoinHonest, vars, engine, fleet, history, counts, Refused, Pulled, Settled, Running, State
  <1>3. ASSUME NEW b \in Branches, Admitted(b) PROVE JoinHonest'
    BY <1>3 DEF TypeOK, Modes, Earned, JoinHonest, vars, engine, fleet, history, counts, Admitted, Pulled, Running
  <1>4. ASSUME NEW b \in Branches, Registered(b) PROVE JoinHonest'
    BY <1>4 DEF TypeOK, Modes, Earned, JoinHonest, vars, engine, fleet, history, counts, Registered, Running
  <1>5. ASSUME NEW b \in Branches, Connected(b) PROVE JoinHonest'
    BY <1>5 DEF TypeOK, Modes, Earned, JoinHonest, vars, engine, fleet, history, counts, Connected, Running
  <1>6. ASSUME NEW b \in Branches, StartFailed(b) PROVE JoinHonest'
    BY <1>6 DEF TypeOK, Modes, Earned, JoinHonest, vars, engine, fleet, history, counts, StartFailed, Running, Fault
  <1>7. ASSUME NEW b \in Branches, CreateThrew(b) PROVE JoinHonest'
    BY <1>7 DEF TypeOK, Modes, Earned, JoinHonest, vars, engine, fleet, history, counts, CreateThrew, Running, Fault, Settled, State, Torn, InTurn
  <1>8. ASSUME NEW b \in Branches, Prompted(b) PROVE JoinHonest'
    BY <1>8 DEF TypeOK, Modes, Earned, JoinHonest, vars, engine, fleet, history, counts, Prompted, Running, Void
  <1>9. ASSUME NEW b \in Branches, NotPrompted(b) PROVE JoinHonest'
    BY <1>9 DEF TypeOK, Modes, Earned, JoinHonest, vars, engine, fleet, history, counts, NotPrompted, Running, Void, Settled, State
  <1>10. ASSUME NEW b \in Branches, TimedOut(b) PROVE JoinHonest'
    BY <1>10 DEF TypeOK, Modes, Earned, JoinHonest, vars, engine, fleet, history, counts, TimedOut, Running, Expires, Settled, State
  <1>11. ASSUME NEW b \in Branches, TurnEnded(b) PROVE JoinHonest'
    BY <1>11 DEF TypeOK, Modes, Earned, JoinHonest, vars, engine, fleet, history, counts, TurnEnded, Running, Settled, State, InTurn
  <1>12. ASSUME NEW b \in Branches, HostDied(b) PROVE JoinHonest'
    BY <1>12 DEF TypeOK, Modes, Earned, JoinHonest, vars, engine, fleet, history, counts, HostDied, Running, Fault, Heard, NotHeard, Settled, State
  <1>13. ASSUME NEW b \in Branches, Kill(b) PROVE JoinHonest'
    BY <1>13 DEF TypeOK, Modes, Earned, JoinHonest, vars, engine, fleet, history, counts, Kill, Running, Fault, Heard, NotHeard, Settled, State
  <1>14. ASSUME NEW b \in Branches, TurnEndedAlone(b) PROVE JoinHonest'
    BY <1>14 DEF TypeOK, Modes, Earned, JoinHonest, vars, engine, fleet, history, counts, TurnEndedAlone, Running
  <1>15. CASE Join
    <2>1. ASSUME mem'.node = "succeeded"
          PROVE  ended = Branches \/ (cfg.policy = "first_success" /\ ended # {})
      <3>1. \A b \in Branches : Held[b] = "succeeded" => b \in ended
        BY DEF Held, Fold, Earned
      <3>2. Joined(Held) = "succeeded"
        BY <1>15, <2>1 DEF Join, State
      <3>3. \/ cfg.policy = "first_success" /\ {b \in Branches : Held[b] = "succeeded"} # {}
            \/ {b \in Branches : Held[b] = "succeeded"} = Branches
        BY <3>2 DEF Joined
      <3>4. ended \subseteq Branches
        BY DEF TypeOK
      <3>5. QED
        BY <3>1, <3>3, <3>4
    <2>2. UNCHANGED <<cfg, disk, ended>>
      BY <1>15 DEF Join, history
    <2>3. QED
      BY <2>1, <2>2 DEF JoinHonest
  <1>16. CASE Boot
    BY <1>16 DEF TypeOK, Modes, Earned, JoinHonest, vars, engine, fleet, history, counts, Boot, Place, Won, Unresolved, State, Untried, Kept
  <1>17. CASE Save
    BY <1>17 DEF TypeOK, Modes, Earned, JoinHonest, vars, engine, fleet, history, counts, Save, Running
  <1>18. CASE Crash
    BY <1>18 DEF TypeOK, Modes, Earned, JoinHonest, vars, engine, fleet, history, counts, Crash, State, Untried
  <1>19. CASE UNCHANGED vars
    BY <1>19 DEF TypeOK, Modes, Earned, JoinHonest, vars, engine, fleet, history, counts
  <1>20. QED
    BY <1>1, <1>2, <1>3, <1>4, <1>5, <1>6, <1>7, <1>8, <1>9, <1>10, <1>11, <1>12, <1>13, <1>14, <1>15, <1>16, <1>17, <1>18, <1>19, NextCases, Zenon

(* No turn goes on or begins after the abort. *)
LEMMA AbortPreserved ==
    ASSUME TypeOK, AbortReachesAll, [Next]_vars
    PROVE  AbortReachesAll'
  <1>1. ASSUME NEW b \in Branches, Exhausted(b) PROVE AbortReachesAll'
    BY <1>1 DEF TypeOK, AbortReachesAll, InTurn, vars, engine, fleet, history, counts, Exhausted, Pulled, Settled, Running, State
  <1>2. ASSUME NEW b \in Branches, Refused(b) PROVE AbortReachesAll'
    BY <1>2 DEF TypeOK, AbortReachesAll, InTurn, vars, engine, fleet, history, counts, Refused, Pulled, Settled, Running, State
  <1>3. ASSUME NEW b \in Branches, Admitted(b) PROVE AbortReachesAll'
    BY <1>3 DEF TypeOK, AbortReachesAll, InTurn, vars, engine, fleet, history, counts, Admitted, Pulled, Running
  <1>4. ASSUME NEW b \in Branches, Registered(b) PROVE AbortReachesAll'
    BY <1>4 DEF TypeOK, AbortReachesAll, InTurn, vars, engine, fleet, history, counts, Registered, Running
  <1>5. ASSUME NEW b \in Branches, Connected(b) PROVE AbortReachesAll'
    BY <1>5 DEF TypeOK, AbortReachesAll, InTurn, vars, engine, fleet, history, counts, Connected, Running
  <1>6. ASSUME NEW b \in Branches, StartFailed(b) PROVE AbortReachesAll'
    BY <1>6 DEF TypeOK, AbortReachesAll, InTurn, vars, engine, fleet, history, counts, StartFailed, Running, Fault
  <1>7. ASSUME NEW b \in Branches, CreateThrew(b) PROVE AbortReachesAll'
    BY <1>7 DEF TypeOK, AbortReachesAll, InTurn, vars, engine, fleet, history, counts, CreateThrew, Running, Fault, Settled, State, Torn, InTurn
  <1>8. ASSUME NEW b \in Branches, Prompted(b) PROVE AbortReachesAll'
    BY <1>8 DEF TypeOK, AbortReachesAll, InTurn, vars, engine, fleet, history, counts, Prompted, Running, Void
  <1>9. ASSUME NEW b \in Branches, NotPrompted(b) PROVE AbortReachesAll'
    BY <1>9 DEF TypeOK, AbortReachesAll, InTurn, vars, engine, fleet, history, counts, NotPrompted, Running, Void, Settled, State
  <1>10. ASSUME NEW b \in Branches, TimedOut(b) PROVE AbortReachesAll'
    BY <1>10 DEF TypeOK, AbortReachesAll, InTurn, vars, engine, fleet, history, counts, TimedOut, Running, Expires, Settled, State
  <1>11. ASSUME NEW b \in Branches, TurnEnded(b) PROVE AbortReachesAll'
    BY <1>11 DEF TypeOK, AbortReachesAll, InTurn, vars, engine, fleet, history, counts, TurnEnded, Running, Settled, State, InTurn
  <1>12. ASSUME NEW b \in Branches, HostDied(b) PROVE AbortReachesAll'
    BY <1>12 DEF TypeOK, AbortReachesAll, InTurn, vars, engine, fleet, history, counts, HostDied, Running, Fault, Heard, NotHeard, Settled, State
  <1>13. ASSUME NEW b \in Branches, Kill(b) PROVE AbortReachesAll'
    BY <1>13 DEF TypeOK, AbortReachesAll, InTurn, vars, engine, fleet, history, counts, Kill, Running, Fault, Heard, NotHeard, Settled, State
  <1>14. ASSUME NEW b \in Branches, TurnEndedAlone(b) PROVE AbortReachesAll'
    BY <1>14 DEF TypeOK, AbortReachesAll, InTurn, vars, engine, fleet, history, counts, TurnEndedAlone, Running
  <1>15. CASE Join
    BY <1>15 DEF TypeOK, AbortReachesAll, InTurn, vars, engine, fleet, history, counts, Join, Running, State, Untried, Held, Fold, Joined
  <1>16. CASE Boot
    BY <1>16 DEF TypeOK, AbortReachesAll, InTurn, vars, engine, fleet, history, counts, Boot, Place, Won, Unresolved, State, Untried, Kept
  <1>17. CASE Save
    BY <1>17 DEF TypeOK, AbortReachesAll, InTurn, vars, engine, fleet, history, counts, Save, Running
  <1>18. CASE Crash
    BY <1>18 DEF TypeOK, AbortReachesAll, InTurn, vars, engine, fleet, history, counts, Crash, State, Untried
  <1>19. CASE UNCHANGED vars
    BY <1>19 DEF TypeOK, AbortReachesAll, InTurn, vars, engine, fleet, history, counts
  <1>20. QED
    BY <1>1, <1>2, <1>3, <1>4, <1>5, <1>6, <1>7, <1>8, <1>9, <1>10, <1>11, <1>12, <1>13, <1>14, <1>15, <1>16, <1>17, <1>18, <1>19, NextCases, Zenon

(* An agent at work is waited for, or its branch is still unresolved. *)
LEMMA AttendedPreserved ==
    ASSUME TypeOK, Modes, Open, Attended, [Next]_vars
    PROVE  Attended'
  <1>1. ASSUME NEW b \in Branches, Exhausted(b) PROVE Attended'
    BY <1>1 DEF TypeOK, Modes, Open, Unfinished, Attended, InFlight, Resolved, Dispositions, vars, engine, fleet, history, counts, Exhausted, Pulled, Settled, Running, State
  <1>2. ASSUME NEW b \in Branches, Refused(b) PROVE Attended'
    BY <1>2 DEF TypeOK, Modes, Open, Unfinished, Attended, InFlight, Resolved, Dispositions, vars, engine, fleet, history, counts, Refused, Pulled, Settled, Running, State
  <1>3. ASSUME NEW b \in Branches, Admitted(b) PROVE Attended'
    BY <1>3 DEF TypeOK, Modes, Open, Unfinished, Attended, InFlight, Resolved, Dispositions, vars, engine, fleet, history, counts, Admitted, Pulled, Running
  <1>4. ASSUME NEW b \in Branches, Registered(b) PROVE Attended'
    BY <1>4 DEF TypeOK, Modes, Open, Unfinished, Attended, InFlight, Resolved, Dispositions, vars, engine, fleet, history, counts, Registered, Running
  <1>5. ASSUME NEW b \in Branches, Connected(b) PROVE Attended'
    BY <1>5 DEF TypeOK, Modes, Open, Unfinished, Attended, InFlight, Resolved, Dispositions, vars, engine, fleet, history, counts, Connected, Running
  <1>6. ASSUME NEW b \in Branches, StartFailed(b) PROVE Attended'
    BY <1>6 DEF TypeOK, Modes, Open, Unfinished, Attended, InFlight, Resolved, Dispositions, vars, engine, fleet, history, counts, StartFailed, Running, Fault
  <1>7. ASSUME NEW b \in Branches, CreateThrew(b) PROVE Attended'
    BY <1>7 DEF TypeOK, Modes, Open, Unfinished, Attended, InFlight, Resolved, Dispositions, vars, engine, fleet, history, counts, CreateThrew, Running, Fault, Settled, State, Torn, InTurn
  <1>8. ASSUME NEW b \in Branches, Prompted(b) PROVE Attended'
    BY <1>8 DEF TypeOK, Modes, Open, Unfinished, Attended, InFlight, Resolved, Dispositions, vars, engine, fleet, history, counts, Prompted, Running, Void
  <1>9. ASSUME NEW b \in Branches, NotPrompted(b) PROVE Attended'
    BY <1>9 DEF TypeOK, Modes, Open, Unfinished, Attended, InFlight, Resolved, Dispositions, vars, engine, fleet, history, counts, NotPrompted, Running, Void, Settled, State
  <1>10. ASSUME NEW b \in Branches, TimedOut(b) PROVE Attended'
    BY <1>10 DEF TypeOK, Modes, Open, Unfinished, Attended, InFlight, Resolved, Dispositions, vars, engine, fleet, history, counts, TimedOut, Running, Expires, Settled, State
  <1>11. ASSUME NEW b \in Branches, TurnEnded(b) PROVE Attended'
    BY <1>11 DEF TypeOK, Modes, Open, Unfinished, Attended, InFlight, Resolved, Dispositions, vars, engine, fleet, history, counts, TurnEnded, Running, Settled, State, InTurn
  <1>12. ASSUME NEW b \in Branches, HostDied(b) PROVE Attended'
    BY <1>12 DEF TypeOK, Modes, Open, Unfinished, Attended, InFlight, Resolved, Dispositions, vars, engine, fleet, history, counts, HostDied, Running, Fault, Heard, NotHeard, Settled, State
  <1>13. ASSUME NEW b \in Branches, Kill(b) PROVE Attended'
    BY <1>13 DEF TypeOK, Modes, Open, Unfinished, Attended, InFlight, Resolved, Dispositions, vars, engine, fleet, history, counts, Kill, Running, Fault, Heard, NotHeard, Settled, State
  <1>14. ASSUME NEW b \in Branches, TurnEndedAlone(b) PROVE Attended'
    BY <1>14 DEF TypeOK, Modes, Open, Unfinished, Attended, InFlight, Resolved, Dispositions, vars, engine, fleet, history, counts, TurnEndedAlone, Running
  <1>15. CASE Join
    BY <1>15 DEF TypeOK, Modes, Open, Unfinished, Attended, InFlight, Resolved, Dispositions, vars, engine, fleet, history, counts, Join, Running, State, Untried, Held, Fold, Joined
  <1>16. CASE Boot
    BY <1>16 DEF TypeOK, Modes, Open, Unfinished, Attended, InFlight, Resolved, Dispositions, vars, engine, fleet, history, counts, Boot, Place, Won, Unresolved, State, Untried, Kept
  <1>17. CASE Save
    BY <1>17 DEF TypeOK, Modes, Open, Unfinished, Attended, InFlight, Resolved, Dispositions, vars, engine, fleet, history, counts, Save, Running
  <1>18. CASE Crash
    BY <1>18 DEF TypeOK, Modes, Open, Unfinished, Attended, InFlight, Resolved, Dispositions, vars, engine, fleet, history, counts, Crash, State, Untried
  <1>19. CASE UNCHANGED vars
    BY <1>19 DEF TypeOK, Modes, Open, Unfinished, Attended, InFlight, Resolved, Dispositions, vars, engine, fleet, history, counts
  <1>20. QED
    BY <1>1, <1>2, <1>3, <1>4, <1>5, <1>6, <1>7, <1>8, <1>9, <1>10, <1>11, <1>12, <1>13, <1>14, <1>15, <1>16, <1>17, <1>18, <1>19, NextCases, Zenon

(* Sets of branches are finite. *)
LEMMA BranchesFinite ==
    \A S \in SUBSET Branches : IsFiniteSet(S) /\ Cardinality(S) \in Nat
  <1>1. IsFiniteSet(Branches)
    BY FS_Interval, BranchAssumption DEF Branches
  <1>2. QED
    BY <1>1, FS_Subset, FS_CardinalityType

(* A set that does not grow does not outgrow its bound. *)
LEMMA NoGrowth ==
    ASSUME NEW S \in SUBSET Branches, NEW U \in SUBSET Branches, U \subseteq S
    PROVE  Cardinality(U) <= Cardinality(S)
  BY BranchesFinite, FS_Subset

(* The bound of one admission: two sets below their bounds and the branch. *)
LEMMA OneMore ==
    ASSUME NEW S \in SUBSET Branches, NEW U \in SUBSET Branches, NEW b \in Branches,
           NEW m \in Nat, NEW n \in Nat, Cardinality(S) < m, Cardinality(U) < n
    PROVE  Cardinality((S \cup U) \cup {b}) <= m + n - 1
  <1> DEFINE W == S \cup U
  <1>1. /\ IsFiniteSet(S) /\ IsFiniteSet(U) /\ IsFiniteSet(W)
        /\ Cardinality(S) \in Nat /\ Cardinality(U) \in Nat
        /\ Cardinality(W) \in Nat /\ Cardinality(S \cap U) \in Nat
    BY BranchesFinite
  <1>2. Cardinality(W) = Cardinality(S) + Cardinality(U) - Cardinality(S \cap U)
    BY <1>1, FS_Union
  <1>3. Cardinality(W \cup {b}) = IF b \in W THEN Cardinality(W) ELSE Cardinality(W) + 1
    BY <1>1, FS_AddElement
  <1> HIDE DEF W
  <1>4. Cardinality(W \cup {b}) <= m + n - 1
    BY <1>1, <1>2, <1>3
  <1>5. QED
    BY <1>4 DEF W

(* A live host has a live record, or its branch is in flight.               *)
LEMMA LivedPreserved ==
    ASSUME TypeOK, Modes, Lived, [Next]_vars
    PROVE  Lived'
  <1>1. ASSUME NEW b \in Branches, Exhausted(b) PROVE Lived'
    BY <1>1 DEF TypeOK, Modes, Lived, Fresh, Hosts, Live, InFlight, vars, engine, fleet, history, counts, Exhausted, Pulled, Running
  <1>2. ASSUME NEW b \in Branches, Refused(b) PROVE Lived'
    BY <1>2 DEF TypeOK, Modes, Lived, Fresh, Hosts, Live, InFlight, vars, engine, fleet, history, counts, Refused, Pulled, Running
  <1>3. ASSUME NEW b \in Branches, Admitted(b) PROVE Lived'
    BY <1>3 DEF TypeOK, Modes, Lived, Fresh, Hosts, Live, InFlight, vars, engine, fleet, history, counts, Admitted, Pulled, Running
  <1>4. ASSUME NEW b \in Branches, Registered(b) PROVE Lived'
    BY <1>4 DEF TypeOK, Modes, Lived, Fresh, Hosts, Live, InFlight, vars, engine, fleet, history, counts, Registered, Running
  <1>5. ASSUME NEW b \in Branches, Connected(b) PROVE Lived'
    BY <1>5 DEF TypeOK, Modes, Lived, Fresh, Hosts, Live, InFlight, vars, engine, fleet, history, counts, Connected, Running
  <1>6. ASSUME NEW b \in Branches, StartFailed(b) PROVE Lived'
    BY <1>6 DEF TypeOK, Modes, Lived, Fresh, Hosts, Live, InFlight, vars, engine, fleet, history, counts, StartFailed, Running
  <1>7. ASSUME NEW b \in Branches, CreateThrew(b) PROVE Lived'
    BY <1>7 DEF TypeOK, Modes, Lived, Fresh, Hosts, Live, InFlight, CreateThrew, Running, Torn, InTurn
  <1>8. ASSUME NEW b \in Branches, Prompted(b) PROVE Lived'
    BY <1>8 DEF TypeOK, Modes, Lived, Fresh, Hosts, Live, InFlight, vars, engine, fleet, history, counts, Prompted, Running
  <1>9. ASSUME NEW b \in Branches, NotPrompted(b) PROVE Lived'
    BY <1>9 DEF TypeOK, Modes, Lived, Fresh, Hosts, Live, InFlight, vars, engine, fleet, history, counts, NotPrompted, Running, Void
  <1>10. ASSUME NEW b \in Branches, TimedOut(b) PROVE Lived'
    BY <1>10 DEF TypeOK, Modes, Lived, Fresh, Hosts, Live, InFlight, vars, engine, fleet, history, counts, TimedOut, Running, Expires
  <1>11. ASSUME NEW b \in Branches, TurnEnded(b) PROVE Lived'
    BY <1>11 DEF TypeOK, Modes, Lived, Fresh, Hosts, Live, InFlight, vars, engine, fleet, history, counts, TurnEnded, Running, InTurn
  <1>12. ASSUME NEW b \in Branches, HostDied(b) PROVE Lived'
    BY <1>12 DEF TypeOK, Modes, Lived, Fresh, Hosts, Live, InFlight, vars, engine, fleet, history, counts, HostDied, Running, Heard, NotHeard
  <1>13. ASSUME NEW b \in Branches, Kill(b) PROVE Lived'
    BY <1>13 DEF TypeOK, Modes, Lived, Fresh, Hosts, Live, InFlight, vars, engine, fleet, history, counts, Kill, Running, Heard, NotHeard
  <1>14. ASSUME NEW b \in Branches, TurnEndedAlone(b) PROVE Lived'
    BY <1>14 DEF TypeOK, Modes, Lived, Fresh, Hosts, Live, InFlight, vars, engine, fleet, history, counts, TurnEndedAlone, Running
  <1>15. CASE Join
    BY <1>15 DEF TypeOK, Modes, Lived, Fresh, Hosts, Live, InFlight, vars, engine, fleet, history, counts, Join, Running
  <1>16. CASE Boot
    <2>1. Fresh'
      <3> SUFFICES ASSUME NEW b \in Branches, phase' = "fan",
                          at'[b] \in {"todo", "creating", "starting"}
                   PROVE  roster'[b] = "gone" /\ host'[b] = "down"
        BY DEF Fresh
      <3>1. disk.node = "fork" /\ disk.out[b] \notin Resolved
        BY <1>16 DEF Boot, Place
      <3>2. b \notin Kept
        BY <3>1 DEF Kept, Unresolved
      <3> QED
        BY <1>16, <3>2 DEF Boot
    <2>2. (up => /\ Hosts \subseteq Live \cup InFlight
                 /\ \A b \in Branches : at[b] = "turn" /\ host[b] # "down" => b \in Live)'
      BY <1>16 DEF TypeOK, Hosts, Live, InFlight, Boot, Place, Kept
    <2> QED
      BY <2>1, <2>2 DEF Lived
  <1>17. CASE Save
    BY <1>17 DEF TypeOK, Modes, Lived, Fresh, Hosts, Live, InFlight, vars, engine, fleet, history, counts, Save, Running
  <1>18. CASE Crash
    BY <1>18 DEF TypeOK, Modes, Lived, Fresh, Hosts, Live, InFlight, vars, engine, fleet, history, counts, Crash
  <1>19. CASE UNCHANGED vars
    BY <1>19 DEF TypeOK, Modes, Lived, Fresh, Hosts, Live, InFlight, vars, engine, fleet, history, counts
  <1>20. QED
    BY <1>1, <1>2, <1>3, <1>4, <1>5, <1>6, <1>7, <1>8, <1>9, <1>10, <1>11, <1>12, <1>13, <1>14, <1>15, <1>16, <1>17, <1>18, <1>19, NextCases, Zenon

(* Only an admission makes the fleet busier, and only with its own branch.  *)
LEMMA BusyGrowth ==
    ASSUME TypeOK, Modes, Lived, [Next]_vars
    PROVE  \/ Busy' \subseteq Busy
           \/ \E b \in Branches : Admitted(b)
  <1>1. ASSUME NEW b \in Branches, Exhausted(b) PROVE Busy' \subseteq Busy
    BY <1>1 DEF TypeOK, Modes, Lived, Fresh, Busy, Hosts, Live, InFlight, vars, engine, fleet, history, counts, Exhausted, Pulled, Running
  <1>2. ASSUME NEW b \in Branches, Refused(b) PROVE Busy' \subseteq Busy
    BY <1>2 DEF TypeOK, Modes, Lived, Fresh, Busy, Hosts, Live, InFlight, vars, engine, fleet, history, counts, Refused, Pulled, Running
  <1>3. ASSUME NEW b \in Branches, Registered(b) PROVE Busy' \subseteq Busy
    BY <1>3 DEF TypeOK, Modes, Lived, Fresh, Busy, Hosts, Live, InFlight, vars, engine, fleet, history, counts, Registered, Running
  <1>4. ASSUME NEW b \in Branches, Connected(b) PROVE Busy' \subseteq Busy
    BY <1>4 DEF TypeOK, Modes, Lived, Fresh, Busy, Hosts, Live, InFlight, vars, engine, fleet, history, counts, Connected, Running
  <1>5. ASSUME NEW b \in Branches, StartFailed(b) PROVE Busy' \subseteq Busy
    BY <1>5 DEF TypeOK, Modes, Lived, Fresh, Busy, Hosts, Live, InFlight, vars, engine, fleet, history, counts, StartFailed, Running
  <1>6. ASSUME NEW b \in Branches, CreateThrew(b) PROVE Busy' \subseteq Busy
    BY <1>6 DEF TypeOK, Modes, Lived, Fresh, Busy, Hosts, Live, InFlight, vars, engine, fleet, history, counts, CreateThrew, Running, Torn, InTurn
  <1>7. ASSUME NEW b \in Branches, Prompted(b) PROVE Busy' \subseteq Busy
    BY <1>7 DEF TypeOK, Modes, Lived, Fresh, Busy, Hosts, Live, InFlight, vars, engine, fleet, history, counts, Prompted, Running
  <1>8. ASSUME NEW b \in Branches, NotPrompted(b) PROVE Busy' \subseteq Busy
    BY <1>8 DEF TypeOK, Modes, Lived, Fresh, Busy, Hosts, Live, InFlight, vars, engine, fleet, history, counts, NotPrompted, Running, Void
  <1>9. ASSUME NEW b \in Branches, TimedOut(b) PROVE Busy' \subseteq Busy
    BY <1>9 DEF TypeOK, Modes, Lived, Fresh, Busy, Hosts, Live, InFlight, vars, engine, fleet, history, counts, TimedOut, Running, Expires
  <1>10. ASSUME NEW b \in Branches, TurnEnded(b) PROVE Busy' \subseteq Busy
    BY <1>10 DEF TypeOK, Modes, Lived, Fresh, Busy, Hosts, Live, InFlight, vars, engine, fleet, history, counts, TurnEnded, Running, InTurn
  <1>11. ASSUME NEW b \in Branches, HostDied(b) PROVE Busy' \subseteq Busy
    BY <1>11 DEF TypeOK, Modes, Lived, Fresh, Busy, Hosts, Live, InFlight, vars, engine, fleet, history, counts, HostDied, Running, Heard, NotHeard
  <1>12. ASSUME NEW b \in Branches, Kill(b) PROVE Busy' \subseteq Busy
    BY <1>12 DEF TypeOK, Modes, Lived, Fresh, Busy, Hosts, Live, InFlight, vars, engine, fleet, history, counts, Kill, Running, Heard, NotHeard
  <1>13. ASSUME NEW b \in Branches, TurnEndedAlone(b) PROVE Busy' \subseteq Busy
    BY <1>13 DEF TypeOK, Modes, Lived, Fresh, Busy, Hosts, Live, InFlight, vars, engine, fleet, history, counts, TurnEndedAlone, Running
  <1>14. ASSUME Join PROVE Busy' \subseteq Busy
    BY <1>14 DEF TypeOK, Modes, Lived, Fresh, Busy, Hosts, Live, InFlight, vars, engine, fleet, history, counts, Join, Running
  <1>15. ASSUME Boot PROVE Busy' \subseteq Busy
    BY <1>15 DEF TypeOK, Modes, Lived, Fresh, Busy, Hosts, Live, InFlight, vars, engine, fleet, history, counts, Boot, Place, Kept
  <1>16. ASSUME Save PROVE Busy' \subseteq Busy
    BY <1>16 DEF TypeOK, Modes, Lived, Fresh, Busy, Hosts, Live, InFlight, vars, engine, fleet, history, counts, Save, Running
  <1>17. ASSUME Crash PROVE Busy' \subseteq Busy
    BY <1>17 DEF TypeOK, Modes, Lived, Fresh, Busy, Hosts, Live, InFlight, vars, engine, fleet, history, counts, Crash
  <1>18. ASSUME UNCHANGED vars PROVE Busy' \subseteq Busy
    BY <1>18 DEF TypeOK, Modes, Lived, Fresh, Busy, Hosts, Live, InFlight, vars, engine, fleet, history, counts
  <1>19. QED
    BY <1>1, <1>2, <1>3, <1>4, <1>5, <1>6, <1>7, <1>8, <1>9, <1>10, <1>11, <1>12, <1>13, <1>14, <1>15, <1>16, <1>17, <1>18, NextCases, Zenon

(* The bound on what is busy: an admission adds one branch to fewer than    *)
(* hard live records and fewer than MaxParallel branches in flight.         *)
LEMMA CountedPreserved ==
    ASSUME TypeOK, Modes, Counted, [Next]_vars
    PROVE  Counted'
  <1>1. Lived'
    BY LivedPreserved DEF Counted
  <1>2. cfg' = cfg
    BY NextCases DEF vars, engine, fleet, history, counts, Exhausted, Refused, Admitted,
          Registered, Connected, StartFailed, CreateThrew, Prompted, NotPrompted, TimedOut,
          TurnEnded, HostDied, Kill, TurnEndedAlone, Join, Boot, Save, Crash
  <1>3. Busy \in SUBSET Branches /\ Busy' \in SUBSET Branches
    BY DEF Busy, Live, InFlight, Hosts
  <1>4. CASE Busy' \subseteq Busy
    <2>1. Cardinality(Busy') <= Cardinality(Busy)
      BY <1>3, <1>4, NoGrowth
    <2>2. Cardinality(Busy) \in Nat /\ Cardinality(Busy') \in Nat
      BY <1>3, BranchesFinite
    <2>3. cfg.hard \in Nat /\ MaxParallel \in Nat
      BY SettingsAssumption, ParallelAssumption DEF TypeOK, Setting
    <2>4. QED
      BY <1>1, <1>2, <2>1, <2>2, <2>3 DEF Counted, Slack
  <1>5. CASE \E b \in Branches : Admitted(b)
    <2>1. PICK b \in Branches : Admitted(b)
      BY <1>5
    <2>2. Busy' = (Live \cup InFlight) \cup {b}
      BY <2>1 DEF TypeOK, Counted, Lived, Fresh, Busy, Hosts, Live, InFlight, Admitted, Pulled, Running, fleet
    <2>3. Cardinality(Live) < cfg.hard /\ Cardinality(InFlight) < MaxParallel
      BY <2>1 DEF Admitted, Admits, Pulled
    <2>4. Live \in SUBSET Branches /\ InFlight \in SUBSET Branches
      BY DEF Live, InFlight
    <2>5. cfg.hard \in Nat /\ MaxParallel \in Nat
      BY SettingsAssumption, ParallelAssumption DEF TypeOK, Setting
    <2>6. Cardinality((Live \cup InFlight) \cup {b}) <= cfg.hard + MaxParallel - 1
      BY <2>3, <2>4, <2>5, OneMore
    <2>7. QED
      BY <1>1, <1>2, <2>2, <2>6 DEF Counted, Slack
  <1>6. QED
    BY <1>4, <1>5, BusyGrowth DEF Counted

-----------------------------------------------------------------------------
LEMMA InitIInv == Init => IInv
  <1> SUFFICES ASSUME Init PROVE IInv
    OBVIOUS
  <1>1. TypeOK
    <2>1. Untried \in [Branches -> Dispositions]
      BY DEF Untried, Dispositions
    <2>2. /\ mem \in [node : {"fork"} \cup Resolved, out : [Branches -> Dispositions]]
          /\ disk \in [node : {"fork"} \cup Resolved, out : [Branches -> Dispositions], listed : SUBSET Branches]
      BY <2>1 DEF Init, State
    <2>3. at \in [Branches -> Steps]
      BY DEF Init, Place, Steps
    <2>4. /\ out \in [Branches -> Dispositions]
          /\ res \in [Branches -> {"none"} \cup Resolved]
          /\ roster \in [Branches -> {"gone", "starting", "idle", "working", "stopped"}]
          /\ host \in [Branches -> {"down", "up", "working"}]
      BY <2>1 DEF Init
    <2>5. crashes \in 0 .. MaxCrashes /\ faults \in 0 .. MaxFaults
      BY BoundsAssumption DEF Init
    <2>6. /\ cfg \in Settings /\ phase \in {"fan", "joined", "dead"}
          /\ aborted \in BOOLEAN /\ up \in BOOLEAN
          /\ ended \subseteq Branches /\ late \subseteq Branches
      BY DEF Init
    <2>7. QED
      BY <2>2, <2>3, <2>4, <2>5, <2>6 DEF TypeOK
  <1>2. Modes /\ Open /\ Earned
    BY DEF Init, Modes, Open, Unfinished, Earned, InFlight, Untried, State, Place, Won, Resolved
  <1>7. JoinHonest
    BY DEF Init, JoinHonest, State
  <1>8. AbortReachesAll /\ Attended
    BY DEF Init, AbortReachesAll, InTurn, Attended
  <1>3. Lived
    BY DEF Init, Lived, Fresh, Hosts, Live, InFlight, Place
  <1>4. Busy = {}
    BY DEF Init, Busy, Hosts, Live, InFlight, Place
  <1>5. Cardinality(Busy) <= Slack
    <2>1. Cardinality(Busy) = 0
      BY <1>4, FS_EmptySet
    <2>2. cfg.hard \in Nat \ {0} /\ MaxParallel \in Nat \ {0}
      BY <1>1, SettingsAssumption, ParallelAssumption DEF TypeOK, Setting
    <2>3. QED
      BY <2>1, <2>2 DEF Slack
  <1>6. QED
    BY <1>1, <1>2, <1>3, <1>5, <1>7, <1>8 DEF IInv, Counted

LEMMA StepIInv == IInv /\ [Next]_vars => IInv'
  BY TypePreserved, ModesPreserved, OpenPreserved, EarnedPreserved, HonestPreserved,
     AbortPreserved, AttendedPreserved, CountedPreserved DEF IInv

LEMMA Inductive == Spec => []IInv
  BY InitIInv, StepIInv, PTL DEF Spec

(* Every state is well typed, over any number of crashes and faults. *)
THEOREM Typed == Spec => []TypeOK
  <1>1. IInv => TypeOK
    BY DEF IInv
  <1>2. QED
    BY Inductive, <1>1, PTL

(* What the last save calls resolved is not being run, however often the    *)
(* daemon was restarted.                                                    *)
THEOREM ResolvedIsNotRun == Spec => []ResolvedNotRerun
  <1>1. IInv => ResolvedNotRerun
    BY DEF IInv, Open, Unfinished, ResolvedNotRerun, InFlight
  <1>2. QED
    BY Inductive, <1>1, PTL

(* A spawn never finds a record under its branch's id, nor a host: the boot *)
(* has stopped what the pass will run again.                                *)
THEOREM SpawnsFresh == Spec => []Fresh
  <1>1. IInv => Fresh
    BY DEF IInv, Counted, Lived
  <1>2. QED
    BY Inductive, <1>1, PTL

(* A join that reports success stands on turns that ended. *)
THEOREM JoinIsHonest == Spec => []JoinHonest
  <1>1. IInv => JoinHonest
    BY DEF IInv
  <1>2. QED
    BY Inductive, <1>1, PTL

(* While the daemon runs, an agent that obeys its stop works only where a    *)
(* branch waits for it or gave up waiting after its thirty minutes.         *)
THEOREM NobodyDetached == Spec => []NoneDetached
  <1>1. IInv => NoneDetached
    BY DEF IInv, Attended, NoneDetached
  <1>2. QED
    BY Inductive, <1>1, PTL

(* After the abort no branch is in its turn. *)
THEOREM AbortReaches == Spec => []AbortReachesAll
  <1>1. IInv => AbortReachesAll
    BY DEF IInv
  <1>2. QED
    BY Inductive, <1>1, PTL

(* The fan-out passes the ceiling by its parallelism less one at most.      *)
THEOREM CeilingSlack == Spec => []WithinSlack
  <1>1. IInv => WithinSlack
    <2> SUFFICES ASSUME IInv PROVE Cardinality(Live \cup InFlight) <= cfg.hard + MaxParallel - 1
      BY DEF WithinSlack
    <2>1. /\ Busy \in SUBSET Branches /\ Live \cup InFlight \in SUBSET Branches
          /\ Live \cup InFlight \subseteq Busy
      BY DEF Busy, Hosts, Live, InFlight
    <2>2. Cardinality(Live \cup InFlight) <= Cardinality(Busy)
      BY <2>1, NoGrowth
    <2>3. Cardinality(Live \cup InFlight) \in Nat /\ Cardinality(Busy) \in Nat
      BY <2>1, BranchesFinite
    <2>4. cfg.hard \in Nat /\ MaxParallel \in Nat
      BY SettingsAssumption, ParallelAssumption DEF IInv, TypeOK, Setting
    <2>5. QED
      BY <2>2, <2>3, <2>4 DEF IInv, Counted, Slack
  <1>2. QED
    BY Inductive, <1>1, PTL
=============================================================================
