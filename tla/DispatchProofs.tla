--------------------------- MODULE DispatchProofs ---------------------------
(***************************************************************************)
(* Proofs about Dispatch, for any issues, caps and deployments: the        *)
(* inductive invariant IInv and what follows from it.                      *)
(***************************************************************************)
EXTENDS Dispatch, FiniteSetTheorems, TLAPS

(* With the daemon down nothing of its memory is left. *)
Down ==
    ~up => /\ tick.pc = "off" /\ ~race.on
           /\ queue = <<>>
           /\ Roster = {}
           /\ \A c \in Callers : creating[c].st = "none"

(* Who asks for what: only the drain creates for others, and the create of  *)
(* the tick is the one its tick waits for.                                  *)
Called ==
    /\ \A c \in Callers \ {"drain"} : creating[c].st # "none" => creating[c].by = c
    /\ creating["tick"].st # "none" => tick.pc = "spawn"

(* A create past its record has one of its own. *)
Building ==
    /\ \A c \in Callers : creating[c].st = "start" => status[creating[c].agent] = "starting"
    /\ \A c, d \in Callers : /\ creating[c].st = "start" /\ creating[d].st = "start"
                             /\ creating[c].agent = creating[d].agent
                             => c = d

(* A request, admitted or parked, that may still become an agent. *)
Asks(c, o, i)  == /\ creating[c].st \in {"prime", "build"}
                  /\ creating[c].by = o /\ creating[c].issue = i
Waits(n, o, i) == queue[n].by = o /\ queue[n].issue = i
Has(a, o, i)   == a \in Roster /\ what[a].by = o /\ what[a].issue = i

(* No two requests of the tick, or of a race, are for the same issue. *)
OneRequest ==
    \A i \in Issues : \A o \in {"tick", "race"} :
        /\ \A c, d \in Callers : Asks(c, o, i) /\ Asks(d, o, i) => c = d
        /\ \A m, n \in 1 .. Len(queue) : Waits(m, o, i) /\ Waits(n, o, i) => m = n
        /\ \A c \in Callers, n \in 1 .. Len(queue) : ~(Asks(c, o, i) /\ Waits(n, o, i))

(* None is for an issue that has what it asks for. *)
NoneTwice ==
    \A i \in Issues, a \in Agents : Has(a, "tick", i) =>
        /\ \A c \in Callers : ~Asks(c, "tick", i)
        /\ \A n \in 1 .. Len(queue) : ~Waits(n, "tick", i)

(* What the tick asked for it has claimed, what it halts at nobody has. *)
Claimed ==
    /\ \A i \in Issues, c \in Callers : Asks(c, "tick", i) => i \in dispatched
    /\ \A i \in Issues, n \in 1 .. Len(queue) : Waits(n, "tick", i) => i \in dispatched
    /\ tick.pc = "guard" => tick.at \notin tick.claimed \cup dispatched
    /\ tick.pc # "off" => \A i \in Issues, a \in Agents :
                             Has(a, "tick", i) => i \in tick.claimed \cup dispatched

(* The snapshot never lists two agents the tick asked for, for an issue. *)
SavedOnce ==
    \A a, b \in Listings :
        what[a].by = "tick" /\ what[b].by = "tick" /\ what[a].issue = what[b].issue => a = b

(* The original of a race under way is on the roster, failed; the stamp     *)
(* comes before the sibling is asked for.                                   *)
Racing ==
    /\ race.on => /\ race.orig \in terminal \cap Roster
                  /\ status[race.orig] # "starting"
    /\ race.on /\ creating["race"].st = "none" => raced[what[race.orig].issue].state = "none"
    /\ creating["race"].st # "none" =>
           /\ race.on
           /\ creating["race"].issue = what[race.orig].issue
           /\ raced[creating["race"].issue].state = "pending"

(* The stamp of an issue comes first, and names an agent for it; marked as  *)
(* failed, that one has ended.  (A crash may lose the mark.)                *)
Stamped(i) == /\ raced[i].state # "none"
              /\ raced[i].orig \in terminal \cap Roster
Halted(i) == raced[i].state # "none" =>
    /\ what[raced[i].orig].issue = i
    /\ raced[i].orig \in terminal => status[raced[i].orig] \notin {"starting", "live"}
Awaited(i) ==
    /\ \A c \in Callers : Asks(c, "race", i) => Stamped(i) /\ siblings[i] = 0
    /\ \A n \in 1 .. Len(queue) : Waits(n, "race", i) => Stamped(i) /\ siblings[i] = 0
Stamps == \A i \in Issues : /\ siblings[i] <= 1
                            /\ siblings[i] > 0 => raced[i].state # "none"
                            /\ Halted(i) /\ Awaited(i)

(* The original of a sibling is on the roster with its mark, and likewise   *)
(* in the snapshot.                                                         *)
SiblingMarked ==
    \A b \in Roster : what[b].by = "race" =>
        LET r == raced[what[b].issue]
        IN  r.state # "none" /\ r.orig \in terminal \cap Roster

SavedParked ==
    \A b \in Listings : what[b].by = "race" =>
        LET r == raced[what[b].issue] IN r.state # "none" /\ r.orig \in Inert

(* The tick's create past its record has given the issue an agent. *)
Given ==
    /\ LedgerEarned
    /\ creating["tick"].st \in {"start", "save"} => creating["tick"].issue \in given

IInv == /\ TypeOK /\ Down /\ Called /\ Building
        /\ OneRequest /\ NoneTwice /\ Claimed /\ OneByDispatch /\ SavedOnce
        /\ Racing /\ Stamps /\ SiblingMarked /\ SavedParked /\ Given

-----------------------------------------------------------------------------
(* The idle values are of their types. *)
LEMMA Defaults == AnIssue \in Issues /\ AnAgent \in Agents
  BY IssuesAssumption, PoolAssumption DEF AnIssue, AnAgent, Agents

(* The scan of the tick ends it, or halts it at an issue that nobody has. *)
LEMMA ResumedFacts ==
    ASSUME tick \in Tick, NEW todo \in SUBSET Issues, NEW seen, NEW budget \in Int,
           Resumed(todo, seen, budget)
    PROVE  /\ tick' \in Tick
           /\ \/ tick'.pc = "off"
              \/ /\ tick'.pc = "guard"
                 /\ tick'.claimed = tick.claimed
                 /\ tick'.at \notin tick.claimed \cup seen
  <1>1. CASE tick' = Off
    BY <1>1, Defaults DEF Off, Tick
  <1>2. CASE \E i \in Candidates(todo, seen) :
                tick' = [tick EXCEPT !.pc = "guard", !.at = i,
                                     !.todo = todo \ {i}, !.budget = budget]
    BY ZenonT(60), <1>2 DEF Candidates, Tick
  <1>3. QED
    BY <1>1, <1>2 DEF Resumed

(* A step is one of the actions. *)
LEMMA NextCases ==
    ASSUME Next
    PROVE  \/ TickStarts \/ Listed \/ ListFails \/ FoundDone \/ Claims
           \/ Parked \/ Drains \/ Persists \/ Crash \/ Boot
           \/ \E i \in Issues : Released(i) \/ StartTask(i)
           \/ \E c \in Callers : Refused(c) \/ Parks(c) \/ Admitted(c) \/ BuildFails(c)
           \/ \E c \in Callers : Registered(c) \/ Started(c) \/ StartFails(c) \/ Resolves(c)
           \/ \E a \in Agents : TurnEnds(a) \/ RunFails(a) \/ Lands(a) \/ HostDies(a) \/ Lingers(a)
  BY Zenon DEF Next, Polls, Steps, Runs

(* The fleet under the cap can be counted. *)
LEMMA OccupyingCounted == Cardinality(Occupying) \in Nat
  <1>1. IsFiniteSet(Agents)
    BY PoolAssumption, FS_Interval DEF Agents
  <1>2. IsFiniteSet(Occupying)
    BY <1>1, FS_Subset DEF Occupying
  <1>3. QED
    BY <1>2, FS_CardinalityType

(* A create that enters its record in the roster. *)
LEMMA BuiltTyped ==
    ASSUME creating \in [Callers -> Create], NEW c \in Callers, NEW a \in Agents
    PROVE  [creating EXCEPT ![c].st = "start", ![c].agent = a] \in [Callers -> Create]
  <1> DEFINE f == [creating EXCEPT ![c].st = "start"]
  <1>1. f \in [Callers -> Create]
    BY DEF Create
  <1>2. [f EXCEPT ![c].agent = a] \in [Callers -> Create]
    <2> HIDE DEF f
    <2> QED
      BY <1>1 DEF Create
  <1>3. QED
    BY <1>2

(* The head of a queue is one of its requests, its tail a queue. *)
LEMMA QueueOps ==
    ASSUME NEW S, NEW q \in Seq(S), q # <<>>
    PROVE  Head(q) \in S /\ Tail(q) \in Seq(S)
  OBVIOUS

(* What a create() that returns leaves behind. *)
LEMMA ReturnsTyped ==
    ASSUME TypeOK, NEW c \in Callers, NEW ok \in BOOLEAN, Returns(c, ok)
    PROVE  /\ creating' \in [Callers -> Create]
           /\ tick' \in Tick
           /\ ledger' \subseteq Issues
           /\ race' \in Race
           /\ raced' \in [Issues -> Stamp]
           /\ status' \in [Agents -> {"gone", "starting", "live", "stopped", "error"}]
  <1>1. creating[c].issue \in Issues /\ NoCall \in Create
    BY Defaults DEF TypeOK, Create, NoCall, Origins
  <1>2. creating' \in [Callers -> Create]
    BY <1>1 DEF TypeOK, Returns
  <1>3. tick' \in Tick /\ ledger' \subseteq Issues
    <2>1. tick.todo \in SUBSET Issues /\ tick.budget \in Int /\ tick \in Tick
      BY DEF TypeOK, Tick
    <2>2. CASE c = "tick"
      <3>1. Resumed(tick.todo, dispatched \cup ledger',
                    IF ok THEN tick.budget - 1 ELSE tick.budget)
        BY <2>2 DEF Returns
      <3>2. ledger' \subseteq Issues
        BY <1>1, <2>2 DEF TypeOK, Returns
      <3>3. (IF ok THEN tick.budget - 1 ELSE tick.budget) \in Int
        BY <2>1
      <3>4. QED
        BY <2>1, <3>1, <3>2, <3>3, ResumedFacts
    <2>3. CASE c # "tick"
      BY <2>1, <2>3 DEF TypeOK, Returns
    <2>4. QED
      BY <2>2, <2>3
  <1>4. NoRace \in Race /\ race.orig \in Agents
    BY Defaults DEF TypeOK, Race, NoRace
  <1>5. CASE c = "race"
    <2>1. race' \in Race
      BY <1>4, <1>5 DEF TypeOK, Returns
    <2>2. status' \in [Agents -> {"gone", "starting", "live", "stopped", "error"}]
      BY <1>4, <1>5 DEF TypeOK, Returns
    <2>3. raced' \in [Issues -> Stamp]
      <3>1. raced[creating[c].issue] \in Stamp
        BY <1>1 DEF TypeOK
      <3>2. [raced[creating[c].issue] EXCEPT !.state = "spawned"] \in Stamp
        BY <3>1 DEF Stamp
      <3>3. QED
        BY <1>1, <1>5, <3>2 DEF TypeOK, Returns
    <2>4. QED
      BY <1>2, <1>3, <2>1, <2>2, <2>3
  <1>6. CASE c # "race"
    <2>1. UNCHANGED <<race, raced, status>>
      BY <1>6 DEF Returns
    <2>2. QED
      BY <1>2, <1>3, <2>1 DEF TypeOK
  <1>7. QED
    BY <1>5, <1>6

(* A boot gives every record of the roster one of the snapshot's, under its *)
(* id or a fresh one, and no record to two.                                 *)
LEMMA BootFacts ==
    ASSUME TypeOK, Boot
    PROVE  \E o \in [Agents -> Agents] :
              /\ what' = [a \in Agents |-> what[o[a]]]
              /\ \A a \in Roster' : o[a] \in Listings
              /\ \A a, b \in Roster' : o[a] = o[b] => a = b
              /\ \A a \in Listings : o[a] = a
              /\ \A i \in Issues : what'[raced[i].orig] = what[raced[i].orig]
              /\ \A a \in Inert : status'[a] \notin {"starting", "live"}
              /\ \A a \in Agents : status'[a] # "starting"
              /\ Inert \subseteq Roster' /\ terminal' = Inert
              /\ \/ saved' = saved
                 \/ Listings' = Roster' /\ saved'.terminal = Inert
  <1> DEFINE fresh(W) == {a \in Agents \ W : /\ saved.rec[a] = "none"
                                             /\ \A i \in Issues : raced[i].orig # a}
             new(D, W) == CHOOSE f \in [D -> fresh(W)] : \A a, b \in D : f[a] = f[b] => a = b
             ids(D, W) == {new(D, W)[a] : a \in D}
             old(D, W, a) == CHOOSE b \in D : new(D, W)[b] = a
  <1>1. PICK D \in SUBSET Adoptable, W \in SUBSET {a \in Agents \ Attached : host[a] # "dead"} :
            /\ new(D, W) \in [D -> fresh(W)] /\ \A a, b \in D : new(D, W)[a] = new(D, W)[b] => a = b
            /\ what' = [a \in Agents |-> IF a \in ids(D, W) THEN what[old(D, W, a)] ELSE what[a]]
            /\ status' = [a \in Agents |->
                 IF a \in Attached \cup ids(D, W) THEN "live"
                 ELSE IF a \in Inert THEN IF Silenced(a) THEN "stopped" ELSE "error"
                 ELSE "gone"]
            /\ saved' = IF D = {} THEN saved
                        ELSE [rec |-> [a \in Agents |->
                                          IF status'[a] = "gone" THEN "none" ELSE "begun"],
                              terminal |-> Inert]
    BY ZenonT(150) DEF Boot
  <1> HIDE DEF new
  <1>2. D \subseteq Listings /\ D \cap (Inert \cup Attached) = {}
    BY DEF Adoptable
  <1>3. Inert \subseteq Listings /\ Attached \subseteq Listings /\ Listings \subseteq Agents
    BY DEF Inert, Attached, Listings
  <1>4. ids(D, W) \subseteq fresh(W) /\ ids(D, W) \cap Listings = {}
    BY <1>1 DEF Listings
  <1>5. \A a \in ids(D, W) : old(D, W, a) \in D /\ new(D, W)[old(D, W, a)] = a
    BY <1>1
  <1> HIDE DEF old
  <1> DEFINE o == [a \in Agents |-> IF a \in ids(D, W) THEN old(D, W, a) ELSE a]
  <1>6. o \in [Agents -> Agents] /\ what' = [a \in Agents |-> what[o[a]]]
    BY <1>1, <1>2, <1>3, <1>5
  <1>7. Roster' \subseteq Attached \cup Inert \cup ids(D, W)
    BY <1>1 DEF Roster
  <1>8. \A a \in Listings : o[a] = a
    BY <1>3, <1>4
  <1>9. \A a \in Roster' : \/ a \in ids(D, W) /\ o[a] \in D /\ new(D, W)[o[a]] = a
                           \/ a \in Attached \cup Inert /\ o[a] = a
    <2> HIDE DEF ids
    <2>1. \A a \in Attached \cup Inert : o[a] = a
      BY <1>3, <1>8
    <2>2. Roster' \subseteq Agents
      BY DEF Roster
    <2>3. QED
      BY <1>5, <1>7, <2>1, <2>2
  <1>10. \A a \in Roster' : o[a] \in Listings
    BY <1>2, <1>3, <1>9
  <1>11. \A a, b \in Roster' : o[a] = o[b] => a = b
    BY <1>2, <1>9
  <1>12. /\ \A i \in Issues : what'[raced[i].orig] = what[raced[i].orig]
         /\ \A a \in Inert : status'[a] \notin {"starting", "live"}
    <2>1. \A i \in Issues : raced[i].orig \in Agents /\ raced[i].orig \notin ids(D, W)
      BY <1>4 DEF TypeOK, Stamp
    <2>2. \A a \in Inert : a \in Agents /\ a \notin Attached \cup ids(D, W)
      BY <1>3, <1>4 DEF Attached
    <2>3. QED
      BY <1>1, <2>1, <2>2
  <1>13. \A a \in Agents : status'[a] # "starting"
    BY <1>1
  <1>14. Inert \subseteq Roster' /\ terminal' = Inert
    BY <1>1, <1>3 DEF Roster, Boot
  <1>15. saved' = saved \/ (Listings' = Roster' /\ saved'.terminal = Inert)
    BY <1>1 DEF Listings, Roster
  <1> HIDE DEF o
  <1>16. QED
    BY <1>6, <1>8, <1>10, <1>11, <1>12, <1>13, <1>14, <1>15

(* Every step keeps the state well typed. *)
LEMMA TypePreserved ==
    ASSUME TypeOK, [Next]_vars
    PROVE  TypeOK'
  <1>1. CASE TickStarts
    <2>1. MaxActive - Cardinality(Occupying) \in Int
      BY <1>1, OccupyingCounted, CapsAssumption DEF TypeOK, TickStarts
    <2>2. {what[a].issue : a \in Roster} \subseteq Issues
      BY <1>1 DEF TypeOK, TickStarts, Roster, Work
    <2>3. tick' \in Tick
      BY <1>1, <2>1, <2>2, Defaults DEF TypeOK, TickStarts, Off, Tick
    <2>4. QED
      BY <1>1, <2>1, <2>2, <2>3 DEF TypeOK, issueVars, records, workers, races,
         counts, TickStarts
  <1>2. CASE Listed
    <2>1. tick' \in Tick
      BY <1>2, ResumedFacts DEF TypeOK, Listed, Tick
    <2>2. QED
      BY <1>2, <2>1 DEF TypeOK, issueVars, records, workers, races,
         counts, Listed
  <1>3. CASE ListFails
    <2>1. tick' \in Tick
      BY <1>3, Defaults DEF TypeOK, ListFails, Off, Tick
    <2>2. faults' \in Nat
      BY <1>3 DEF TypeOK, ListFails, Fault
    <2>3. QED
      BY <1>3, <2>1, <2>2 DEF TypeOK, issueVars, records, workers, races,
         ListFails
  <1>4. CASE FoundDone
    <2>1. tick.at \in Issues /\ tick.todo \subseteq Issues /\ tick.budget \in Int
      BY <1>4 DEF TypeOK, FoundDone, Tick
    <2>2. tick' \in Tick
      BY <1>4, <2>1, ResumedFacts DEF TypeOK, FoundDone
    <2>3. tracker' \in [Issues -> {"held", "open", "closed"}]
      BY <1>4, <2>1 DEF TypeOK, FoundDone
    <2>4. QED
      BY <1>4, <2>1, <2>2, <2>3 DEF TypeOK, records, workers, races,
         counts, FoundDone
  <1>5. CASE Claims
    <2>1. tick.at \in Issues
      BY <1>5 DEF TypeOK, Claims, Tick
    <2>2. tick' \in Tick
      BY <1>5 DEF TypeOK, Claims, Tick
    <2>3. creating' \in [Callers -> Create]
      BY ZenonT(60), <1>5, <2>1, Defaults DEF TypeOK, Claims, NoCall, Create, Callers, Origins
    <2>4. QED
      BY <1>5, <2>1, <2>2, <2>3 DEF TypeOK, issueVars, records, workers, races,
         counts, Claims
  <1>6. ASSUME NEW a \in Agents, Lingers(a) PROVE TypeOK'
    <2>1. dirty' \subseteq trees'
      BY <1>6 DEF TypeOK, Lingers
    <2>2. QED
      BY <1>6, <2>1 DEF TypeOK, issueVars, claims, records, races, counts, Lingers
  <1>7. CASE Parked
    <2>1. race.orig \in Agents
      BY <1>7 DEF TypeOK, Parked, Race
    <2>2. what[race.orig].issue \in Issues
      BY <1>7, <2>1 DEF TypeOK, Parked, Work
    <2>3. creating' \in [Callers -> Create]
      BY <1>7, <2>2, Defaults DEF TypeOK, Parked, NoCall, Create, Callers, Origins
    <2>4. status' \in [Agents -> {"gone", "starting", "live", "stopped", "error"}]
      BY <1>7, <2>1 DEF TypeOK, Parked
    <2>5. faults' \in Nat /\ host' \in [Agents -> {"dead", "idle", "busy", "wedged"}]
      <3>1. ToldToStop(race.orig)
        BY <1>7 DEF Parked
      <3>2. PICK h \in {"dead", "wedged"} : host' = [host EXCEPT ![race.orig] = h]
        BY <3>1 DEF ToldToStop
      <3>3. faults' \in Nat
        BY <3>1 DEF TypeOK, ToldToStop, Fault
      <3>4. QED
        BY <2>1, <3>2, <3>3 DEF TypeOK
    <2>6. raced' \in [Issues -> Stamp]
      BY <1>7, <2>1 DEF TypeOK, Parked, Stamp
    <2>7. QED
      BY <1>7, <2>1, <2>2, <2>3, <2>4, <2>5, <2>6 DEF TypeOK, issueVars, claims,
         Parked
  <1>8. CASE Drains
    <2>1. Head(queue) \in [issue : Issues, by : Origins]
      BY <1>8, QueueOps DEF TypeOK, Drains
    <2>2. queue' \in Seq([issue : Issues, by : Origins])
      BY <1>8, QueueOps DEF TypeOK, Drains
    <2>3. creating' \in [Callers -> Create]
      BY <1>8, <2>1, Defaults DEF TypeOK, Drains, NoCall, Create, Callers, Origins
    <2>4. QED
      BY <1>8, <2>1, <2>2, <2>3 DEF TypeOK, issueVars, claims, records, workers,
         races, counts, Drains
  <1>9. CASE Persists
    <2>1. saved' \in [rec : [Agents -> {"none", "fresh", "begun"}], terminal : SUBSET Agents]
      BY <1>9 DEF TypeOK, Persists, Snapshot
    <2>2. QED
      BY <1>9, <2>1 DEF TypeOK, issueVars, claims, records, workers, races,
         counts, Persists
  <1>10. CASE Crash
    <2>1. tick' \in Tick /\ race' \in Race
      BY <1>10, Defaults DEF TypeOK, Crash, Off, Tick, NoRace, Race
    <2>2. creating' \in [Callers -> Create]
      BY <1>10, Defaults DEF TypeOK, Crash, NoCall, Create, Origins, Callers
    <2>3. status' \in [Agents -> {"gone", "starting", "live", "stopped", "error"}]
      BY <1>10 DEF TypeOK, Crash
    <2>4. host' \in [Agents -> {"dead", "idle", "busy", "wedged"}]
      BY <1>10 DEF TypeOK, Crash
    <2>5. queue' \in Seq([issue : Issues, by : Origins])
      BY <1>10 DEF TypeOK, Crash
    <2>6. UNCHANGED <<cfg, tracker, shipped, ledger, what, trees, dirty, saved, raced, siblings,
                    given, hands, faults>>
      BY <1>10 DEF TypeOK, Crash, issueVars
    <2>7. up' = FALSE /\ dispatched' = {} /\ terminal' = {} /\ crashes' \in Nat
      BY <1>10 DEF TypeOK, Crash
    <2>8. QED
      BY <2>1, <2>2, <2>3, <2>4, <2>5, <2>6, <2>7 DEF TypeOK
  <1>11. CASE Boot
    <2>1. saved' \in [rec : [Agents -> {"none", "fresh", "begun"}], terminal : SUBSET Agents]
      <3>1. Inert \subseteq Agents
        BY DEF Inert, Listings
      <3>2. \/ saved' = saved
            \/ saved' = [rec |-> [a \in Agents |-> IF status'[a] = "gone" THEN "none" ELSE "begun"],
                         terminal |-> Inert]
        BY <1>11 DEF Boot
      <3>3. QED
        BY <3>1, <3>2 DEF TypeOK
    <2>2. status' \in [Agents -> {"gone", "starting", "live", "stopped", "error"}]
      BY <1>11, ZenonT(60) DEF Boot
    <2>3. faults' \in Nat /\ host' \in [Agents -> {"dead", "idle", "busy", "wedged"}]
      <3>1. faults' = faults \/ faults' = faults + 1
        BY <1>11 DEF Boot, Fault
      <3>2. host' \in [Agents -> {"dead", "idle", "busy", "wedged"}]
        BY <1>11, ZenonT(60) DEF TypeOK, Boot
      <3>3. faults' \in Nat
        BY <3>1 DEF TypeOK
      <3> QED
        BY <3>2, <3>3
    <2>4. what' \in [Agents -> Work]
      <3>1. PICK o \in [Agents -> Agents] : what' = [a \in Agents |-> what[o[a]]]
        BY <1>11, BootFacts
      <3>2. QED
        BY <3>1 DEF TypeOK
    <2>5. terminal' \subseteq Agents
      BY <1>11 DEF TypeOK, Boot, Inert, Listings, Work
    <2>6. QED
      BY <1>11, <2>1, <2>2, <2>3, <2>4, <2>5 DEF TypeOK, Boot, issueVars, claims
  <1>12. ASSUME NEW i \in Issues, Released(i) PROVE TypeOK'
    <2>1. tracker' \in [Issues -> {"held", "open", "closed"}]
      BY <1>12 DEF TypeOK, Released
    <2>2. QED
      BY <1>12, <2>1 DEF TypeOK, claims, records, workers, races, counts,
         Released
  <1>13. ASSUME NEW i \in Issues, StartTask(i) PROVE TypeOK'
    <2>1. creating' \in [Callers -> Create]
      BY <1>13, Defaults DEF TypeOK, StartTask, NoCall, Create, Callers, Origins
    <2>2. QED
      BY <1>13, <2>1 DEF TypeOK, issueVars, claims, records, workers, races,
         StartTask
  <1>14. ASSUME NEW c \in Callers, Refused(c) PROVE TypeOK'
    <2>1. /\ creating' \in [Callers -> Create]
          /\ tick' \in Tick
          /\ ledger' \subseteq Issues
          /\ race' \in Race
          /\ raced' \in [Issues -> Stamp]
          /\ status' \in [Agents -> {"gone", "starting", "live", "stopped", "error"}]
      BY <1>14, ReturnsTyped DEF TypeOK, Refused
    <2>2. QED
      BY <1>14, <2>1 DEF TypeOK, issueVars, workers, counts, Refused
  <1>15. ASSUME NEW c \in Callers, Parks(c) PROVE TypeOK'
    <2>1. /\ creating' \in [Callers -> Create]
          /\ tick' \in Tick
          /\ ledger' \subseteq Issues
          /\ race' \in Race
          /\ raced' \in [Issues -> Stamp]
          /\ status' \in [Agents -> {"gone", "starting", "live", "stopped", "error"}]
      BY <1>15, ReturnsTyped DEF TypeOK, Parks
    <2>2. creating[c] \in Create
      BY <1>15 DEF TypeOK, Parks
    <2>3. queue' \in Seq([issue : Issues, by : Origins])
      BY <1>15, <2>2 DEF TypeOK, Parks, Create
    <2>4. QED
      BY <1>15, <2>1, <2>2, <2>3 DEF TypeOK, issueVars, workers, counts, Parks
  <1>16. ASSUME NEW c \in Callers, Admitted(c) PROVE TypeOK'
    <2>1. creating[c] \in Create
      BY <1>16 DEF TypeOK, Admitted
    <2>2. creating' \in [Callers -> Create]
      BY <1>16, <2>1 DEF TypeOK, Admitted, Create
    <2>3. QED
      BY <1>16, <2>1, <2>2 DEF TypeOK, issueVars, claims, records, workers, races,
         counts, Admitted
  <1>17. ASSUME NEW c \in Callers, BuildFails(c) PROVE TypeOK'
    <2>1. /\ creating' \in [Callers -> Create]
          /\ tick' \in Tick
          /\ ledger' \subseteq Issues
          /\ race' \in Race
          /\ raced' \in [Issues -> Stamp]
          /\ status' \in [Agents -> {"gone", "starting", "live", "stopped", "error"}]
      BY <1>17, ReturnsTyped DEF TypeOK, BuildFails
    <2>2. faults' \in Nat
      BY <1>17 DEF TypeOK, BuildFails, Fault
    <2>3. QED
      BY <1>17, <2>1, <2>2 DEF TypeOK, issueVars, workers, BuildFails
  <1>18. ASSUME NEW c \in Callers, Registered(c) PROVE TypeOK'
    <2>1. creating[c] \in Create
      BY <1>18 DEF TypeOK, Registered
    <2>2. PICK b \in Agents : creating' = [creating EXCEPT ![c].st = "start", ![c].agent = b]
      BY <1>18 DEF TypeOK, Registered
    <2>3. creating' \in [Callers -> Create]
      BY <2>2, BuiltTyped DEF TypeOK
    <2>4. what' \in [Agents -> Work]
      BY <1>18, <2>1 DEF TypeOK, Registered, Create, Work
    <2>5. status' \in [Agents -> {"gone", "starting", "live", "stopped", "error"}]
      BY <1>18 DEF TypeOK, Registered
    <2>6. trees' \subseteq Issues \X {"base", "race"} /\ dirty' \subseteq trees'
      BY <1>18, <2>1 DEF TypeOK, Registered, Tree, Create
    <2>7. siblings' \in [Issues -> Nat] /\ given' \subseteq Issues
      BY <1>18, <2>1 DEF TypeOK, Registered, Create
    <2>8. QED
      BY <1>18, <2>1, <2>2, <2>3, <2>4, <2>5, <2>6, <2>7 DEF TypeOK, issueVars,
         claims, counts, Registered
  <1>19. ASSUME NEW c \in Callers, Started(c) PROVE TypeOK'
    <2>1. creating[c] \in Create
      BY <1>19 DEF TypeOK, Started
    <2>2. creating' \in [Callers -> Create]
      BY <1>19, <2>1 DEF TypeOK, Started, Create
    <2>3. status' \in [Agents -> {"gone", "starting", "live", "stopped", "error"}]
      BY <1>19 DEF TypeOK, Started
    <2>4. host' \in [Agents -> {"dead", "idle", "busy", "wedged"}]
      BY <1>19 DEF TypeOK, Started
    <2>5. QED
      BY <1>19, <2>1, <2>2, <2>3, <2>4 DEF TypeOK, issueVars, claims, races,
         counts, Started
  <1>20. ASSUME NEW c \in Callers, StartFails(c) PROVE TypeOK'
    <2>1. creating[c] \in Create
      BY <1>20 DEF TypeOK, StartFails
    <2>2. creating' \in [Callers -> Create]
      BY <1>20, <2>1 DEF TypeOK, StartFails, Create
    <2>3. status' \in [Agents -> {"gone", "starting", "live", "stopped", "error"}]
      BY <1>20 DEF TypeOK, StartFails
    <2>4. trees' \subseteq Issues \X {"base", "race"} /\ dirty' \subseteq trees'
      BY <1>20 DEF TypeOK, StartFails
    <2>5. faults' \in Nat
      BY <1>20 DEF TypeOK, StartFails, Fault
    <2>6. QED
      BY <1>20, <2>1, <2>2, <2>3, <2>4, <2>5 DEF TypeOK, issueVars, claims, races,
         StartFails
  <1>21. ASSUME NEW c \in Callers, Resolves(c) PROVE TypeOK'
    <2>1. /\ creating' \in [Callers -> Create]
          /\ tick' \in Tick
          /\ ledger' \subseteq Issues
          /\ race' \in Race
          /\ raced' \in [Issues -> Stamp]
          /\ status' \in [Agents -> {"gone", "starting", "live", "stopped", "error"}]
      BY <1>21, ReturnsTyped DEF TypeOK, Resolves
    <2>2. saved' \in [rec : [Agents -> {"none", "fresh", "begun"}], terminal : SUBSET Agents]
      BY <1>21 DEF TypeOK, Resolves, Snapshot
    <2>3. QED
      BY <1>21, <2>1, <2>2 DEF TypeOK, issueVars, workers, counts, Resolves
  <1>22. ASSUME NEW a \in Agents, TurnEnds(a) PROVE TypeOK'
    <2>1. host' \in [Agents -> {"dead", "idle", "busy", "wedged"}]
      BY <1>22 DEF TypeOK, TurnEnds
    <2>2. trees' \subseteq Issues \X {"base", "race"} /\ dirty' \subseteq trees'
      BY <1>22 DEF TypeOK, TurnEnds, TreeOf, Tree
    <2>3. QED
      BY <1>22, <2>1, <2>2 DEF TypeOK, issueVars, claims, records, races,
         counts, TurnEnds
  <1>23. ASSUME NEW a \in Agents, RunFails(a) PROVE TypeOK'
    <2>1. host' \in [Agents -> {"dead", "idle", "busy", "wedged"}]
      BY <1>23 DEF TypeOK, RunFails
    <2>2. status' \in [Agents -> {"gone", "starting", "live", "stopped", "error"}]
      BY ZenonT(60), <1>23 DEF TypeOK, RunFails
    <2>3. terminal' \subseteq Agents
      BY <1>23 DEF TypeOK, RunFails, Work
    <2>4. race' = [on |-> TRUE, orig |-> a] \/ race' = race
      BY <1>23 DEF TypeOK, RunFails
    <2>5. [on |-> TRUE, orig |-> a] \in Race
      BY <1>23 DEF TypeOK, RunFails, Race
    <2>6. race' \in Race
      BY <1>23, <2>4, <2>5 DEF TypeOK, RunFails
    <2>7. QED
      BY <1>23, <2>1, <2>2, <2>3, <2>4, <2>5, <2>6 DEF TypeOK, issueVars, claims,
         counts, RunFails
  <1>24. ASSUME NEW a \in Agents, Lands(a) PROVE TypeOK'
    <2>1. what[a].issue \in Issues
      BY <1>24 DEF TypeOK, Lands, Work
    <2>2. dirty' \subseteq trees'
      BY <1>24 DEF TypeOK, Lands
    <2>3. tracker' \in [Issues -> {"held", "open", "closed"}]
      BY <1>24, <2>1 DEF TypeOK, Lands
    <2>4. QED
      BY <1>24, <2>1, <2>2, <2>3 DEF TypeOK, claims, records, races,
         counts, Lands
  <1>25. ASSUME NEW a \in Agents, HostDies(a) PROVE TypeOK'
    <2>1. host' \in [Agents -> {"dead", "idle", "busy", "wedged"}]
      BY <1>25 DEF TypeOK, HostDies
    <2>2. status' \in [Agents -> {"gone", "starting", "live", "stopped", "error"}]
      BY <1>25 DEF TypeOK, HostDies
    <2>3. faults' \in Nat
      BY <1>25 DEF TypeOK, HostDies, Fault
    <2>4. QED
      BY <1>25, <2>1, <2>2, <2>3 DEF TypeOK, issueVars, claims, races,
         HostDies
  <1>26. CASE UNCHANGED vars
    BY <1>26 DEF TypeOK, vars, issueVars, claims, records, workers, races,
       counts
  <1>27. QED
    BY <1>1, <1>2, <1>3, <1>4, <1>5, <1>6, <1>7, <1>8, <1>9, <1>10, <1>11, <1>12, <1>13,
       <1>14, <1>15, <1>16, <1>17, <1>18, <1>19, <1>20, <1>21, <1>22, <1>23, <1>24,
       <1>25, <1>26, NextCases, Zenon

(* Every create is for an issue and holds an agent's id. *)
LEMMA CreateTyped ==
    ASSUME TypeOK
    PROVE  \A c \in Callers : creating[c].agent \in Agents /\ creating[c].issue \in Issues
  BY DEF TypeOK, Create

(* A poll, and a stale issue passed over, move the tick alone. *)
LEMMA ScanFacts ==
    ASSUME TypeOK, Listed \/ FoundDone
    PROVE  \/ tick'.pc = "off"
           \/ /\ tick'.pc = "guard"
              /\ tick'.claimed = tick.claimed
              /\ tick'.at \notin tick.claimed \cup dispatched'
  <1>1. tick \in Tick /\ tick.todo \in SUBSET Issues /\ tick.budget \in Int
    BY DEF TypeOK, Tick
  <1>2. CASE Listed
    <2>1. {i \in Issues : tracker[i] = "open"} \in SUBSET Issues
      OBVIOUS
    <2>2. Resumed({i \in Issues : tracker[i] = "open"}, dispatched \cup ledger, tick.budget)
      BY <1>2 DEF Listed
    <2>3. dispatched' = dispatched
      BY <1>2 DEF Listed
    <2>4. QED
      BY <1>1, <2>1, <2>2, <2>3, ResumedFacts
  <1>3. CASE FoundDone
    <2>1. Resumed(tick.todo, dispatched' \cup ledger', tick.budget)
      BY <1>3 DEF FoundDone
    <2>2. QED
      BY <1>1, <2>1, ResumedFacts
  <1>4. QED
    BY <1>2, <1>3

(* What a create() that returns changes of what the invariant is about. *)
Returned(c) ==
    /\ creating[c].st # "none" /\ creating'[c].st = "none"
    /\ \A d \in Callers \ {c} : creating'[d] = creating[d]
    /\ Roster' = Roster
    /\ UNCHANGED <<cfg, up, shipped, dispatched, what, terminal, host, siblings, given>>
    /\ \A a \in Agents : /\ status'[a] = "starting" <=> status[a] = "starting"
                         /\ status'[a] = "live" => status[a] = "live"
    /\ \A i \in Issues : /\ raced'[i].orig = raced[i].orig
                         /\ raced'[i].state = "none" <=> raced[i].state = "none"
    /\ c = "race" => race'.on = FALSE
    /\ c # "race" => UNCHANGED <<race, raced, status>>
    /\ c # "tick" => UNCHANGED <<tick, ledger>>
    /\ c = "tick" => /\ ledger' \subseteq ledger \cup {creating[c].issue}
                     /\ \/ tick'.pc = "off"
                        \/ /\ tick'.pc = "guard"
                           /\ tick'.claimed = tick.claimed
                           /\ tick'.at \notin tick.claimed \cup dispatched

(* A return frees the caller and keeps the roster and the stamps. *)
LEMMA ReturnsFacts ==
    ASSUME TypeOK, Racing, NEW c \in Callers, creating[c].st # "none",
           NEW ok \in BOOLEAN, Returns(c, ok),
           UNCHANGED <<cfg, up, shipped, dispatched, what, terminal, host, siblings, given>>
    PROVE  Returned(c)
  <1>1. creating'[c].st = "none" /\ \A d \in Callers \ {c} : creating'[d] = creating[d]
    BY DEF TypeOK, Returns, NoCall
  <1>2. /\ c # "race" => UNCHANGED <<race, raced, status>>
        /\ c # "tick" => UNCHANGED <<tick, ledger>>
        /\ c = "race" => race'.on = FALSE
    BY DEF Returns, NoRace
  <1>3. /\ Roster' = Roster
        /\ \A a \in Agents : /\ status'[a] = "starting" <=> status[a] = "starting"
                             /\ status'[a] = "live" => status[a] = "live"
    <2>1. CASE c = "race"
      <3>1. race.orig \in Roster /\ status[race.orig] # "starting"
        BY <2>1 DEF Racing
      <3>2. status' = status \/ status' = [status EXCEPT ![race.orig] = "error"]
        BY <2>1 DEF Returns
      <3>3. QED
        BY <3>1, <3>2 DEF TypeOK, Roster
    <2>2. CASE c # "race"
      BY <1>2, <2>2 DEF Roster
    <2>3. QED
      BY <2>1, <2>2
  <1>4. \A i \in Issues : /\ raced'[i].orig = raced[i].orig
                          /\ raced'[i].state = "none" <=> raced[i].state = "none"
    <2>1. CASE c = "race"
      <3>1. raced[creating[c].issue].state = "pending"
        BY <2>1 DEF Racing
      <3>2. raced' = raced \/ raced' = [raced EXCEPT ![creating[c].issue].state = "spawned"]
        BY <2>1 DEF Returns
      <3>3. raced \in [Issues -> Stamp]
        BY DEF TypeOK
      <3>4. CASE raced' = [raced EXCEPT ![creating[c].issue].state = "spawned"]
        <4> DEFINE i == creating[c].issue
        <4>1. i \in Issues
          BY DEF TypeOK, Create
        <4>2. raced'[i].state = "spawned" /\ raced'[i].orig = raced[i].orig
          BY <3>3, <3>4, <4>1 DEF Stamp
        <4>3. \A j \in Issues \ {i} : raced'[j] = raced[j]
          BY <3>3, <3>4, <4>1
        <4>4. QED
          BY <3>1, <4>2, <4>3
      <3>5. QED
        BY <3>2, <3>4
    <2>2. CASE c # "race"
      BY <1>2, <2>2
    <2>3. QED
      BY <2>1, <2>2
  <1>5. ASSUME c = "tick"
        PROVE  /\ ledger' \subseteq ledger \cup {creating[c].issue}
               /\ \/ tick'.pc = "off"
                  \/ /\ tick'.pc = "guard"
                     /\ tick'.claimed = tick.claimed
                     /\ tick'.at \notin tick.claimed \cup dispatched
    <2>1. tick.todo \in SUBSET Issues /\ tick.budget \in Int /\ tick \in Tick
      BY DEF TypeOK, Tick
    <2>2. Resumed(tick.todo, dispatched \cup ledger',
                  IF ok THEN tick.budget - 1 ELSE tick.budget)
      BY <1>5 DEF Returns
    <2>3. (IF ok THEN tick.budget - 1 ELSE tick.budget) \in Int
      BY <2>1
    <2>4. \/ tick'.pc = "off"
          \/ /\ tick'.pc = "guard"
             /\ tick'.claimed = tick.claimed
             /\ tick'.at \notin tick.claimed \cup (dispatched \cup ledger')
      BY <2>1, <2>2, <2>3, ResumedFacts
    <2>5. QED
      BY <1>5, <2>4 DEF Returns
  <1>6. QED
    BY <1>1, <1>2, <1>3, <1>4, <1>5 DEF Returned

(* The four ways in which a create() returns. *)
LEMMA ReturnSteps ==
    ASSUME TypeOK, Racing, NEW c \in Callers,
           Refused(c) \/ Parks(c) \/ BuildFails(c) \/ Resolves(c)
    PROVE  Returned(c)
  <1>1. creating[c].st # "none"
    BY DEF Refused, Parks, BuildFails, Resolves
  <1>2. Returns(c, TRUE) \/ Returns(c, FALSE)
    BY DEF Refused, Parks, BuildFails, Resolves
  <1>3. UNCHANGED <<cfg, up, shipped, dispatched, what, terminal, host, siblings, given>>
    BY DEF Refused, Parks, BuildFails, Resolves, issueVars, workers
  <1>4. QED
    BY <1>1, <1>2, <1>3, ReturnsFacts

(* What a create() that makes its record changes. *)
Entered(c, a) ==
    /\ Unused(a) /\ a \notin Roster
    /\ creating[c].st = "build" /\ creating'[c].st = "start"
    /\ creating'[c].agent = a
    /\ creating'[c].by = creating[c].by /\ creating'[c].issue = creating[c].issue
    /\ \A d \in Callers \ {c} : creating'[d] = creating[d]
    /\ what'[a].by = creating[c].by /\ what'[a].issue = creating[c].issue
    /\ \A b \in Agents \ {a} : what'[b] = what[b]
    /\ status'[a] = "starting"
    /\ \A b \in Agents \ {a} : status'[b] = status[b]
    /\ Roster' = Roster \cup {a}
    /\ siblings' = IF creating[c].by = "race"
                   THEN [siblings EXCEPT ![creating[c].issue] = @ + 1] ELSE siblings
    /\ given' = IF creating[c].by = "tick" THEN given \cup {creating[c].issue} ELSE given
    /\ UNCHANGED <<cfg, issueVars, up, claims, queue, terminal, host, saved, race, raced>>

(* A create() enters an agent nothing refers to. *)
LEMMA RegisteredFacts ==
    ASSUME TypeOK, NEW c \in Callers, Registered(c)
    PROVE  \E a \in Agents : Entered(c, a)
  <1>1. PICK a \in Agents, k \in Kinds :
            LET w == [issue |-> creating[c].issue, by |-> creating[c].by, kind |-> k]
            IN  /\ Unused(a)
                /\ creating' = [creating EXCEPT ![c].st = "start", ![c].agent = a]
                /\ what' = [what EXCEPT ![a] = w]
                /\ status' = [status EXCEPT ![a] = "starting"]
    BY DEF Registered
  <1>2. creating[c] \in Create /\ creating \in [Callers -> Create]
    BY DEF TypeOK
  <1>3. /\ creating'[c].st = "start" /\ creating'[c].agent = a
        /\ creating'[c].by = creating[c].by /\ creating'[c].issue = creating[c].issue
        /\ \A d \in Callers \ {c} : creating'[d] = creating[d]
    BY <1>1, <1>2 DEF Create
  <1>4. /\ status'[a] = "starting"
        /\ \A b \in Agents \ {a} : status'[b] = status[b]
        /\ what'[a].by = creating[c].by /\ what'[a].issue = creating[c].issue
        /\ \A b \in Agents \ {a} : what'[b] = what[b]
    BY <1>1 DEF TypeOK
  <1>5. a \notin Roster /\ Roster' = Roster \cup {a}
    BY <1>1, <1>4 DEF Roster, Unused
  <1>6. QED
    BY <1>1, <1>3, <1>4, <1>5 DEF Entered, Registered

(* With the daemon down nothing of its memory is left. *)
LEMMA DownPreserved ==
    ASSUME TypeOK, Racing, Down, [Next]_vars
    PROVE  Down'
  <1>1. CASE TickStarts
    BY <1>1 DEF TypeOK, Down, Roster, issueVars, records, workers, races,
       counts, TickStarts, Off
  <1>2. CASE Listed
    BY <1>2, ScanFacts DEF TypeOK, Down, Roster, issueVars, records, workers, races,
       counts, Listed
  <1>3. CASE ListFails
    BY <1>3 DEF TypeOK, Down, Roster, issueVars, records, workers, races,
       ListFails, Off, Fault
  <1>4. CASE FoundDone
    BY <1>4, ScanFacts DEF TypeOK, Down, Roster, records, workers, races,
       counts, FoundDone
  <1>5. CASE Claims
    BY <1>5 DEF TypeOK, Down, Roster, issueVars, records, workers, races,
       counts, Claims, NoCall
  <1>6. ASSUME NEW a \in Agents, Lingers(a) PROVE Down'
    BY <1>6 DEF TypeOK, Down, Roster, issueVars, claims, records, races, counts,
       Lingers
  <1>7. CASE Parked
    BY <1>7 DEF TypeOK, Down, Roster, issueVars, claims, counts, Parked,
       NoCall
  <1>8. CASE Drains
    BY <1>8 DEF TypeOK, Down, Roster, issueVars, claims, records, workers, races,
       counts, Drains, NoCall
  <1>9. CASE Persists
    BY <1>9 DEF TypeOK, Down, Roster, issueVars, claims, records, workers, races,
       counts, Persists, Snapshot
  <1>10. CASE Crash
    BY <1>10 DEF TypeOK, Down, Roster, issueVars, Crash, Off, NoCall,
       NoRace
  <1>11. CASE Boot
    BY <1>11 DEF TypeOK, Down, Roster, issueVars, claims, counts, Boot
  <1>12. ASSUME NEW i \in Issues, Released(i) PROVE Down'
    BY <1>12 DEF TypeOK, Down, Roster, claims, records, workers, races,
       counts, Released
  <1>13. ASSUME NEW i \in Issues, StartTask(i) PROVE Down'
    BY <1>13 DEF TypeOK, Down, Roster, issueVars, claims, records, workers, races,
       StartTask, NoCall
  <1>14. ASSUME NEW c \in Callers, Refused(c) PROVE Down'
    <2>1. Returned(c) /\ up
      BY <1>14, ReturnSteps DEF Refused
    <2>2. QED
      BY <2>1 DEF Down, Returned
  <1>15. ASSUME NEW c \in Callers, Parks(c) PROVE Down'
    <2>1. Returned(c) /\ up
      BY <1>15, ReturnSteps DEF Parks
    <2>2. QED
      BY <2>1 DEF Down, Returned
  <1>16. ASSUME NEW c \in Callers, Admitted(c) PROVE Down'
    BY <1>16 DEF TypeOK, Down, Roster, issueVars, claims, records, workers, races,
       counts, Admitted
  <1>17. ASSUME NEW c \in Callers, BuildFails(c) PROVE Down'
    <2>1. Returned(c) /\ up
      BY <1>17, ReturnSteps DEF BuildFails
    <2>2. QED
      BY <2>1 DEF Down, Returned
  <1>18. ASSUME NEW c \in Callers, Registered(c) PROVE Down'
    <2>1. PICK a \in Agents : Entered(c, a)
      BY <1>18, RegisteredFacts
    <2>2. QED
      BY <2>1 DEF TypeOK, Down, Roster, Entered, claims
  <1>19. ASSUME NEW c \in Callers, Started(c) PROVE Down'
    BY <1>19 DEF TypeOK, Down, Roster, issueVars, claims, races, counts,
       Started
  <1>20. ASSUME NEW c \in Callers, StartFails(c) PROVE Down'
    BY <1>20 DEF TypeOK, Down, Roster, issueVars, claims, races,
       StartFails, Fault
  <1>21. ASSUME NEW c \in Callers, Resolves(c) PROVE Down'
    <2>1. Returned(c) /\ up
      BY <1>21, ReturnSteps DEF Resolves
    <2>2. QED
      BY <2>1 DEF Down, Returned
  <1>22. ASSUME NEW a \in Agents, TurnEnds(a) PROVE Down'
    BY <1>22 DEF TypeOK, Down, Roster, issueVars, claims, records, races,
       counts, TurnEnds
  <1>23. ASSUME NEW a \in Agents, RunFails(a) PROVE Down'
    BY <1>23 DEF TypeOK, Down, Roster, issueVars, claims, counts, RunFails
  <1>24. ASSUME NEW a \in Agents, Lands(a) PROVE Down'
    BY <1>24 DEF TypeOK, Down, Roster, claims, records, races, counts,
       Lands
  <1>25. ASSUME NEW a \in Agents, HostDies(a) PROVE Down'
    BY <1>25 DEF TypeOK, Down, Roster, issueVars, claims, races, HostDies,
       Fault
  <1>26. CASE UNCHANGED vars
    BY <1>26 DEF TypeOK, Down, Roster, vars, issueVars, claims, records, workers,
       races, counts
  <1>27. QED
    BY <1>1, <1>2, <1>3, <1>4, <1>5, <1>6, <1>7, <1>8, <1>9, <1>10, <1>11, <1>12, <1>13,
       <1>14, <1>15, <1>16, <1>17, <1>18, <1>19, <1>20, <1>21, <1>22, <1>23, <1>24,
       <1>25, <1>26, NextCases, Zenon

(* Nobody but the drain asks for others. *)
LEMMA CalledPreserved ==
    ASSUME TypeOK, Racing, Called, [Next]_vars
    PROVE  Called'
  <1>1. CASE TickStarts
    BY <1>1 DEF Called, Callers, issueVars, records, workers, races,
       counts, TickStarts, Off
  <1>2. CASE Listed
    BY <1>2, ScanFacts DEF Called, Callers, issueVars, records, workers, races,
       counts, Listed
  <1>3. CASE ListFails
    BY <1>3 DEF Called, Callers, issueVars, records, workers, races,
       ListFails, Off, Fault
  <1>4. CASE FoundDone
    BY <1>4, ScanFacts DEF Called, Callers, records, workers, races,
       counts, FoundDone
  <1>5. CASE Claims
    BY <1>5 DEF Called, Callers, issueVars, records, workers, races,
       counts, Claims, NoCall
  <1>6. ASSUME NEW a \in Agents, Lingers(a) PROVE Called'
    BY <1>6 DEF Called, Callers, issueVars, claims, records, races, counts, Lingers
  <1>7. CASE Parked
    BY <1>7 DEF Called, Callers, issueVars, claims, counts, Parked, NoCall
  <1>8. CASE Drains
    BY <1>8 DEF Called, Callers, issueVars, claims, records, workers, races,
       counts, Drains, NoCall
  <1>9. CASE Persists
    BY <1>9 DEF Called, Callers, issueVars, claims, records, workers, races,
       counts, Persists, Snapshot
  <1>10. CASE Crash
    BY <1>10 DEF Called, Callers, issueVars, Crash, Off, NoCall, NoRace
  <1>11. CASE Boot
    BY <1>11 DEF Called, Callers, issueVars, claims, counts, Boot
  <1>12. ASSUME NEW i \in Issues, Released(i) PROVE Called'
    BY <1>12 DEF Called, Callers, claims, records, workers, races, counts,
       Released
  <1>13. ASSUME NEW i \in Issues, StartTask(i) PROVE Called'
    BY <1>13 DEF Called, Callers, issueVars, claims, records, workers, races,
       StartTask, NoCall
  <1>14. ASSUME NEW c \in Callers, Refused(c) PROVE Called'
    <2>1. Returned(c)
      BY <1>14, ReturnSteps
    <2>2. QED
      BY <2>1 DEF Called, Callers, Returned
  <1>15. ASSUME NEW c \in Callers, Parks(c) PROVE Called'
    <2>1. Returned(c)
      BY <1>15, ReturnSteps
    <2>2. QED
      BY <2>1 DEF Called, Callers, Returned
  <1>16. ASSUME NEW c \in Callers, Admitted(c) PROVE Called'
    BY <1>16 DEF Called, Callers, issueVars, claims, records, workers, races,
       counts, Admitted
  <1>17. ASSUME NEW c \in Callers, BuildFails(c) PROVE Called'
    <2>1. Returned(c)
      BY <1>17, ReturnSteps
    <2>2. QED
      BY <2>1 DEF Called, Callers, Returned
  <1>18. ASSUME NEW c \in Callers, Registered(c) PROVE Called'
    <2>1. PICK a \in Agents : Entered(c, a)
      BY <1>18, RegisteredFacts
    <2>2. QED
      BY <2>1 DEF Called, Callers, Entered, claims
  <1>19. ASSUME NEW c \in Callers, Started(c) PROVE Called'
    BY <1>19 DEF Called, Callers, issueVars, claims, races, counts, Started
  <1>20. ASSUME NEW c \in Callers, StartFails(c) PROVE Called'
    BY <1>20 DEF Called, Callers, issueVars, claims, races, StartFails,
       Fault
  <1>21. ASSUME NEW c \in Callers, Resolves(c) PROVE Called'
    <2>1. Returned(c)
      BY <1>21, ReturnSteps
    <2>2. QED
      BY <2>1 DEF Called, Callers, Returned
  <1>22. ASSUME NEW a \in Agents, TurnEnds(a) PROVE Called'
    BY <1>22 DEF Called, Callers, issueVars, claims, records, races,
       counts, TurnEnds
  <1>23. ASSUME NEW a \in Agents, RunFails(a) PROVE Called'
    BY <1>23 DEF Called, Callers, issueVars, claims, counts, RunFails
  <1>24. ASSUME NEW a \in Agents, Lands(a) PROVE Called'
    BY <1>24 DEF Called, Callers, claims, records, races, counts, Lands
  <1>25. ASSUME NEW a \in Agents, HostDies(a) PROVE Called'
    BY <1>25 DEF Called, Callers, issueVars, claims, races, HostDies, Fault
  <1>26. CASE UNCHANGED vars
    BY <1>26 DEF Called, Callers, vars, issueVars, claims, records, workers, races,
       counts
  <1>27. QED
    BY <1>1, <1>2, <1>3, <1>4, <1>5, <1>6, <1>7, <1>8, <1>9, <1>10, <1>11, <1>12, <1>13,
       <1>14, <1>15, <1>16, <1>17, <1>18, <1>19, <1>20, <1>21, <1>22, <1>23, <1>24,
       <1>25, <1>26, NextCases, Zenon

(* A create keeps the record it made until it is started. *)
LEMMA BuildingPreserved ==
    ASSUME TypeOK, Down, Racing, Building, [Next]_vars
    PROVE  Building'
  <1>1. CASE TickStarts
    BY <1>1 DEF TypeOK, Building, Roster, Down, issueVars, records, workers, races,
       counts, TickStarts, Off
  <1>2. CASE Listed
    BY <1>2, ScanFacts DEF TypeOK, Building, Roster, Down, issueVars, records,
       workers, races, counts, Listed
  <1>3. CASE ListFails
    BY <1>3 DEF TypeOK, Building, Roster, Down, issueVars, records, workers, races,
       ListFails, Off, Fault
  <1>4. CASE FoundDone
    BY <1>4, ScanFacts DEF TypeOK, Building, Roster, Down, records, workers, races,
       counts, FoundDone
  <1>5. CASE Claims
    BY <1>5 DEF TypeOK, Building, Roster, Down, issueVars, records, workers, races,
       counts, Claims, NoCall
  <1>6. ASSUME NEW a \in Agents, Lingers(a) PROVE Building'
    BY <1>6 DEF TypeOK, Building, Roster, Down, issueVars, claims, records, races,
       counts, Lingers
  <1>7. CASE Parked
    BY <1>7 DEF TypeOK, Building, Roster, Down, issueVars, claims, counts,
       Parked, NoCall, Racing
  <1>8. CASE Drains
    BY <1>8 DEF TypeOK, Building, Roster, Down, issueVars, claims, records, workers,
       races, counts, Drains, NoCall
  <1>9. CASE Persists
    BY <1>9 DEF TypeOK, Building, Roster, Down, issueVars, claims, records, workers,
       races, counts, Persists, Snapshot
  <1>10. CASE Crash
    BY <1>10 DEF TypeOK, Building, Roster, Down, issueVars, Crash, Off,
       NoCall, NoRace
  <1>11. CASE Boot
    BY <1>11 DEF TypeOK, Building, Roster, Down, issueVars, claims, counts, Boot
  <1>12. ASSUME NEW i \in Issues, Released(i) PROVE Building'
    BY <1>12 DEF TypeOK, Building, Roster, Down, claims, records, workers, races,
       counts, Released
  <1>13. ASSUME NEW i \in Issues, StartTask(i) PROVE Building'
    BY <1>13 DEF TypeOK, Building, Roster, Down, issueVars, claims, records,
       workers, races, StartTask, NoCall
  <1>14. ASSUME NEW c \in Callers, Refused(c) PROVE Building'
    <2>1. Returned(c)
      BY <1>14, ReturnSteps
    <2>2. QED
      BY <2>1, CreateTyped DEF Building, Returned
  <1>15. ASSUME NEW c \in Callers, Parks(c) PROVE Building'
    <2>1. Returned(c)
      BY <1>15, ReturnSteps
    <2>2. QED
      BY <2>1, CreateTyped DEF Building, Returned
  <1>16. ASSUME NEW c \in Callers, Admitted(c) PROVE Building'
    BY <1>16 DEF TypeOK, Building, Roster, Down, issueVars, claims, records,
       workers, races, counts, Admitted
  <1>17. ASSUME NEW c \in Callers, BuildFails(c) PROVE Building'
    <2>1. Returned(c)
      BY <1>17, ReturnSteps
    <2>2. QED
      BY <2>1, CreateTyped DEF Building, Returned
  <1>18. ASSUME NEW c \in Callers, Registered(c) PROVE Building'
    <2>1. PICK a \in Agents : Entered(c, a)
      BY <1>18, RegisteredFacts
    <2>2. QED
      BY <2>1, CreateTyped DEF Building, Entered, claims, Roster
  <1>19. ASSUME NEW c \in Callers, Started(c) PROVE Building'
    BY <1>19 DEF TypeOK, Building, Roster, Down, issueVars, claims, races,
       counts, Started
  <1>20. ASSUME NEW c \in Callers, StartFails(c) PROVE Building'
    BY <1>20 DEF TypeOK, Building, Roster, Down, issueVars, claims, races,
       StartFails, Fault
  <1>21. ASSUME NEW c \in Callers, Resolves(c) PROVE Building'
    <2>1. Returned(c)
      BY <1>21, ReturnSteps
    <2>2. QED
      BY <2>1, CreateTyped DEF Building, Returned
  <1>22. ASSUME NEW a \in Agents, TurnEnds(a) PROVE Building'
    BY <1>22 DEF TypeOK, Building, Roster, Down, issueVars, claims, records, races,
       counts, TurnEnds
  <1>23. ASSUME NEW a \in Agents, RunFails(a) PROVE Building'
    <2>1. status' = status \/ status' = [status EXCEPT ![a] = "error"]
      BY <1>23 DEF RunFails
    <2>2. QED
      BY <1>23, <2>1 DEF TypeOK, Create, Building, RunFails
  <1>24. ASSUME NEW a \in Agents, Lands(a) PROVE Building'
    BY <1>24 DEF TypeOK, Building, Roster, Down, claims, records, races,
       counts, Lands
  <1>25. ASSUME NEW a \in Agents, HostDies(a) PROVE Building'
    BY <1>25 DEF TypeOK, Building, Roster, Down, issueVars, claims, races,
       HostDies, Fault
  <1>26. CASE UNCHANGED vars
    BY <1>26 DEF TypeOK, Building, Roster, Down, vars, issueVars, claims, records,
       workers, races, counts
  <1>27. QED
    BY <1>1, <1>2, <1>3, <1>4, <1>5, <1>6, <1>7, <1>8, <1>9, <1>10, <1>11, <1>12, <1>13,
       <1>14, <1>15, <1>16, <1>17, <1>18, <1>19, <1>20, <1>21, <1>22, <1>23, <1>24,
       <1>25, <1>26, NextCases, Zenon

(* What parking a request, or taking one up, changes. *)
Queued(c) ==
    /\ creating[c].st = "prime"
    /\ Len(queue) \in Nat /\ Len(queue') = Len(queue) + 1
    /\ \A n \in 1 .. Len(queue) : queue'[n] = queue[n]
    /\ LET n == Len(queue) + 1
       IN  queue'[n].issue = creating[c].issue /\ queue'[n].by = creating[c].by

(* A parked request goes to the end of the queue. *)
LEMMA ParksFacts ==
    ASSUME TypeOK, NEW c \in Callers, Parks(c)
    PROVE  Queued(c)
  <1> DEFINE e == [issue |-> creating[c].issue, by |-> creating[c].by]
  <1>1. queue' = Append(queue, e) /\ creating[c].st = "prime"
    BY DEF Parks
  <1>2. e \in [issue : Issues, by : Origins] /\ queue \in Seq([issue : Issues, by : Origins])
    BY DEF TypeOK, Create
  <1>3. e.issue = creating[c].issue /\ e.by = creating[c].by
    OBVIOUS
  <1> HIDE DEF e
  <1>4. /\ Len(queue) \in Nat /\ Len(queue') = Len(queue) + 1
        /\ \A n \in 1 .. Len(queue) : queue'[n] = queue[n]
        /\ queue'[Len(queue) + 1] = e
    BY <1>1, <1>2
  <1>5. QED
    BY <1>1, <1>3, <1>4 DEF Queued

Resumes(d) ==
    /\ creating[d].st = "none"
    /\ Len(queue) \in Nat /\ 1 \in 1 .. Len(queue)
    /\ creating'[d].st = "prime"
    /\ creating'[d].issue = queue[1].issue /\ creating'[d].by = queue[1].by
    /\ \A c \in Callers \ {d} : creating'[c] = creating[c]
    /\ Len(queue') \in Nat
    /\ \A n \in 1 .. Len(queue') : n + 1 \in 1 .. Len(queue) /\ queue'[n] = queue[n + 1]

(* The drain takes the first request. *)
LEMMA DrainsFacts ==
    ASSUME TypeOK, Drains
    PROVE  Resumes("drain")
  <1>1. /\ queue # <<>> /\ queue' = Tail(queue) /\ creating["drain"].st = "none"
        /\ creating' = [creating EXCEPT !["drain"] =
                            [NoCall EXCEPT !.st = "prime", !.issue = Head(queue).issue,
                                           !.by = Head(queue).by]]
    BY DEF Drains
  <1>2. queue \in Seq([issue : Issues, by : Origins]) /\ creating \in [Callers -> Create]
    BY DEF TypeOK
  <1>3. /\ 1 \in 1 .. Len(queue) /\ Head(queue) = queue[1] /\ Len(queue) \in Nat
        /\ Len(queue') \in Nat
        /\ \A n \in 1 .. Len(queue') : n + 1 \in 1 .. Len(queue) /\ queue'[n] = queue[n + 1]
    BY <1>1, <1>2
  <1>4. /\ creating'["drain"].st = "prime"
        /\ creating'["drain"].issue = Head(queue).issue
        /\ creating'["drain"].by = Head(queue).by
        /\ \A c \in Callers \ {"drain"} : creating'[c] = creating[c]
    BY <1>1, <1>2 DEF NoCall, Callers
  <1>5. QED
    BY <1>1, <1>3, <1>4 DEF Resumes

(* No two requests for an issue. *)
LEMMA OneRequestPreserved ==
    ASSUME TypeOK, Called, Claimed, Racing, Stamps, OneRequest, [Next]_vars
    PROVE  OneRequest'
  <1>1. CASE TickStarts
    BY <1>1 DEF OneRequest, Asks, Waits, Callers, issueVars, records, workers,
       races, counts, TickStarts, Off
  <1>2. CASE Listed
    BY <1>2, ScanFacts DEF OneRequest, Asks, Waits, Callers, issueVars, records,
       workers, races, counts, Listed
  <1>3. CASE ListFails
    BY <1>3 DEF OneRequest, Asks, Waits, Callers, issueVars, records, workers,
       races, ListFails, Off, Fault
  <1>4. CASE FoundDone
    BY <1>4, ScanFacts DEF OneRequest, Asks, Waits, Callers, records, workers,
       races, counts, FoundDone
  <1>5. CASE Claims
    BY <1>5 DEF OneRequest, Asks, Waits, Callers, issueVars, records, workers,
       races, counts, Claims, NoCall, Claimed
  <1>6. ASSUME NEW a \in Agents, Lingers(a) PROVE OneRequest'
    BY <1>6 DEF OneRequest, Asks, Waits, Callers, issueVars, claims, records, races,
       counts, Lingers
  <1>7. CASE Parked
    <2> DEFINE i == what[race.orig].issue
    <2>1. /\ creating["race"].st = "none"
          /\ creating'["race"].issue = i /\ creating'["race"].by = "race"
          /\ \A c \in Callers \ {"race"} : creating'[c] = creating[c]
          /\ queue' = queue
      BY <1>7 DEF TypeOK, Parked, NoCall, Callers
    <2>2. i \in Issues /\ raced[i].state = "none"
      BY <1>7 DEF TypeOK, Parked, Racing, Work, Race
    <2>3. /\ \A c \in Callers : ~Asks(c, "race", i)
          /\ \A n \in 1 .. Len(queue) : ~Waits(n, "race", i)
      BY <2>2 DEF Stamps, Awaited, Stamped
    <2> HIDE DEF i
    <2>4. QED
      BY <2>1, <2>3 DEF OneRequest, Asks, Waits, Callers
  <1>8. CASE Drains
    <2>1. Resumes("drain")
      BY <1>8, DrainsFacts
    <2>2. ASSUME NEW i \in Issues, NEW o \in {"tick", "race"}
          PROVE  /\ \A c, d \in Callers : (Asks(c, o, i) /\ Asks(d, o, i) => c = d)'
                 /\ \A m, n \in 1 .. Len(queue') : (Waits(m, o, i) /\ Waits(n, o, i) => m = n)'
                 /\ \A c \in Callers, n \in 1 .. Len(queue') : ~(Asks(c, o, i) /\ Waits(n, o, i))'
      <3>1. /\ \A c \in Callers : Asks(c, o, i)' =>
                    IF c = "drain" THEN Waits(1, o, i) ELSE Asks(c, o, i)
            /\ \A n \in 1 .. Len(queue') : Waits(n, o, i)' => Waits(n + 1, o, i)
        BY <2>1 DEF Resumes, Asks, Waits
      <3>2. /\ 1 \in 1 .. Len(queue)
            /\ \A n \in 1 .. Len(queue') : n + 1 \in 1 .. Len(queue) /\ n + 1 # 1
        BY <2>1 DEF Resumes
      <3>3. QED
        BY <3>1, <3>2 DEF OneRequest
    <2>3. QED
      BY <2>2 DEF OneRequest
  <1>9. CASE Persists
    BY <1>9 DEF OneRequest, Asks, Waits, Callers, issueVars, claims, records,
       workers, races, counts, Persists, Snapshot
  <1>10. CASE Crash
    BY <1>10 DEF OneRequest, Asks, Waits, Callers, issueVars, Crash, Off,
       NoCall, NoRace
  <1>11. CASE Boot
    <2>1. UNCHANGED <<creating, queue>>
      BY <1>11 DEF Boot
    <2>2. QED
      BY <2>1 DEF OneRequest, Asks, Waits
  <1>12. ASSUME NEW i \in Issues, Released(i) PROVE OneRequest'
    BY <1>12 DEF OneRequest, Asks, Waits, Callers, claims, records, workers, races,
       counts, Released
  <1>13. ASSUME NEW i \in Issues, StartTask(i) PROVE OneRequest'
    BY <1>13 DEF OneRequest, Asks, Waits, Callers, issueVars, claims, records,
       workers, races, StartTask, NoCall, Called
  <1>14. ASSUME NEW c \in Callers, Refused(c) PROVE OneRequest'
    <2>1. Returned(c)
      BY <1>14, ReturnSteps
    <2>2. QED
      BY <1>14, <2>1 DEF OneRequest, Asks, Waits, Callers, Returned, Refused
  <1>15. ASSUME NEW c \in Callers, Parks(c) PROVE OneRequest'
    <2>1. Returned(c) /\ Queued(c)
      BY <1>15, ReturnSteps, ParksFacts
    <2>2. QED
      BY SMTT(30), <2>1 DEF OneRequest, Asks, Waits, Returned, Queued
  <1>16. ASSUME NEW c \in Callers, Admitted(c) PROVE OneRequest'
    BY <1>16 DEF OneRequest, Asks, Waits, Callers, issueVars, claims, records,
       workers, races, counts, Admitted
  <1>17. ASSUME NEW c \in Callers, BuildFails(c) PROVE OneRequest'
    <2>1. Returned(c)
      BY <1>17, ReturnSteps
    <2>2. QED
      BY <1>17, <2>1 DEF OneRequest, Asks, Waits, Callers, Returned, BuildFails,
         Fault
  <1>18. ASSUME NEW c \in Callers, Registered(c) PROVE OneRequest'
    <2>1. PICK a \in Agents : Entered(c, a)
      BY <1>18, RegisteredFacts
    <2>2. QED
      BY <2>1 DEF OneRequest, Asks, Waits, Callers, Entered, claims
  <1>19. ASSUME NEW c \in Callers, Started(c) PROVE OneRequest'
    BY <1>19 DEF OneRequest, Asks, Waits, Callers, issueVars, claims, races,
       counts, Started
  <1>20. ASSUME NEW c \in Callers, StartFails(c) PROVE OneRequest'
    BY <1>20 DEF OneRequest, Asks, Waits, Callers, issueVars, claims, races,
       StartFails, Fault
  <1>21. ASSUME NEW c \in Callers, Resolves(c) PROVE OneRequest'
    <2>1. Returned(c)
      BY <1>21, ReturnSteps
    <2>2. QED
      BY <1>21, <2>1 DEF OneRequest, Asks, Waits, Callers, Returned, Resolves,
         Snapshot
  <1>22. ASSUME NEW a \in Agents, TurnEnds(a) PROVE OneRequest'
    BY <1>22 DEF OneRequest, Asks, Waits, Callers, issueVars, claims, records,
       races, counts, TurnEnds
  <1>23. ASSUME NEW a \in Agents, RunFails(a) PROVE OneRequest'
    BY <1>23 DEF OneRequest, Asks, Waits, Callers, issueVars, claims, counts,
       RunFails
  <1>24. ASSUME NEW a \in Agents, Lands(a) PROVE OneRequest'
    BY <1>24 DEF OneRequest, Asks, Waits, Callers, claims, records, races,
       counts, Lands
  <1>25. ASSUME NEW a \in Agents, HostDies(a) PROVE OneRequest'
    BY <1>25 DEF OneRequest, Asks, Waits, Callers, issueVars, claims, races,
       HostDies, Fault
  <1>26. CASE UNCHANGED vars
    BY <1>26 DEF OneRequest, Asks, Waits, Callers, vars, issueVars, claims, records,
       workers, races, counts
  <1>27. QED
    BY <1>1, <1>2, <1>3, <1>4, <1>5, <1>6, <1>7, <1>8, <1>9, <1>10, <1>11, <1>12, <1>13,
       <1>14, <1>15, <1>16, <1>17, <1>18, <1>19, <1>20, <1>21, <1>22, <1>23, <1>24,
       <1>25, <1>26, NextCases, Zenon

(* Nothing is asked for twice. *)
LEMMA NoneTwicePreserved ==
    ASSUME TypeOK, Down, Called, Building, Racing, OneRequest, Claimed, NoneTwice, [Next]_vars
    PROVE  NoneTwice'
  <1>1. CASE TickStarts
    BY <1>1 DEF NoneTwice, Has, Asks, Waits, Roster, issueVars, records, workers,
       races, counts, TickStarts, Off
  <1>2. CASE Listed
    BY <1>2, ScanFacts DEF NoneTwice, Has, Asks, Waits, Roster, issueVars, records,
       workers, races, counts, Listed
  <1>3. CASE ListFails
    BY <1>3 DEF NoneTwice, Has, Asks, Waits, Roster, issueVars, records, workers,
       races, ListFails, Off, Fault
  <1>4. CASE FoundDone
    BY <1>4, ScanFacts DEF NoneTwice, Has, Asks, Waits, Roster, records, workers,
       races, counts, FoundDone
  <1>5. CASE Claims
    BY <1>5 DEF NoneTwice, Has, Asks, Waits, Roster, issueVars, records, workers,
       races, counts, Claims, NoCall, Claimed, Callers
  <1>6. ASSUME NEW a \in Agents, Lingers(a) PROVE NoneTwice'
    BY <1>6 DEF NoneTwice, Has, Asks, Waits, Roster, issueVars, claims, records, races,
       counts, Lingers
  <1>7. CASE Parked
    BY <1>7 DEF NoneTwice, Has, Asks, Waits, Roster, issueVars, claims,
       counts, Parked, NoCall, Racing, TypeOK, Callers
  <1>8. CASE Drains
    <2>1. Resumes("drain")
      BY <1>8, DrainsFacts
    <2>2. /\ \A c \in Callers, o \in {"tick", "race"}, i \in Issues : Asks(c, o, i)' =>
                  IF c = "drain" THEN Waits(1, o, i) ELSE Asks(c, o, i)
          /\ \A n \in 1 .. Len(queue'), o \in {"tick", "race"}, i \in Issues :
                  Waits(n, o, i)' => Waits(n + 1, o, i)
          /\ 1 \in 1 .. Len(queue)
          /\ \A n \in 1 .. Len(queue') : n + 1 \in 1 .. Len(queue)
      BY <2>1 DEF Resumes, Asks, Waits
    <2>3. \A a \in Agents, i \in Issues : Has(a, "tick", i)' <=> Has(a, "tick", i)
      BY <1>8 DEF Drains, records, Has, Roster
    <2>4. QED
      BY <2>2, <2>3 DEF NoneTwice
  <1>9. CASE Persists
    BY <1>9 DEF NoneTwice, Has, Asks, Waits, Roster, issueVars, claims, records,
       workers, races, counts, Persists, Snapshot
  <1>10. CASE Crash
    BY <1>10 DEF NoneTwice, Has, Asks, Waits, Roster, issueVars, Crash,
       Off, NoCall, NoRace, Callers, Down
  <1>11. CASE Boot
    <2>1. queue' = <<>> /\ \A c \in Callers : creating'[c].st = "none"
      BY <1>11 DEF Boot, Down
    <2>2. QED
      BY <2>1 DEF NoneTwice, Asks, Waits
  <1>12. ASSUME NEW i \in Issues, Released(i) PROVE NoneTwice'
    BY <1>12 DEF NoneTwice, Has, Asks, Waits, Roster, claims, records, workers,
       races, counts, Released
  <1>13. ASSUME NEW i \in Issues, StartTask(i) PROVE NoneTwice'
    BY <1>13 DEF NoneTwice, Has, Asks, Waits, Roster, issueVars, claims, records,
       workers, races, StartTask, NoCall, Called, Callers
  <1>14. ASSUME NEW c \in Callers, Refused(c) PROVE NoneTwice'
    <2>1. Returned(c)
      BY <1>14, ReturnSteps
    <2>2. QED
      BY <1>14, <2>1, CreateTyped DEF NoneTwice, Has, Asks, Waits, Returned,
         Refused
  <1>15. ASSUME NEW c \in Callers, Parks(c) PROVE NoneTwice'
    <2>1. Returned(c) /\ Queued(c)
      BY <1>15, ReturnSteps, ParksFacts
    <2>2. QED
      BY <2>1 DEF NoneTwice, Has, Asks, Waits, Returned, Queued
  <1>16. ASSUME NEW c \in Callers, Admitted(c) PROVE NoneTwice'
    BY <1>16 DEF NoneTwice, Has, Asks, Waits, Roster, issueVars, claims, records,
       workers, races, counts, Admitted
  <1>17. ASSUME NEW c \in Callers, BuildFails(c) PROVE NoneTwice'
    <2>1. Returned(c)
      BY <1>17, ReturnSteps
    <2>2. QED
      BY <1>17, <2>1, CreateTyped DEF NoneTwice, Has, Asks, Waits, Returned,
         BuildFails, Fault
  <1>18. ASSUME NEW c \in Callers, Registered(c) PROVE NoneTwice'
    <2>1. PICK a \in Agents : Entered(c, a)
      BY <1>18, RegisteredFacts
    <2>2. QED
      BY <2>1, CreateTyped DEF NoneTwice, Has, Asks, Waits, Entered, claims,
         OneRequest
  <1>19. ASSUME NEW c \in Callers, Started(c) PROVE NoneTwice'
    BY <1>19 DEF NoneTwice, Has, Asks, Waits, Roster, issueVars, claims, races,
       counts, Started, Building
  <1>20. ASSUME NEW c \in Callers, StartFails(c) PROVE NoneTwice'
    BY <1>20 DEF NoneTwice, Has, Asks, Waits, Roster, issueVars, claims, races,
       StartFails, Fault, Building
  <1>21. ASSUME NEW c \in Callers, Resolves(c) PROVE NoneTwice'
    <2>1. Returned(c)
      BY <1>21, ReturnSteps
    <2>2. QED
      BY <1>21, <2>1, CreateTyped DEF NoneTwice, Has, Asks, Waits, Returned,
         Resolves, Snapshot
  <1>22. ASSUME NEW a \in Agents, TurnEnds(a) PROVE NoneTwice'
    BY <1>22 DEF NoneTwice, Has, Asks, Waits, Roster, issueVars, claims, records,
       races, counts, TurnEnds
  <1>23. ASSUME NEW a \in Agents, RunFails(a) PROVE NoneTwice'
    <2>1. status' = status \/ status' = [status EXCEPT ![a] = "error"]
      BY <1>23 DEF RunFails
    <2>2. Roster' = Roster
      BY <1>23, <2>1 DEF TypeOK, RunFails, Roster
    <2>3. UNCHANGED <<creating, queue, what>>
      BY <1>23 DEF RunFails
    <2>4. QED
      BY <2>2, <2>3 DEF NoneTwice, Has, Asks, Waits
  <1>24. ASSUME NEW a \in Agents, Lands(a) PROVE NoneTwice'
    BY <1>24 DEF NoneTwice, Has, Asks, Waits, Roster, claims, records, races,
       counts, Lands
  <1>25. ASSUME NEW a \in Agents, HostDies(a) PROVE NoneTwice'
    BY <1>25 DEF NoneTwice, Has, Asks, Waits, Roster, issueVars, claims, races,
       HostDies, Fault
  <1>26. CASE UNCHANGED vars
    BY <1>26 DEF NoneTwice, Has, Asks, Waits, Roster, vars, issueVars, claims,
       records, workers, races, counts
  <1>27. QED
    BY <1>1, <1>2, <1>3, <1>4, <1>5, <1>6, <1>7, <1>8, <1>9, <1>10, <1>11, <1>12, <1>13,
       <1>14, <1>15, <1>16, <1>17, <1>18, <1>19, <1>20, <1>21, <1>22, <1>23, <1>24,
       <1>25, <1>26, NextCases, Zenon

(* What the tick asked for it has claimed. *)
LEMMA ClaimedPreserved ==
    ASSUME TypeOK, Down, Called, Building, Racing, Claimed, [Next]_vars
    PROVE  Claimed'
  <1>1. CASE TickStarts
    BY <1>1 DEF Claimed, Has, Asks, Waits, Roster, issueVars, records, workers,
       races, counts, TickStarts, Off
  <1>2. CASE Listed
    BY <1>2, ScanFacts DEF Claimed, Has, Asks, Waits, Roster, issueVars, records,
       workers, races, counts, Listed
  <1>3. CASE ListFails
    BY <1>3 DEF Claimed, Has, Asks, Waits, Roster, issueVars, records, workers,
       races, ListFails, Off, Fault
  <1>4. CASE FoundDone
    BY <1>4, ScanFacts DEF Claimed, Has, Asks, Waits, Roster, records, workers,
       races, counts, FoundDone
  <1>5. CASE Claims
    BY <1>5 DEF Claimed, Has, Asks, Waits, Roster, issueVars, records, workers,
       races, counts, Claims, NoCall, Callers
  <1>6. ASSUME NEW a \in Agents, Lingers(a) PROVE Claimed'
    BY <1>6 DEF Claimed, Has, Asks, Waits, Roster, issueVars, claims, records, races,
       counts, Lingers
  <1>7. CASE Parked
    BY <1>7 DEF Claimed, Has, Asks, Waits, Roster, issueVars, claims,
       counts, Parked, NoCall, Racing, TypeOK, Callers
  <1>8. CASE Drains
    <2>1. Resumes("drain")
      BY <1>8, DrainsFacts
    <2>2. /\ \A c \in Callers, o \in {"tick", "race"}, i \in Issues : Asks(c, o, i)' =>
                  IF c = "drain" THEN Waits(1, o, i) ELSE Asks(c, o, i)
          /\ \A n \in 1 .. Len(queue'), o \in {"tick", "race"}, i \in Issues :
                  Waits(n, o, i)' => Waits(n + 1, o, i)
          /\ 1 \in 1 .. Len(queue)
          /\ \A n \in 1 .. Len(queue') : n + 1 \in 1 .. Len(queue)
      BY <2>1 DEF Resumes, Asks, Waits
    <2>3. /\ \A a \in Agents, i \in Issues : Has(a, "tick", i)' <=> Has(a, "tick", i)
          /\ UNCHANGED <<tick, dispatched>>
      BY <1>8 DEF Drains, records, Has, Roster, claims
    <2>4. QED
      BY <2>2, <2>3 DEF Claimed
  <1>9. CASE Persists
    BY <1>9 DEF Claimed, Has, Asks, Waits, Roster, issueVars, claims, records,
       workers, races, counts, Persists, Snapshot
  <1>10. CASE Crash
    BY <1>10 DEF Claimed, Has, Asks, Waits, Roster, issueVars, Crash, Off,
       NoCall, NoRace, Callers, Down
  <1>11. CASE Boot
    BY <1>11 DEF Claimed, Has, Asks, Waits, Roster, issueVars, claims, counts, Boot,
       Down
  <1>12. ASSUME NEW i \in Issues, Released(i) PROVE Claimed'
    BY <1>12 DEF Claimed, Has, Asks, Waits, Roster, claims, records, workers, races,
       counts, Released
  <1>13. ASSUME NEW i \in Issues, StartTask(i) PROVE Claimed'
    BY <1>13 DEF Claimed, Has, Asks, Waits, Roster, issueVars, claims, records,
       workers, races, StartTask, NoCall, Called, Callers
  <1>14. ASSUME NEW c \in Callers, Refused(c) PROVE Claimed'
    <2>1. Returned(c)
      BY <1>14, ReturnSteps
    <2>2. QED
      BY <1>14, <2>1, CreateTyped DEF Claimed, Has, Asks, Waits, Returned, Called,
         Callers, Refused
  <1>15. ASSUME NEW c \in Callers, Parks(c) PROVE Claimed'
    <2>1. Returned(c) /\ Queued(c)
      BY <1>15, ReturnSteps, ParksFacts
    <2>2. QED
      BY <2>1 DEF Claimed, Has, Asks, Waits, Returned, Queued, Called, Callers
  <1>16. ASSUME NEW c \in Callers, Admitted(c) PROVE Claimed'
    BY <1>16 DEF Claimed, Has, Asks, Waits, Roster, issueVars, claims, records,
       workers, races, counts, Admitted
  <1>17. ASSUME NEW c \in Callers, BuildFails(c) PROVE Claimed'
    <2>1. Returned(c)
      BY <1>17, ReturnSteps
    <2>2. QED
      BY <1>17, <2>1, CreateTyped DEF Claimed, Has, Asks, Waits, Returned, Called,
         Callers, BuildFails, Fault
  <1>18. ASSUME NEW c \in Callers, Registered(c) PROVE Claimed'
    <2>1. PICK a \in Agents : Entered(c, a)
      BY <1>18, RegisteredFacts
    <2>2. QED
      BY <2>1, CreateTyped DEF Claimed, Has, Asks, Waits, Entered, claims, Called,
         Callers
  <1>19. ASSUME NEW c \in Callers, Started(c) PROVE Claimed'
    BY <1>19 DEF Claimed, Has, Asks, Waits, Roster, issueVars, claims, races,
       counts, Started, Building
  <1>20. ASSUME NEW c \in Callers, StartFails(c) PROVE Claimed'
    BY <1>20 DEF Claimed, Has, Asks, Waits, Roster, issueVars, claims, races,
       StartFails, Fault, Building
  <1>21. ASSUME NEW c \in Callers, Resolves(c) PROVE Claimed'
    <2>1. Returned(c)
      BY <1>21, ReturnSteps
    <2>2. QED
      BY <1>21, <2>1, CreateTyped DEF Claimed, Has, Asks, Waits, Returned, Called,
         Callers, Resolves, Snapshot
  <1>22. ASSUME NEW a \in Agents, TurnEnds(a) PROVE Claimed'
    BY <1>22 DEF Claimed, Has, Asks, Waits, Roster, issueVars, claims, records,
       races, counts, TurnEnds
  <1>23. ASSUME NEW a \in Agents, RunFails(a) PROVE Claimed'
    BY <1>23 DEF Claimed, Has, Asks, Waits, Roster, issueVars, claims, counts,
       RunFails, TypeOK
  <1>24. ASSUME NEW a \in Agents, Lands(a) PROVE Claimed'
    BY <1>24 DEF Claimed, Has, Asks, Waits, Roster, claims, records, races,
       counts, Lands
  <1>25. ASSUME NEW a \in Agents, HostDies(a) PROVE Claimed'
    BY <1>25 DEF Claimed, Has, Asks, Waits, Roster, issueVars, claims, races,
       HostDies, Fault
  <1>26. CASE UNCHANGED vars
    BY <1>26 DEF Claimed, Has, Asks, Waits, Roster, vars, issueVars, claims,
       records, workers, races, counts
  <1>27. QED
    BY <1>1, <1>2, <1>3, <1>4, <1>5, <1>6, <1>7, <1>8, <1>9, <1>10, <1>11, <1>12, <1>13,
       <1>14, <1>15, <1>16, <1>17, <1>18, <1>19, <1>20, <1>21, <1>22, <1>23, <1>24,
       <1>25, <1>26, NextCases, Zenon

(* What StampsPreserved needs of the types. *)
LEMMA StampTyped ==
    ASSUME TypeOK
    PROVE  /\ \A i \in Issues : raced[i].orig \in Agents /\ siblings[i] \in Nat
           /\ \A c \in Callers : creating[c].agent \in Agents /\ creating[c].issue \in Issues
  BY DEF TypeOK, Stamp, Create

(* The tick gives an issue one agent. *)
LEMMA OneByDispatchPreserved ==
    ASSUME TypeOK, Down, Building, Racing, NoneTwice, OneByDispatch, SavedOnce, [Next]_vars
    PROVE  OneByDispatch'
  <1>1. CASE TickStarts
    BY <1>1 DEF OneByDispatch, Roster, issueVars, records, workers, races,
       counts, TickStarts, Off
  <1>2. CASE Listed
    BY <1>2, ScanFacts DEF OneByDispatch, Roster, issueVars, records, workers,
       races, counts, Listed
  <1>3. CASE ListFails
    BY <1>3 DEF OneByDispatch, Roster, issueVars, records, workers, races,
       ListFails, Off, Fault
  <1>4. CASE FoundDone
    BY <1>4, ScanFacts DEF OneByDispatch, Roster, records, workers, races,
       counts, FoundDone
  <1>5. CASE Claims
    BY <1>5 DEF OneByDispatch, Roster, issueVars, records, workers, races,
       counts, Claims, NoCall
  <1>6. ASSUME NEW a \in Agents, Lingers(a) PROVE OneByDispatch'
    BY <1>6 DEF OneByDispatch, Roster, issueVars, claims, records, races, counts,
       Lingers
  <1>7. CASE Parked
    BY <1>7 DEF OneByDispatch, Roster, issueVars, claims, counts, Parked,
       NoCall, Racing, TypeOK
  <1>8. CASE Drains
    BY <1>8 DEF OneByDispatch, Roster, issueVars, claims, records, workers, races,
       counts, Drains, NoCall
  <1>9. CASE Persists
    BY <1>9 DEF OneByDispatch, Roster, issueVars, claims, records, workers, races,
       counts, Persists, Snapshot
  <1>10. CASE Crash
    BY <1>10 DEF OneByDispatch, Roster, issueVars, Crash, Off, NoCall,
       NoRace
  <1>11. CASE Boot
    <2>1. PICK o \in [Agents -> Agents] :
              /\ what' = [a \in Agents |-> what[o[a]]]
              /\ \A a \in Roster' : o[a] \in Listings
              /\ \A a, b \in Roster' : o[a] = o[b] => a = b
              /\ \A a \in Listings : o[a] = a
              /\ \A i \in Issues : what'[raced[i].orig] = what[raced[i].orig]
              /\ \A a \in Inert : status'[a] \notin {"starting", "live"}
              /\ \A a \in Agents : status'[a] # "starting"
              /\ Inert \subseteq Roster' /\ terminal' = Inert
              /\ \/ saved' = saved
                 \/ Listings' = Roster' /\ saved'.terminal = Inert
      BY <1>11, BootFacts
    <2>2. QED
      BY <2>1 DEF TypeOK, OneByDispatch, SavedOnce, Roster
  <1>12. ASSUME NEW i \in Issues, Released(i) PROVE OneByDispatch'
    BY <1>12 DEF OneByDispatch, Roster, claims, records, workers, races,
       counts, Released
  <1>13. ASSUME NEW i \in Issues, StartTask(i) PROVE OneByDispatch'
    BY <1>13 DEF OneByDispatch, Roster, issueVars, claims, records, workers, races,
       StartTask, NoCall
  <1>14. ASSUME NEW c \in Callers, Refused(c) PROVE OneByDispatch'
    <2>1. Returned(c)
      BY <1>14, ReturnSteps
    <2>2. QED
      BY <2>1, CreateTyped DEF OneByDispatch, Returned
  <1>15. ASSUME NEW c \in Callers, Parks(c) PROVE OneByDispatch'
    <2>1. Returned(c)
      BY <1>15, ReturnSteps
    <2>2. QED
      BY <2>1, CreateTyped DEF OneByDispatch, Returned
  <1>16. ASSUME NEW c \in Callers, Admitted(c) PROVE OneByDispatch'
    BY <1>16 DEF OneByDispatch, Roster, issueVars, claims, records, workers, races,
       counts, Admitted
  <1>17. ASSUME NEW c \in Callers, BuildFails(c) PROVE OneByDispatch'
    <2>1. Returned(c)
      BY <1>17, ReturnSteps
    <2>2. QED
      BY <2>1, CreateTyped DEF OneByDispatch, Returned
  <1>18. ASSUME NEW c \in Callers, Registered(c) PROVE OneByDispatch'
    <2>1. PICK a \in Agents : Entered(c, a)
      BY <1>18, RegisteredFacts
    <2>2. creating[c].issue \in Issues
      BY CreateTyped
    <2>3. creating[c].by = "tick" => \A b \in Roster :
              ~(what[b].by = "tick" /\ what[b].issue = creating[c].issue)
      <3>1. \A b \in Roster : b \in Agents
        BY DEF Roster
      <3>2. QED
        BY <2>1, <2>2, <3>1 DEF Entered, NoneTwice, Has, Asks
    <2>4. /\ Roster' = Roster \cup {a} /\ a \notin Roster /\ Roster \subseteq Agents
          /\ what'[a].by = creating[c].by /\ what'[a].issue = creating[c].issue
          /\ \A b \in Agents \ {a} : what'[b] = what[b]
      BY <2>1 DEF Entered, Roster
    <2>5. QED
      BY <2>3, <2>4 DEF OneByDispatch
  <1>19. ASSUME NEW c \in Callers, Started(c) PROVE OneByDispatch'
    BY <1>19 DEF OneByDispatch, Roster, issueVars, claims, races, counts,
       Started, Building
  <1>20. ASSUME NEW c \in Callers, StartFails(c) PROVE OneByDispatch'
    BY <1>20 DEF OneByDispatch, Roster, issueVars, claims, races,
       StartFails, Fault, Building
  <1>21. ASSUME NEW c \in Callers, Resolves(c) PROVE OneByDispatch'
    <2>1. Returned(c)
      BY <1>21, ReturnSteps
    <2>2. QED
      BY <2>1, CreateTyped DEF OneByDispatch, Returned
  <1>22. ASSUME NEW a \in Agents, TurnEnds(a) PROVE OneByDispatch'
    BY <1>22 DEF OneByDispatch, Roster, issueVars, claims, records, races,
       counts, TurnEnds
  <1>23. ASSUME NEW a \in Agents, RunFails(a) PROVE OneByDispatch'
    <2>1. status' = status \/ status' = [status EXCEPT ![a] = "error"]
      BY <1>23 DEF RunFails
    <2>2. Roster' = Roster /\ what' = what
      BY <1>23, <2>1 DEF TypeOK, RunFails, Roster
    <2>3. QED
      BY <2>2 DEF OneByDispatch
  <1>24. ASSUME NEW a \in Agents, Lands(a) PROVE OneByDispatch'
    BY <1>24 DEF OneByDispatch, Roster, claims, records, races, counts,
       Lands
  <1>25. ASSUME NEW a \in Agents, HostDies(a) PROVE OneByDispatch'
    BY <1>25 DEF OneByDispatch, Roster, issueVars, claims, races, HostDies,
       Fault
  <1>26. CASE UNCHANGED vars
    BY <1>26 DEF OneByDispatch, Roster, vars, issueVars, claims, records, workers,
       races, counts
  <1>27. QED
    BY <1>1, <1>2, <1>3, <1>4, <1>5, <1>6, <1>7, <1>8, <1>9, <1>10, <1>11, <1>12, <1>13,
       <1>14, <1>15, <1>16, <1>17, <1>18, <1>19, <1>20, <1>21, <1>22, <1>23, <1>24,
       <1>25, <1>26, NextCases, Zenon

(* Nor does the snapshot list two. *)
LEMMA SavedOncePreserved ==
    ASSUME TypeOK, Racing, OneByDispatch, OneByDispatch', SavedOnce, [Next]_vars
    PROVE  SavedOnce'
  <1>1. CASE TickStarts
    BY <1>1 DEF SavedOnce, Listings, issueVars, records, workers, races,
       counts, TickStarts, Off
  <1>2. CASE Listed
    BY <1>2, ScanFacts DEF SavedOnce, Listings, issueVars, records, workers, races,
       counts, Listed
  <1>3. CASE ListFails
    BY <1>3 DEF SavedOnce, Listings, issueVars, records, workers, races,
       ListFails, Off, Fault
  <1>4. CASE FoundDone
    BY <1>4, ScanFacts DEF SavedOnce, Listings, records, workers, races,
       counts, FoundDone
  <1>5. CASE Claims
    BY <1>5 DEF SavedOnce, Listings, issueVars, records, workers, races,
       counts, Claims, NoCall
  <1>6. ASSUME NEW a \in Agents, Lingers(a) PROVE SavedOnce'
    BY <1>6 DEF SavedOnce, Listings, issueVars, claims, records, races, counts, Lingers
  <1>7. CASE Parked
    BY <1>7 DEF SavedOnce, Listings, issueVars, claims, counts, Parked,
       NoCall
  <1>8. CASE Drains
    BY <1>8 DEF SavedOnce, Listings, issueVars, claims, records, workers, races,
       counts, Drains, NoCall
  <1>9. CASE Persists
    <2>1. Listings' = Roster /\ what' = what
      BY <1>9 DEF Persists, Snapshot, Listings, Roster, records
    <2>2. QED
      BY <2>1 DEF SavedOnce, OneByDispatch
  <1>10. CASE Crash
    BY <1>10 DEF SavedOnce, Listings, issueVars, Crash, Off, NoCall, NoRace
  <1>11. CASE Boot
    <2>1. PICK o \in [Agents -> Agents] :
              /\ what' = [a \in Agents |-> what[o[a]]]
              /\ \A a \in Roster' : o[a] \in Listings
              /\ \A a, b \in Roster' : o[a] = o[b] => a = b
              /\ \A a \in Listings : o[a] = a
              /\ \A i \in Issues : what'[raced[i].orig] = what[raced[i].orig]
              /\ \A a \in Inert : status'[a] \notin {"starting", "live"}
              /\ \A a \in Agents : status'[a] # "starting"
              /\ Inert \subseteq Roster' /\ terminal' = Inert
              /\ \/ saved' = saved
                 \/ Listings' = Roster' /\ saved'.terminal = Inert
      BY <1>11, BootFacts
    <2>2. QED
      BY <2>1 DEF TypeOK, SavedOnce, OneByDispatch, Listings
  <1>12. ASSUME NEW i \in Issues, Released(i) PROVE SavedOnce'
    BY <1>12 DEF SavedOnce, Listings, claims, records, workers, races,
       counts, Released
  <1>13. ASSUME NEW i \in Issues, StartTask(i) PROVE SavedOnce'
    BY <1>13 DEF SavedOnce, Listings, issueVars, claims, records, workers, races,
       StartTask, NoCall
  <1>14. ASSUME NEW c \in Callers, Refused(c) PROVE SavedOnce'
    <2>1. Returned(c)
      BY <1>14, ReturnSteps
    <2>2. QED
      BY <1>14, <2>1, CreateTyped DEF SavedOnce, Listings, Returned, Refused
  <1>15. ASSUME NEW c \in Callers, Parks(c) PROVE SavedOnce'
    <2>1. Returned(c)
      BY <1>15, ReturnSteps
    <2>2. QED
      BY <1>15, <2>1, CreateTyped DEF SavedOnce, Listings, Returned, Parks
  <1>16. ASSUME NEW c \in Callers, Admitted(c) PROVE SavedOnce'
    BY <1>16 DEF SavedOnce, Listings, issueVars, claims, records, workers, races,
       counts, Admitted
  <1>17. ASSUME NEW c \in Callers, BuildFails(c) PROVE SavedOnce'
    <2>1. Returned(c)
      BY <1>17, ReturnSteps
    <2>2. QED
      BY <1>17, <2>1, CreateTyped DEF SavedOnce, Listings, Returned, BuildFails,
         Fault
  <1>18. ASSUME NEW c \in Callers, Registered(c) PROVE SavedOnce'
    <2>1. PICK a \in Agents : Entered(c, a)
      BY <1>18, RegisteredFacts
    <2>2. QED
      BY <2>1, CreateTyped DEF SavedOnce, Listings, Entered, claims, Unused
  <1>19. ASSUME NEW c \in Callers, Started(c) PROVE SavedOnce'
    BY <1>19 DEF SavedOnce, Listings, issueVars, claims, races, counts,
       Started
  <1>20. ASSUME NEW c \in Callers, StartFails(c) PROVE SavedOnce'
    BY <1>20 DEF SavedOnce, Listings, issueVars, claims, races, StartFails,
       Fault
  <1>21. ASSUME NEW c \in Callers, Resolves(c) PROVE SavedOnce'
    <2>1. Listings' = Roster /\ what' = what
      BY <1>21 DEF Resolves, Snapshot, Listings, Roster
    <2>2. QED
      BY <2>1 DEF SavedOnce, OneByDispatch
  <1>22. ASSUME NEW a \in Agents, TurnEnds(a) PROVE SavedOnce'
    BY <1>22 DEF SavedOnce, Listings, issueVars, claims, records, races,
       counts, TurnEnds
  <1>23. ASSUME NEW a \in Agents, RunFails(a) PROVE SavedOnce'
    BY <1>23 DEF SavedOnce, Listings, issueVars, claims, counts, RunFails
  <1>24. ASSUME NEW a \in Agents, Lands(a) PROVE SavedOnce'
    BY <1>24 DEF SavedOnce, Listings, claims, records, races, counts, Lands
  <1>25. ASSUME NEW a \in Agents, HostDies(a) PROVE SavedOnce'
    BY <1>25 DEF SavedOnce, Listings, issueVars, claims, races, HostDies,
       Fault
  <1>26. CASE UNCHANGED vars
    BY <1>26 DEF SavedOnce, Listings, vars, issueVars, claims, records, workers,
       races, counts
  <1>27. QED
    BY <1>1, <1>2, <1>3, <1>4, <1>5, <1>6, <1>7, <1>8, <1>9, <1>10, <1>11, <1>12, <1>13,
       <1>14, <1>15, <1>16, <1>17, <1>18, <1>19, <1>20, <1>21, <1>22, <1>23, <1>24,
       <1>25, <1>26, NextCases, Zenon

(* The original of a race under way stays on the roster, failed. *)
LEMMA RacingPreserved ==
    ASSUME TypeOK, Down, Building, Racing, [Next]_vars
    PROVE  Racing'
  <1>1. CASE TickStarts
    BY <1>1 DEF Racing, Roster, issueVars, records, workers, races, counts,
       TickStarts, Off
  <1>2. CASE Listed
    BY <1>2, ScanFacts DEF Racing, Roster, issueVars, records, workers, races,
       counts, Listed
  <1>3. CASE ListFails
    BY <1>3 DEF Racing, Roster, issueVars, records, workers, races,
       ListFails, Off, Fault
  <1>4. CASE FoundDone
    BY <1>4, ScanFacts DEF Racing, Roster, records, workers, races, counts,
       FoundDone
  <1>5. CASE Claims
    BY <1>5 DEF Racing, Roster, issueVars, records, workers, races, counts,
       Claims, NoCall, Callers
  <1>6. ASSUME NEW a \in Agents, Lingers(a) PROVE Racing'
    BY <1>6 DEF Racing, Roster, issueVars, claims, records, races, counts, Lingers
  <1>7. CASE Parked
    BY <1>7 DEF Racing, Roster, issueVars, claims, counts, Parked, NoCall,
       TypeOK, Callers, Stamp, Race, Work
  <1>8. CASE Drains
    BY <1>8 DEF Racing, Roster, issueVars, claims, records, workers, races,
       counts, Drains, NoCall, Callers
  <1>9. CASE Persists
    BY <1>9 DEF Racing, Roster, issueVars, claims, records, workers, races,
       counts, Persists, Snapshot
  <1>10. CASE Crash
    <2>1. race'.on = FALSE /\ creating'["race"].st = "none"
      BY <1>10 DEF Crash, NoRace, NoCall, Callers
    <2>2. QED
      BY <2>1 DEF Racing
  <1>11. CASE Boot
    <2>1. race'.on = FALSE /\ creating'["race"].st = "none"
      BY <1>11 DEF TypeOK, Boot, Down, Callers, Race
    <2>2. QED
      BY <2>1 DEF Racing
  <1>12. ASSUME NEW i \in Issues, Released(i) PROVE Racing'
    BY <1>12 DEF Racing, Roster, claims, records, workers, races, counts,
       Released
  <1>13. ASSUME NEW i \in Issues, StartTask(i) PROVE Racing'
    BY <1>13 DEF Racing, Roster, issueVars, claims, records, workers, races,
       StartTask, NoCall, Callers
  <1>14. ASSUME NEW c \in Callers, Refused(c) PROVE Racing'
    <2>1. Returned(c)
      BY <1>14, ReturnSteps
    <2>2. QED
      BY <2>1, CreateTyped DEF Racing, Returned, Callers
  <1>15. ASSUME NEW c \in Callers, Parks(c) PROVE Racing'
    <2>1. Returned(c)
      BY <1>15, ReturnSteps
    <2>2. QED
      BY <2>1, CreateTyped DEF Racing, Returned, Callers
  <1>16. ASSUME NEW c \in Callers, Admitted(c) PROVE Racing'
    BY <1>16 DEF Racing, Roster, issueVars, claims, records, workers, races,
       counts, Admitted, Callers
  <1>17. ASSUME NEW c \in Callers, BuildFails(c) PROVE Racing'
    <2>1. Returned(c)
      BY <1>17, ReturnSteps
    <2>2. QED
      BY <2>1, CreateTyped DEF Racing, Returned, Callers
  <1>18. ASSUME NEW c \in Callers, Registered(c) PROVE Racing'
    <2>1. PICK a \in Agents : Entered(c, a)
      BY <1>18, RegisteredFacts
    <2>2. race.on => race.orig \in Agents \ {a} /\ race.orig \in Roster
      BY <2>1 DEF Racing, Entered, Roster
    <2>3. /\ creating'["race"].st = "none" <=> creating["race"].st = "none"
          /\ creating'["race"].issue = creating["race"].issue
      BY <2>1 DEF Entered, Callers
    <2>4. /\ race.on => what'[race.orig] = what[race.orig] /\ status'[race.orig] = status[race.orig]
          /\ Roster' = Roster \cup {a}
          /\ UNCHANGED <<race, raced, terminal>>
      BY <2>1, <2>2 DEF Entered
    <2>5. QED
      BY <2>2, <2>3, <2>4 DEF Racing
  <1>19. ASSUME NEW c \in Callers, Started(c) PROVE Racing'
    BY <1>19 DEF Racing, Roster, issueVars, claims, races, counts, Started,
       Building, Callers
  <1>20. ASSUME NEW c \in Callers, StartFails(c) PROVE Racing'
    BY <1>20 DEF Racing, Roster, issueVars, claims, races, StartFails,
       Fault, Building, Callers
  <1>21. ASSUME NEW c \in Callers, Resolves(c) PROVE Racing'
    <2>1. Returned(c)
      BY <1>21, ReturnSteps
    <2>2. QED
      BY <2>1, CreateTyped DEF Racing, Returned, Callers
  <1>22. ASSUME NEW a \in Agents, TurnEnds(a) PROVE Racing'
    BY <1>22 DEF Racing, Roster, issueVars, claims, records, races, counts,
       TurnEnds
  <1>23. ASSUME NEW a \in Agents, RunFails(a) PROVE Racing'
    BY <1>23 DEF Racing, Roster, issueVars, claims, counts, RunFails, TypeOK,
       MayRace
  <1>24. ASSUME NEW a \in Agents, Lands(a) PROVE Racing'
    BY <1>24 DEF Racing, Roster, claims, records, races, counts, Lands
  <1>25. ASSUME NEW a \in Agents, HostDies(a) PROVE Racing'
    BY <1>25 DEF Racing, Roster, issueVars, claims, races, HostDies, Fault
  <1>26. CASE UNCHANGED vars
    BY <1>26 DEF Racing, Roster, vars, issueVars, claims, records, workers, races,
       counts
  <1>27. QED
    BY <1>1, <1>2, <1>3, <1>4, <1>5, <1>6, <1>7, <1>8, <1>9, <1>10, <1>11, <1>12, <1>13,
       <1>14, <1>15, <1>16, <1>17, <1>18, <1>19, <1>20, <1>21, <1>22, <1>23, <1>24,
       <1>25, <1>26, NextCases, Zenon

(* The stamp of an issue comes first and its original stays stopped. *)
LEMMA StampsPreserved ==
    ASSUME TypeOK, Down, Called, Building, Racing, OneRequest, Stamps, [Next]_vars
    PROVE  Stamps'
  <1>1. CASE TickStarts
    BY <1>1 DEF Stamps, Halted, Awaited, Stamped, Asks, Waits, Roster, issueVars,
       records, workers, races, counts, TickStarts, Off
  <1>2. CASE Listed
    BY <1>2, ScanFacts DEF Stamps, Halted, Awaited, Stamped, Asks, Waits, Roster,
       issueVars, records, workers, races, counts, Listed
  <1>3. CASE ListFails
    BY <1>3 DEF Stamps, Halted, Awaited, Stamped, Asks, Waits, Roster, issueVars,
       records, workers, races, ListFails, Off, Fault
  <1>4. CASE FoundDone
    BY <1>4, ScanFacts DEF Stamps, Halted, Awaited, Stamped, Asks, Waits, Roster,
       records, workers, races, counts, FoundDone
  <1>5. CASE Claims
    BY <1>5 DEF Stamps, Halted, Awaited, Stamped, Asks, Waits, Roster, issueVars,
       records, workers, races, counts, Claims, NoCall, Callers
  <1>6. ASSUME NEW a \in Agents, Lingers(a) PROVE Stamps'
    BY <1>6 DEF Stamps, Halted, Awaited, Stamped, Asks, Waits, Roster, issueVars, claims,
       records, races, counts, Lingers
  <1>7. CASE Parked
    <2>1. PICK j \in Issues, o \in Agents : j = what[race.orig].issue /\ o = race.orig
      BY <1>7 DEF TypeOK, Work, Race
    <2>2. o \in Agents /\ j \in Issues /\ raced[j].state = "none" /\ o \in terminal \cap Roster
      BY <1>7, <2>1 DEF Parked, Racing
    <2>3. /\ raced'[j].state = "pending" /\ raced'[j].orig = o
          /\ \A i \in Issues \ {j} : raced'[i] = raced[i]
          /\ status'[o] = "stopped" /\ \A a \in Agents \ {o} : status'[a] = status[a]
          /\ UNCHANGED <<queue, siblings, terminal, what>>
      BY <1>7, <2>1, <2>2 DEF TypeOK, Parked
    <2>4. /\ creating'["race"].by = "race" /\ creating'["race"].issue = j
          /\ \A c \in Callers \ {"race"} : creating'[c] = creating[c]
      BY <1>7, <2>1 DEF TypeOK, Parked, NoCall, Callers
    <2>5. siblings[j] = 0
      BY <2>2, StampTyped DEF Stamps
    <2>6. Roster \subseteq Roster' /\ Roster \subseteq Agents
      BY <2>2, <2>3 DEF Roster
    <2>7. \A i \in Issues : Halted(i)'
      BY <2>1, <2>2, <2>3, StampTyped DEF Stamps, Halted
    <2>8. Stamped(j)' /\ \A i \in Issues \ {j} : Stamped(i) => Stamped(i)'
      BY <2>2, <2>3, <2>6 DEF Stamped
    <2>9. \A i \in Issues : Awaited(i)'
      <3>1. /\ \A i \in Issues \ {j}, c \in Callers : Asks(c, "race", i)' => Asks(c, "race", i)
            /\ \A i \in Issues, n \in 1 .. Len(queue) : Waits(n, "race", i)' <=> Waits(n, "race", i)
        BY <2>3, <2>4 DEF Asks, Waits
      <3>2. QED
        BY <2>3, <2>5, <2>8, <3>1 DEF Stamps, Awaited
    <2>20. QED
      BY <2>2, <2>3, <2>5, <2>7, <2>9 DEF Stamps
  <1>8. CASE Drains
    BY <1>8 DEF Stamps, Halted, Awaited, Stamped, Asks, Waits, Roster, issueVars,
       claims, records, workers, races, counts, Drains, NoCall
  <1>9. CASE Persists
    BY <1>9 DEF Stamps, Halted, Awaited, Stamped, Asks, Waits, Roster, issueVars,
       claims, records, workers, races, counts, Persists, Snapshot
  <1>10. CASE Crash
    <2>1. queue' = <<>> /\ \A c \in Callers : creating'[c].st = "none"
      BY <1>10 DEF Crash, NoCall
    <2>2. UNCHANGED <<raced, siblings, what>>
      BY <1>10 DEF Crash
    <2>3. \A i \in Issues : Awaited(i)'
      BY <2>1 DEF Awaited, Asks, Waits
    <2>4. terminal' = {}
      BY <1>10 DEF Crash
    <2>5. \A i \in Issues : Halted(i)'
      BY <2>2, <2>4, StampTyped DEF Stamps, Halted
    <2>6. QED
      BY <2>2, <2>3, <2>5 DEF Stamps
  <1>11. CASE Boot
    <2>1. PICK o \in [Agents -> Agents] :
              /\ what' = [a \in Agents |-> what[o[a]]]
              /\ \A a \in Roster' : o[a] \in Listings
              /\ \A a, b \in Roster' : o[a] = o[b] => a = b
              /\ \A a \in Listings : o[a] = a
              /\ \A i \in Issues : what'[raced[i].orig] = what[raced[i].orig]
              /\ \A a \in Inert : status'[a] \notin {"starting", "live"}
              /\ \A a \in Agents : status'[a] # "starting"
              /\ Inert \subseteq Roster' /\ terminal' = Inert
              /\ \/ saved' = saved
                 \/ Listings' = Roster' /\ saved'.terminal = Inert
      BY <1>11, BootFacts
    <2>2. queue' = <<>> /\ \A c \in Callers : creating'[c].st = "none"
      BY <1>11 DEF Boot, Down
    <2>3. UNCHANGED <<raced, siblings>>
      BY <1>11 DEF Boot
    <2>4. \A i \in Issues : Awaited(i)'
      BY <2>2 DEF Awaited, Asks, Waits
    <2>5. \A i \in Issues : Halted(i)'
      BY <2>1, <2>3, StampTyped DEF Stamps, Halted
    <2>6. QED
      BY <2>3, <2>4, <2>5 DEF Stamps
  <1>12. ASSUME NEW i \in Issues, Released(i) PROVE Stamps'
    BY <1>12 DEF Stamps, Halted, Awaited, Stamped, Asks, Waits, Roster, claims,
       records, workers, races, counts, Released
  <1>13. ASSUME NEW i \in Issues, StartTask(i) PROVE Stamps'
    BY <1>13 DEF Stamps, Halted, Awaited, Stamped, Asks, Waits, Roster, issueVars,
       claims, records, workers, races, StartTask, NoCall, Called, Callers
  <1>14. ASSUME NEW c \in Callers, Refused(c) PROVE Stamps'
    <2>1. Returned(c)
      BY <1>14, ReturnSteps
    <2>2. ASSUME NEW i \in Issues PROVE Halted(i)' /\ (Stamped(i) => Stamped(i)')
      BY <2>1, StampTyped DEF Returned, Stamps, Halted, Stamped
    <2>3. \A i \in Issues : raced'[i].state = "none" <=> raced[i].state = "none"
      BY <2>1 DEF Returned
    <2>4. siblings' = siblings
      BY <2>1 DEF Returned
    <2>5. \A i \in Issues, d \in Callers : Asks(d, "race", i)' => Asks(d, "race", i)
      BY <2>1 DEF Returned, Asks
    <2>6. UNCHANGED queue
      BY <1>14 DEF Refused
    <2>7. \A i \in Issues : Awaited(i)'
      BY <2>2, <2>4, <2>5, <2>6 DEF Stamps, Awaited, Waits
    <2>8. QED
      BY <2>2, <2>3, <2>4, <2>7 DEF Stamps
  <1>15. ASSUME NEW c \in Callers, Parks(c) PROVE Stamps'
    <2>1. Returned(c)
      BY <1>15, ReturnSteps
    <2>2. ASSUME NEW i \in Issues PROVE Halted(i)' /\ (Stamped(i) => Stamped(i)')
      BY <2>1, StampTyped DEF Returned, Stamps, Halted, Stamped
    <2>3. \A i \in Issues : raced'[i].state = "none" <=> raced[i].state = "none"
      BY <2>1 DEF Returned
    <2>4. siblings' = siblings
      BY <2>1 DEF Returned
    <2>5. \A i \in Issues, d \in Callers : Asks(d, "race", i)' => Asks(d, "race", i)
      BY <2>1 DEF Returned, Asks
    <2>6. Queued(c)
      BY <1>15, ParksFacts
    <2>7. \A i \in Issues, n \in 1 .. Len(queue') : Waits(n, "race", i)' =>
              Asks(c, "race", i) \/ (n \in 1 .. Len(queue) /\ Waits(n, "race", i))
      BY <2>6 DEF Queued, Asks, Waits
    <2>8. \A i \in Issues : Awaited(i)'
      BY <2>2, <2>4, <2>5, <2>7 DEF Stamps, Awaited
    <2>9. QED
      BY <2>2, <2>3, <2>4, <2>8 DEF Stamps
  <1>16. ASSUME NEW c \in Callers, Admitted(c) PROVE Stamps'
    BY <1>16 DEF Stamps, Halted, Awaited, Stamped, Asks, Waits, Roster, issueVars,
       claims, records, workers, races, counts, Admitted
  <1>17. ASSUME NEW c \in Callers, BuildFails(c) PROVE Stamps'
    <2>1. Returned(c)
      BY <1>17, ReturnSteps
    <2>2. ASSUME NEW i \in Issues PROVE Halted(i)' /\ (Stamped(i) => Stamped(i)')
      BY <2>1, StampTyped DEF Returned, Stamps, Halted, Stamped
    <2>3. \A i \in Issues : raced'[i].state = "none" <=> raced[i].state = "none"
      BY <2>1 DEF Returned
    <2>4. siblings' = siblings
      BY <2>1 DEF Returned
    <2>5. \A i \in Issues, d \in Callers : Asks(d, "race", i)' => Asks(d, "race", i)
      BY <2>1 DEF Returned, Asks
    <2>6. UNCHANGED queue
      BY <1>17 DEF BuildFails
    <2>7. \A i \in Issues : Awaited(i)'
      BY <2>2, <2>4, <2>5, <2>6 DEF Stamps, Awaited, Waits
    <2>8. QED
      BY <2>2, <2>3, <2>4, <2>7 DEF Stamps
  <1>18. ASSUME NEW c \in Callers, Registered(c) PROVE Stamps'
    <2>1. PICK a \in Agents : Entered(c, a)
      BY <1>18, RegisteredFacts
    <2>2. \A i \in Issues : /\ raced[i].state # "none" => raced[i].orig # a
                            /\ Halted(i)' /\ (Stamped(i) => Stamped(i)')
      BY <2>1, StampTyped DEF Entered, Unused, Stamps, Halted, Stamped
    <2>3. \A i \in Issues, d \in Callers : Asks(d, "race", i)' => d # c /\ Asks(d, "race", i)
      BY <2>1 DEF Entered, Asks
    <2>4. raced' = raced /\ queue' = queue
      BY <2>1 DEF Entered
    <2>5. CASE creating[c].by # "race"
      <3>1. siblings' = siblings
        BY <2>1, <2>5 DEF Entered
      <3>2. QED
        BY <2>2, <2>3, <2>4, <3>1 DEF Stamps, Awaited, Waits
    <2>6. CASE creating[c].by = "race"
      <3> DEFINE j == creating[c].issue
      <3>1. j \in Issues /\ siblings' = [siblings EXCEPT ![j] = siblings[j] + 1]
        BY <2>1, <2>6, StampTyped DEF Entered
      <3>2. Asks(c, "race", j)
        BY <2>1, <2>6 DEF Entered, Asks
      <3>3. siblings[j] = 0 /\ raced[j].state # "none"
        BY <3>1, <3>2 DEF Stamps, Awaited, Stamped
      <3>4. /\ siblings'[j] = 1
            /\ \A i \in Issues \ {j} : siblings'[i] = siblings[i]
        BY <3>1, <3>3 DEF TypeOK
      <3>5. /\ \A d \in Callers \ {c} : ~Asks(d, "race", j)
            /\ \A n \in 1 .. Len(queue) : ~Waits(n, "race", j)
        BY <3>1, <3>2 DEF OneRequest
      <3> HIDE DEF j
      <3>6. \A i \in Issues : Awaited(i)'
        BY <2>2, <2>3, <2>4, <3>4, <3>5 DEF Stamps, Awaited, Waits
      <3>7. QED
        BY <2>2, <2>4, <3>3, <3>4, <3>6 DEF Stamps
    <2>7. QED
      BY <2>5, <2>6
  <1>19. ASSUME NEW c \in Callers, Started(c) PROVE Stamps'
    BY <1>19 DEF Stamps, Halted, Awaited, Stamped, Asks, Waits, Roster, issueVars,
       claims, races, counts, Started, Building
  <1>20. ASSUME NEW c \in Callers, StartFails(c) PROVE Stamps'
    BY <1>20 DEF Stamps, Halted, Awaited, Stamped, Asks, Waits, Roster, issueVars,
       claims, races, StartFails, Fault, Building
  <1>21. ASSUME NEW c \in Callers, Resolves(c) PROVE Stamps'
    <2>1. Returned(c)
      BY <1>21, ReturnSteps
    <2>2. ASSUME NEW i \in Issues PROVE Halted(i)' /\ (Stamped(i) => Stamped(i)')
      BY <2>1, StampTyped DEF Returned, Stamps, Halted, Stamped
    <2>3. \A i \in Issues : raced'[i].state = "none" <=> raced[i].state = "none"
      BY <2>1 DEF Returned
    <2>4. siblings' = siblings
      BY <2>1 DEF Returned
    <2>5. \A i \in Issues, d \in Callers : Asks(d, "race", i)' => Asks(d, "race", i)
      BY <2>1 DEF Returned, Asks
    <2>6. UNCHANGED queue
      BY <1>21 DEF Resolves
    <2>7. \A i \in Issues : Awaited(i)'
      BY <2>2, <2>4, <2>5, <2>6 DEF Stamps, Awaited, Waits
    <2>8. QED
      BY <2>2, <2>3, <2>4, <2>7 DEF Stamps
  <1>22. ASSUME NEW a \in Agents, TurnEnds(a) PROVE Stamps'
    BY <1>22 DEF Stamps, Halted, Awaited, Stamped, Asks, Waits, Roster, issueVars,
       claims, records, races, counts, TurnEnds
  <1>23. ASSUME NEW a \in Agents, RunFails(a) PROVE Stamps'
    <2>1. status' = status \/ status' = [status EXCEPT ![a] = "error"]
      BY <1>23 DEF RunFails
    <2>2. /\ Roster \subseteq Roster' /\ terminal' = terminal \cup {a}
          /\ \A b \in Agents \ {a} : status'[b] = status[b]
          /\ UNCHANGED <<creating, queue, raced, siblings, what>>
      BY <1>23, <2>1 DEF TypeOK, RunFails, Roster
    <2>3. status'[a] = "error" \/ raced[what[a].issue].state = "none"
      BY <1>23 DEF RunFails, MayRace, TypeOK
    <2>4. \A i \in Issues : Halted(i)'
      BY <2>2, <2>3, StampTyped DEF Stamps, Halted
    <2>5. \A i \in Issues : Awaited(i)'
      BY <2>2 DEF Stamps, Awaited, Stamped, Asks, Waits
    <2>6. QED
      BY <2>2, <2>4, <2>5 DEF Stamps
  <1>24. ASSUME NEW a \in Agents, Lands(a) PROVE Stamps'
    BY <1>24 DEF Stamps, Halted, Awaited, Stamped, Asks, Waits, Roster, claims,
       records, races, counts, Lands
  <1>25. ASSUME NEW a \in Agents, HostDies(a) PROVE Stamps'
    BY <1>25 DEF Stamps, Halted, Awaited, Stamped, Asks, Waits, Roster, issueVars,
       claims, races, HostDies, Fault
  <1>26. CASE UNCHANGED vars
    BY <1>26 DEF Stamps, Halted, Awaited, Stamped, Asks, Waits, Roster, vars,
       issueVars, claims, records, workers, races, counts
  <1>27. QED
    BY <1>1, <1>2, <1>3, <1>4, <1>5, <1>6, <1>7, <1>8, <1>9, <1>10, <1>11, <1>12, <1>13,
       <1>14, <1>15, <1>16, <1>17, <1>18, <1>19, <1>20, <1>21, <1>22, <1>23, <1>24,
       <1>25, <1>26, NextCases, Zenon

(* Every agent is for an issue. *)
LEMMA WorkTyped ==
    ASSUME TypeOK
    PROVE  \A a \in Agents : what[a].issue \in Issues
  BY DEF TypeOK, Work

(* The original of a sibling stays on the roster with its mark. *)
LEMMA SiblingMarkedPreserved ==
    ASSUME TypeOK, Down, Building, Racing, Stamps, Stamps', SiblingMarked, SavedParked, [Next]_vars
    PROVE  SiblingMarked'
  <1>1. CASE TickStarts
    BY <1>1 DEF SiblingMarked, Roster, issueVars, records, workers, races,
       counts, TickStarts, Off
  <1>2. CASE Listed
    BY <1>2, ScanFacts DEF SiblingMarked, Roster, issueVars, records, workers,
       races, counts, Listed
  <1>3. CASE ListFails
    BY <1>3 DEF SiblingMarked, Roster, issueVars, records, workers, races,
       ListFails, Off, Fault
  <1>4. CASE FoundDone
    BY <1>4, ScanFacts DEF SiblingMarked, Roster, records, workers, races,
       counts, FoundDone
  <1>5. CASE Claims
    BY <1>5 DEF SiblingMarked, Roster, issueVars, records, workers, races,
       counts, Claims, NoCall
  <1>6. ASSUME NEW a \in Agents, Lingers(a) PROVE SiblingMarked'
    BY <1>6 DEF SiblingMarked, Roster, issueVars, claims, records, races, counts,
       Lingers
  <1>7. CASE Parked
    <2>1. PICK j \in Issues, o \in Agents : j = what[race.orig].issue /\ o = race.orig
      BY <1>7 DEF TypeOK, Work, Race
    <2>2. o \in Roster /\ raced[j].state = "none"
      BY <1>7, <2>1 DEF Parked, Racing
    <2>3. Roster' = Roster /\ Roster \subseteq Agents /\ UNCHANGED <<what, terminal>>
      BY <1>7, <2>1, <2>2 DEF TypeOK, Parked, Roster
    <2>4. \A i \in Issues \ {j} : raced'[i] = raced[i]
      BY <1>7, <2>1 DEF TypeOK, Parked
    <2>5. QED
      BY <2>2, <2>3, <2>4, WorkTyped DEF SiblingMarked, Stamps, Halted
  <1>8. CASE Drains
    BY <1>8 DEF SiblingMarked, Roster, issueVars, claims, records, workers, races,
       counts, Drains, NoCall
  <1>9. CASE Persists
    BY <1>9 DEF SiblingMarked, Roster, issueVars, claims, records, workers, races,
       counts, Persists, Snapshot
  <1>10. CASE Crash
    <2>1. Roster' = {}
      BY <1>10 DEF Crash, Roster
    <2>2. QED
      BY <2>1 DEF SiblingMarked
  <1>11. CASE Boot
    <2>1. PICK o \in [Agents -> Agents] :
              /\ what' = [a \in Agents |-> what[o[a]]]
              /\ \A a \in Roster' : o[a] \in Listings
              /\ \A a, b \in Roster' : o[a] = o[b] => a = b
              /\ \A a \in Listings : o[a] = a
              /\ \A i \in Issues : what'[raced[i].orig] = what[raced[i].orig]
              /\ \A a \in Inert : status'[a] \notin {"starting", "live"}
              /\ \A a \in Agents : status'[a] # "starting"
              /\ Inert \subseteq Roster' /\ terminal' = Inert
              /\ \/ saved' = saved
                 \/ Listings' = Roster' /\ saved'.terminal = Inert
      BY <1>11, BootFacts
    <2>2. raced' = raced /\ Listings \subseteq Agents /\ Roster' \subseteq Agents
      BY <1>11 DEF Boot, Listings, Roster
    <2>3. QED
      BY <2>1, <2>2, WorkTyped DEF SiblingMarked, SavedParked, Stamps, Halted
  <1>12. ASSUME NEW i \in Issues, Released(i) PROVE SiblingMarked'
    BY <1>12 DEF SiblingMarked, Roster, claims, records, workers, races,
       counts, Released
  <1>13. ASSUME NEW i \in Issues, StartTask(i) PROVE SiblingMarked'
    BY <1>13 DEF SiblingMarked, Roster, issueVars, claims, records, workers, races,
       StartTask, NoCall
  <1>14. ASSUME NEW c \in Callers, Refused(c) PROVE SiblingMarked'
    <2>1. Returned(c)
      BY <1>14, ReturnSteps
    <2>2. Roster' = Roster /\ Roster \subseteq Agents /\ UNCHANGED <<what, terminal>>
      BY <2>1 DEF Returned, Roster
    <2>3. \A i \in Issues : raced[i].state # "none" =>
              raced'[i].state # "none" /\ raced'[i].orig = raced[i].orig
      BY <2>1 DEF Returned
    <2>4. QED
      BY <2>2, <2>3, WorkTyped DEF SiblingMarked, Stamps, Halted
  <1>15. ASSUME NEW c \in Callers, Parks(c) PROVE SiblingMarked'
    <2>1. Returned(c)
      BY <1>15, ReturnSteps
    <2>2. Roster' = Roster /\ Roster \subseteq Agents /\ UNCHANGED <<what, terminal>>
      BY <2>1 DEF Returned, Roster
    <2>3. \A i \in Issues : raced[i].state # "none" =>
              raced'[i].state # "none" /\ raced'[i].orig = raced[i].orig
      BY <2>1 DEF Returned
    <2>4. QED
      BY <2>2, <2>3, WorkTyped DEF SiblingMarked, Stamps, Halted
  <1>16. ASSUME NEW c \in Callers, Admitted(c) PROVE SiblingMarked'
    BY <1>16 DEF SiblingMarked, Roster, issueVars, claims, records, workers, races,
       counts, Admitted
  <1>17. ASSUME NEW c \in Callers, BuildFails(c) PROVE SiblingMarked'
    <2>1. Returned(c)
      BY <1>17, ReturnSteps
    <2>2. Roster' = Roster /\ Roster \subseteq Agents /\ UNCHANGED <<what, terminal>>
      BY <2>1 DEF Returned, Roster
    <2>3. \A i \in Issues : raced[i].state # "none" =>
              raced'[i].state # "none" /\ raced'[i].orig = raced[i].orig
      BY <2>1 DEF Returned
    <2>4. QED
      BY <2>2, <2>3, WorkTyped DEF SiblingMarked, Stamps, Halted
  <1>18. ASSUME NEW c \in Callers, Registered(c) PROVE SiblingMarked'
    <2>1. PICK a \in Agents : Entered(c, a)
      BY <1>18, RegisteredFacts
    <2>2. /\ Roster' = Roster \cup {a} /\ Roster \subseteq Agents /\ a \notin Roster
          /\ UNCHANGED <<raced, terminal>>
          /\ \A b \in Agents \ {a} : what'[b] = what[b]
          /\ what'[a].by = creating[c].by /\ what'[a].issue = creating[c].issue
      BY <2>1 DEF Entered, Roster
    <2>3. creating[c].issue \in Issues
      BY StampTyped
    <2>4. creating[c].by = "race" => Stamped(creating[c].issue)
      BY <2>1, <2>3 DEF Entered, Stamps, Awaited, Asks
    <2>5. QED
      BY <2>2, <2>3, <2>4, WorkTyped DEF SiblingMarked, Stamps, Halted, Stamped
  <1>19. ASSUME NEW c \in Callers, Started(c) PROVE SiblingMarked'
    <2>1. Roster' = Roster /\ Roster \subseteq Agents
      BY <1>19 DEF TypeOK, Started, Roster, Building
    <2>2. UNCHANGED <<what, raced>> /\ terminal \subseteq terminal'
      BY <1>19 DEF Started, races
    <2>3. QED
      BY <2>1, <2>2, WorkTyped DEF SiblingMarked, Stamps, Halted
  <1>20. ASSUME NEW c \in Callers, StartFails(c) PROVE SiblingMarked'
    <2>1. Roster' = Roster /\ Roster \subseteq Agents
      BY <1>20 DEF TypeOK, StartFails, Roster, Building
    <2>2. UNCHANGED <<what, raced>> /\ terminal \subseteq terminal'
      BY <1>20 DEF StartFails, races
    <2>3. QED
      BY <2>1, <2>2, WorkTyped DEF SiblingMarked, Stamps, Halted
  <1>21. ASSUME NEW c \in Callers, Resolves(c) PROVE SiblingMarked'
    <2>1. Returned(c)
      BY <1>21, ReturnSteps
    <2>2. Roster' = Roster /\ Roster \subseteq Agents /\ UNCHANGED <<what, terminal>>
      BY <2>1 DEF Returned, Roster
    <2>3. \A i \in Issues : raced[i].state # "none" =>
              raced'[i].state # "none" /\ raced'[i].orig = raced[i].orig
      BY <2>1 DEF Returned
    <2>4. QED
      BY <2>2, <2>3, WorkTyped DEF SiblingMarked, Stamps, Halted
  <1>22. ASSUME NEW a \in Agents, TurnEnds(a) PROVE SiblingMarked'
    BY <1>22 DEF SiblingMarked, Roster, issueVars, claims, records, races,
       counts, TurnEnds
  <1>23. ASSUME NEW a \in Agents, RunFails(a) PROVE SiblingMarked'
    <2>1. status' = status \/ status' = [status EXCEPT ![a] = "error"]
      BY <1>23 DEF RunFails
    <2>2. Roster' = Roster /\ Roster \subseteq Agents
      BY <1>23, <2>1 DEF TypeOK, RunFails, Roster
    <2>3. UNCHANGED <<what, raced>> /\ terminal \subseteq terminal'
      BY <1>23 DEF RunFails
    <2>4. QED
      BY <2>2, <2>3, WorkTyped DEF SiblingMarked, Stamps, Halted
  <1>24. ASSUME NEW a \in Agents, Lands(a) PROVE SiblingMarked'
    BY <1>24 DEF SiblingMarked, Roster, claims, records, races, counts,
       Lands
  <1>25. ASSUME NEW a \in Agents, HostDies(a) PROVE SiblingMarked'
    BY <1>25 DEF SiblingMarked, Roster, issueVars, claims, races,
       HostDies, Fault, TypeOK
  <1>26. CASE UNCHANGED vars
    BY <1>26 DEF SiblingMarked, Roster, vars, issueVars, claims, records, workers,
       races, counts
  <1>27. QED
    BY <1>1, <1>2, <1>3, <1>4, <1>5, <1>6, <1>7, <1>8, <1>9, <1>10, <1>11, <1>12, <1>13,
       <1>14, <1>15, <1>16, <1>17, <1>18, <1>19, <1>20, <1>21, <1>22, <1>23, <1>24,
       <1>25, <1>26, NextCases, Zenon

(* The snapshot lists no sibling without its failed original. *)
LEMMA SavedParkedPreserved ==
    ASSUME TypeOK, Racing, SiblingMarked, SiblingMarked', SavedParked, [Next]_vars
    PROVE  SavedParked'
  <1>1. CASE TickStarts
    BY <1>1 DEF SavedParked, Listings, Inert, issueVars, records, workers, races,
       counts, TickStarts, Off
  <1>2. CASE Listed
    BY <1>2, ScanFacts DEF SavedParked, Listings, Inert, issueVars, records,
       workers, races, counts, Listed
  <1>3. CASE ListFails
    BY <1>3 DEF SavedParked, Listings, Inert, issueVars, records, workers, races,
       ListFails, Off, Fault
  <1>4. CASE FoundDone
    BY <1>4, ScanFacts DEF SavedParked, Listings, Inert, records, workers, races,
       counts, FoundDone
  <1>5. CASE Claims
    BY <1>5 DEF SavedParked, Listings, Inert, issueVars, records, workers, races,
       counts, Claims, NoCall
  <1>6. ASSUME NEW a \in Agents, Lingers(a) PROVE SavedParked'
    BY <1>6 DEF SavedParked, Listings, Inert, issueVars, claims, records, races,
       counts, Lingers
  <1>7. CASE Parked
    <2>1. PICK j \in Issues, o \in Agents : j = what[race.orig].issue /\ o = race.orig
      BY <1>7 DEF TypeOK, Work, Race
    <2>2. raced[j].state = "none"
      BY <1>7, <2>1 DEF Parked, Racing
    <2>3. UNCHANGED <<what, saved>> /\ \A i \in Issues \ {j} : raced'[i] = raced[i]
      BY <1>7, <2>1 DEF TypeOK, Parked
    <2>4. QED
      BY <2>2, <2>3, WorkTyped DEF SavedParked, Listings, Inert
  <1>8. CASE Drains
    BY <1>8 DEF SavedParked, Listings, Inert, issueVars, claims, records, workers,
       races, counts, Drains, NoCall
  <1>9. CASE Persists
    <2>1. UNCHANGED <<what, terminal, raced>>
      BY <1>9 DEF Persists, records, races
    <2>2. Listings' = Roster /\ Inert' = Roster \cap terminal /\ Roster \subseteq Agents
      BY <1>9 DEF Persists, Snapshot, Listings, Inert, Roster
    <2>3. \A i \in Issues : raced[i].state # "none" =>
              raced'[i].state # "none" /\ raced'[i].orig = raced[i].orig
      BY <1>9, <2>1
    <2>4. QED
      BY <2>1, <2>2, <2>3, WorkTyped DEF SavedParked, SiblingMarked
  <1>10. CASE Crash
    BY <1>10 DEF SavedParked, Listings, Inert, issueVars, Crash, Off,
       NoCall, NoRace
  <1>11. CASE Boot
    <2>1. PICK o \in [Agents -> Agents] :
              /\ what' = [a \in Agents |-> what[o[a]]]
              /\ \A a \in Roster' : o[a] \in Listings
              /\ \A a, b \in Roster' : o[a] = o[b] => a = b
              /\ \A a \in Listings : o[a] = a
              /\ \A i \in Issues : what'[raced[i].orig] = what[raced[i].orig]
              /\ \A a \in Inert : status'[a] \notin {"starting", "live"}
              /\ \A a \in Agents : status'[a] # "starting"
              /\ Inert \subseteq Roster' /\ terminal' = Inert
              /\ \/ saved' = saved
                 \/ Listings' = Roster' /\ saved'.terminal = Inert
      BY <1>11, BootFacts
    <2>2. raced' = raced /\ Listings \subseteq Agents /\ Roster' \subseteq Agents
      BY <1>11 DEF Boot, Listings, Roster
    <2>3. CASE saved' = saved
      <3>1. Listings' = Listings /\ Inert' = Inert /\ \A a \in Listings : what'[a] = what[a]
        BY <2>1, <2>2, <2>3 DEF Listings, Inert
      <3>2. QED
        BY <2>2, <3>1 DEF SavedParked
    <2>4. CASE Listings' = Roster' /\ saved'.terminal = Inert
      <3>1. Inert' = Inert
        BY <2>1, <2>4 DEF Inert
      <3>2. QED
        BY <2>1, <2>2, <2>4, <3>1 DEF SavedParked, SiblingMarked
    <2>5. QED
      BY <2>1, <2>3, <2>4
  <1>12. ASSUME NEW i \in Issues, Released(i) PROVE SavedParked'
    BY <1>12 DEF SavedParked, Listings, Inert, claims, records, workers, races,
       counts, Released
  <1>13. ASSUME NEW i \in Issues, StartTask(i) PROVE SavedParked'
    BY <1>13 DEF SavedParked, Listings, Inert, issueVars, claims, records, workers,
       races, StartTask, NoCall
  <1>14. ASSUME NEW c \in Callers, Refused(c) PROVE SavedParked'
    <2>1. Returned(c)
      BY <1>14, ReturnSteps
    <2>2. UNCHANGED <<what, saved>>
      BY <1>14 DEF Refused
    <2>3. \A i \in Issues : raced[i].state # "none" =>
              raced'[i].state # "none" /\ raced'[i].orig = raced[i].orig
      BY <2>1 DEF Returned
    <2>4. QED
      BY <2>2, <2>3, WorkTyped DEF SavedParked, Listings, Inert
  <1>15. ASSUME NEW c \in Callers, Parks(c) PROVE SavedParked'
    <2>1. Returned(c)
      BY <1>15, ReturnSteps
    <2>2. UNCHANGED <<what, saved>>
      BY <1>15 DEF Parks
    <2>3. \A i \in Issues : raced[i].state # "none" =>
              raced'[i].state # "none" /\ raced'[i].orig = raced[i].orig
      BY <2>1 DEF Returned
    <2>4. QED
      BY <2>2, <2>3, WorkTyped DEF SavedParked, Listings, Inert
  <1>16. ASSUME NEW c \in Callers, Admitted(c) PROVE SavedParked'
    BY <1>16 DEF SavedParked, Listings, Inert, issueVars, claims, records, workers,
       races, counts, Admitted
  <1>17. ASSUME NEW c \in Callers, BuildFails(c) PROVE SavedParked'
    <2>1. Returned(c)
      BY <1>17, ReturnSteps
    <2>2. UNCHANGED <<what, saved>>
      BY <1>17 DEF BuildFails
    <2>3. \A i \in Issues : raced[i].state # "none" =>
              raced'[i].state # "none" /\ raced'[i].orig = raced[i].orig
      BY <2>1 DEF Returned
    <2>4. QED
      BY <2>2, <2>3, WorkTyped DEF SavedParked, Listings, Inert
  <1>18. ASSUME NEW c \in Callers, Registered(c) PROVE SavedParked'
    <2>1. PICK a \in Agents : Entered(c, a)
      BY <1>18, RegisteredFacts
    <2>2. /\ a \notin Listings /\ UNCHANGED <<raced, saved>>
          /\ \A b \in Agents \ {a} : what'[b] = what[b]
      BY <2>1 DEF Entered, Unused, Listings
    <2>3. QED
      BY <2>2 DEF SavedParked, Listings, Inert
  <1>19. ASSUME NEW c \in Callers, Started(c) PROVE SavedParked'
    BY <1>19 DEF SavedParked, Listings, Inert, issueVars, claims, races,
       counts, Started
  <1>20. ASSUME NEW c \in Callers, StartFails(c) PROVE SavedParked'
    BY <1>20 DEF SavedParked, Listings, Inert, issueVars, claims, races,
       StartFails, Fault
  <1>21. ASSUME NEW c \in Callers, Resolves(c) PROVE SavedParked'
    <2>1. UNCHANGED <<what, terminal>>
      BY <1>21 DEF Resolves
    <2>2. Listings' = Roster /\ Inert' = Roster \cap terminal /\ Roster \subseteq Agents
      BY <1>21 DEF Resolves, Snapshot, Listings, Inert, Roster
    <2>3. \A i \in Issues : raced[i].state # "none" =>
              raced'[i].state # "none" /\ raced'[i].orig = raced[i].orig
      BY <1>21, <2>1, ReturnSteps DEF Returned
    <2>4. QED
      BY <2>1, <2>2, <2>3, WorkTyped DEF SavedParked, SiblingMarked
  <1>22. ASSUME NEW a \in Agents, TurnEnds(a) PROVE SavedParked'
    BY <1>22 DEF SavedParked, Listings, Inert, issueVars, claims, records, races,
       counts, TurnEnds
  <1>23. ASSUME NEW a \in Agents, RunFails(a) PROVE SavedParked'
    BY <1>23 DEF SavedParked, Listings, Inert, issueVars, claims, counts, RunFails
  <1>24. ASSUME NEW a \in Agents, Lands(a) PROVE SavedParked'
    BY <1>24 DEF SavedParked, Listings, Inert, claims, records, races,
       counts, Lands
  <1>25. ASSUME NEW a \in Agents, HostDies(a) PROVE SavedParked'
    BY <1>25 DEF SavedParked, Listings, Inert, issueVars, claims, races,
       HostDies, Fault
  <1>26. CASE UNCHANGED vars
    BY <1>26 DEF SavedParked, Listings, Inert, vars, issueVars, claims, records,
       workers, races, counts
  <1>27. QED
    BY <1>1, <1>2, <1>3, <1>4, <1>5, <1>6, <1>7, <1>8, <1>9, <1>10, <1>11, <1>12, <1>13,
       <1>14, <1>15, <1>16, <1>17, <1>18, <1>19, <1>20, <1>21, <1>22, <1>23, <1>24,
       <1>25, <1>26, NextCases, Zenon

(* The ledger is earned. *)
LEMMA GivenPreserved ==
    ASSUME TypeOK, Down, Called, Racing, Given, [Next]_vars
    PROVE  Given'
  <1>1. CASE TickStarts
    BY <1>1 DEF Given, LedgerEarned, issueVars, records, workers, races,
       counts, TickStarts, Off
  <1>2. CASE Listed
    BY <1>2, ScanFacts DEF Given, LedgerEarned, issueVars, records, workers, races,
       counts, Listed
  <1>3. CASE ListFails
    BY <1>3 DEF Given, LedgerEarned, issueVars, records, workers, races,
       ListFails, Off, Fault
  <1>4. CASE FoundDone
    BY <1>4, ScanFacts DEF Given, LedgerEarned, records, workers, races,
       counts, FoundDone
  <1>5. CASE Claims
    BY <1>5 DEF Given, LedgerEarned, issueVars, records, workers, races,
       counts, Claims, NoCall
  <1>6. ASSUME NEW a \in Agents, Lingers(a) PROVE Given'
    BY <1>6 DEF Given, LedgerEarned, issueVars, claims, records, races, counts, Lingers
  <1>7. CASE Parked
    BY <1>7 DEF Given, LedgerEarned, issueVars, claims, counts, Parked,
       NoCall
  <1>8. CASE Drains
    BY <1>8 DEF Given, LedgerEarned, issueVars, claims, records, workers, races,
       counts, Drains, NoCall
  <1>9. CASE Persists
    BY <1>9 DEF Given, LedgerEarned, issueVars, claims, records, workers, races,
       counts, Persists, Snapshot
  <1>10. CASE Crash
    BY <1>10 DEF Given, LedgerEarned, issueVars, Crash, Off, NoCall,
       NoRace, Callers
  <1>11. CASE Boot
    BY <1>11 DEF Given, LedgerEarned, issueVars, claims, counts, Boot, Down
  <1>12. ASSUME NEW i \in Issues, Released(i) PROVE Given'
    BY <1>12 DEF Given, LedgerEarned, claims, records, workers, races,
       counts, Released
  <1>13. ASSUME NEW i \in Issues, StartTask(i) PROVE Given'
    BY <1>13 DEF Given, LedgerEarned, issueVars, claims, records, workers, races,
       StartTask, NoCall
  <1>14. ASSUME NEW c \in Callers, Refused(c) PROVE Given'
    <2>1. Returned(c)
      BY <1>14, ReturnSteps
    <2>2. Returns(c, FALSE)
      BY <1>14 DEF Refused
    <2>3. ledger' = ledger
      BY <2>2 DEF Returns
    <2>4. QED
      BY <2>1, <2>3 DEF Given, LedgerEarned, Returned, Callers
  <1>15. ASSUME NEW c \in Callers, Parks(c) PROVE Given'
    <2>1. Returned(c)
      BY <1>15, ReturnSteps
    <2>2. cfg.queue /\ cfg' = cfg /\ given' = given
      BY <1>15, <2>1 DEF Parks, Returned
    <2>3. QED
      BY <2>1, <2>2 DEF Given, LedgerEarned, Returned, Callers
  <1>16. ASSUME NEW c \in Callers, Admitted(c) PROVE Given'
    BY <1>16 DEF Given, LedgerEarned, issueVars, claims, records, workers, races,
       counts, Admitted
  <1>17. ASSUME NEW c \in Callers, BuildFails(c) PROVE Given'
    <2>1. Returned(c)
      BY <1>17, ReturnSteps
    <2>2. Returns(c, FALSE)
      BY <1>17 DEF BuildFails
    <2>3. ledger' = ledger
      BY <2>2 DEF Returns
    <2>4. QED
      BY <2>1, <2>3 DEF Given, LedgerEarned, Returned, Callers
  <1>18. ASSUME NEW c \in Callers, Registered(c) PROVE Given'
    <2>1. PICK a \in Agents : Entered(c, a)
      BY <1>18, RegisteredFacts
    <2>2. QED
      BY <2>1 DEF Given, LedgerEarned, Entered, claims, Called, Callers, issueVars
  <1>19. ASSUME NEW c \in Callers, Started(c) PROVE Given'
    BY <1>19 DEF Given, LedgerEarned, issueVars, claims, races, counts,
       Started
  <1>20. ASSUME NEW c \in Callers, StartFails(c) PROVE Given'
    BY <1>20 DEF Given, LedgerEarned, issueVars, claims, races, StartFails,
       Fault
  <1>21. ASSUME NEW c \in Callers, Resolves(c) PROVE Given'
    <2>1. Returned(c)
      BY <1>21, ReturnSteps
    <2>2. creating[c].st = "save"
      BY <1>21 DEF Resolves
    <2>3. QED
      BY <2>1, <2>2 DEF Given, LedgerEarned, Returned, Callers
  <1>22. ASSUME NEW a \in Agents, TurnEnds(a) PROVE Given'
    BY <1>22 DEF Given, LedgerEarned, issueVars, claims, records, races,
       counts, TurnEnds
  <1>23. ASSUME NEW a \in Agents, RunFails(a) PROVE Given'
    BY <1>23 DEF Given, LedgerEarned, issueVars, claims, counts, RunFails
  <1>24. ASSUME NEW a \in Agents, Lands(a) PROVE Given'
    BY <1>24 DEF Given, LedgerEarned, claims, records, races, counts, Lands
  <1>25. ASSUME NEW a \in Agents, HostDies(a) PROVE Given'
    BY <1>25 DEF Given, LedgerEarned, issueVars, claims, races, HostDies,
       Fault
  <1>26. CASE UNCHANGED vars
    BY <1>26 DEF Given, LedgerEarned, vars, issueVars, claims, records, workers,
       races, counts
  <1>27. QED
    BY <1>1, <1>2, <1>3, <1>4, <1>5, <1>6, <1>7, <1>8, <1>9, <1>10, <1>11, <1>12, <1>13,
       <1>14, <1>15, <1>16, <1>17, <1>18, <1>19, <1>20, <1>21, <1>22, <1>23, <1>24,
       <1>25, <1>26, NextCases, Zenon

-----------------------------------------------------------------------------
(* The invariant holds at the start. *)
LEMMA InitInv ==
    ASSUME Init
    PROVE  IInv
  <1>1. TypeOK
    <2>1. tracker \in [Issues -> {"held", "open", "closed"}] /\ cfg \in Deployments
      BY DeploymentsAssumption DEF Init, Deployment
    <2>2. tick \in Tick /\ race \in Race /\ raced \in [Issues -> Stamp]
      BY Defaults DEF Init, Off, Tick, NoRace, Race, NoStamp, Stamp
    <2>3. creating \in [Callers -> Create] /\ what \in [Agents -> Work]
      BY Defaults DEF Init, NoCall, Create, Origins, NoWork, Work, Kinds
    <2>4. queue \in Seq([issue : Issues, by : Origins])
      BY DEF Init
    <2>5. saved \in [rec : [Agents -> {"none", "fresh", "begun"}], terminal : SUBSET Agents]
      BY DEF Init
    <2>6. QED
      BY <2>1, <2>2, <2>3, <2>4, <2>5 DEF TypeOK, Init
  <1>2. /\ Roster = {} /\ Listings = {} /\ queue = <<>>
        /\ \A c \in Callers : creating[c].st = "none"
        /\ tick.pc = "off" /\ race.on = FALSE
        /\ \A i \in Issues : raced[i].state = "none" /\ siblings[i] = 0
        /\ ledger = {}
    BY DEF Init, Roster, Listings, NoCall, Off, NoRace, NoStamp
  <1>3. Down /\ Called /\ Building
    BY <1>2 DEF Down, Called, Building, Callers
  <1>4. OneRequest /\ NoneTwice /\ Claimed
    BY <1>2 DEF OneRequest, NoneTwice, Claimed, Asks, Waits, Has
  <1>5. OneByDispatch /\ SavedOnce /\ SiblingMarked /\ SavedParked
    BY <1>2 DEF OneByDispatch, SavedOnce, SiblingMarked, SavedParked
  <1>6. Racing /\ Given
    BY <1>2 DEF Racing, Given, LedgerEarned, Callers
  <1>7. Stamps
    BY <1>2 DEF Stamps, Halted, Awaited, Asks, Waits
  <1>8. QED
    BY <1>1, <1>3, <1>4, <1>5, <1>6, <1>7 DEF IInv

(* Every step keeps the invariant. *)
LEMMA StepInv ==
    ASSUME IInv, [Next]_vars
    PROVE  IInv'
  <1>1. TypeOK'
    BY TypePreserved DEF IInv
  <1>2. Down' /\ Called' /\ Building'
    BY DownPreserved, CalledPreserved, BuildingPreserved DEF IInv
  <1>3. OneRequest' /\ NoneTwice' /\ Claimed'
    BY OneRequestPreserved, NoneTwicePreserved, ClaimedPreserved DEF IInv
  <1>4. OneByDispatch'
    BY OneByDispatchPreserved DEF IInv
  <1>5. SavedOnce'
    BY <1>4, SavedOncePreserved DEF IInv
  <1>6. Racing' /\ Given'
    BY RacingPreserved, GivenPreserved DEF IInv
  <1>7. Stamps'
    BY StampsPreserved DEF IInv
  <1>8. SiblingMarked'
    BY <1>7, SiblingMarkedPreserved DEF IInv
  <1>9. SavedParked'
    BY <1>8, SavedParkedPreserved DEF IInv
  <1>10. QED
    BY <1>1, <1>2, <1>3, <1>4, <1>5, <1>6, <1>7, <1>8, <1>9 DEF IInv

(* The invariant holds in every reachable state. *)
LEMMA Inductive == Spec => []IInv
  <1>1. Init => IInv
    BY InitInv
  <1>2. IInv /\ [Next]_vars => IInv'
    BY StepInv
  <1>3. QED
    BY <1>1, <1>2, PTL DEF Spec

(* Every state of the dispatcher, the queue and the fleet is well typed. *)
THEOREM Typed == Spec => []TypeOK
  <1>1. IInv => TypeOK
    BY DEF IInv
  <1>2. QED
    BY Inductive, <1>1, PTL

(* For any number of issues, caps and restarts, the dispatcher never has    *)
(* two agents on the roster for one issue.                                  *)
THEOREM DispatchedOnce == Spec => []OneByDispatch
  <1>1. IInv => OneByDispatch
    BY DEF IInv
  <1>2. QED
    BY Inductive, <1>1, PTL

(* An issue is never given a second race sibling. *)
THEOREM OneRace == Spec => []RacedOnce
  <1>1. IInv => RacedOnce
    BY DEF IInv, Stamps, RacedOnce
  <1>2. QED
    BY Inductive, <1>1, PTL

(* A race sibling on the roster has its original there, marked as failed    *)
(* and its record ended, whatever became of its harness.                    *)
THEOREM SiblingAlone == Spec => []OriginalParked
  <1>1. ASSUME IInv, NEW b \in Roster, what[b].by = "race"
        PROVE  LET r == raced[what[b].issue]
               IN  r.state # "none" /\ r.orig \in terminal \cap Roster /\ status[r.orig] \in Ended
    <2>1. what[b].issue \in Issues
      BY <1>1, WorkTyped DEF IInv, Roster
    <2>2. /\ raced[what[b].issue].state # "none"
          /\ raced[what[b].issue].orig \in terminal \cap Roster
      BY <1>1 DEF IInv, SiblingMarked
    <2>3. status[raced[what[b].issue].orig] \notin {"starting", "live"}
      BY <1>1, <2>1, <2>2 DEF IInv, Stamps, Halted
    <2>4. QED
      BY <1>1, <2>2, <2>3 DEF IInv, TypeOK, Roster, Ended
  <1>2. IInv => OriginalParked
    BY <1>1 DEF OriginalParked
  <1>3. QED
    BY Inductive, <1>2, PTL

(* Without the queue the add-only ledger holds nothing that got no agent    *)
(* and was not found done.                                                  *)
THEOREM LedgerIsEarned == Spec => []LedgerEarned
  <1>1. IInv => LedgerEarned
    BY DEF IInv, Given
  <1>2. QED
    BY Inductive, <1>1, PTL

=============================================================================
