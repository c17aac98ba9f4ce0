------------------------- MODULE BoundarySyncProofs --------------------------
(* Proofs about BoundarySync for any number of sessions and hunks: the chain    *)
(* lets one job at a time run, and from that the daemon overwrites nobody's     *)
(* edit, a session's patches arrive in order, and what is held is shown, as     *)
(* far as the last boot could read it.                                          *)
EXTENDS BoundarySync, TLAPS

Alive(s) == status[s] \in {"idle", "running", "cut"}

(* The jobs are numbered, belong to live sessions, and only the first one runs. *)
Chained ==
  /\ \A j, k \in chain : j.n = k.n => j = k
  /\ \A j \in chain : j.n <= ticket /\ Alive(j.session)
  /\ \A s \in Sessions : at[s] = "none" => hand[s] = Empty
  /\ \A s \in Sessions : at[s] # "none" => \E j \in chain : First(j) /\ j.session = s

(* A running replay lists what is held for its session, lowest number first; a  *)
(* running turn has nothing held and the latest number.                         *)
ListedFor(s) ==
  /\ hand[s].todo = Mine(s)
  /\ at[s] # "check" =>
       /\ hand[s].patch \in Patches
       /\ hand[s].n \in Nat /\ hand[s].n <= patches
       /\ \A x \in Mine(s) : hand[s].n <= x.n
       /\ Mine(s) = {} => at[s] = "resolve" \/ hand[s].n = patches

Listed == \A s \in Sessions : at[s] # "none" => ListedFor(s)

(* What git apply read applies, and stands but for the operator's edits since.  *)
Pinned ==
  \A s \in Sessions : at[s] = "write" =>
    /\ hand[s].got \in Trees /\ Applies(hand[s].patch, hand[s].got)
    /\ \A h \in Hunks \ raced[s] : real[h] = hand[s].got[h]

Numbered ==
  /\ \A x \in holds : x.n <= patches /\ status[x.owner] # "absent"
  /\ \A x \in orphans : x.n <= patches /\ status[x.owner] # "absent"
  /\ \A s \in Sessions : delivered[s] <= patches /\ (status[s] = "absent" => delivered[s] = 0)

Exclusive == TypeOK /\ Chained /\ Listed /\ Pinned /\ Numbered /\ InOrder /\ HeldShown

-----------------------------------------------------------------------------
(* The chain *)

(* While the job of s runs, no other session's does.                            *)
LEMMA Alone ==
  ASSUME TypeOK, Chained, NEW s \in Sessions, NEW j \in chain, First(j), j.session = s,
         NEW t \in Sessions, t # s
  PROVE  at[t] = "none" /\ hand[t] = Empty
<1>1. \A k \in chain : k.n \in Nat
  BY DEF TypeOK, Jobs
<1>2. ASSUME NEW k \in chain, First(k) PROVE k = j
  BY <1>1, <1>2 DEF Chained, First
<1> QED
  BY <1>2 DEF Chained

(* When it ends, none runs.                                                     *)
LEMMA DoneIdle ==
  ASSUME TypeOK, Chained, NEW s \in Sessions, NEW j \in chain, First(j), j.session = s, Done(s)
  PROVE  /\ at' = [t \in Sessions |-> "none"] /\ hand' = [t \in Sessions |-> Empty]
         /\ chain' \subseteq chain /\ ticket' \in Nat /\ \A k \in chain' : k.n <= ticket'
<1>1. at' = [t \in Sessions |-> "none"]
  BY Alone DEF Done, TypeOK
<1>2. hand' = [t \in Sessions |-> Empty]
  BY Alone DEF Done, TypeOK
<1> QED
  BY <1>1, <1>2 DEF Done, Chained, TypeOK

(* When it goes on, only it runs.                                               *)
LEMMA GoesAlone ==
  ASSUME TypeOK, Chained, NEW s \in Sessions, NEW j \in chain, First(j), j.session = s,
         NEW place, NEW h, Goes(s, place, h)
  PROVE  /\ at' = [t \in Sessions |-> IF t = s THEN place ELSE "none"]
         /\ hand' = [t \in Sessions |-> IF t = s THEN h ELSE Empty]
         /\ chain' = chain /\ ticket' = ticket
<1>1. at' = [t \in Sessions |-> IF t = s THEN place ELSE "none"]
  BY Alone DEF Goes, TypeOK
<1>2. hand' = [t \in Sessions |-> IF t = s THEN h ELSE Empty]
  BY Alone DEF Goes, TypeOK
<1> QED
  BY <1>1, <1>2 DEF Goes

(* What Done leaves of the invariant.                                           *)
LaneTyped ==
  /\ chain \subseteq Jobs /\ ticket \in Nat
  /\ at \in [Sessions -> {"none", "check", "snapshot", "read", "write", "compare", "resolve"}]
  /\ hand \in [Sessions -> Hands]

LEMMA EmptyHand == Empty \in Hands
BY DEF Empty, Hands

LEMMA DoneKeeps ==
  ASSUME TypeOK, Chained, NEW s \in Sessions, NEW j \in chain, First(j), j.session = s,
         Done(s), status' = status
  PROVE  LaneTyped' /\ Chained' /\ Listed' /\ Pinned'
<1>1. /\ at' = [t \in Sessions |-> "none"] /\ hand' = [t \in Sessions |-> Empty]
      /\ chain' \subseteq chain /\ ticket' \in Nat /\ \A k \in chain' : k.n <= ticket'
  BY DoneIdle
<1>2. LaneTyped'
  <2>1. Empty \in Hands'
    BY DEF Empty, Hands
  <2> QED
    BY <1>1, <2>1 DEF LaneTyped, TypeOK
<1>3. Chained'
  BY <1>1 DEF Chained, Alive
<1> QED
  BY <1>1, <1>2, <1>3 DEF Listed, Pinned

(* What Goes leaves, if what holds of the running job is shown.                 *)
LEMMA GoesKeeps ==
  ASSUME TypeOK, Chained, NEW s \in Sessions, NEW j \in chain, First(j), j.session = s,
         NEW place \in {"check", "snapshot", "read", "write", "compare", "resolve"},
         NEW h, Goes(s, place, h), h \in Hands', status' = status,
         ListedFor(s)',
         place = "write" => /\ h.got \in Trees /\ Applies(h.patch, h.got)
                            /\ \A g \in Hunks \ raced'[s] : real'[g] = h.got[g]
  PROVE  LaneTyped' /\ Chained' /\ Listed' /\ Pinned'
<1>1. /\ at' = [t \in Sessions |-> IF t = s THEN place ELSE "none"]
      /\ hand' = [t \in Sessions |-> IF t = s THEN h ELSE Empty]
      /\ chain' = chain /\ ticket' = ticket
  BY GoesAlone
<1>2. LaneTyped'
  <2>1. Empty \in Hands'
    BY DEF Empty, Hands
  <2> QED
    BY <1>1, <2>1 DEF LaneTyped, TypeOK
<1>3. Chained'
  <2>1. \A t \in Sessions : at'[t] # "none" => \E k \in chain' : First(k)' /\ k.session = t
    BY <1>1 DEF First
  <2> QED
    BY <1>1, <2>1 DEF Chained, Alive
<1>4. Listed'
  BY <1>1 DEF Listed
<1>5. Pinned'
  BY <1>1 DEF Pinned, Applies, Touched
<1> QED
  BY <1>2, <1>3, <1>4, <1>5

-----------------------------------------------------------------------------
(* Steps outside the chain *)

(* A new job changes nothing for the one that runs.                             *)
LEMMA EnqueueKeeps ==
  ASSUME TypeOK, Chained, Listed, Pinned, NEW s \in Sessions, NEW kind \in Kinds,
         NEW early \in Trees \cup {None}, Enqueue(s, kind, early),
         UNCHANGED <<at, hand, holds, patches, real, raced>>, Alive(s)',
         \A t \in Sessions : Alive(t) => Alive(t)'
  PROVE  LaneTyped' /\ Chained' /\ Listed' /\ Pinned'
<1>1. LaneTyped'
  BY DEF LaneTyped, TypeOK, Enqueue, Jobs, Hands
<1>2. \A k \in chain : k.n \in Nat /\ k.n <= ticket /\ k.session \in Sessions
  BY DEF TypeOK, Chained, Jobs
<1>3. \A j \in chain : First(j) => First(j)'
  BY <1>2 DEF TypeOK, First, Enqueue
<1>4. Chained'
  BY <1>2, <1>3 DEF Chained, Enqueue, TypeOK
<1>5. Listed'
  BY DEF Listed, ListedFor, Mine
<1>6. Pinned'
  BY DEF Pinned, Applies, Touched
<1> QED
  BY <1>1, <1>4, <1>5, <1>6

LEMMA LaunchKeeps ==
  ASSUME Exclusive, NEW s \in Sessions, NEW prior \in Sessions \cup {None}, Launch(s, prior)
  PROVE  Exclusive'
<1> USE DEF Exclusive, lane, history, counts
<1>1. /\ status[s] = "absent" /\ s \in Sessions /\ prior # s
      /\ status' = [status EXCEPT ![s] = "idle"]
      /\ prior = None \/ status[prior] = "gone"
  BY BoundarySyncAssumption DEF Launch, Only, TypeOK
<1>2. \A t \in Sessions : at[t] # "none" => t # s /\ t # prior
  BY <1>1, BoundarySyncAssumption DEF Chained, Alive
<1>3. \A x \in holds : x.owner \in Sessions /\ x.owner # s /\ x \in Held
  BY <1>1 DEF TypeOK, Numbered, Held
<1>4. PICK moved \in SUBSET Mine(prior) :
        /\ holds' = (holds \ moved) \cup {[x EXCEPT !.owner = s, !.listed = TRUE] : x \in moved}
        /\ \/ rows' = [rows EXCEPT ![s] = Only(moved # {}, "held")]
           \/ rows' = [rows EXCEPT ![s] = {"held"}]
  BY DEF Launch
<1>5. \A x \in moved : x \in holds /\ x.owner = prior /\ [x EXCEPT !.owner = s, !.listed = TRUE] \in Held
  BY <1>3 DEF Mine, Held
<1>6. holds' \subseteq Held
  BY <1>3, <1>4, <1>5
<1>7. \A y \in holds' :
        \/ y \in holds
        \/ y.owner = s /\ moved # {} /\ \E x \in holds : y.n = x.n /\ y.swept = x.swept
  <2> SUFFICES ASSUME NEW y \in holds', y \notin holds
               PROVE  y.owner = s /\ moved # {} /\ \E x \in holds : y.n = x.n /\ y.swept = x.swept
    OBVIOUS
  <2>1. PICK x \in moved : y = [x EXCEPT !.owner = s, !.listed = TRUE]
    BY <1>4
  <2>2. x \in holds /\ x \in Held
    BY <1>3, <1>5
  <2>3. y.owner = s /\ y.n = x.n /\ y.swept = x.swept
    BY <2>1, <2>2 DEF Held
  <2> QED
    BY <2>2, <2>3
<1>18. \A t \in Sessions : t # s /\ t # prior => Mine(t)' = Mine(t)
  BY <1>3, <1>4, <1>5, <1>7 DEF Mine
<1>19. /\ UNCHANGED <<real, tree, promoted, chain, ticket, at, hand, start, endTree, orphans, patches,
                      frames, edits, clicks, restarts, faults, raced, credit, delivered, mixed>>
       /\ patches \in Nat /\ rows \in [Sessions -> SUBSET {"held", "uncapturable", "divergence"}]
  BY DEF Launch, TypeOK
<1>8. LaneTyped'
  <2>1. \A t \in Sessions : hand[t].todo \subseteq holds'
    <3>1. \A t \in Sessions : at[t] # "none" => hand[t].todo = Mine(t)'
      BY <1>2, <1>18 DEF Listed, ListedFor
    <3>2. \A t \in Sessions : at[t] = "none" => hand[t].todo = {}
      BY DEF Chained, Empty
    <3> QED
      BY <3>1, <3>2 DEF Mine
  <2>2. \A t \in Sessions : hand[t] \in Hands'
    BY <1>19, <2>1 DEF TypeOK, Hands
  <2>3. hand' \in [Sessions -> Hands']
    BY <1>19, <2>2 DEF TypeOK
  <2> QED
    BY <1>19, <2>3 DEF LaneTyped, TypeOK
<1>9. Chained'
  <2>1. \A t \in Sessions : Alive(t) => Alive(t)'
    BY <1>1 DEF Alive, TypeOK
  <2>2. \A k \in chain : k.session \in Sessions
    BY DEF TypeOK, Jobs
  <2> QED
    BY <1>19, <2>1, <2>2 DEF Chained, First
<1>10. Listed'
  BY <1>2, <1>18 , <1>19 DEF Listed, ListedFor
<1>11. Pinned'
  BY <1>19 DEF Pinned, Applies, Touched
<1>12. Numbered'
  <2>1. \A t \in Sessions : status'[t] = "absent" <=> status[t] = "absent" /\ t # s
    BY <1>1 DEF TypeOK
  <2>2. \A x \in orphans : x.owner \in Sessions /\ x.owner # s
    BY <1>1 DEF TypeOK, Numbered
  <2>3. \A y \in holds' : y.n <= patches /\ status'[y.owner] # "absent"
    BY <1>3, <1>7, <2>1 DEF Numbered
  <2>4. \A x \in orphans : x.n <= patches /\ status'[x.owner] # "absent"
    BY <2>1, <2>2 DEF Numbered
  <2>5. \A t \in Sessions : delivered[t] <= patches /\ (status'[t] = "absent" => delivered[t] = 0)
    BY <2>1 DEF Numbered
  <2> QED
    BY <1>19, <2>3, <2>4, <2>5 DEF Numbered
<1>13. InOrder'
  <2> SUFFICES ASSUME NEW y \in holds', ~y.swept PROVE delivered[y.owner] <= y.n
    BY <1>19 DEF InOrder
  <2>1. delivered[s] = 0
    BY <1>1 DEF Numbered
  <2> QED
    BY <1>6, <1>7, <2>1 DEF InOrder, Held
<1>14. rows' \in [Sessions -> SUBSET {"held", "uncapturable", "divergence"}]
  BY <1>4, <1>19 DEF Only
<1>15. HeldShown'
  <2> SUFFICES ASSUME NEW y \in holds', y.owner \in Present', y.listed PROVE "held" \in rows'[y.owner]
    BY DEF HeldShown
  <2>1. CASE y.owner = s
    <3>1. moved # {}
      BY <1>3, <1>7, <2>1
    <3> QED
      BY <1>4, <1>19, <2>1, <3>1 DEF Only
  <2>2. CASE y.owner # s
    <3>1. y.owner \in Sessions /\ y.owner \in Present
      BY <1>1, <1>6, <2>2 DEF Present, Held, TypeOK
    <3>2. y \in holds
      BY <1>7, <2>2
    <3>3. rows'[y.owner] = rows[y.owner]
      BY <1>4, <1>19, <2>2, <3>1
    <3> QED
      BY <3>1, <3>2, <3>3 DEF HeldShown
  <2> QED
    BY <2>1, <2>2
<1>16. TypeOK'
  <2>1. status' \in [Sessions -> {"absent", "idle", "running", "cut", "gone"}]
    BY <1>1 DEF TypeOK
  <2> QED
    BY <1>6, <1>8, <1>14, <1>19, <2>1 DEF TypeOK, LaneTyped
<1> QED
  BY <1>9, <1>10, <1>11, <1>12, <1>13, <1>15, <1>16

(* Steps that queue a job.                                                      *)
LEMMA QueueKeeps ==
  ASSUME Exclusive, NEW s \in Sessions,
         TurnStart(s) \/ TurnEnd(s) \/ \E kind \in {"apply", "discard"} : Click(s, kind)
  PROVE  Exclusive'
<1> USE DEF Exclusive, lane, store, history, counts
<1>1. /\ Alive(s)' /\ Alive(s) /\ \A t \in Sessions : Alive(t) => Alive(t)'
      /\ \A t \in Sessions : t \in Present' => t \in Present
      /\ \A t \in Sessions : (status'[t] = "absent") <=> (status[t] = "absent")
      /\ UNCHANGED <<at, hand, holds, orphans, patches, real, raced, delivered, rows, tree, start,
                     endTree, promoted, credit, mixed, edits, restarts, faults>>
  BY DEF TurnStart, TurnEnd, Click, Alive, Present, TypeOK
<1>2. LaneTyped' /\ Chained' /\ Listed' /\ Pinned'
  <2>1. CASE chain' = chain /\ ticket' = ticket
    <3>1. LaneTyped'
      BY <1>1, <2>1 DEF LaneTyped, TypeOK, Hands
    <3>2. Chained'
      BY <1>1, <2>1 DEF Chained, First, TypeOK, Jobs
    <3>3. Listed' /\ Pinned'
      BY <1>1 DEF Listed, ListedFor, Mine, Pinned, Applies, Touched
    <3> QED
      BY <3>1, <3>2, <3>3
  <2>2. CASE \E kind \in Kinds, early \in Trees \cup {None} : Enqueue(s, kind, early)
    BY <1>1, <2>2, EnqueueKeeps
  <2>3. TurnStart(s) => \/ chain' = chain /\ ticket' = ticket
                        \/ \E early \in Trees \cup {None} : Enqueue(s, "start", early)
    BY DEF TurnStart, TypeOK
  <2>4. "start" \in Kinds /\ "end" \in Kinds /\ "apply" \in Kinds /\ "discard" \in Kinds
    BY DEF Kinds
  <2> QED
    BY <2>1, <2>2, <2>3, <2>4 DEF TurnEnd, Click
<1>3. TypeOK'
  <2>1. status' \in [Sessions -> {"absent", "idle", "running", "cut", "gone"}]
    BY DEF TurnStart, TurnEnd, Click, TypeOK
  <2>2. frames' \in [Sessions -> Nat] /\ clicks' \in Nat
    BY DEF TurnStart, TurnEnd, Click, TypeOK
  <2> QED
    BY <1>1, <1>2, <2>1, <2>2 DEF TypeOK, LaneTyped
<1>4. Numbered'
  BY <1>1 DEF Numbered, TypeOK, Held
<1> QED
  BY <1>1, <1>2, <1>3, <1>4 DEF InOrder, HeldShown, TypeOK, Held

(* Edits, Promote and Acknowledge.                                              *)
LEMMA EditKeeps ==
  ASSUME Exclusive, NEW s, NEW h,
         \/ s \in Sessions /\ h \in Hunks /\ AgentEdit(s, h)
         \/ h \in Hunks /\ OperatorEdit(h)
         \/ s \in Sessions /\ (Promote(s) \/ Acknowledge(s))
  PROVE  Exclusive'
<1> USE DEF Exclusive, lane, store, history, counts
<1>1. UNCHANGED <<at, hand, chain, ticket, holds, orphans, patches, delivered, status>>
  BY DEF AgentEdit, OperatorEdit, Promote, Acknowledge
<1>2. Pinned'
  <2>1. CASE h \in Hunks /\ OperatorEdit(h)
    <3>1. \A t \in Sessions : raced'[t] = raced[t] \cup {h}
      BY <2>1 DEF OperatorEdit
    <3>2. \A g \in Hunks : g # h => real'[g] = real[g]
      BY <2>1 DEF OperatorEdit, TypeOK, Trees
    <3> QED
      BY <1>1, <3>1, <3>2 DEF Pinned, Applies, Touched
  <2>2. CASE AgentEdit(s, h) \/ Promote(s) \/ Acknowledge(s)
    <3>1. UNCHANGED <<real, raced>>
      BY <2>2 DEF AgentEdit, Promote, Acknowledge
    <3> QED
      BY <1>1, <3>1 DEF Pinned, Applies, Touched
  <2> QED
    BY <2>1, <2>2
<1>3. Chained' /\ Listed' /\ Numbered' /\ InOrder'
  BY <1>1 DEF Chained, First, Alive, Listed, ListedFor, Mine, Numbered, InOrder
<1>4. HeldShown'
  <2>1. \A t \in Sessions : "held" \in rows[t] => "held" \in rows'[t]
    BY DEF AgentEdit, OperatorEdit, Promote, Acknowledge, Clear, TypeOK
  <2> QED
    BY <1>1, <2>1 DEF HeldShown, Present, TypeOK, Held
<1>5. TypeOK'
  <2>1. CASE s \in Sessions /\ h \in Hunks /\ AgentEdit(s, h)
    <3>1. /\ edits[s] \in Nat /\ <<s, edits[s]>> \in Stamps /\ s \in Authors
      BY <2>1 DEF TypeOK, Stamps, Authors
    <3>2. edits' \in [Authors -> Nat]
      BY <2>1, <3>1 DEF TypeOK, AgentEdit
    <3>3. tree' \in [Sessions -> Trees]
      BY <2>1, <3>1 DEF TypeOK, AgentEdit, Trees
    <3>4. credit' \in [Sessions -> Trees]
      BY <2>1, <3>3 DEF TypeOK, AgentEdit, Trees
    <3> QED
      BY <2>1, <3>2, <3>3, <3>4 DEF TypeOK, AgentEdit, Hands
  <2>2. CASE h \in Hunks /\ OperatorEdit(h)
    <3>1. edits[Operator] \in Nat /\ <<Operator, edits[Operator]>> \in Stamps /\ Operator \in Authors
      BY DEF TypeOK, Stamps, Authors
    <3>2. edits' \in [Authors -> Nat] /\ real' \in Trees
      BY <2>2, <3>1 DEF TypeOK, OperatorEdit, Trees
    <3>3. raced' \in [Sessions -> SUBSET Hunks]
      BY <2>2 DEF TypeOK, OperatorEdit
    <3> QED
      BY <2>2, <3>2, <3>3 DEF TypeOK, OperatorEdit, Hands
  <2>3. CASE s \in Sessions /\ Promote(s)
    BY <2>3 DEF TypeOK, Promote, Hands
  <2>4. CASE s \in Sessions /\ Acknowledge(s)
    BY <2>4 DEF TypeOK, Acknowledge, Clear, Hands
  <2> QED
    BY <2>1, <2>2, <2>3, <2>4
<1> QED
  BY <1>2, <1>3, <1>4, <1>5

-----------------------------------------------------------------------------
(* Steps of the running job *)

LEMMA Running ==
  ASSUME TypeOK, Chained, NEW s \in Sessions, at[s] # "none"
  PROVE  \E j \in chain : First(j) /\ j.session = s
BY DEF Chained

(* What a step may do to the store and the rows of its session.                 *)
LEMMA StoreKeeps ==
  ASSUME Exclusive, NEW s \in Sessions, status' = status, status[s] # "absent",
         patches' \in Nat, patches <= patches', delivered' = delivered,
         holds' \subseteq Held,
         \A x \in holds' : x \in holds \/ (x.owner = s /\ x.n = patches'),
         \A x \in orphans' : x \in orphans \/ (x.owner = s /\ x.n = patches'),
         \A t \in Sessions : t # s => rows'[t] = rows[t],
         \A x \in holds' : x.owner = s /\ x.listed => "held" \in rows'[s]
  PROVE  Numbered' /\ InOrder' /\ HeldShown'
<1> USE DEF Exclusive
<1>0. /\ patches \in Nat /\ \A x \in holds : x.n \in Nat /\ x.owner \in Sessions
      /\ \A x \in orphans : x.n \in Nat
      /\ \A t \in Sessions : delivered[t] \in Nat
  BY DEF TypeOK, Held
<1>1. Numbered'
  BY <1>0 DEF Numbered
<1>2. InOrder'
  BY <1>0 DEF Numbered, InOrder
<1>3. HeldShown'
  BY <1>0 DEF HeldShown, Present, Held
<1> QED
  BY <1>1, <1>2, <1>3

LEMMA PatchedTyped ==
  ASSUME NEW p \in Patches, NEW t \in Trees PROVE Patched(p, t) \in Trees
BY DEF Patched, Patches, Trees

(* hold(), of a patch that has the latest number.                               *)
LEMMA HoldKeeps ==
  ASSUME Exclusive, NEW s \in Sessions, NEW j \in chain, First(j), j.session = s,
         NEW p \in Patches, NEW n \in Nat, n = patches \/ n = patches + 1, Hold(s, p, n),
         UNCHANGED <<status, delivered, real, tree, promoted, counts, mixed>>,
         start' \in [Sessions -> [real : Trees \cup {None}, tree : Trees \cup {None}] \cup {None}],
         raced' \in [Sessions -> SUBSET Hunks]
  PROVE  Exclusive'
<1> USE DEF Exclusive, counts
<1>1. LaneTyped' /\ Chained' /\ Listed' /\ Pinned'
  BY DoneKeeps DEF Hold
<1>2. status[s] # "absent"
  BY DEF Chained, Alive
<1>3. Patched(p, credit[s]) \in Trees /\ p.to \in Trees
  BY PatchedTyped DEF TypeOK, Patches
<1>4. patches' = n /\ patches' \in Nat /\ patches <= patches'
  BY DEF Hold, TypeOK
<1>5. [n |-> n, owner |-> s, patch |-> p, swept |-> FALSE, listed |-> TRUE] \in Held
  BY DEF Held
<1>6. [n |-> n, owner |-> s, patch |-> p] \in [n : Nat, owner : Sessions, patch : Patches]
  OBVIOUS
<1>7. rows' \in [Sessions -> SUBSET {"held", "uncapturable", "divergence"}]
  BY DEF Hold, Tracked, Untracked, Raise, TypeOK
<1>8. /\ holds' \subseteq Held /\ orphans' \subseteq [n : Nat, owner : Sessions, patch : Patches]
      /\ endTree' \in [Sessions -> Trees \cup {None}] /\ credit' \in [Sessions -> Trees]
  <2>1. CASE Tracked(s, p, n)
    BY <2>1, <1>3, <1>5 DEF Tracked, TypeOK
  <2>2. CASE ~Tracked(s, p, n)
    BY <2>2, <1>6 DEF Hold, Untracked, TypeOK
  <2> QED
    BY <2>1, <2>2
<1>9. Numbered' /\ InOrder' /\ HeldShown'
  <2>1. /\ \A x \in holds' : x \in holds \/ (x.owner = s /\ x.n = patches')
        /\ \A x \in orphans' : x \in orphans \/ (x.owner = s /\ x.n = patches')
    BY <1>4 DEF Hold, Tracked, Untracked
  <2>2. \A t \in Sessions : t # s => rows'[t] = rows[t]
    BY DEF Hold, Tracked, Untracked, Raise, TypeOK
  <2>3. \A x \in holds' : x.owner = s /\ x.listed => "held" \in rows'[s]
    <3>1. CASE Tracked(s, p, n)
      BY <3>1 DEF Tracked, TypeOK
    <3>2. CASE ~Tracked(s, p, n)
      <4>1. s \in Present
        BY DEF Present, Chained, Alive
      <4>2. holds' = holds /\ rows[s] \subseteq rows'[s]
        BY <3>2 DEF Hold, Untracked, Raise, TypeOK
      <4> QED
        BY <4>1, <4>2 DEF HeldShown
    <3> QED
      BY <3>1, <3>2
  <2> QED
    BY <1>2, <1>4, <1>8, <2>1, <2>2, <2>3, StoreKeeps
<1>10. TypeOK'
  BY <1>1, <1>4, <1>7, <1>8 DEF TypeOK, LaneTyped
<1> QED
  BY <1>1, <1>9, <1>10

(* The other steps of a job: the store shrinks or stays, delivered stays.       *)
LEMMA StepKeeps ==
  ASSUME Exclusive, NEW s \in Sessions, NEW j \in chain, First(j), j.session = s,
         LaneTyped' /\ Chained' /\ Listed' /\ Pinned',
         UNCHANGED <<status, delivered, real, tree, promoted, counts, orphans>>,
         patches' \in Nat, patches <= patches', holds' \subseteq holds,
         start' \in [Sessions -> [real : Trees \cup {None}, tree : Trees \cup {None}] \cup {None}],
         endTree' \in [Sessions -> Trees \cup {None}], credit' \in [Sessions -> Trees],
         raced' \in [Sessions -> SUBSET Hunks], mixed' \subseteq Sessions \X BOOLEAN,
         rows' \in [Sessions -> SUBSET {"held", "uncapturable", "divergence"}],
         \A t \in Sessions : t # s => rows'[t] = rows[t],
         \A x \in holds' : x.owner = s /\ x.listed => "held" \in rows'[s]
  PROVE  Exclusive'
<1> USE DEF Exclusive, counts
<1>1. status[s] # "absent"
  BY DEF Chained, Alive
<1>2. holds' \subseteq Held
  BY DEF TypeOK
<1>3. Numbered' /\ InOrder' /\ HeldShown'
  BY <1>1, <1>2, StoreKeeps
<1>4. TypeOK'
  BY <1>2 DEF TypeOK, LaneTyped
<1> QED
  BY <1>3, <1>4

LEMMA Shown ==
  ASSUME Exclusive, NEW s \in Sessions, NEW j \in chain, First(j), j.session = s
  PROVE  \A x \in holds : x.owner = s /\ x.listed => "held" \in rows[s]
BY DEF Exclusive, Chained, Alive, HeldShown, Present

LEMMA StartJobKeeps ==
  ASSUME Exclusive, NEW s \in Sessions, StartJob(s) PROVE Exclusive'
<1> USE DEF Exclusive, counts, store
<1>1. PICK j \in chain : /\ Begins(s, "start", j)
        /\ LET base == IF endTree[s] # None THEN endTree[s] ELSE j.early
           IN  \E fp \in {real} \cup (IF "fingerprint" \in faults THEN {None} ELSE {}) :
                 start' = [start EXCEPT ![s] = [real |-> fp, tree |-> base]]
        /\ credit' = IF start[s] # None /\ endTree[s] = None /\ j.early # None
                     THEN [credit EXCEPT ![s] = j.early] ELSE credit
  BY DEF StartJob, Begins
<1>2. First(j) /\ j.session = s /\ Done(s) /\ j.early \in Trees \cup {None}
  BY <1>1 DEF StartJob, Begins, TypeOK, Jobs
<1>3. start' \in [Sessions -> [real : Trees \cup {None}, tree : Trees \cup {None}] \cup {None}]
  <2>1. PICK fp \in {real, None} : start' = [start EXCEPT ![s] =
          [real |-> fp, tree |-> IF endTree[s] # None THEN endTree[s] ELSE j.early]]
    BY <1>1
  <2>2. [real |-> fp, tree |-> IF endTree[s] # None THEN endTree[s] ELSE j.early]
          \in [real : Trees \cup {None}, tree : Trees \cup {None}]
    BY <1>2 DEF TypeOK
  <2> QED
    BY <2>1, <2>2 DEF TypeOK
<1>4. credit' \in [Sessions -> Trees]
  BY <1>1, <1>2 DEF TypeOK
<1>5. LaneTyped' /\ Chained' /\ Listed' /\ Pinned'
  BY <1>2, DoneKeeps DEF StartJob
<1>6. \A x \in holds : x.owner = s /\ x.listed => "held" \in rows[s]
  BY <1>2, Shown
<1>7. UNCHANGED <<real, tree, status, promoted, endTree, store, rows, counts, raced, delivered, mixed>>
  BY DEF StartJob
<1> QED
  BY <1>2, <1>3, <1>4, <1>5, <1>6, <1>7, StepKeeps, SMTT(60) DEF TypeOK

LEMMA ApplyJobKeeps ==
  ASSUME Exclusive, NEW s \in Sessions, ApplyJob(s) PROVE Exclusive'
<1> USE DEF Exclusive, counts, store, history
<1>1. PICK j \in chain : /\ Begins(s, "apply", j)
        /\ \/ Mine(s) = {} /\ Clear(s, "held") /\ Done(s)
           \/ {"fingerprint", "read"} \cap faults # {} /\ Stopped(s)
           \/ /\ Mine(s) # {}
              /\ Goes(s, "check", [Empty EXCEPT !.pin = real, !.todo = Mine(s)])
              /\ UNCHANGED rows
  BY DEF ApplyJob, Begins
<1>2. First(j) /\ j.session = s
  BY <1>1 DEF Begins
<1>3. UNCHANGED <<real, tree, status, promoted, start, endTree, store, counts, history>>
  BY DEF ApplyJob
<1>4. LaneTyped' /\ Chained' /\ Listed' /\ Pinned'
  <2>1. CASE Done(s)
    BY <1>2, <1>3, <2>1, DoneKeeps
  <2>2. CASE Goes(s, "check", [Empty EXCEPT !.pin = real, !.todo = Mine(s)])
    <3> DEFINE e == [Empty EXCEPT !.pin = real, !.todo = Mine(s)]
    <3>0. e.todo = Mine(s)
      BY DEF Empty
    <3>1. e \in Hands'
      <4>1. Empty \in Hands' /\ Mine(s) \subseteq holds' /\ real \in Trees
        BY <1>3 DEF Empty, Hands, Mine, TypeOK
      <4> QED
        BY <4>1 DEF Hands
    <3>2. ListedFor(s)'
      <4>1. hand'[s] = e /\ at'[s] = "check" /\ Mine(s)' = Mine(s)
        BY <1>2, <1>3, <2>2, GoesAlone DEF Mine
      <4> QED
        BY <3>0, <4>1 DEF ListedFor
    <3> QED
      BY <1>2, <1>3, <2>2, <3>1, <3>2, GoesKeeps
  <2> QED
    BY <1>1, <2>1, <2>2 DEF Stopped
<1>5. /\ rows' \in [Sessions -> SUBSET {"held", "uncapturable", "divergence"}]
      /\ \A t \in Sessions : t # s => rows'[t] = rows[t]
  BY <1>1 DEF Clear, Stopped, Raise, TypeOK
<1>6. \A x \in holds : x.owner = s /\ x.listed => "held" \in rows'[s]
  BY <1>1, <1>2, Shown DEF Clear, Stopped, Raise, TypeOK, Mine
<1> QED
  BY <1>2, <1>3, <1>4, <1>5, <1>6, StepKeeps, SMTT(60) DEF TypeOK

LEMMA DiscardJobKeeps ==
  ASSUME Exclusive, NEW s \in Sessions, DiscardJob(s) PROVE Exclusive'
<1> USE DEF Exclusive, counts, store, history
<1>1. PICK j \in chain : Begins(s, "discard", j)
  BY DEF DiscardJob, Begins
<1>2. First(j) /\ j.session = s
  BY <1>1 DEF Begins
<1>3. UNCHANGED <<real, tree, status, promoted, start, endTree, orphans, patches, counts, history>> /\ Done(s)
  BY DEF DiscardJob
<1>4. LaneTyped' /\ Chained' /\ Listed' /\ Pinned'
  BY <1>2, <1>3, DoneKeeps
<1>5. \/ \E dropped \in SUBSET Mine(s) :
           /\ holds' = holds \ dropped
           /\ IF dropped = Mine(s) THEN Clear(s, "held") ELSE Raise(s, "held")
      \/ UNCHANGED <<holds, rows>>
  BY DEF DiscardJob
<1>6. /\ rows' \in [Sessions -> SUBSET {"held", "uncapturable", "divergence"}]
      /\ \A t \in Sessions : t # s => rows'[t] = rows[t]
      /\ holds' \subseteq holds
  BY <1>5 DEF Clear, Raise, TypeOK
<1>7. \A x \in holds' : x.owner = s /\ x.listed => "held" \in rows'[s]
  BY <1>2, <1>5, Shown DEF Clear, Raise, TypeOK, Mine
<1> QED
  BY <1>2, <1>3, <1>4, <1>5, <1>6, <1>7, StepKeeps, SMTT(60) DEF TypeOK

LEMMA EndJobKeeps ==
  ASSUME Exclusive, NEW s \in Sessions, EndJob(s) PROVE Exclusive'
<1> USE DEF Exclusive, counts, store
<1> DEFINE p == [from |-> start[s].tree, to |-> tree[s]]
<1>1. PICK j \in chain : Begins(s, "end", j)
  BY DEF EndJob, Begins
<1>2. First(j) /\ j.session = s
  BY <1>1 DEF Begins
<1>3. UNCHANGED <<real, tree, status, promoted, counts, raced, delivered, mixed>>
  BY DEF EndJob
<1>4. start' \in [Sessions -> [real : Trees \cup {None}, tree : Trees \cup {None}] \cup {None}]
  BY DEF EndJob, TypeOK
<1>5. start[s] # None /\ start[s].tree # None => p \in Patches
  BY DEF TypeOK, Patches
<1>6. \A x \in holds : x.owner = s /\ x.listed => "held" \in rows[s]
  BY <1>2, Shown
<1>7. raced' \in [Sessions -> SUBSET Hunks] /\ mixed' \subseteq Sessions \X BOOLEAN /\ patches \in Nat
  BY <1>3 DEF TypeOK
<1>8. CASE Done(s) /\ UNCHANGED <<store, endTree, rows, credit>>
  <2>1. LaneTyped' /\ Chained' /\ Listed' /\ Pinned'
    BY <1>2, <1>3, <1>8, DoneKeeps
  <2> QED
    <3>1. /\ UNCHANGED <<status, delivered, real, tree, promoted, counts, orphans, holds, patches>>
          /\ endTree' \in [Sessions -> Trees \cup {None}] /\ credit' \in [Sessions -> Trees]
          /\ patches' \in Nat /\ patches <= patches'
          /\ rows' = rows /\ rows \in [Sessions -> SUBSET {"held", "uncapturable", "divergence"}]
      BY <1>3, <1>7, <1>8 DEF TypeOK
    <3> HIDE DEF Exclusive, counts, store, p
    <3> QED
      BY <1>2, <1>4, <1>6, <1>7, <2>1, <3>1, StepKeeps, SMTT(60)
<1>9. CASE Done(s) /\ Uncapturable(s)
  <2>1. LaneTyped' /\ Chained' /\ Listed' /\ Pinned'
    BY <1>2, <1>3, <1>9, DoneKeeps
  <2>2. /\ rows' \in [Sessions -> SUBSET {"held", "uncapturable", "divergence"}]
        /\ \A t \in Sessions : t # s => rows'[t] = rows[t]
        /\ rows[s] \subseteq rows'[s]
    BY <1>9 DEF Uncapturable, Raise, TypeOK
  <2>3. UNCHANGED <<store, endTree, credit>>
    BY <1>9 DEF Uncapturable
  <2> QED
    BY <1>2, <1>3, <1>4, <1>6, <1>7, <2>1, <2>2, <2>3, StepKeeps, SMTT(60) DEF TypeOK
<1>10. CASE /\ start[s] # None /\ start[s].tree # None
            /\ rows' = [rows EXCEPT ![s] = @ \ Only(Spans(s, p.from), "uncapturable")]
            /\ endTree' = [endTree EXCEPT ![s] = p.to]
            /\ Done(s) /\ UNCHANGED <<store, credit>>
  <2>1. LaneTyped' /\ Chained' /\ Listed' /\ Pinned'
    BY <1>2, <1>3, <1>10, DoneKeeps
  <2>2. /\ rows' \in [Sessions -> SUBSET {"held", "uncapturable", "divergence"}]
        /\ \A t \in Sessions : t # s => rows'[t] = rows[t]
        /\ \A x \in holds : x.owner = s /\ x.listed => "held" \in rows'[s]
    BY <1>6, <1>10 DEF Only, TypeOK
  <2>3. endTree' \in [Sessions -> Trees \cup {None}]
    BY <1>5, <1>10 DEF Patches, TypeOK
  <2>4. /\ UNCHANGED <<status, delivered, real, tree, promoted, counts, orphans, holds, patches>>
        /\ credit' \in [Sessions -> Trees] /\ patches' \in Nat /\ patches <= patches'
    BY <1>3, <1>7, <1>10 DEF TypeOK
  <2> HIDE DEF Exclusive, counts, store, p
  <2> QED
    BY <1>2, <1>4, <1>7, <2>1, <2>2, <2>3, <2>4, StepKeeps, SMTT(60)
<1>11. CASE start[s] # None /\ start[s].tree # None /\ Hold(s, p, patches + 1)
  BY <1>2, <1>3, <1>4, <1>5, <1>7, <1>11, HoldKeeps
<1>12. CASE /\ start[s] # None /\ start[s].tree # None /\ ~Backlog(s)
            /\ patches' = patches + 1
            /\ Goes(s, "snapshot", [Empty EXCEPT !.patch = p, !.n = patches + 1])
            /\ UNCHANGED <<holds, orphans, endTree, rows, credit>>
  <2> DEFINE e == [Empty EXCEPT !.patch = p, !.n = patches + 1]
  <2>0. e.patch = p /\ e.n = patches + 1 /\ e.todo = {}
    BY DEF Empty
  <2>1. e \in Hands'
    <3>1. Empty \in Hands' /\ patches + 1 \in Nat /\ p \in Patches
      BY <1>5, <1>7, <1>12 DEF Empty, Hands
    <3> QED
      BY <3>1 DEF Hands
  <2>2. ListedFor(s)'
    <3>1. Mine(s)' = {}
      BY <1>12 DEF Mine, Backlog
    <3>2. hand'[s] = e /\ at'[s] = "snapshot"
      BY <1>2, <1>12, GoesAlone
    <3> QED
      BY <1>5, <1>7, <1>12, <2>0, <3>1, <3>2 DEF ListedFor
  <2>3. LaneTyped' /\ Chained' /\ Listed' /\ Pinned'
    BY <1>2, <1>3, <1>12, <2>1, <2>2, GoesKeeps
  <2> QED
    BY <1>2, <1>3, <1>4, <1>6, <1>7, <1>12, <2>3, StepKeeps, SMTT(60) DEF TypeOK
<1> QED
  BY <1>8, <1>9, <1>10, <1>11, <1>12, Zenon DEF EndJob

(* A replay that stops raises its row.                                          *)
LEMMA StoppedKeeps ==
  ASSUME Exclusive, NEW s \in Sessions, NEW j \in chain, First(j), j.session = s, Stopped(s),
         UNCHANGED <<status, delivered, real, tree, promoted, counts, store, start, endTree,
                     credit, mixed>>,
         raced' \in [Sessions -> SUBSET Hunks]
  PROVE  Exclusive'
<1> USE DEF Exclusive, counts, store
<1>1. LaneTyped' /\ Chained' /\ Listed' /\ Pinned'
  BY DoneKeeps DEF Stopped
<1>2. /\ rows' \in [Sessions -> SUBSET {"held", "uncapturable", "divergence"}]
      /\ \A t \in Sessions : t # s => rows'[t] = rows[t]
      /\ "held" \in rows'[s]
  BY DEF Stopped, Raise, TypeOK
<1> QED
  BY <1>1, <1>2, StepKeeps, SMTT(60) DEF TypeOK

LEMMA CheckKeeps ==
  ASSUME Exclusive, NEW s \in Sessions, Check(s) PROVE Exclusive'
<1> USE DEF Exclusive, counts, store, history
<1>1. at[s] = "check" /\ UNCHANGED <<real, tree, status, promoted, start, endTree, store, counts, history>>
  BY DEF Check
<1>2. PICK j \in chain : First(j) /\ j.session = s
  BY <1>1, Running
<1>3. PICK x \in hand[s].todo :
        /\ \A y \in hand[s].todo : x.n <= y.n
        /\ \/ /\ Goes(s, "snapshot", [hand[s] EXCEPT !.patch = x.patch, !.n = x.n])
              /\ UNCHANGED rows
           \/ Stopped(s)
  BY DEF Check
<1>4. CASE Stopped(s)
  BY <1>1, <1>2, <1>4, StoppedKeeps DEF TypeOK
<1>5. CASE /\ Goes(s, "snapshot", [hand[s] EXCEPT !.patch = x.patch, !.n = x.n])
           /\ UNCHANGED rows
  <2> DEFINE e == [hand[s] EXCEPT !.patch = x.patch, !.n = x.n]
  <2>1. hand[s].todo = Mine(s) /\ hand[s] \in Hands /\ x \in Held /\ x \in Mine(s) /\ x.n <= patches
    BY <1>1, <1>3 DEF Listed, ListedFor, Mine, Numbered, TypeOK
  <2>2. e \in Hands' /\ e.todo = Mine(s) /\ e.patch = x.patch /\ e.n = x.n
    BY <1>1, <2>1 DEF Hands, Held
  <2>3. hand'[s] = e /\ at'[s] = "snapshot" /\ Mine(s)' = Mine(s)
    BY <1>1, <1>2, <1>5, GoesAlone DEF Mine
  <2>4. ListedFor(s)'
    BY <1>1, <1>3, <2>1, <2>2, <2>3 DEF ListedFor, Held
  <2>5. LaneTyped' /\ Chained' /\ Listed' /\ Pinned'
    BY <1>1, <1>2, <1>5, <2>2, <2>4, GoesKeeps
  <2> QED
    BY <1>1, <1>2, <1>5, <2>5, Shown, StepKeeps, SMTT(60) DEF TypeOK
<1> QED
  BY <1>3, <1>4, <1>5

LEMMA SnapshotKeeps ==
  ASSUME Exclusive, NEW s \in Sessions, Snapshot(s) PROVE Exclusive'
<1> USE DEF Exclusive, counts, store, history
<1> DEFINE e == [hand[s] EXCEPT !.pre = real]
<1>1. at[s] = "snapshot" /\ Goes(s, "read", e)
      /\ UNCHANGED <<real, tree, status, promoted, start, endTree, store, rows, counts, history>>
  BY DEF Snapshot
<1>2. PICK j \in chain : First(j) /\ j.session = s
  BY <1>1, Running
<1>3. hand[s] \in Hands /\ real \in Trees
  BY DEF TypeOK
<1>4. e \in Hands' /\ e.todo = hand[s].todo /\ e.patch = hand[s].patch /\ e.n = hand[s].n
  BY <1>1, <1>3 DEF Hands
<1>5. hand'[s] = e /\ at'[s] = "read" /\ Mine(s)' = Mine(s)
  BY <1>1, <1>2, GoesAlone DEF Mine
<1>6. ListedFor(s)'
  BY <1>1, <1>4, <1>5 DEF Listed, ListedFor
<1>7. LaneTyped' /\ Chained' /\ Listed' /\ Pinned'
  BY <1>1, <1>2, <1>4, <1>6, GoesKeeps
<1> QED
  BY <1>1, <1>2, <1>7, Shown, StepKeeps, SMTT(60) DEF TypeOK

LEMMA ReadKeeps ==
  ASSUME Exclusive, NEW s \in Sessions, Read(s) PROVE Exclusive'
<1> USE DEF Exclusive, counts, store
<1>1. /\ at[s] = "read" /\ raced' = [raced EXCEPT ![s] = {}]
      /\ UNCHANGED <<real, tree, status, promoted, start, counts, delivered, mixed>>
  BY DEF Read
<1>2. PICK j \in chain : First(j) /\ j.session = s
  BY <1>1, Running
<1>3. ListedFor(s) /\ hand[s] \in Hands /\ real \in Trees
  BY <1>1 DEF Listed, TypeOK
<1>4. raced' \in [Sessions -> SUBSET Hunks]
  BY <1>1 DEF TypeOK
<1>5. CASE Applies(hand[s].patch, real)
  <2> DEFINE e == [hand[s] EXCEPT !.got = real]
  <2>1. Goes(s, "write", e) /\ UNCHANGED <<store, endTree, rows, credit>>
    BY <1>5 DEF Read
  <2>2. /\ e \in Hands' /\ e.todo = hand[s].todo /\ e.patch = hand[s].patch /\ e.n = hand[s].n
        /\ e.got = real
    BY <1>3, <2>1 DEF Hands
  <2>3. hand'[s] = e /\ at'[s] = "write" /\ Mine(s)' = Mine(s)
    BY <1>1, <1>2, <2>1, GoesAlone DEF Mine
  <2>4. ListedFor(s)'
    BY <1>1, <1>3, <2>1, <2>2, <2>3 DEF ListedFor
  <2>5. LaneTyped' /\ Chained' /\ Listed' /\ Pinned'
    BY <1>1, <1>2, <1>3, <1>5, <2>1, <2>2, <2>4, GoesKeeps
  <2>6. /\ patches' \in Nat /\ patches <= patches' /\ holds' \subseteq holds
        /\ start' \in [Sessions -> [real : Trees \cup {None}, tree : Trees \cup {None}] \cup {None}]
        /\ endTree' \in [Sessions -> Trees \cup {None}] /\ credit' \in [Sessions -> Trees]
        /\ mixed' \subseteq Sessions \X BOOLEAN
        /\ rows' \in [Sessions -> SUBSET {"held", "uncapturable", "divergence"}]
    BY <1>1, <2>1 DEF TypeOK
  <2>7. \A x \in holds' : x.owner = s /\ x.listed => "held" \in rows'[s]
    BY <1>2, <2>1, Shown
  <2> QED
    BY <1>1, <1>2, <1>4, <2>1, <2>5, <2>6, <2>7, StepKeeps
<1>6. CASE ~Applies(hand[s].patch, real) /\ Replays(s)
  <2>1. Stopped(s) /\ UNCHANGED <<store, endTree, credit>>
    BY <1>6 DEF Read
  <2> QED
    BY <1>1, <1>2, <1>4, <2>1, StoppedKeeps
<1>7. CASE ~Applies(hand[s].patch, real) /\ ~Replays(s)
  <2>1. Hold(s, hand[s].patch, hand[s].n)
    BY <1>7 DEF Read
  <2>2. hand[s].patch \in Patches /\ hand[s].n \in Nat /\ hand[s].n = patches
    BY <1>1, <1>3, <1>7 DEF ListedFor, Replays
  <2>3. start' \in [Sessions -> [real : Trees \cup {None}, tree : Trees \cup {None}] \cup {None}]
    BY <1>1 DEF TypeOK
  <2> QED
    BY <1>1, <1>2, <1>4, <2>1, <2>2, <2>3, HoldKeeps
<1> QED
  BY <1>5, <1>6, <1>7

LEMMA WrittenTyped ==
  ASSUME TypeOK, NEW s \in Sessions, hand[s].patch \in Patches, hand[s].got \in Trees
  PROVE  Written(s) \in Trees
<1>1. Patched(hand[s].patch, hand[s].got) \in Trees
  BY PatchedTyped
<1> QED
  BY <1>1 DEF Written, Overwrite, TypeOK, Trees

LEMMA WriteKeeps ==
  ASSUME Exclusive, NEW s \in Sessions, Write(s) PROVE Exclusive'
<1> USE DEF Exclusive, counts, store
<1>1. /\ at[s] = "write" /\ real' = Written(s)
      /\ delivered' = [delivered EXCEPT ![s] = hand[s].n]
      /\ Goes(s, "compare", hand[s])
      /\ UNCHANGED <<tree, status, promoted, start, endTree, store, rows, counts, raced, credit, mixed>>
  BY DEF Write
<1>2. PICK j \in chain : First(j) /\ j.session = s
  BY <1>1, Running
<1>3. ListedFor(s) /\ hand[s] \in Hands /\ hand[s].got \in Trees /\ status[s] # "absent"
  BY <1>1, <1>2 DEF Listed, Pinned, TypeOK, Chained, Alive
<1>4. real' \in Trees
  BY <1>1, <1>3, WrittenTyped DEF ListedFor
<1>5. delivered' \in [Sessions -> Nat]
  BY <1>1, <1>3 DEF ListedFor, TypeOK
<1>6. LaneTyped' /\ Chained' /\ Listed' /\ Pinned'
  <2>1. hand'[s] = hand[s] /\ at'[s] = "compare" /\ Mine(s)' = Mine(s) /\ hand[s] \in Hands'
    BY <1>1, <1>2, <1>3, GoesAlone DEF Mine, Hands
  <2>2. ListedFor(s)'
    BY <1>1, <1>3, <2>1 DEF ListedFor
  <2> QED
    BY <1>1, <1>2, <2>1, <2>2, GoesKeeps
<1>7. Numbered'
  BY <1>1, <1>3 DEF Numbered, ListedFor, TypeOK
<1>8. InOrder'
  BY <1>1, <1>3 DEF InOrder, ListedFor, Mine, TypeOK, Held
<1>9. HeldShown'
  BY <1>1 DEF HeldShown, Present
<1>10. TypeOK'
  BY <1>1, <1>4, <1>5, <1>6 DEF TypeOK, LaneTyped
<1> QED
  BY <1>6, <1>7, <1>8, <1>9, <1>10

LEMMA CompareKeeps ==
  ASSUME Exclusive, NEW s \in Sessions, Compare(s) PROVE Exclusive'
<1> USE DEF Exclusive, counts, store
<1> DEFINE torn == Diverged(hand[s].patch, hand[s].pre, real)
<1>1. /\ at[s] = "compare"
      /\ UNCHANGED <<real, tree, status, promoted, start, store, counts, raced, delivered>>
  BY DEF Compare
<1>6. mixed' \subseteq Sessions \X BOOLEAN
  <2>1. <<s, Replays(s)>> \in Sessions \X BOOLEAN
    BY DEF Replays
  <2> QED
    BY <2>1 DEF Compare, Only, TypeOK
<1>2. PICK j \in chain : First(j) /\ j.session = s
  BY <1>1, Running
<1>3. /\ ListedFor(s) /\ hand[s] \in Hands /\ torn \in BOOLEAN
      /\ hand[s].patch \in Patches
  BY <1>1 DEF Listed, ListedFor, TypeOK, Diverged
<1>4. CASE Replays(s)
  <2> DEFINE e == [hand[s] EXCEPT !.torn = @ \/ torn]
  <2>1. Goes(s, "resolve", e) /\ UNCHANGED <<rows, endTree, credit>>
    BY <1>4 DEF Compare
  <2>2. (hand[s].torn \/ torn) \in BOOLEAN
    OBVIOUS
  <2>3. e \in Hands' /\ e.todo = hand[s].todo /\ e.patch = hand[s].patch /\ e.n = hand[s].n
    BY <1>1, <1>3, <2>2 DEF Hands
  <2>4. hand'[s] = e /\ at'[s] = "resolve" /\ Mine(s)' = Mine(s)
    BY <1>1, <1>2, <2>1, GoesAlone DEF Mine
  <2>5. ListedFor(s)'
    BY <1>1, <1>3, <2>3, <2>4 DEF ListedFor
  <2>6. LaneTyped' /\ Chained' /\ Listed' /\ Pinned'
    BY <1>1, <1>2, <2>1, <2>3, <2>5, GoesKeeps
  <2> QED
    BY <1>1, <1>2, <1>6, <2>1, <2>6, Shown, StepKeeps, SMTT(60) DEF TypeOK
<1>5. CASE ~Replays(s)
  <2>1. /\ Applied(s, torn) /\ Done(s)
        /\ endTree' = [endTree EXCEPT ![s] = hand[s].patch.to]
        /\ credit' = [credit EXCEPT ![s] = Patched(hand[s].patch, @)]
    BY <1>5 DEF Compare
  <2>2. Patched(hand[s].patch, credit[s]) \in Trees /\ hand[s].patch.to \in Trees
    BY <1>3, PatchedTyped DEF TypeOK, Patches
  <2>3. endTree' \in [Sessions -> Trees \cup {None}] /\ credit' \in [Sessions -> Trees]
    BY <2>1, <2>2 DEF TypeOK
  <2>4. /\ rows' \in [Sessions -> SUBSET {"held", "uncapturable", "divergence"}]
        /\ \A t \in Sessions : t # s => rows'[t] = rows[t]
    BY <2>1 DEF Applied, Only, TypeOK
  <2>5. LaneTyped' /\ Chained' /\ Listed' /\ Pinned'
    BY <1>1, <1>2, <2>1, DoneKeeps
  <2>6. \A x \in holds' : x.owner # s
    BY <1>1, <1>3, <1>5 DEF ListedFor, Replays, Mine
  <2>7. UNCHANGED <<holds, orphans, patches>> /\ patches \in Nat
    BY <1>1 DEF TypeOK
  <2> QED
    <3>1. /\ UNCHANGED <<status, delivered, real, tree, promoted, counts, orphans, holds, patches, start, raced>>
          /\ patches' \in Nat /\ patches <= patches' /\ holds' \subseteq holds
          /\ start' \in [Sessions -> [real : Trees \cup {None}, tree : Trees \cup {None}] \cup {None}]
          /\ raced' \in [Sessions -> SUBSET Hunks]
          /\ \A x \in holds' : x.owner = s /\ x.listed => "held" \in rows'[s]
      BY <1>1, <2>6, <2>7 DEF TypeOK
    <3> HIDE DEF Exclusive, counts, store, torn
    <3> QED
      BY <1>2, <1>6, <2>3, <2>4, <2>5, <3>1, StepKeeps, SMTT(60)
<1> QED
  BY <1>4, <1>5

(* A comparison that throws: the turn is held, or the replay stops.             *)
LEMMA CompareFailsKeeps ==
  ASSUME Exclusive, NEW s \in Sessions, CompareFails(s) PROVE Exclusive'
<1> USE DEF Exclusive, counts, store
<1>1. /\ at[s] = "compare"
      /\ UNCHANGED <<real, tree, status, promoted, start, counts, raced, delivered, mixed>>
  BY DEF CompareFails
<1>2. PICK j \in chain : First(j) /\ j.session = s
  BY <1>1, Running
<1>3. ListedFor(s) /\ raced' \in [Sessions -> SUBSET Hunks]
  BY <1>1 DEF Listed, TypeOK
<1>4. CASE Replays(s)
  <2>1. Stopped(s) /\ UNCHANGED <<store, endTree, credit>>
    BY <1>4 DEF CompareFails
  <2> QED
    BY <1>1, <1>2, <1>3, <2>1, StoppedKeeps
<1>5. CASE ~Replays(s)
  <2>1. Hold(s, hand[s].patch, hand[s].n)
    BY <1>5 DEF CompareFails
  <2>2. hand[s].patch \in Patches /\ hand[s].n \in Nat /\ hand[s].n = patches
    BY <1>1, <1>3, <1>5 DEF ListedFor, Replays
  <2>3. start' \in [Sessions -> [real : Trees \cup {None}, tree : Trees \cup {None}] \cup {None}]
    BY <1>1 DEF TypeOK
  <2> QED
    BY <1>1, <1>2, <1>3, <2>1, <2>2, <2>3, HoldKeeps
<1> QED
  BY <1>4, <1>5

LEMMA ResolveKeeps ==
  ASSUME Exclusive, NEW s \in Sessions, Resolve(s) PROVE Exclusive'
<1> USE DEF Exclusive, counts, store, history
<1> DEFINE done == {x \in hand[s].todo : x.n = hand[s].n}
           told == Only(hand[s].torn, "divergence")
           End(clear, raise) == rows' = [rows EXCEPT ![s] = (@ \ clear) \cup raise \cup told] /\ Done(s)
           e == [hand[s] EXCEPT !.todo = Remaining(s), !.pin = real]
<1>1. /\ at[s] = "resolve"
      /\ UNCHANGED <<real, tree, status, promoted, start, endTree, orphans, patches, counts, history>>
  BY DEF Resolve
<1>2. PICK j \in chain : First(j) /\ j.session = s
  BY <1>1, Running
<1>3. ListedFor(s) /\ hand[s] \in Hands /\ told \subseteq {"divergence"}
  BY <1>1 DEF Listed, TypeOK, Only
<1>4. \/ holds' = holds \ done /\ Remaining(s) = {} /\ End({"held"}, {})
      \/ /\ holds' = holds \ done /\ Goes(s, "check", e) /\ UNCHANGED rows
      \/ holds' \subseteq holds /\ End({}, {"held"})
  BY DEF Resolve
<1>5. CASE holds' = holds \ done /\ Remaining(s) = {} /\ End({"held"}, {})
  <2>1. LaneTyped' /\ Chained' /\ Listed' /\ Pinned'
    BY <1>1, <1>2, <1>5, DoneKeeps
  <2>2. \A x \in holds' : x.owner # s
    BY <1>3, <1>5 DEF ListedFor, Mine, Remaining
  <2>3. /\ rows' \in [Sessions -> SUBSET {"held", "uncapturable", "divergence"}]
        /\ \A t \in Sessions : t # s => rows'[t] = rows[t]
    BY <1>3, <1>5 DEF TypeOK
  <2> QED
    BY <1>1, <1>2, <1>5, <2>1, <2>2, <2>3, StepKeeps, SMTT(60) DEF TypeOK
<1>6. CASE holds' = holds \ done /\ Goes(s, "check", e) /\ UNCHANGED rows
  <2>1. Mine(s)' = Remaining(s)
    BY <1>3, <1>6 DEF ListedFor, Mine, Remaining
  <2>2. Remaining(s) \subseteq holds' /\ real \in Trees
    BY <2>1 DEF Mine, TypeOK
  <2>3. e \in Hands' /\ e.todo = Remaining(s)
    BY <1>3, <2>2 DEF Hands
  <2>4. hand'[s] = e /\ at'[s] = "check"
    BY <1>2, <1>6, GoesAlone
  <2>5. ListedFor(s)'
    BY <2>1, <2>3, <2>4 DEF ListedFor
  <2>6. LaneTyped' /\ Chained' /\ Listed' /\ Pinned'
    BY <1>1, <1>2, <1>6, <2>3, <2>5, GoesKeeps
  <2>7. holds' \subseteq holds /\ \A x \in holds' : x.owner = s /\ x.listed => "held" \in rows'[s]
    BY <1>2, <1>6, Shown
  <2> HIDE DEF done, e
  <2> QED
    BY <1>1, <1>2, <1>6, <2>6, <2>7, StepKeeps, SMTT(60) DEF TypeOK
<1>7. CASE holds' \subseteq holds /\ End({}, {"held"})
  <2>1. LaneTyped' /\ Chained' /\ Listed' /\ Pinned'
    BY <1>1, <1>2, <1>7, DoneKeeps
  <2>2. /\ rows' \in [Sessions -> SUBSET {"held", "uncapturable", "divergence"}]
        /\ \A t \in Sessions : t # s => rows'[t] = rows[t]
        /\ "held" \in rows'[s]
    BY <1>3, <1>7 DEF TypeOK
  <2> QED
    BY <1>1, <1>2, <1>7, <2>1, <2>2, StepKeeps, SMTT(60) DEF TypeOK
<1> QED
  BY <1>4, <1>5, <1>6, <1>7

LEMMA RestartKeeps ==
  ASSUME Exclusive, NEW lost \in SUBSET Present, Restart(lost) PROVE Exclusive'
<1> USE DEF Exclusive
<1>1. /\ chain' = {} /\ ticket' = 0
      /\ at' = [s \in Sessions |-> "none"] /\ hand' = [s \in Sessions |-> Empty]
      /\ start' = [s \in Sessions |-> None] /\ endTree' = [s \in Sessions |-> None]
      /\ rows' = RowsAtBoot /\ credit' = tree /\ mixed' = {}
      /\ UNCHANGED <<tree, promoted, frames, edits, clicks, faults, raced>>
  BY DEF Restart
<1>2. Empty \in Hands'
  BY DEF Empty, Hands
<1>3. LaneTyped' /\ Chained' /\ Listed' /\ Pinned'
  BY <1>1, <1>2 DEF LaneTyped, Chained, Listed, Pinned
<1>4. /\ real' \in Trees /\ delivered' \in [Sessions -> Nat]
      /\ \A s \in Sessions : delivered'[s] # delivered[s]
           => at[s] = "write" /\ delivered'[s] = hand[s].n
  <2>1. CASE UNCHANGED <<real, delivered>>
    BY <2>1 DEF TypeOK
  <2>2. CASE \E s \in Sessions : /\ at[s] = "write" /\ real' = Written(s)
                                /\ delivered' = [delivered EXCEPT ![s] = hand[s].n]
    <3>1. PICK s \in Sessions : /\ at[s] = "write" /\ real' = Written(s)
                                /\ delivered' = [delivered EXCEPT ![s] = hand[s].n]
      BY <2>2
    <3>2. ListedFor(s) /\ hand[s].got \in Trees
      BY <3>1 DEF Listed, Pinned
    <3>3. real' \in Trees
      BY <3>1, <3>2, WrittenTyped DEF ListedFor
    <3> QED
      BY <3>1, <3>2, <3>3 DEF TypeOK, ListedFor
  <2> QED
    BY <2>1, <2>2 DEF Restart
<1>5. status' \in [Sessions -> {"absent", "idle", "running", "cut", "gone"}]
      /\ \A s \in Sessions : (status'[s] = "absent") <=> (status[s] = "absent")
  BY DEF Restart, Present, TypeOK
<1>6. /\ holds' \subseteq Held /\ orphans' \subseteq [n : Nat, owner : Sessions, patch : Patches]
      /\ patches' \in Nat /\ patches <= patches'
      /\ \A y \in holds' : \E x \in holds \cup Swept :
           /\ y.n = x.n /\ y.owner = x.owner /\ y.swept = x.swept
           /\ x \in Swept => y.n <= patches'
      /\ \A x \in orphans' : x \in orphans
  <2>1. patches \in Nat
    BY DEF TypeOK
  <2>2. ASSUME NEW y \in Swept
        PROVE  y \in Held /\ y.n <= patches + patches /\ orphans # {}
    <3>1. PICK x \in orphans :
            y = [n |-> x.n + patches, owner |-> x.owner, patch |-> x.patch, swept |-> TRUE,
                 listed |-> TRUE]
      BY DEF Swept
    <3>2. x.n \in Nat /\ x.owner \in Sessions /\ x.patch \in Patches /\ x.n <= patches
      BY DEF TypeOK, Numbered
    <3> QED
      BY <2>1, <3>1, <3>2 DEF Held
  <2>3. ASSUME NEW all \in SUBSET Held, NEW readable \in BOOLEAN
        PROVE  /\ Marked(all, readable) \subseteq Held
               /\ \A y \in Marked(all, readable) : \E x \in all :
                    y.n = x.n /\ y.owner = x.owner /\ y.swept = x.swept
    BY DEF Marked, Held
  <2>4. holds \in SUBSET Held /\ holds \cup Swept \in SUBSET Held
    BY <2>2 DEF TypeOK
  <2>5. PICK readable \in BOOLEAN :
          \/ /\ holds' = Marked(holds \cup Swept, readable) /\ orphans' = {}
             /\ patches' = IF orphans = {} THEN patches ELSE patches + patches
          \/ holds' = Marked(holds, readable) /\ UNCHANGED <<orphans, patches>>
    BY DEF Restart, Only
  <2>6. CASE holds' = Marked(holds, readable) /\ UNCHANGED <<orphans, patches>>
    <3>1. \A y \in holds' : \E x \in holds : y.n = x.n /\ y.owner = x.owner /\ y.swept = x.swept
      BY <2>3, <2>4, <2>6
    <3>2. holds' \subseteq Held
      BY <2>3, <2>4, <2>6
    <3>4. \A x \in holds : x.n <= patches
      BY DEF Numbered
    <3> QED
      BY <2>1, <2>6, <3>1, <3>2, <3>4 DEF TypeOK
  <2>7. CASE /\ holds' = Marked(holds \cup Swept, readable) /\ orphans' = {}
             /\ patches' = IF orphans = {} THEN patches ELSE patches + patches
    <3>1. \A y \in holds' : \E x \in holds \cup Swept :
            y.n = x.n /\ y.owner = x.owner /\ y.swept = x.swept
      BY <2>3, <2>4, <2>7
    <3>2. holds' \subseteq Held
      BY <2>3, <2>4, <2>7
    <3>3. patches' \in Nat /\ patches <= patches' /\ \A x \in Swept : x.n <= patches'
      BY <2>1, <2>2, <2>7
    <3> QED
      BY <2>7, <3>1, <3>2, <3>3 DEF TypeOK
  <2> QED
    BY <2>5, <2>6, <2>7
<1>14. \A x \in Swept : x.swept /\ x.owner \in Sessions /\ status[x.owner] # "absent"
  BY DEF Swept, TypeOK, Numbered
<1>7. rows' \in [Sessions -> SUBSET {"held", "uncapturable", "divergence"}]
  BY <1>1 DEF RowsAtBoot, Only
<1>8. /\ restarts' \in Nat /\ credit' \in [Sessions -> Trees]
      /\ start' \in [Sessions -> [real : Trees \cup {None}, tree : Trees \cup {None}] \cup {None}]
      /\ endTree' \in [Sessions -> Trees \cup {None}]
  BY <1>1 DEF TypeOK, Restart
<1>9. TypeOK'
  BY <1>1, <1>3, <1>4, <1>5, <1>6, <1>7, <1>8 DEF TypeOK, LaneTyped
<1>10. \A s \in Sessions : at[s] = "write" =>
         /\ hand[s].n \in Nat /\ hand[s].n <= patches /\ status[s] # "absent"
         /\ \A x \in holds : x.owner = s => hand[s].n <= x.n
  BY DEF Listed, ListedFor, Mine, Chained, Alive
<1>11. Numbered'
  <2>1. patches \in Nat /\ patches' \in Nat /\ \A x \in holds : x.n \in Nat /\ x.owner \in Sessions
    BY <1>6 DEF TypeOK, Held
  <2>2. \A x \in holds' : x.n <= patches' /\ status'[x.owner] # "absent"
    <3> SUFFICES ASSUME NEW y \in holds' PROVE y.n <= patches' /\ status'[y.owner] # "absent"
      OBVIOUS
    <3>1. PICK x \in holds \cup Swept : /\ y.n = x.n /\ y.owner = x.owner
                                       /\ (x \in Swept => y.n <= patches')
      BY <1>6
    <3>2. CASE x \in Swept
      BY <1>5, <1>14, <3>1, <3>2
    <3>3. CASE x \in holds
      <4>1. x.n <= patches /\ status[x.owner] # "absent"
        BY <3>3 DEF Numbered
      <4> QED
        <5>1. x.n \in Nat /\ x.owner \in Sessions /\ patches \in Nat /\ patches' \in Nat /\ patches <= patches'
          BY <1>6, <2>1, <3>3
        <5> QED
          BY <1>5, <3>1, <4>1, <5>1
    <3> QED
      BY <3>1, <3>2, <3>3
  <2>3. \A x \in orphans' : x.n <= patches' /\ status'[x.owner] # "absent"
    BY <1>5, <1>6, <2>1 DEF Numbered, TypeOK
  <2>4. \A s \in Sessions : delivered'[s] <= patches' /\ (status'[s] = "absent" => delivered'[s] = 0)
    BY <1>4, <1>5, <1>6, <1>10, <2>1 DEF Numbered, TypeOK
  <2> QED
    BY <2>2, <2>3, <2>4 DEF Numbered
<1>12. InOrder'
  <2> SUFFICES ASSUME NEW y \in holds', ~y.swept PROVE delivered'[y.owner] <= y.n
    BY DEF InOrder
  <2>1. PICK x \in holds : y.n = x.n /\ y.owner = x.owner /\ x.swept = y.swept
    BY <1>6, <1>14
  <2>2. x \in Held /\ delivered[x.owner] <= x.n
    BY <2>1 DEF InOrder, TypeOK
  <2> QED
    BY <1>4, <1>10, <2>1, <2>2 DEF Held
<1>13. HeldShown'
  BY <1>1, <1>6 DEF HeldShown, RowsAtBoot, Only, Held
<1> QED
  BY <1>3, <1>9, <1>11, <1>12, <1>13

-----------------------------------------------------------------------------
(* Invariance *)

LEMMA InitExclusive == Init => Exclusive
<1> SUFFICES ASSUME Init PROVE Exclusive
  OBVIOUS
<1>1. <<Operator, 0>> \in Stamps /\ Base \in Trees
  BY DEF Stamps, Authors, Base, Trees
<1>2. Empty \in Hands
  BY EmptyHand
<1>3. TypeOK
  <2>1. PICK b \in Budgets :
          /\ frames = b.frames /\ edits = b.edits /\ clicks = b.clicks
          /\ restarts = b.restarts /\ faults = b.faults
    BY DEF Init
  <2>2. /\ frames \in [Sessions -> Nat] /\ edits \in [Authors -> Nat]
        /\ clicks \in Nat /\ restarts \in Nat
        /\ faults \subseteq Faults
    BY <2>1, BoundarySyncAssumption
  <2> QED
    BY <1>1, <1>2, <2>2 DEF Init, TypeOK
<1> QED
  BY <1>3 DEF Init, Exclusive, Chained, Listed, Pinned, Numbered, InOrder, HeldShown

LEMMA NextExclusive == Exclusive /\ [Next]_vars => Exclusive'
<1> SUFFICES ASSUME Exclusive, [Next]_vars PROVE Exclusive'
  OBVIOUS
<1>1. CASE Next
  <2>1. CASE \E s \in Sessions : Job(s)
    BY <2>1, StartJobKeeps, EndJobKeeps, ApplyJobKeeps, DiscardJobKeeps, CheckKeeps, SnapshotKeeps,
       ReadKeeps, WriteKeeps, CompareKeeps, CompareFailsKeeps, ResolveKeeps, Zenon DEF Job
  <2>2. CASE \E s \in Sessions, prior \in Sessions \cup {None} : Launch(s, prior)
    BY <2>2, LaunchKeeps, Zenon
  <2>3. CASE \E s \in Sessions : TurnStart(s) \/ TurnEnd(s)
    BY <2>3, QueueKeeps, Zenon
  <2>4. CASE \E s \in Sessions, kind \in {"apply", "discard"} : Click(s, kind)
    BY <2>4, QueueKeeps, Zenon
  <2>5. CASE \E s \in Sessions : Promote(s)
    BY <2>5, EditKeeps, Zenon
  <2>6. CASE \E s \in Sessions : Acknowledge(s)
    BY <2>6, EditKeeps, Zenon
  <2>7. CASE \E s \in Sessions, h \in Hunks : AgentEdit(s, h)
    BY <2>7, EditKeeps, Zenon
  <2>8. CASE \E h \in Hunks : OperatorEdit(h)
    BY <2>8, EditKeeps, Zenon
  <2>9. CASE \E lost \in SUBSET Present : Restart(lost)
    BY <2>9, RestartKeeps, Zenon
  <2> QED
    BY <1>1, <2>1, <2>2, <2>3, <2>4, <2>5, <2>6, <2>7, <2>8, <2>9, Zenon DEF Next
<1>2. CASE UNCHANGED vars
  <2>1. UNCHANGED <<real, tree, status, promoted, chain, ticket, at, hand, start, endTree, holds,
                    orphans, patches, rows, frames, edits, clicks, restarts, faults, raced, credit,
                    delivered, mixed>>
    BY <1>2 DEF vars, lane, store, counts, history
  <2>2. TypeOK'
    BY <2>1 DEF Exclusive, TypeOK, Hands
  <2>3. Chained' /\ Listed' /\ Pinned'
    BY <2>1 DEF Exclusive, Chained, First, Alive, Listed, ListedFor, Mine, Pinned, Applies, Touched
  <2>4. Numbered' /\ InOrder' /\ HeldShown'
    BY <2>1 DEF Exclusive, Numbered, InOrder, HeldShown, Present
  <2> QED
    BY <2>2, <2>3, <2>4 DEF Exclusive
<1> QED
  BY <1>1, <1>2

LEMMA Invariance == Spec => []Exclusive
BY InitExclusive, NextExclusive, PTL DEF Spec

(* Every state is well typed; a replay lists only holds that are still open.    *)
THEOREM Typed == Spec => []TypeOK
<1>1. Exclusive => TypeOK
  BY DEF Exclusive
<1> QED
  BY <1>1, Invariance, PTL

(* While a patch of a session is held, no later one has reached the checkout.   *)
THEOREM InTurnOrder == Spec => []InOrder
<1>1. Exclusive => InOrder
  BY DEF Exclusive
<1> QED
  BY <1>1, Invariance, PTL

(* What is held for a session that is present has its row, unless the last boot *)
(* could not read the ledger it was in.                                         *)
THEOREM HoldsAreShown == Spec => []HeldShown
<1>1. Exclusive => HeldShown
  BY DEF Exclusive
<1> QED
  BY <1>1, Invariance, PTL

(* git apply writes only what its patch found, and a restart writes no more.    *)
LEMMA WriteOverwrites ==
  ASSUME Exclusive, NEW s \in Sessions, at[s] = "write", real' = Written(s),
         NEW h \in Hunks, real'[h] # real[h]
  PROVE  Overwrites(h, s)
<1>1. /\ hand[s].got \in Trees /\ Applies(hand[s].patch, hand[s].got)
      /\ h \notin raced[s] => real[h] = hand[s].got[h]
  BY DEF Exclusive, Pinned
<1>2. h \notin raced[s] => h \in Touched(hand[s].patch)
  BY <1>1 DEF Written, Overwrite, Patched
<1> QED
  BY <1>1, <1>2 DEF Overwrites, Applies

(* The daemon overwrites nobody's edit but one that comes between git apply's   *)
(* read and its write.                                                          *)
THEOREM NobodyClobbered == Spec => NoClobber
<1>1. Exclusive /\ [Next]_vars =>
        [\A h \in Hunks : real'[h] # real[h] /\ edits' = edits
           => \E s \in Sessions : Overwrites(h, s)]_vars
  <2> SUFFICES ASSUME Exclusive, Next, NEW h \in Hunks, real'[h] # real[h], edits' = edits
               PROVE  \E s \in Sessions : Overwrites(h, s)
    BY DEF vars
  <2>1. CASE \E s \in Sessions : at[s] = "write" /\ real' = Written(s)
    BY <2>1, WriteOverwrites
  <2>2. CASE \E g \in Hunks : OperatorEdit(g)
    BY <2>2 DEF OperatorEdit, Exclusive, TypeOK, Authors
  <2> QED
    BY ZenonT(60), <2>1, <2>2 DEF Next, Job, Launch, TurnStart, TurnEnd, AgentEdit, Promote, Click, Acknowledge,
       StartJob, EndJob, ApplyJob, DiscardJob, Check, Snapshot, Read, Write, Compare, CompareFails, Resolve, Restart
<1> QED
  BY <1>1, Invariance, PTL DEF Spec, NoClobber
=============================================================================
