------------------------ MODULE BoundarySyncAccounts ------------------------
(* More about BoundarySync, from the invariant of BoundarySyncProofs: a write   *)
(* of a turn that mixed with an operator's edit has its row, and what a session *)
(* edited is accounted for between its turns.                                   *)
EXTENDS BoundarySyncProofs

-----------------------------------------------------------------------------
(* What the operator's next edits will write stands nowhere yet.                *)
Unseen(t, n) == \A h \in Hunks, k \in 1..n : t[h] # <<Operator, k>>

HandUnseen(s) ==
  /\ at[s] \notin {"none", "check"} => Unseen(hand[s].patch.to, edits[Operator])
  /\ at[s] \in {"read", "write", "compare"} => Unseen(hand[s].pre, edits[Operator])
  /\ at[s] = "write" => Unseen(hand[s].got, edits[Operator])

Stamped ==
  /\ Unseen(real, edits[Operator]) /\ \A s \in Sessions : Unseen(tree[s], edits[Operator])
  /\ \A x \in holds : Unseen(x.patch.to, edits[Operator])
  /\ \A x \in orphans : Unseen(x.patch.to, edits[Operator])
  /\ \A s \in Sessions : HandUnseen(s)

(* A comparison due finds what the write mixed, and one made has its row.        *)
Torn(s) == at[s] = "compare" /\ Mixed(s) => Diverged(hand[s].patch, hand[s].pre, real)

Told ==
  /\ \A m \in mixed : status[m[1]] # "absent"
  /\ \A s \in Sessions : <<s, FALSE>> \in mixed => "divergence" \in rows[s]
  /\ \A s \in Sessions : Torn(s)

LEMMA Fewer ==
  ASSUME NEW t, NEW n \in Nat, NEW m \in Nat, m <= n, Unseen(t, n) PROVE Unseen(t, m)
BY DEF Unseen

(* A job that begins finds every session at rest.                               *)
LEMMA AllIdle ==
  ASSUME TypeOK, Chained, NEW s \in Sessions, NEW kind, NEW j, Begins(s, kind, j)
  PROVE  \A t \in Sessions : at[t] = "none"
BY Alone DEF Begins

(* What of the store and the hands a step has to show.                          *)
LEMMA StoreUnseen ==
  ASSUME Stamped, UNCHANGED <<real, tree, edits>>,
         \A x \in holds' : x \in holds \/ Unseen(x.patch.to, edits[Operator]),
         \A x \in orphans' : x \in orphans \/ Unseen(x.patch.to, edits[Operator]),
         \A t \in Sessions : HandUnseen(t)'
  PROVE  Stamped'
BY DEF Stamped

LEMMA DoneUnseen ==
  ASSUME Exclusive, Stamped, UNCHANGED <<real, tree, edits>>,
         NEW s \in Sessions, NEW j \in chain, First(j), j.session = s, Done(s),
         \A x \in holds' : x \in holds \/ Unseen(x.patch.to, edits[Operator]),
         \A x \in orphans' : x \in orphans \/ Unseen(x.patch.to, edits[Operator])
  PROVE  Stamped'
<1>1. \A t \in Sessions : at'[t] = "none"
  BY DoneIdle DEF Exclusive
<1> QED
  BY <1>1, StoreUnseen DEF HandUnseen

LEMMA GoesUnseen ==
  ASSUME Exclusive, Stamped, UNCHANGED <<real, tree, edits>>,
         NEW s \in Sessions, NEW j \in chain, First(j), j.session = s,
         NEW place, NEW h, Goes(s, place, h), holds' \subseteq holds, orphans' \subseteq orphans,
         place \notin {"none", "check"} => Unseen(h.patch.to, edits[Operator]),
         place \in {"read", "write", "compare"} => Unseen(h.pre, edits[Operator]),
         place = "write" => Unseen(h.got, edits[Operator])
  PROVE  Stamped'
<1>1. \A t \in Sessions : /\ at'[t] = IF t = s THEN place ELSE "none"
                          /\ hand'[t] = IF t = s THEN h ELSE Empty
  BY GoesAlone DEF Exclusive
<1>2. \A t \in Sessions : HandUnseen(t)'
  BY <1>1 DEF HandUnseen
<1> QED
  BY <1>2, StoreUnseen

LEMMA HoldUnseen ==
  ASSUME Exclusive, Stamped, UNCHANGED <<real, tree, edits>>,
         NEW s \in Sessions, NEW j \in chain, First(j), j.session = s,
         NEW p, NEW n, Hold(s, p, n), Unseen(p.to, edits[Operator])
  PROVE  Stamped'
<1>1. /\ \A x \in holds' : x \in holds \/ x.patch = p
      /\ \A x \in orphans' : x \in orphans \/ x.patch = p
  BY DEF Hold, Tracked, Untracked
<1>2. Done(s)
  BY DEF Hold
<1> QED
  BY <1>1, <1>2, DoneUnseen

LEMMA JobUnseen ==
  ASSUME Exclusive, Stamped, NEW s \in Sessions, Job(s) PROVE Stamped'
<1> USE DEF Exclusive, counts, store, history
<1>0. UNCHANGED <<tree, edits>> /\ hand[s] \in Hands /\ HandUnseen(s)
  BY DEF Job, StartJob, EndJob, ApplyJob, DiscardJob, Check, Snapshot, Read, Write, Compare,
     CompareFails, Resolve,
     TypeOK, Stamped
<1>1. CASE StartJob(s)
  <2>1. PICK j \in chain : Begins(s, "start", j)
    BY <1>1 DEF StartJob, Begins
  <2>2. Done(s) /\ UNCHANGED <<real, store>>
    BY <1>1 DEF StartJob
  <2> QED
    BY <1>0, <2>1, <2>2, DoneUnseen DEF Begins
<1>2. CASE EndJob(s)
  <2> DEFINE p == [from |-> start[s].tree, to |-> tree[s]]
  <2>1. PICK j \in chain : Begins(s, "end", j)
    BY <1>2 DEF EndJob, Begins
  <2>2. Unseen(p.to, edits[Operator]) /\ real' = real
    BY <1>2 DEF EndJob, Stamped
  <2>3. CASE Done(s) /\ UNCHANGED store
    BY <1>0, <2>1, <2>2, <2>3, DoneUnseen DEF Begins
  <2>4. CASE Hold(s, p, patches + 1)
    BY <1>0, <2>1, <2>2, <2>4, HoldUnseen DEF Begins
  <2>5. CASE /\ Goes(s, "snapshot", [Empty EXCEPT !.patch = p, !.n = patches + 1])
             /\ UNCHANGED <<holds, orphans>>
    <3> DEFINE e == [Empty EXCEPT !.patch = p, !.n = patches + 1]
    <3>1. e.patch = p
      BY DEF Empty
    <3> HIDE DEF e
    <3> QED
      BY <1>0, <2>1, <2>2, <2>5, <3>1, GoesUnseen DEF Begins, e
  <2> QED
    BY <1>2, <2>3, <2>4, <2>5, Zenon DEF EndJob, Uncapturable
<1>3. CASE ApplyJob(s)
  <2>1. PICK j \in chain : Begins(s, "apply", j)
    BY <1>3 DEF ApplyJob, Begins
  <2>2. UNCHANGED <<real, store>>
    BY <1>3 DEF ApplyJob
  <2>3. \/ Done(s) \/ Goes(s, "check", [Empty EXCEPT !.pin = real, !.todo = Mine(s)])
    BY <1>3 DEF ApplyJob, Stopped
  <2> QED
    BY <1>0, <2>1, <2>2, <2>3, DoneUnseen, GoesUnseen DEF Begins
<1>4. CASE DiscardJob(s)
  <2>1. PICK j \in chain : Begins(s, "discard", j)
    BY <1>4 DEF DiscardJob, Begins
  <2>2. Done(s) /\ UNCHANGED <<real, orphans>> /\ holds' \subseteq holds
    BY <1>4 DEF DiscardJob
  <2> QED
    BY <1>0, <2>1, <2>2, DoneUnseen DEF Begins
<1>5. ASSUME at[s] # "none" PROVE \E j \in chain : First(j) /\ j.session = s
  BY <1>5, Running
<1>6. CASE Check(s)
  <2>1. at[s] = "check" /\ UNCHANGED <<real, store>>
    BY <1>6 DEF Check
  <2>2. PICK x \in hand[s].todo :
          Done(s) \/ Goes(s, "snapshot", [hand[s] EXCEPT !.patch = x.patch, !.n = x.n])
    BY <1>6 DEF Check, Stopped
  <2>3. x \in holds /\ [hand[s] EXCEPT !.patch = x.patch, !.n = x.n].patch = x.patch
    BY <1>0 DEF Hands
  <2>4. Unseen(x.patch.to, edits[Operator])
    BY <2>3 DEF Stamped
  <2> QED
    BY <1>0, <1>5, <2>1, <2>2, <2>3, <2>4, DoneUnseen, GoesUnseen
<1>7. CASE Snapshot(s)
  <2> DEFINE e == [hand[s] EXCEPT !.pre = real]
  <2>1. at[s] = "snapshot" /\ UNCHANGED <<real, store>> /\ Goes(s, "read", e)
    BY <1>7 DEF Snapshot
  <2>2. e.patch = hand[s].patch /\ e.pre = real
    BY <1>0 DEF Hands
  <2> HIDE DEF e
  <2>3. Unseen(e.patch.to, edits[Operator]) /\ Unseen(e.pre, edits[Operator])
    BY <1>0, <2>1, <2>2 DEF HandUnseen, Stamped
  <2> QED
    BY <1>0, <1>5, <2>1, <2>3, GoesUnseen
<1>8. CASE Read(s)
  <2> DEFINE e == [hand[s] EXCEPT !.got = real]
  <2>1. at[s] = "read" /\ real' = real
    BY <1>8 DEF Read
  <2>2. /\ Unseen(hand[s].patch.to, edits[Operator]) /\ Unseen(hand[s].pre, edits[Operator])
        /\ Unseen(real, edits[Operator])
    BY <1>0, <2>1 DEF HandUnseen, Stamped
  <2>3. \/ Goes(s, "write", e) /\ UNCHANGED store
        \/ Done(s) /\ UNCHANGED store
        \/ Hold(s, hand[s].patch, hand[s].n)
    BY <1>8 DEF Read, Stopped
  <2>4. e.patch = hand[s].patch /\ e.pre = hand[s].pre /\ e.got = real
    BY <1>0 DEF Hands
  <2> HIDE DEF e
  <2> QED
    BY <1>0, <1>5, <2>1, <2>2, <2>3, <2>4, DoneUnseen, GoesUnseen, HoldUnseen
<1>9. CASE Write(s)
  <2>1. /\ at[s] = "write" /\ real' = Written(s) /\ Goes(s, "compare", hand[s]) /\ UNCHANGED store
    BY <1>9 DEF Write
  <2>2. /\ Unseen(hand[s].patch.to, edits[Operator]) /\ Unseen(hand[s].pre, edits[Operator])
        /\ Unseen(hand[s].got, edits[Operator]) /\ Unseen(real, edits[Operator])
    BY <1>0, <2>1 DEF HandUnseen, Stamped
  <2>3. Unseen(real', edits[Operator])
    BY <2>1, <2>2 DEF Written, Overwrite, Patched, Unseen
  <2>4. PICK j \in chain : First(j) /\ j.session = s
    BY <1>5, <2>1
  <2>5. \A t \in Sessions : /\ at'[t] = IF t = s THEN "compare" ELSE "none"
                            /\ t = s => hand'[t] = hand[s]
    BY <2>1, <2>4, GoesAlone
  <2>6. \A t \in Sessions : HandUnseen(t)'
    BY <1>0, <2>2, <2>5 DEF HandUnseen
  <2> QED
    BY <1>0, <2>1, <2>3, <2>6 DEF Stamped
<1>10. CASE Compare(s)
  <2> DEFINE e == [hand[s] EXCEPT !.torn = @ \/ Diverged(hand[s].patch, hand[s].pre, real)]
  <2>1. at[s] = "compare" /\ UNCHANGED <<real, store>> /\ (Done(s) \/ Goes(s, "resolve", e))
    BY <1>10 DEF Compare
  <2>2. e.patch = hand[s].patch
    BY <1>0 DEF Hands
  <2> HIDE DEF e
  <2>3. Unseen(e.patch.to, edits[Operator])
    BY <1>0, <2>1, <2>2 DEF HandUnseen
  <2> QED
    BY <1>0, <1>5, <2>1, <2>3, DoneUnseen, GoesUnseen
<1>12. CASE CompareFails(s)
  <2>1. at[s] = "compare" /\ real' = real /\ Unseen(hand[s].patch.to, edits[Operator])
    BY <1>0, <1>12 DEF CompareFails, HandUnseen
  <2>2. (Done(s) /\ UNCHANGED store) \/ Hold(s, hand[s].patch, hand[s].n)
    BY <1>12 DEF CompareFails, Stopped
  <2> QED
    BY <1>0, <1>5, <2>1, <2>2, DoneUnseen, HoldUnseen
<1>11. CASE Resolve(s)
  <2>1. /\ at[s] = "resolve" /\ UNCHANGED <<real, orphans>> /\ holds' \subseteq holds
        /\ \/ Done(s) \/ Goes(s, "check", [hand[s] EXCEPT !.todo = Remaining(s), !.pin = real])
    BY <1>11 DEF Resolve
  <2> QED
    BY <1>0, <1>5, <2>1, DoneUnseen, GoesUnseen
<1> QED
  BY <1>1, <1>2, <1>3, <1>4, <1>6, <1>7, <1>8, <1>9, <1>10, <1>11, <1>12 DEF Job

(* An edit takes its stamp from what is left; a restart writes what was read.   *)
LEMMA EditUnseen ==
  ASSUME Exclusive, Stamped, NEW s, NEW h \in Hunks,
         (s \in Sessions /\ AgentEdit(s, h)) \/ OperatorEdit(h)
  PROVE  Stamped'
<1> USE DEF Exclusive, lane, store
<1> DEFINE n == edits[Operator]
<1>1. UNCHANGED <<at, hand, holds, orphans>>
  BY DEF AgentEdit, OperatorEdit
<1>2. n \in Nat /\ n' \in Nat /\ n' <= n
  BY BoundarySyncAssumption DEF AgentEdit, OperatorEdit, TypeOK, Authors
<1>3. Unseen(real', n') /\ \A t \in Sessions : Unseen(tree'[t], n')
  <2>1. CASE s \in Sessions /\ AgentEdit(s, h)
    <3>1. /\ s # Operator /\ real' = real
          /\ \A t \in Sessions, g \in Hunks :
               tree'[t][g] = IF t = s /\ g = h THEN <<s, edits[s]>> ELSE tree[t][g]
      BY <2>1, BoundarySyncAssumption DEF AgentEdit, TypeOK, Trees
    <3> QED
      BY <1>2, <3>1 DEF Unseen, Stamped
  <2>2. CASE OperatorEdit(h)
    <3>1. /\ n' = n - 1 /\ tree' = tree
          /\ \A g \in Hunks : real'[g] = IF g = h THEN <<Operator, n>> ELSE real[g]
      BY <2>2 DEF OperatorEdit, TypeOK, Trees, Authors
    <3> QED
      BY <1>2, <3>1 DEF Unseen, Stamped
  <2> QED
    BY <2>1, <2>2
<1>4. \A t \in Sessions : HandUnseen(t)'
  BY <1>1, <1>2, Fewer DEF HandUnseen, Stamped
<1> HIDE DEF n
<1>5. /\ \A x \in holds : Unseen(x.patch.to, n')
      /\ \A x \in orphans : Unseen(x.patch.to, n')
  BY <1>2, Fewer DEF Stamped, n
<1> QED
  BY <1>1, <1>3, <1>4, <1>5 DEF Stamped, n

LEMMA RestartUnseen ==
  ASSUME Exclusive, Stamped, NEW lost \in SUBSET Present, Restart(lost) PROVE Stamped'
<1> USE DEF Exclusive, store
<1>1. UNCHANGED <<tree, edits>> /\ at' = [s \in Sessions |-> "none"]
  BY DEF Restart
<1>2. Unseen(real', edits[Operator])
  <2>1. CASE \E s \in Sessions : at[s] = "write" /\ real' = Written(s)
    BY <2>1 DEF Written, Overwrite, Patched, Unseen, Stamped, HandUnseen
  <2> QED
    BY <2>1 DEF Restart, Stamped
<1>3. /\ \A x \in holds' : Unseen(x.patch.to, edits[Operator])
      /\ \A x \in orphans' : Unseen(x.patch.to, edits[Operator])
  <2>1. \A y \in Swept : \E x \in orphans : y.patch = x.patch
    BY DEF Swept
  <2>2. \A y \in holds \cup Swept : Unseen(y.patch.to, edits[Operator])
    BY <2>1 DEF Stamped
  <2>3. \A x, readable : [x EXCEPT !.listed = readable].patch = x.patch
    OBVIOUS
  <2>4. ASSUME NEW all, NEW readable, NEW y \in Marked(all, readable)
        PROVE  \E x \in all : y.patch = x.patch
    <3>1. PICK x \in all : y = [x EXCEPT !.listed = readable]
      BY DEF Marked
    <3> QED
      BY <2>3, <3>1
  <2>5. /\ \E all \in SUBSET (holds \cup Swept), readable \in BOOLEAN : holds' = Marked(all, readable)
        /\ orphans' \subseteq orphans
    <3>1. PICK readable \in BOOLEAN :
            \/ holds' = Marked(holds \cup Swept, readable) /\ orphans' = {}
            \/ holds' = Marked(holds, readable) /\ UNCHANGED orphans
      BY DEF Restart, Only
    <3> QED
      BY <3>1, Zenon
  <2> QED
    BY <1>1, <2>2, <2>4, <2>5 DEF Stamped
<1>4. \A s \in Sessions : HandUnseen(s)'
  BY <1>1 DEF HandUnseen
<1> QED
  BY <1>1, <1>2, <1>3, <1>4 DEF Stamped

(* What is handed over to a successor, and what changes none of it.             *)
LEMMA OtherUnseen ==
  ASSUME Exclusive, Stamped, NEW s \in Sessions,
         \/ \E prior \in Sessions \cup {None} : Launch(s, prior)
         \/ TurnStart(s) \/ TurnEnd(s) \/ Promote(s) \/ Acknowledge(s)
         \/ \E kind \in {"apply", "discard"} : Click(s, kind)
  PROVE  Stamped'
<1>1. UNCHANGED <<real, tree, edits, at, hand, orphans>>
  BY DEF Launch, TurnStart, TurnEnd, Promote, Acknowledge, Click, lane, store, counts
<1>2. \A y \in holds' : \E x \in holds : y.patch = x.patch
  <2>1. CASE \E prior \in Sessions \cup {None} : Launch(s, prior)
    <3>1. PICK moved \in SUBSET holds :
            holds' = (holds \ moved) \cup {[x EXCEPT !.owner = s, !.listed = TRUE] : x \in moved}
      BY <2>1 DEF Launch, Mine
    <3>2. \A x \in holds : [x EXCEPT !.owner = s, !.listed = TRUE].patch = x.patch
      BY DEF Exclusive, TypeOK, Held
    <3> QED
      BY <3>1, <3>2
  <2> QED
    BY <2>1 DEF TurnStart, TurnEnd, Promote, Acknowledge, Click, store
<1> QED
  BY <1>1, <1>2 DEF Stamped, HandUnseen

-----------------------------------------------------------------------------
(* A step that takes no row away and tears no comparison.                       *)
LEMMA ToldStays ==
  ASSUME Told, mixed' \subseteq mixed, mixed \subseteq Sessions \X BOOLEAN,
         \A t \in Sessions : status[t] # "absent" => status'[t] # "absent",
         \A t \in Sessions : <<t, FALSE>> \in mixed' /\ "divergence" \in rows[t] => "divergence" \in rows'[t],
         \A t \in Sessions : Torn(t)'
  PROVE  Told'
BY DEF Told

(* A job reaches the comparison by its write alone.                             *)
LEMMA OnlyWrites ==
  ASSUME Exclusive, NEW s \in Sessions, Job(s), ~Write(s)
  PROVE  \A t \in Sessions : at'[t] # "compare"
<1> USE DEF Exclusive
<1>1. PICK j \in chain : First(j) /\ j.session = s
  BY Running DEF Job, StartJob, EndJob, ApplyJob, DiscardJob, Check, Snapshot, Read, Write, Compare,
     CompareFails, Resolve, Begins
<1>2. \A t \in Sessions : t # s => at[t] = "none"
  BY <1>1, Alone
<1>3. \/ Done(s)
     \/ \E place \in {"check", "snapshot", "read", "write", "resolve"} : \E h : Goes(s, place, h)
  <2>1. CASE StartJob(s) \/ EndJob(s) \/ ApplyJob(s) \/ DiscardJob(s)
    BY <2>1 DEF StartJob, EndJob, ApplyJob, DiscardJob, Hold, Stopped
  <2>2. CASE Check(s) \/ Snapshot(s) \/ Read(s)
    BY <2>2 DEF Check, Snapshot, Read, Hold, Stopped
  <2>3. CASE Compare(s) \/ CompareFails(s) \/ Resolve(s)
    BY <2>3 DEF Compare, CompareFails, Resolve, Hold, Stopped
  <2> QED
    BY <2>1, <2>2, <2>3 DEF Job
<1> QED
  BY <1>2, <1>3 DEF Done, Goes, TypeOK

LEMMA JobTold ==
  ASSUME Exclusive, Told, NEW s \in Sessions, Job(s) PROVE Told'
<1> USE DEF Exclusive, counts, store, history
<1>0. /\ mixed \subseteq Sessions \X BOOLEAN /\ rows \in [Sessions -> SUBSET {"held", "uncapturable", "divergence"}]
      /\ hand[s] \in Hands /\ status' = status
  BY DEF TypeOK, Job, StartJob, EndJob, ApplyJob, DiscardJob, Check, Snapshot, Read, Write, Compare,
     CompareFails, Resolve
<1>1. ~Write(s) => \A t \in Sessions : Torn(t)'
  BY OnlyWrites DEF Torn
<1>2. ASSUME ~Write(s), mixed' = mixed, \A t \in Sessions : "divergence" \in rows[t] => "divergence" \in rows'[t]
      PROVE  Told'
  BY <1>0, <1>1, <1>2, ToldStays
<1>3. CASE StartJob(s) \/ EndJob(s) \/ ApplyJob(s) \/ DiscardJob(s)
  <2>1. ~Write(s) /\ mixed' = mixed
    BY <1>3 DEF StartJob, EndJob, ApplyJob, DiscardJob, Begins, Write
  <2>2. \A t \in Sessions : "divergence" \in rows[t] => "divergence" \in rows'[t]
    <3>1. CASE StartJob(s)
      BY <3>1 DEF StartJob
    <3>2. CASE EndJob(s)
      BY <1>0, <3>2 DEF EndJob, Uncapturable, Raise, Only, Hold, Tracked, Untracked
    <3>3. CASE ApplyJob(s)
      BY <1>0, <3>3 DEF ApplyJob, Clear, Stopped, Raise
    <3>4. CASE DiscardJob(s)
      BY <1>0, <3>4 DEF DiscardJob, Clear, Raise
    <3> QED
      BY <1>3, <3>1, <3>2, <3>3, <3>4
  <2> QED
    BY <1>2, <2>1, <2>2
<1>4. CASE Check(s) \/ Snapshot(s) \/ Read(s) \/ CompareFails(s) \/ Resolve(s)
  <2>1. ~Write(s) /\ mixed' = mixed
    BY <1>4 DEF Check, Snapshot, Read, CompareFails, Resolve, Write
  <2>2. \A t \in Sessions : "divergence" \in rows[t] => "divergence" \in rows'[t]
    <3>1. CASE Check(s) \/ Snapshot(s)
      BY <1>0, <3>1 DEF Check, Snapshot, Stopped, Raise
    <3>2. CASE Read(s)
      BY <1>0, <3>2 DEF Read, Stopped, Raise, Only, Hold, Tracked, Untracked
    <3>3. CASE CompareFails(s)
      BY <1>0, <3>3 DEF CompareFails, Stopped, Raise, Only, Hold, Tracked, Untracked
    <3>4. CASE Resolve(s)
      BY <1>0, <3>4 DEF Resolve
    <3> QED
      BY <1>4, <3>1, <3>2, <3>3, <3>4
  <2> QED
    BY <1>2, <2>1, <2>2
<1>5. CASE Write(s)
  <2>1. /\ at[s] = "write" /\ real' = Written(s) /\ Goes(s, "compare", hand[s]) /\ UNCHANGED <<rows, mixed>>
    BY <1>5 DEF Write
  <2>2. PICK j \in chain : First(j) /\ j.session = s
    BY <2>1, Running
  <2>3. \A t \in Sessions : /\ at'[t] = IF t = s THEN "compare" ELSE "none"
                            /\ t = s => hand'[t] = hand[s]
    BY <2>1, <2>2, GoesAlone
  <2>4. ASSUME NEW h \in Rewritten(hand[s].patch), hand[s].pre[h] # hand[s].got[h]
        PROVE  Diverged(hand[s].patch, hand[s].pre, real')
    <3>1. h \in Hunks /\ real'[h] = Patched(hand[s].patch, hand[s].got)[h]
      BY <2>1 DEF Written, Overwrite, Rewritten
    <3>2. Applies(hand[s].patch, hand[s].got)
      BY <2>1 DEF Pinned
    <3>3. CASE h \in Touched(hand[s].patch)
      BY <2>4, <3>2, <3>3 DEF Applies, Diverged
    <3>4. CASE h \notin Touched(hand[s].patch)
      BY <2>4, <3>1, <3>4 DEF Patched, Diverged
    <3> QED
      BY <3>3, <3>4
  <2>5. \A t \in Sessions : Torn(t)'
    BY <2>3, <2>4 DEF Torn, Mixed
  <2> QED
    BY <1>0, <2>1, <2>5, ToldStays
<1>6. CASE Compare(s)
  <2> DEFINE torn == Diverged(hand[s].patch, hand[s].pre, real)
  <2>1. /\ at[s] = "compare" /\ mixed' = mixed \cup Only(Mixed(s), <<s, Replays(s)>>)
        /\ Mixed(s) => torn
    BY <1>6 DEF Compare, Told, Torn
  <2>2. \A t \in Sessions : Torn(t)'
    BY <1>1, <2>1 DEF Write
  <2>3. status[s] # "absent"
    BY <2>1, Running DEF Chained, Alive
  <2>4. \A m \in mixed' : m \in mixed \/ (m = <<s, Replays(s)>> /\ torn)
    BY <2>1 DEF Only
  <2>5. /\ \A t \in Sessions : "divergence" \in rows[t] => "divergence" \in rows'[t]
        /\ ~Replays(s) /\ torn => "divergence" \in rows'[s]
    <3>1. CASE Replays(s)
      BY <1>6, <3>1 DEF Compare
    <3>2. CASE ~Replays(s)
      BY <1>0, <1>6, <3>2 DEF Compare, Applied, Only
    <3> QED
      BY <3>1, <3>2
  <2> HIDE DEF torn
  <2>6. Replays(s) \in BOOLEAN
    BY DEF Replays
  <2>7. \A m \in mixed' : status'[m[1]] # "absent"
    BY <1>0, <2>3, <2>4 DEF Told
  <2>8. ASSUME NEW t \in Sessions, <<t, FALSE>> \in mixed' PROVE "divergence" \in rows'[t]
    <3>1. CASE <<t, FALSE>> \in mixed
      BY <2>5, <3>1 DEF Told
    <3>2. CASE <<t, FALSE>> = <<s, Replays(s)>> /\ torn
      BY <2>5, <3>2
    <3> QED
      BY <2>4, <2>8, <3>1, <3>2
  <2> QED
    BY <2>2, <2>7, <2>8 DEF Told
<1> QED
  BY <1>3, <1>4, <1>5, <1>6 DEF Job

LEMMA OtherTold ==
  ASSUME Exclusive, Stamped, Told, NEW s, NEW h,
         \/ s \in Sessions /\ (AgentEdit(s, h) \/ TurnStart(s) \/ TurnEnd(s) \/ Promote(s))
         \/ s \in Sessions /\ Acknowledge(s)
         \/ s \in Sessions /\ \E prior \in Sessions \cup {None} : Launch(s, prior)
         \/ s \in Sessions /\ \E kind \in {"apply", "discard"} : Click(s, kind)
         \/ h \in Hunks /\ OperatorEdit(h)
  PROVE  Told'
<1> USE DEF Exclusive, lane, store, counts, history
<1>0. mixed \subseteq Sessions \X BOOLEAN /\ UNCHANGED <<at, hand>>
  BY DEF TypeOK, AgentEdit, TurnStart, TurnEnd, Promote, Acknowledge, Launch, Click, OperatorEdit
<1>1. CASE h \in Hunks /\ OperatorEdit(h)
  <2>1. UNCHANGED <<mixed, status, rows>>
    BY <1>1 DEF OperatorEdit
  <2>2. /\ edits[Operator] \in 1..edits[Operator] /\ real' = [real EXCEPT ![h] = <<Operator, edits[Operator]>>]
        /\ real \in Trees
    BY <1>1 DEF OperatorEdit, TypeOK, Authors
  <2>3. ASSUME NEW t \in Sessions, at[t] = "compare", Mixed(t)
        PROVE  Diverged(hand[t].patch, hand[t].pre, real')
    <3> DEFINE p == hand[t].patch
               pre == hand[t].pre
    <3>1. Diverged(p, pre, real)
      BY <2>3 DEF Told, Torn
    <3>2. Unseen(p.to, edits[Operator]) /\ Unseen(pre, edits[Operator])
      BY <2>3 DEF Stamped, HandUnseen
    <3>3. Patched(p, pre)[h] # <<Operator, edits[Operator]>>
      BY <1>1, <2>2, <3>2 DEF Unseen, Patched
    <3> HIDE DEF p, pre
    <3>4. \A g \in Rewritten(p) : real[g] # Patched(p, pre)[g] => real'[g] # Patched(p, pre)[g]
      BY <1>1, <2>2, <3>3 DEF Trees, Rewritten
    <3>5. Diverged(p, pre, real')
      BY <3>1, <3>4 DEF Diverged
    <3> QED
      BY <3>5 DEF p, pre
  <2>4. \A t \in Sessions : Torn(t)'
    BY <1>0, <2>3 DEF Torn, Mixed
  <2> QED
    BY <1>0, <2>1, <2>4, ToldStays
<1>2. real' = real => \A t \in Sessions : Torn(t)'
  BY <1>0 DEF Told, Torn, Mixed
<1>3. CASE s \in Sessions /\ \E prior \in Sessions \cup {None} : Launch(s, prior)
  <2>1. /\ UNCHANGED <<mixed, real>> /\ status[s] = "absent"
        /\ \A t \in Sessions : t # s => rows'[t] = rows[t] /\ status'[t] = status[t]
        /\ status'[s] # "absent"
    BY <1>3 DEF Launch, TypeOK
  <2>2. <<s, FALSE>> \notin mixed
    BY <2>1 DEF Told
  <2> QED
    BY <1>0, <1>2, <2>1, <2>2 DEF Told
<1>4. CASE s \in Sessions /\ Acknowledge(s)
  <2>1. /\ UNCHANGED <<status, real>> /\ mixed' = {m \in mixed : m[1] # s}
        /\ \A t \in Sessions : t # s => rows'[t] = rows[t]
    BY <1>4 DEF Acknowledge, Clear, TypeOK
  <2> QED
    BY <1>0, <1>2, <2>1, ToldStays
<1>5. CASE /\ s \in Sessions
           /\ \/ AgentEdit(s, h) \/ TurnStart(s) \/ TurnEnd(s) \/ Promote(s)
              \/ \E kind \in {"apply", "discard"} : Click(s, kind)
  <2>1. /\ UNCHANGED <<mixed, rows, real>>
        /\ \A t \in Sessions : status[t] # "absent" => status'[t] # "absent"
    BY <1>5 DEF AgentEdit, TurnStart, TurnEnd, Promote, Click, TypeOK
  <2> QED
    BY <1>0, <1>2, <2>1, ToldStays
<1> QED
  BY <1>1, <1>3, <1>4, <1>5

(* The invariant, and the theorem.                                              *)
LEMMA InitTold == Init => Stamped /\ Told
<1> SUFFICES ASSUME Init PROVE Stamped /\ Told
  OBVIOUS
<1>1. \A n \in Nat : Unseen(Base, n)
  BY DEF Unseen, Base
<1>2. edits[Operator] \in Nat
  BY InitExclusive DEF Exclusive, TypeOK, Authors
<1>3. Stamped
  BY <1>1, <1>2 DEF Init, Stamped, HandUnseen
<1>4. mixed = {} /\ \A s \in Sessions : at[s] = "none"
  BY DEF Init
<1> QED
  BY <1>3, <1>4 DEF Told, Torn

LEMMA NextTold == Exclusive /\ Stamped /\ Told /\ [Next]_vars => Stamped' /\ Told'
<1> SUFFICES ASSUME Exclusive, Stamped, Told, [Next]_vars PROVE Stamped' /\ Told'
  OBVIOUS
<1>1. CASE \E s \in Sessions : Job(s)
  BY <1>1, JobUnseen, JobTold
<1>2. CASE \E s \in Sessions, prior \in Sessions \cup {None} : Launch(s, prior)
  BY <1>2, OtherUnseen, OtherTold, Zenon
<1>3. CASE \E s \in Sessions : TurnStart(s) \/ TurnEnd(s) \/ Promote(s) \/ Acknowledge(s)
  BY <1>3, OtherUnseen, OtherTold, Zenon
<1>4. CASE \E s \in Sessions, kind \in {"apply", "discard"} : Click(s, kind)
  BY <1>4, OtherUnseen, OtherTold, Zenon
<1>5. CASE \E s \in Sessions, h \in Hunks : AgentEdit(s, h)
  BY <1>5, EditUnseen, OtherTold, Zenon
<1>6. CASE \E h \in Hunks : OperatorEdit(h)
  BY <1>6, EditUnseen, OtherTold, Zenon
<1>7. CASE \E lost \in SUBSET Present : Restart(lost)
  <2>1. Stamped'
    BY <1>7, RestartUnseen
  <2>2. mixed' = {} /\ \A s \in Sessions : at'[s] = "none"
    BY <1>7 DEF Restart
  <2> QED
    BY <2>1, <2>2 DEF Told, Torn
<1>8. CASE UNCHANGED vars
  <2>1. UNCHANGED <<real, tree, edits, at, hand, holds, orphans, mixed, rows, status>>
    BY <1>8 DEF vars, lane, store, counts, history
  <2>2. Stamped'
    BY <2>1 DEF Stamped, HandUnseen
  <2>3. \A s \in Sessions : Torn(s)'
    BY <2>1 DEF Told, Torn, Mixed
  <2> QED
    BY <2>1, <2>2, <2>3 DEF Told
<1> QED
  BY <1>1, <1>2, <1>3, <1>4, <1>5, <1>6, <1>7, <1>8, Zenon DEF Next

(* A turn whose write mixed with an operator's edit to one of its files, and    *)
(* could be compared with what the patch alone makes, has its divergence row    *)
(* from the end of its job until it is acknowledged.                            *)
THEOREM MixesAreTold == Spec => []DivergenceTold
<1>1. Told => DivergenceTold
  BY DEF Told, DivergenceTold
<1> QED
  BY <1>1, Invariance, InitTold, NextTold, PTL DEF Spec

-----------------------------------------------------------------------------
(* What a session's turns are accounted by.  A job that turns an edit into a    *)
(* patch is Busy; the others that stop half way replay what is held.            *)
Queued(s, kind) == {j \in chain : j.session = s /\ j.kind = kind}
Starts(s) == Queued(s, "start")
Ends(s)   == Queued(s, "end")

Busy(s) == at[s] \in {"snapshot", "read", "write", "compare"} /\ ~Replays(s)

KindOf(s) == \A j \in chain :
  at[s] # "none" /\ First(j) => j.kind = IF Busy(s) THEN "end" ELSE "apply"

(* The baseline of the next patch, established or still queued, is the content  *)
(* a decision was made about.                                                   *)
Baseline(s) ==
  /\ endTree[s] # None => endTree[s] = credit[s]
  /\ start[s] # None => start[s].tree = credit[s]
  /\ endTree[s] = None => \A j \in Starts(s) :
       /\ j.early # None
       /\ start[s] = None /\ ~Busy(s) /\ (\A k \in Starts(s) : j.n <= k.n) => j.early = credit[s]

(* The patch in hand starts there, and ends at the worktree between turns.      *)
InHand(s) == Busy(s) =>
  /\ start[s] = None /\ hand[s].patch.from = credit[s]
  /\ Starts(s) = {} => hand[s].patch.to = tree[s]

Decided(s) == start[s] = None /\ Starts(s) = {} /\ ~Busy(s) =>
  tree[s] = credit[s] \/ ("uncapturable" \in rows[s] /\ endTree[s] # None)

(* Of a session whose turns this daemon has not seen nothing is known.          *)
Away(s) == status[s] \in {"absent", "gone", "cut"} =>
  endTree[s] = None /\ start[s] = None /\ Starts(s) = {} /\ Ends(s) = {} /\ ~Busy(s)

(* A turn that runs has a start with no end behind it; when none runs, every    *)
(* start has one.                                                               *)
Framed(s) ==
  /\ status[s] = "running" =>
       \/ start[s] # None /\ Ends(s) = {}
       \/ \E j \in Starts(s) : \A k \in Ends(s) : k.n < j.n
  /\ status[s] # "running" =>
       /\ start[s] # None => Ends(s) # {}
       /\ \A j \in Starts(s) : \E k \in Ends(s) : j.n < k.n

Account(s) == Baseline(s) /\ InHand(s) /\ Decided(s) /\ Away(s) /\ Framed(s)

Accounts == \A s \in Sessions : KindOf(s) /\ (s \notin promoted => Account(s))

-----------------------------------------------------------------------------
(* A step that changes nothing of a session keeps its account.                  *)
LEMMA SameAccount ==
  ASSUME NEW s \in Sessions, Account(s), Starts(s)' = Starts(s), Ends(s)' = Ends(s),
         tree'[s] = tree[s], credit'[s] = credit[s], start'[s] = start[s],
         endTree'[s] = endTree[s], status'[s] = status[s],
         Busy(s)' <=> Busy(s), Busy(s) => hand'[s].patch = hand[s].patch,
         "uncapturable" \in rows[s] => "uncapturable" \in rows'[s]
  PROVE  Account(s)'
<1>1. Baseline(s)'
  BY DEF Account, Baseline
<1>2. InHand(s)' /\ Decided(s)' /\ Away(s)' /\ Framed(s)'
  BY DEF Account, InHand, Decided, Away, Framed
<1> QED
  BY <1>1, <1>2 DEF Account

LEMMA FirstAlone ==
  ASSUME TypeOK, Chained, NEW j \in chain, First(j), NEW k \in chain, k # j
  PROVE  j.n < k.n /\ ~First(k)
<1>1. j.n \in Nat /\ k.n \in Nat
  BY DEF TypeOK, Jobs
<1> QED
  BY <1>1 DEF Chained, First

(* The job that ends leaves the chain, and it alone.                            *)
LEMMA DoneJobs ==
  ASSUME TypeOK, Chained, NEW s \in Sessions, NEW j \in chain, First(j), j.session = s, Done(s)
  PROVE  /\ chain' = chain \ {j}
         /\ \A k \in chain : k # j => j.n < k.n
         /\ \A t \in Sessions, kind \in Kinds :
              Queued(t, kind)' = IF t = s /\ kind = j.kind THEN Queued(t, kind) \ {j} ELSE Queued(t, kind)
<1>2. \A k \in chain : k # j => j.n < k.n /\ ~First(k)
  BY FirstAlone
<1>3. chain' = chain \ {j}
  BY <1>2 DEF Done
<1> QED
  BY <1>2, <1>3 DEF Queued

(* A queued job comes behind the others.                                        *)
LEMMA EnqueueJobs ==
  ASSUME TypeOK, Chained, NEW s \in Sessions, NEW kind \in Kinds, NEW early, Enqueue(s, kind, early),
         UNCHANGED <<at, hand>>, \A t \in Sessions : KindOf(t)
  PROVE  /\ \A t \in Sessions : KindOf(t)'
         /\ \A k \in chain : k.n \in Nat /\ k.n <= ticket
         /\ \A t \in Sessions, other \in Kinds :
              Queued(t, other)' = IF t = s /\ other = kind
                THEN Queued(t, other) \cup {[n |-> ticket + 1, session |-> s, kind |-> kind, early |-> early]}
                ELSE Queued(t, other)
<1> DEFINE new == [n |-> ticket + 1, session |-> s, kind |-> kind, early |-> early]
<1>1. \A k \in chain : k.n \in Nat /\ k.n <= ticket
  BY DEF TypeOK, Chained, Jobs
<1>2. chain' = chain \cup {new} /\ new.n = ticket + 1 /\ new.session = s /\ new.kind = kind /\ ticket \in Nat
  BY DEF Enqueue, TypeOK
<1> HIDE DEF new
<1>3. ASSUME NEW t \in Sessions, at[t] # "none", NEW k \in chain', First(k)'
      PROVE  k \in chain /\ First(k)
  <2>1. PICK j \in chain : First(j)
    BY <1>3 DEF Chained
  <2> QED
    BY <1>1, <1>2, <1>3, <2>1 DEF First
<1>4. \A t \in Sessions : KindOf(t)'
  BY <1>3 DEF KindOf, Busy, Replays
<1>5. \A t \in Sessions, other \in Kinds :
        Queued(t, other)' = IF t = s /\ other = kind THEN Queued(t, other) \cup {new} ELSE Queued(t, other)
  BY <1>2 DEF Queued
<1> QED
  BY <1>1, <1>4, <1>5 DEF new

(* A step of the running job of s changes nothing of the others.                *)
LEMMA OthersKeep ==
  ASSUME Exclusive, Accounts, NEW s \in Sessions, Job(s)
  PROVE  \A t \in Sessions : t # s => KindOf(t)' /\ (t \notin promoted' => Account(t)')
<1> USE DEF Exclusive
<1>1. PICK j \in chain : First(j) /\ j.session = s
  BY Running DEF Job, StartJob, EndJob, ApplyJob, DiscardJob, Check, Snapshot, Read, Write, Compare,
     CompareFails, Resolve,
     Begins
<1>2. \A t \in Sessions : t # s => at[t] = "none"
  BY <1>1, Alone
<1>3. Done(s) \/ \E place, h : Goes(s, place, h)
  BY Zenon DEF Job, StartJob, EndJob, ApplyJob, DiscardJob, Check, Snapshot, Read, Write, Compare,
     CompareFails, Resolve,
     Hold, Stopped
<1>4. \A t \in Sessions : t # s => at'[t] = "none"
  BY <1>2, <1>3 DEF Done, Goes, TypeOK
<1>5. \A t \in Sessions, kind \in Kinds : t # s => Queued(t, kind)' = Queued(t, kind)
  BY <1>1, <1>3, DoneJobs DEF Goes, Queued
<1>6. \A t \in Sessions : t # s =>
        /\ start'[t] = start[t] /\ endTree'[t] = endTree[t] /\ credit'[t] = credit[t]
        /\ rows'[t] = rows[t]
  <2>1. CASE StartJob(s) \/ Snapshot(s) \/ Write(s)
    BY <2>1 DEF StartJob, Snapshot, Write, history, TypeOK
  <2>2. CASE ApplyJob(s) \/ DiscardJob(s) \/ Check(s) \/ Resolve(s)
    BY <2>2 DEF ApplyJob, DiscardJob, Check, Resolve, Raise, Clear, Stopped, history, TypeOK
  <2>3. CASE EndJob(s)
    BY <2>3 DEF EndJob, Hold, Tracked, Untracked, Uncapturable, Raise, TypeOK
  <2>4. CASE Read(s)
    BY <2>4 DEF Read, Hold, Tracked, Untracked, Raise, Stopped, TypeOK
  <2>5. CASE Compare(s)
    BY <2>5 DEF Compare, Applied, TypeOK
  <2>6. CASE CompareFails(s)
    BY <2>6 DEF CompareFails, Hold, Tracked, Untracked, Raise, Stopped, TypeOK
  <2> QED
    BY <2>1, <2>2, <2>3, <2>4, <2>5, <2>6 DEF Job
<1>7. UNCHANGED <<status, tree, promoted>>
  BY DEF Job, StartJob, EndJob, ApplyJob, DiscardJob, Check, Snapshot, Read, Write, Compare,
     CompareFails, Resolve
<1>8. \A t \in Sessions : t # s => KindOf(t)' /\ ~Busy(t) /\ ~Busy(t)'
  BY <1>2, <1>4 DEF KindOf, Busy
<1>9. \A t \in Sessions : t # s => Starts(t)' = Starts(t) /\ Ends(t)' = Ends(t)
  BY <1>5 DEF Starts, Ends, Kinds
<1> QED
  BY <1>6, <1>7, <1>8, <1>9, SameAccount DEF Accounts

LEMMA PatchedWhole ==
  ASSUME NEW p \in Patches PROVE Patched(p, p.from) = p.to
<1>1. \A h \in Hunks : Patched(p, p.from)[h] = p.to[h]
  BY DEF Patched, Touched
<1>2. p.to \in [Hunks -> Stamps]
  BY DEF Patches, Trees
<1> QED
  BY <1>1, <1>2 DEF Patched

LEMMA UntouchedSame ==
  ASSUME NEW p \in Patches, Touched(p) = {} PROVE p.from = p.to
<1>1. p.from \in [Hunks -> Stamps] /\ p.to \in [Hunks -> Stamps] /\ \A h \in Hunks : p.from[h] = p.to[h]
  BY DEF Patches, Trees, Touched
<1> QED
  BY <1>1

(* The end of a turn's job: its baseline is set to what was decided about.      *)
LEMMA EndsTurn ==
  ASSUME Exclusive, NEW s \in Sessions, NEW j \in chain, First(j), j.session = s, j.kind = "end",
         Account(s), Done(s), UNCHANGED <<status, tree>>, start'[s] = None,
         endTree'[s] # None, endTree'[s] = credit'[s],
         Starts(s) = {} => tree[s] = credit'[s] \/ "uncapturable" \in rows'[s]
  PROVE  Account(s)'
<1>1. /\ \A k \in chain : k # j => j.n < k.n
      /\ Starts(s)' = Starts(s) /\ Ends(s)' = Ends(s) \ {j}
  BY DoneJobs DEF Exclusive, Starts, Ends, Kinds
<1>2. at'[s] = "none"
  BY DoneIdle DEF Exclusive
<1>3. j \in Ends(s) /\ \A k \in chain : k.n \in Nat
  BY DEF Ends, Queued, Exclusive, TypeOK, Jobs
<1>4. status[s] \notin {"absent", "gone", "cut"}
  BY <1>3 DEF Account, Away
<1>5. Framed(s)'
  <2>1. \A i \in Starts(s) : i \in chain /\ i # j
    BY DEF Starts, Queued
  <2>2. \A i \in Starts(s), k \in Ends(s) : i.n < k.n => k # j
    BY <1>1, <1>3, <2>1
  <2> QED
    BY <1>1, <1>3, <2>2 DEF Account, Framed
<1>6. ~Busy(s)'
  BY <1>2 DEF Busy
<1> QED
  BY <1>1, <1>4, <1>5, <1>6 DEF Account, Baseline, InHand, Decided, Away

(* hold(), of the patch from the last decision to the worktree.                 *)
LEMMA HoldAccounts ==
  ASSUME Exclusive, ~FirstMayFail,
         NEW s \in Sessions, NEW j \in chain, First(j), j.session = s, j.kind = "end",
         Account(s), UNCHANGED <<status, tree>>, start'[s] = None,
         NEW p \in Patches, NEW n, p.from = credit[s], Starts(s) = {} => p.to = tree[s], Hold(s, p, n)
  PROVE  Account(s)'
<1>0. Done(s) /\ p.to # None
  BY BoundarySyncAssumption DEF Hold, Patches
<1>1. CASE Tracked(s, p, n)
  <2>1. endTree'[s] = p.to /\ credit'[s] = Patched(p, credit[s])
    BY <1>1 DEF Tracked, Exclusive, TypeOK
  <2>2. credit'[s] = p.to
    BY <2>1, PatchedWhole
  <2> QED
    BY <1>0, <2>1, <2>2, EndsTurn
<1>2. CASE endTree[s] # None /\ UNCHANGED <<endTree, credit>> /\ "uncapturable" \in rows'[s]
  <2>1. endTree[s] = credit[s]
    BY <1>2 DEF Account, Baseline
  <2> QED
    BY <1>0, <1>2, <2>1, EndsTurn
<1>3. Raise(s, "uncapturable") => "uncapturable" \in rows'[s]
  BY DEF Raise, Exclusive, TypeOK
<1> QED
  BY <1>1, <1>2, <1>3 DEF Hold, May, Untracked

LEMMA StartJobAccounts ==
  ASSUME Exclusive, NEW s \in Sessions, Account(s), StartJob(s) PROVE Account(s)'
<1> USE DEF Exclusive
<1>1. PICK j \in chain : /\ Begins(s, "start", j)
        /\ \E fp \in Trees \cup {None} : start' = [start EXCEPT ![s] =
             [real |-> fp, tree |-> IF endTree[s] # None THEN endTree[s] ELSE j.early]]
        /\ credit' = IF start[s] # None /\ endTree[s] = None /\ j.early # None
                     THEN [credit EXCEPT ![s] = j.early] ELSE credit
  BY DEF StartJob, Begins, TypeOK
<1>2. First(j) /\ j.session = s /\ j.kind = "start" /\ at[s] = "none" /\ j \in Starts(s)
  BY <1>1 DEF Begins, Starts, Queued
<1>3. Done(s) /\ UNCHANGED <<tree, status, endTree, rows>>
  BY DEF StartJob
<1>4. /\ \A k \in chain : k # j => j.n < k.n
      /\ Starts(s)' = Starts(s) \ {j} /\ Ends(s)' = Ends(s)
  BY <1>2, <1>3, DoneJobs DEF Starts, Ends, Kinds
<1>5. at'[s] = "none" /\ ~Busy(s) /\ ~Busy(s)'
  BY <1>2, <1>3, DoneIdle DEF Busy
<1>6. \A k \in chain : k.n \in Nat
  BY DEF TypeOK, Jobs
<1>7. start'[s] # None /\ start'[s].tree = IF endTree[s] # None THEN endTree[s] ELSE j.early
  <2>1. PICK fp \in Trees \cup {None} : start' = [start EXCEPT ![s] =
             [real |-> fp, tree |-> IF endTree[s] # None THEN endTree[s] ELSE j.early]]
    BY <1>1
  <2>2. start'[s] = [real |-> fp, tree |-> IF endTree[s] # None THEN endTree[s] ELSE j.early]
    BY <2>1 DEF TypeOK
  <2>3. (IF endTree[s] # None THEN endTree[s] ELSE j.early) \in Trees \cup {None}
    BY <1>1, <2>1 DEF TypeOK, Jobs
  <2> QED
    BY <2>2, <2>3, BoundarySyncAssumption
<1>8. Baseline(s)'
  <2>1. CASE endTree[s] # None
    BY <1>1, <1>3, <1>7, <2>1 DEF Account, Baseline
  <2>2. CASE endTree[s] = None
    <3>1. j.early # None /\ \A k \in Starts(s) : j.n <= k.n /\ k.early # None
      BY <1>2, <1>4, <1>6, <2>2 DEF Account, Baseline, Starts, Queued
    <3>2. start[s] = None => j.early = credit[s]
      BY <1>2, <1>5, <2>2, <3>1 DEF Account, Baseline
    <3>3. credit'[s] = j.early
      BY <1>1, <2>2, <3>1, <3>2 DEF TypeOK
    <3> QED
      BY <1>3, <1>4, <1>7, <2>2, <3>1, <3>3 DEF Baseline
  <2> QED
    BY <2>1, <2>2
<1>9. Framed(s)'
  <2>1. \A k \in Ends(s) : k \in chain /\ k # j
    BY <1>2 DEF Ends, Queued
  <2>2. CASE status[s] = "running"
    <3>1. CASE start[s] # None /\ Ends(s) = {}
      BY <1>3, <1>4, <1>7, <2>2, <3>1 DEF Framed
    <3>2. CASE \E i \in Starts(s) : \A k \in Ends(s) : k.n < i.n
      <4>1. PICK i \in Starts(s) : \A k \in Ends(s) : k.n < i.n
        BY <3>2
      <4>2. CASE i = j
        <5>1. Ends(s) = {}
          BY <1>2, <1>4, <1>6, <2>1, <4>1, <4>2
        <5> QED
          BY <1>3, <1>4, <1>7, <2>2, <5>1 DEF Framed
      <4> QED
        BY <1>3, <1>4, <2>2, <4>1, <4>2 DEF Framed
    <3> QED
      BY <2>2, <3>1, <3>2 DEF Account, Framed
  <2>3. CASE status[s] # "running"
    BY <1>2, <1>3, <1>4, <2>3 DEF Account, Framed
  <2> QED
    BY <2>2, <2>3
<1> QED
  BY <1>2, <1>3, <1>5, <1>7, <1>8, <1>9 DEF Account, InHand, Decided, Away

LEMMA JobKind ==
  ASSUME Exclusive, NEW s \in Sessions, KindOf(s), Job(s) PROVE KindOf(s)'
<1> USE DEF Exclusive
<1>1. PICK j \in chain : First(j) /\ j.session = s
  BY Running DEF Job, StartJob, EndJob, ApplyJob, DiscardJob, Check, Snapshot, Read, Write, Compare,
     CompareFails, Resolve,
     Begins
<1>2. CASE Done(s)
  BY <1>1, <1>2, DoneIdle DEF KindOf
<1>7. CompareFails(s) => Done(s)
  BY DEF CompareFails, Hold, Stopped
<1>3. ASSUME NEW place, NEW h, Goes(s, place, h),
             j.kind = IF place \in {"snapshot", "read", "write", "compare"} /\ h.todo = {}
                      THEN "end" ELSE "apply"
      PROVE  KindOf(s)'
  <2>1. chain' = chain /\ at'[s] = place /\ hand'[s] = h
    BY <1>1, <1>3, GoesAlone
  <2>2. \A k \in chain : First(k) => k = j
    BY <1>1, FirstAlone
  <2> QED
    BY <1>3, <2>1, <2>2 DEF KindOf, First, Busy, Replays
<1>4. CASE EndJob(s) \/ ApplyJob(s)
  <2>1. Done(s) \/ \/ /\ j.kind = "end"
                       /\ Goes(s, "snapshot", [Empty EXCEPT !.patch = [from |-> start[s].tree, to |-> tree[s]],
                                                            !.n = patches + 1])
                    \/ /\ j.kind = "apply"
                       /\ Goes(s, "check", [Empty EXCEPT !.pin = real, !.todo = Mine(s)])
    BY <1>1, <1>4, FirstAlone, Zenon DEF EndJob, ApplyJob, Begins, Hold, Stopped
  <2> QED
    BY <1>2, <1>3, <2>1 DEF Empty
<1>5. ASSUME at[s] # "none" PROVE j.kind = IF Busy(s) THEN "end" ELSE "apply"
  BY <1>1, <1>5 DEF KindOf
<1>6. CASE Check(s) \/ Snapshot(s) \/ Read(s) \/ Write(s) \/ Compare(s) \/ Resolve(s)
  <2>1. hand[s] \in Hands
    BY DEF TypeOK
  <2>2. Done(s) \/ \E place, h : /\ Goes(s, place, h)
                                 /\ place \in {"snapshot", "read", "write", "compare"} /\ h.todo = {} <=> Busy(s)
    <3>1. CASE Check(s)
      <4>1. PICK x \in hand[s].todo :
              Done(s) \/ Goes(s, "snapshot", [hand[s] EXCEPT !.patch = x.patch, !.n = x.n])
        BY <3>1 DEF Check, Stopped
      <4>2. [hand[s] EXCEPT !.patch = x.patch, !.n = x.n].todo # {}
        BY <2>1 DEF Hands
      <4> QED
        BY <3>1, <4>1, <4>2 DEF Check, Busy
    <3>2. CASE Snapshot(s)
      BY <2>1, <3>2 DEF Snapshot, Busy, Replays, Hands
    <3>3. CASE Read(s)
      BY <2>1, <3>3 DEF Read, Stopped, Hold, Busy, Replays, Hands
    <3>4. CASE Write(s)
      BY <3>4 DEF Write, Busy, Replays
    <3>5. CASE Compare(s)
      BY <3>5 DEF Compare, Busy, Replays
    <3>6. CASE Resolve(s)
      BY <3>6 DEF Resolve, Busy
    <3> QED
      BY <1>6, <3>1, <3>2, <3>3, <3>4, <3>5, <3>6
  <2>3. at[s] # "none"
    BY <1>6 DEF Check, Snapshot, Read, Write, Compare,
     CompareFails, Resolve
  <2> QED
    BY <1>2, <1>3, <1>5, <2>2, <2>3
<1> QED
  BY <1>2, <1>4, <1>6, <1>7 DEF Job, StartJob, DiscardJob

(* A step of Apply or Discard, which decides about no turn.                     *)
LEMMA OtherJobEnds ==
  ASSUME Exclusive, NEW s \in Sessions, NEW j \in chain, First(j), j.session = s,
         j.kind \in {"apply", "discard"}, ~Busy(s), Account(s), Done(s),
         UNCHANGED <<tree, status, start, endTree, credit>>,
         "uncapturable" \in rows[s] => "uncapturable" \in rows'[s]
  PROVE  Account(s)'
<1>1. Starts(s)' = Starts(s) /\ Ends(s)' = Ends(s)
  BY DoneJobs DEF Exclusive, Starts, Ends, Kinds
<1>2. at'[s] = "none"
  BY DoneIdle DEF Exclusive
<1>3. ~Busy(s)'
  BY <1>2 DEF Busy
<1> QED
  BY <1>1, <1>3, SameAccount

(* A step of the running job that does not end it.                              *)
LEMMA GoesOn ==
  ASSUME Exclusive, NEW s \in Sessions, NEW j \in chain, First(j), j.session = s,
         NEW place, NEW h, Goes(s, place, h), Account(s),
         (place \in {"snapshot", "read", "write", "compare"} /\ h.todo = {}) <=> Busy(s),
         Busy(s) => h.patch = hand[s].patch,
         UNCHANGED <<tree, status, start, endTree, credit, rows>>
  PROVE  Account(s)'
<1>1. chain' = chain /\ at'[s] = place /\ hand'[s] = h
  BY GoesAlone DEF Exclusive
<1>2. Starts(s)' = Starts(s) /\ Ends(s)' = Ends(s) /\ (Busy(s)' <=> Busy(s))
  BY <1>1 DEF Starts, Ends, Queued, Busy, Replays
<1> QED
  BY <1>1, <1>2, SameAccount

(* The first job is the one that runs.                                          *)
LEMMA RunningKind ==
  ASSUME Exclusive, NEW s \in Sessions, at[s] # "none", KindOf(s)
  PROVE  \E j \in chain : /\ First(j) /\ j.session = s
                          /\ j.kind = IF Busy(s) THEN "end" ELSE "apply"
BY Running DEF Exclusive, KindOf

LEMMA ReplayAccounts ==
  ASSUME Exclusive, NEW s \in Sessions, KindOf(s), Account(s),
         ApplyJob(s) \/ DiscardJob(s) \/ Check(s) \/ Resolve(s)
  PROVE  Account(s)'
<1> USE DEF Exclusive
<1>0. /\ UNCHANGED <<tree, status, start, endTree, credit>>
      /\ "uncapturable" \in rows[s] => "uncapturable" \in rows'[s]
      /\ ~Busy(s) /\ hand[s] \in Hands
  <2>1. hand[s] \in Hands /\ rows \in [Sessions -> SUBSET {"held", "uncapturable", "divergence"}]
    BY DEF TypeOK
  <2>2. CASE ApplyJob(s) \/ DiscardJob(s)
    BY <2>1, <2>2 DEF ApplyJob, DiscardJob, Raise, Clear, Stopped, history, Begins, Busy
  <2>3. CASE Check(s)
    BY <2>1, <2>3 DEF Check, Raise, Stopped, history, Busy
  <2>4. CASE Resolve(s)
    BY <2>1, <2>4 DEF Resolve, history, Busy
  <2> QED
    BY <2>1, <2>2, <2>3, <2>4
<1>1. CASE ApplyJob(s)
  <2>1. PICK j \in chain : Begins(s, "apply", j)
    BY <1>1 DEF ApplyJob, Begins
  <2>2. First(j) /\ j.session = s /\ j.kind = "apply"
    BY <2>1 DEF Begins
  <2>3. \/ Done(s)
        \/ Goes(s, "check", [Empty EXCEPT !.pin = real, !.todo = Mine(s)]) /\ UNCHANGED rows
    BY <1>1 DEF ApplyJob, Stopped
  <2> QED
    BY <1>0, <2>2, <2>3, OtherJobEnds, GoesOn
<1>2. CASE DiscardJob(s)
  <2>1. PICK j \in chain : Begins(s, "discard", j)
    BY <1>2 DEF DiscardJob, Begins
  <2>2. First(j) /\ j.session = s /\ j.kind = "discard" /\ Done(s)
    BY <1>2, <2>1 DEF Begins, DiscardJob
  <2> QED
    BY <1>0, <2>2, OtherJobEnds
<1>3. CASE Check(s)
  <2>1. PICK x \in hand[s].todo :
          \/ Done(s)
          \/ Goes(s, "snapshot", [hand[s] EXCEPT !.patch = x.patch, !.n = x.n]) /\ UNCHANGED rows
    BY <1>3 DEF Check, Stopped
  <2>2. [hand[s] EXCEPT !.patch = x.patch, !.n = x.n].todo # {}
    BY <1>0 DEF Hands
  <2>3. PICK j \in chain : First(j) /\ j.session = s /\ j.kind = "apply"
    BY <1>0, <1>3, RunningKind DEF Check
  <2> QED
    BY <1>0, <2>1, <2>2, <2>3, OtherJobEnds, GoesOn
<1>4. CASE Resolve(s)
  <2>1. \/ Done(s)
        \/ Goes(s, "check", [hand[s] EXCEPT !.todo = Remaining(s), !.pin = real]) /\ UNCHANGED rows
    BY <1>4 DEF Resolve
  <2>2. PICK j \in chain : First(j) /\ j.session = s /\ j.kind = "apply"
    BY <1>0, <1>4, RunningKind DEF Resolve
  <2> QED
    BY <1>0, <2>1, <2>2, OtherJobEnds, GoesOn
<1> QED
  BY <1>1, <1>2, <1>3, <1>4

(* Turn end, up to git apply.                                                   *)
LEMMA EndJobAccounts ==
  ASSUME Exclusive, ~FirstMayFail, NEW s \in Sessions, Account(s), EndJob(s)
  PROVE  Account(s)'
<1> USE DEF Exclusive
<1> DEFINE p == [from |-> start[s].tree, to |-> tree[s]]
<1>1. PICK j \in chain : Begins(s, "end", j)
  BY DEF EndJob, Begins
<1>2. /\ First(j) /\ j.session = s /\ j.kind = "end" /\ at[s] = "none" /\ j \in Ends(s)
      /\ UNCHANGED <<tree, status>> /\ start'[s] = None /\ credit[s] \in Trees /\ credit[s] # None
  BY <1>1, BoundarySyncAssumption DEF EndJob, Begins, Ends, Queued, TypeOK
<1>3. CASE start[s] = None /\ Done(s) /\ UNCHANGED <<store, endTree, rows, credit>>
  <2>1. /\ \A k \in chain : k # j => j.n < k.n
        /\ Starts(s)' = Starts(s) /\ Ends(s)' = Ends(s) \ {j}
    BY <1>2, <1>3, DoneJobs DEF Starts, Ends, Kinds
  <2>2. at'[s] = "none" /\ ~Busy(s) /\ ~Busy(s)'
    BY <1>2, <1>3, DoneIdle DEF Busy
  <2>3. status[s] \notin {"absent", "gone", "cut"}
    BY <1>2 DEF Account, Away
  <2>4. \A i \in Starts(s), k \in Ends(s) : i.n < k.n => k # j
    BY <1>2, <2>1 DEF Starts, Queued, TypeOK, Jobs
  <2>5. Framed(s)'
    BY <1>2, <1>3, <2>1, <2>4 DEF Account, Framed
  <2> QED
    BY <1>2, <1>3, <2>1, <2>2, <2>3, <2>5 DEF Account, Baseline, InHand, Decided, Away
<1>4. ASSUME start[s] # None
      PROVE  /\ p \in Patches /\ p.from = credit[s] /\ p.to = tree[s]
             /\ start[s].tree # None
  BY <1>2, <1>4, BoundarySyncAssumption DEF Account, Baseline, Patches, TypeOK
<1>5. CASE start[s] # None /\ May(s, "capture") /\ Uncapturable(s) /\ Done(s)
  <2>1. endTree[s] # None /\ endTree[s] = credit[s]
    BY <1>5 DEF May, Account, Baseline
  <2>2. UNCHANGED <<endTree, credit>> /\ "uncapturable" \in rows'[s]
    BY <1>5 DEF Uncapturable, Raise, TypeOK
  <2> QED
    BY <1>2, <1>5, <2>1, <2>2, EndsTurn
<1>6. CASE /\ start[s] # None /\ Touched(p) = {} /\ endTree' = [endTree EXCEPT ![s] = p.to]
           /\ Done(s) /\ UNCHANGED credit
  <2>1. tree[s] = credit[s]
    BY <1>4, <1>6, UntouchedSame
  <2>2. endTree'[s] = credit'[s] /\ endTree'[s] # None
    BY <1>2, <1>4, <1>6, <2>1 DEF TypeOK
  <2> QED
    BY <1>2, <1>6, <2>1, <2>2, EndsTurn
<1>7. CASE start[s] # None /\ Hold(s, p, patches + 1)
  BY <1>2, <1>4, <1>7, HoldAccounts
<1>8. CASE /\ start[s] # None
           /\ Goes(s, "snapshot", [Empty EXCEPT !.patch = p, !.n = patches + 1])
           /\ UNCHANGED <<endTree, rows, credit>>
  <2> DEFINE e == [Empty EXCEPT !.patch = p, !.n = patches + 1]
  <2>1. chain' = chain /\ at'[s] = "snapshot" /\ hand'[s] = e
    BY <1>2, <1>8, GoesAlone
  <2>2. e.patch = p /\ e.todo = {}
    BY DEF Empty
  <2> HIDE DEF e
  <2>3. Starts(s)' = Starts(s) /\ Ends(s)' = Ends(s) /\ Busy(s)'
    BY <2>1, <2>2 DEF Starts, Ends, Queued, Busy, Replays
  <2>4. InHand(s)'
    BY <1>2, <1>4, <1>8, <2>1, <2>2 DEF InHand
  <2>5. Framed(s)'
    BY <1>2, <2>3 DEF Account, Framed
  <2> QED
    BY <1>2, <1>8, <2>3, <2>4, <2>5 DEF Account, Baseline, Decided, Away
<1> QED
  BY <1>3, <1>4, <1>5, <1>6, <1>7, <1>8, Zenon DEF EndJob

(* The steps of a patch that is applied.                                        *)
LEMMA WriteAccounts ==
  ASSUME Exclusive, ~FirstMayFail, NEW s \in Sessions, KindOf(s), Account(s),
         Snapshot(s) \/ Read(s) \/ Write(s) \/ Compare(s) \/ CompareFails(s)
  PROVE  Account(s)'
<1> USE DEF Exclusive
<1>0. /\ at[s] \in {"snapshot", "read", "write", "compare"} /\ UNCHANGED <<tree, status, start>>
      /\ hand[s] \in Hands /\ hand[s].patch \in Patches
      /\ Busy(s) <=> hand[s].todo = {}
  BY DEF Snapshot, Read, Write, Compare, CompareFails, TypeOK, Listed, ListedFor, Busy, Replays
<1>1. PICK j \in chain : First(j) /\ j.session = s /\ j.kind = IF Busy(s) THEN "end" ELSE "apply"
  BY <1>0, RunningKind
<1>2. CASE Snapshot(s)
  <2> DEFINE e == [hand[s] EXCEPT !.pre = real]
  <2>1. Goes(s, "read", e) /\ UNCHANGED <<endTree, credit, rows>> /\ e.patch = hand[s].patch /\ e.todo = hand[s].todo
    BY <1>0, <1>2 DEF Snapshot, history, Hands
  <2> HIDE DEF e
  <2> QED
    BY <1>0, <1>1, <2>1, GoesOn
<1>3. CASE Write(s)
  <2>1. Goes(s, "compare", hand[s]) /\ UNCHANGED <<endTree, credit, rows>>
    BY <1>3 DEF Write
  <2> QED
    BY <1>0, <1>1, <2>1, GoesOn
<1>4. Busy(s) => /\ start[s] = None /\ hand[s].patch.from = credit[s]
                 /\ Starts(s) = {} => hand[s].patch.to = tree[s]
  BY DEF Account, InHand
<1>7. CASE Replays(s) /\ Stopped(s) /\ UNCHANGED <<endTree, credit>>
  <2>1. Done(s) /\ ~Busy(s) /\ ("uncapturable" \in rows[s] => "uncapturable" \in rows'[s])
    BY <1>7 DEF Stopped, Raise, Busy, TypeOK
  <2> QED
    BY <1>0, <1>1, <1>7, <2>1, OtherJobEnds
<1>8. CASE ~Replays(s) /\ Hold(s, hand[s].patch, hand[s].n)
  BY <1>0, <1>1, <1>4, <1>8, HoldAccounts DEF Replays
<1>5. CASE Read(s)
  <2> DEFINE e == [hand[s] EXCEPT !.got = real]
  <2>1. e.patch = hand[s].patch /\ e.todo = hand[s].todo
    BY <1>0 DEF Hands
  <2>2. \/ Goes(s, "write", e) /\ UNCHANGED <<endTree, rows, credit>>
        \/ Replays(s) /\ Stopped(s) /\ UNCHANGED <<endTree, credit>>
        \/ ~Replays(s) /\ Hold(s, hand[s].patch, hand[s].n)
    BY <1>5 DEF Read
  <2> HIDE DEF e
  <2>3. CASE Goes(s, "write", e) /\ UNCHANGED <<endTree, rows, credit>>
    BY <1>0, <1>1, <2>1, <2>3, GoesOn
  <2> QED
    BY <1>7, <1>8, <2>2, <2>3
<1>6. CASE Compare(s)
  <2>1. CASE Replays(s)
    <3> DEFINE e == [hand[s] EXCEPT !.torn = @ \/ Diverged(hand[s].patch, hand[s].pre, real)]
    <3>1. Goes(s, "resolve", e) /\ UNCHANGED <<rows, endTree, credit>>
      BY <1>6, <2>1 DEF Compare
    <3> HIDE DEF e
    <3> QED
      BY <1>0, <1>1, <2>1, <3>1, GoesOn DEF Replays
  <2>2. CASE ~Replays(s)
    <3>1. /\ endTree' = [endTree EXCEPT ![s] = hand[s].patch.to]
          /\ credit' = [credit EXCEPT ![s] = Patched(hand[s].patch, @)]
          /\ Done(s)
      BY <1>6, <2>2 DEF Compare
    <3>2. Busy(s) /\ hand[s].patch.to \in Trees /\ hand[s].patch.to # None
      BY <1>0, <2>2, BoundarySyncAssumption DEF Replays, Patches
    <3>3. credit'[s] = hand[s].patch.to /\ endTree'[s] = hand[s].patch.to
      BY <1>0, <1>4, <3>1, <3>2, PatchedWhole DEF TypeOK
    <3> QED
      BY <1>0, <1>1, <1>4, <3>1, <3>2, <3>3, EndsTurn
  <2> QED
    BY <2>1, <2>2
<1>9. CASE CompareFails(s)
  BY <1>7, <1>8, <1>9 DEF CompareFails
<1> QED
  BY <1>2, <1>3, <1>5, <1>6, <1>9

-----------------------------------------------------------------------------
(* Steps outside the jobs                                                       *)
LEMMA LaunchAccounts ==
  ASSUME Exclusive, Accounts, NEW s \in Sessions, NEW prior \in Sessions \cup {None}, Launch(s, prior)
  PROVE  Accounts'
<1> USE DEF Exclusive
<1>1. /\ UNCHANGED <<chain, at, hand, start, endTree, tree, credit, promoted>>
      /\ status[s] = "absent" /\ status'[s] = "idle"
      /\ \A t \in Sessions : t # s => status'[t] = status[t] /\ rows'[t] = rows[t]
  BY DEF Launch, lane, history, TypeOK
<1>2. \A t \in Sessions : Starts(t)' = Starts(t) /\ Ends(t)' = Ends(t) /\ Busy(t)' = Busy(t)
  BY <1>1 DEF Starts, Ends, Queued, Busy, Replays
<1>3. \A t \in Sessions : KindOf(t)'
  BY <1>1, <1>2 DEF Accounts, KindOf, First
<1>4. \A t \in Sessions : t # s /\ Account(t) => Account(t)'
  BY <1>1, <1>2, SameAccount
<1>5. Account(s) => Account(s)'
  BY <1>1, <1>2 DEF Account, Baseline, InHand, Decided, Away, Framed
<1> QED
  BY <1>1, <1>3, <1>4, <1>5 DEF Accounts

(* A frame of a promoted session queues nothing.                                *)
LEMMA FrameUnsynced ==
  ASSUME Exclusive, Accounts, NEW s \in Sessions, s \in promoted, TurnStart(s) \/ TurnEnd(s)
  PROVE  Accounts'
<1>1. /\ UNCHANGED <<chain, at, hand, start, endTree, tree, credit, promoted, rows>>
      /\ \A t \in Sessions : t # s => status'[t] = status[t]
  BY DEF TurnStart, TurnEnd, history, Exclusive, TypeOK
<1>2. \A t \in Sessions : Starts(t)' = Starts(t) /\ Ends(t)' = Ends(t) /\ Busy(t)' = Busy(t)
  BY <1>1 DEF Starts, Ends, Queued, Busy, Replays
<1>3. \A t \in Sessions : KindOf(t)'
  BY <1>1, <1>2 DEF Accounts, KindOf, First
<1> QED
  BY <1>1, <1>2, <1>3, SameAccount DEF Accounts

LEMMA TurnStartAccounts ==
  ASSUME Exclusive, Accounts, ~FirstMayFail, NEW s \in Sessions, s \notin promoted, TurnStart(s)
  PROVE  Accounts'
<1> USE DEF Exclusive
<1>1. /\ UNCHANGED <<at, hand, start, endTree, tree, credit, promoted, rows>>
      /\ \A t \in Sessions : t # s => status'[t] = status[t]
      /\ status'[s] = "running"
  BY DEF TurnStart, history, TypeOK
<1>2. PICK early \in Trees \cup {None} :
        /\ Enqueue(s, "start", early)
        /\ endTree[s] = None => early = tree[s] /\ early # None
  BY BoundarySyncAssumption DEF TurnStart, May, TypeOK
<1> DEFINE new == [n |-> ticket + 1, session |-> s, kind |-> "start", early |-> early]
<1>3. /\ \A t \in Sessions : KindOf(t)'
      /\ \A k \in chain : k.n \in Nat /\ k.n <= ticket
      /\ \A t \in Sessions : Ends(t)' = Ends(t)
      /\ \A t \in Sessions : Starts(t)' = IF t = s THEN Starts(t) \cup {new} ELSE Starts(t)
  BY <1>1, <1>2, EnqueueJobs DEF Accounts, Starts, Ends, Kinds
<1>4. new.n = ticket + 1 /\ new.early = early /\ ticket \in Nat
  BY DEF TypeOK
<1>5. Starts(s) \subseteq chain /\ Ends(s) \subseteq chain
  BY DEF Starts, Ends, Queued
<1> HIDE DEF new
<1>6. \A t \in Sessions : Busy(t)' = Busy(t)
  BY <1>1 DEF Busy, Replays
<1>7. \A t \in Sessions : t # s /\ Account(t) => Account(t)'
  BY <1>1, <1>3, <1>6, SameAccount
<1>8. Account(s) => Account(s)'
  <2> SUFFICES ASSUME Account(s) PROVE Account(s)'
    OBVIOUS
  <2>1. Baseline(s)'
    <3>1. ASSUME endTree[s] = None, start[s] = None, ~Busy(s), Starts(s) = {}
          PROVE  early = credit[s]
      BY <1>2, <3>1 DEF Account, Decided
    <3>2. \A j \in Starts(s) : j.n < new.n
      BY <1>3, <1>4, <1>5
    <3>3. ASSUME endTree[s] = None, NEW j \in Starts(s)'
          PROVE  /\ j.early # None
                 /\ start[s] = None /\ ~Busy(s) /\ (\A k \in Starts(s)' : j.n <= k.n) => j.early = credit[s]
      <4>1. CASE j = new
        <5>1. Starts(s) # {} => \E k \in Starts(s)' : ~(j.n <= k.n)
          BY <1>3, <1>4, <1>5, <3>2, <4>1
        <5> QED
          BY <1>2, <1>4, <3>1, <3>3, <4>1, <5>1
      <4>2. CASE j # new
        <5>1. j \in Starts(s) /\ Starts(s) \subseteq Starts(s)'
          BY <1>3, <4>2
        <5> QED
          BY <3>3, <5>1 DEF Account, Baseline
      <4> QED
        BY <4>1, <4>2
    <3> QED
      BY <1>1, <1>6, <3>3 DEF Account, Baseline
  <2>2. Framed(s)'
    <3>1. \A k \in Ends(s) : k.n < new.n
      BY <1>3, <1>4, <1>5
    <3> QED
      BY <1>1, <1>3, <3>1 DEF Framed
  <2> QED
    BY <1>1, <1>3, <1>6, <2>1, <2>2 DEF Account, InHand, Decided, Away
<1> QED
  BY <1>1, <1>3, <1>7, <1>8 DEF Accounts

LEMMA TurnEndAccounts ==
  ASSUME Exclusive, Accounts, NEW s \in Sessions, s \notin promoted, TurnEnd(s)
  PROVE  Accounts'
<1> USE DEF Exclusive
<1>1. /\ UNCHANGED <<at, hand, start, endTree, tree, credit, promoted, rows>>
      /\ \A t \in Sessions : t # s => status'[t] = status[t]
      /\ status'[s] = "idle" /\ status[s] \in {"running", "cut"} /\ Enqueue(s, "end", None)
  BY DEF TurnEnd, history, TypeOK
<1> DEFINE new == [n |-> ticket + 1, session |-> s, kind |-> "end", early |-> None]
<1>2. /\ \A t \in Sessions : KindOf(t)'
      /\ \A k \in chain : k.n \in Nat /\ k.n <= ticket
      /\ \A t \in Sessions : Starts(t)' = Starts(t)
      /\ \A t \in Sessions : Ends(t)' = IF t = s THEN Ends(t) \cup {new} ELSE Ends(t)
  BY <1>1, EnqueueJobs DEF Accounts, Starts, Ends, Kinds
<1>3. new.n = ticket + 1 /\ ticket \in Nat
  BY DEF TypeOK
<1> HIDE DEF new
<1>4. \A t \in Sessions : Busy(t)' = Busy(t)
  BY <1>1 DEF Busy, Replays
<1>5. \A t \in Sessions : t # s /\ Account(t) => Account(t)'
  BY <1>1, <1>2, <1>4, SameAccount
<1>6. Account(s) => Account(s)'
  <2> SUFFICES ASSUME Account(s) PROVE Account(s)'
    OBVIOUS
  <2>1. \A j \in Starts(s) : j.n < new.n
    BY <1>2, <1>3 DEF Starts, Queued
  <2>2. Framed(s)'
    BY <1>1, <1>2, <2>1 DEF Framed
  <2>3. Baseline(s)' /\ InHand(s)'
    BY <1>1, <1>2, <1>4 DEF Account, Baseline, InHand
  <2> QED
    BY <1>1, <1>2, <1>4, <2>2, <2>3 DEF Account, Decided, Away
<1> QED
  BY <1>1, <1>2, <1>5, <1>6 DEF Accounts

(* Between turns nothing edits the worktree, and in one no decision is due.     *)
LEMMA AgentEditAccounts ==
  ASSUME Exclusive, Accounts, NEW s \in Sessions, NEW h \in Hunks, AgentEdit(s, h)
  PROVE  Accounts'
<1> USE DEF Exclusive
<1>1. /\ UNCHANGED <<chain, at, hand, start, endTree, status, promoted, rows>>
      /\ \A t \in Sessions : t # s => tree'[t] = tree[t] /\ credit'[t] = credit[t]
      /\ status[s] = "running" => credit'[s] = credit[s]
      /\ status[s] \in {"running", "cut"}
  BY DEF AgentEdit, lane, TypeOK
<1>2. \A t \in Sessions : Starts(t)' = Starts(t) /\ Ends(t)' = Ends(t) /\ Busy(t)' = Busy(t)
  BY <1>1 DEF Starts, Ends, Queued, Busy, Replays
<1>3. \A t \in Sessions : KindOf(t)'
  BY <1>1, <1>2 DEF Accounts, KindOf, First
<1>4. \A t \in Sessions : t # s /\ Account(t) => Account(t)'
  BY <1>1, <1>2, SameAccount
<1>5. status[s] = "cut" /\ tree[s] = credit[s] => tree'[s] = credit'[s]
  <2>1. status[s] = "cut" => /\ tree' = [tree EXCEPT ![s] = [tree[s] EXCEPT ![h] = <<s, edits[s]>>]]
                             /\ credit' = [credit EXCEPT ![s] = [credit[s] EXCEPT ![h] = tree'[s][h]]]
    BY DEF AgentEdit
  <2>2. tree'[s][h] = <<s, edits[s]>>
    BY DEF AgentEdit, TypeOK, Trees
  <2>3. status[s] = "cut" => /\ tree'[s] = [tree[s] EXCEPT ![h] = <<s, edits[s]>>]
                             /\ credit'[s] = [credit[s] EXCEPT ![h] = <<s, edits[s]>>]
    BY <2>1, <2>2 DEF TypeOK
  <2> QED
    BY <2>3
<1>6. Account(s) => Account(s)'
  <2> SUFFICES ASSUME Account(s) PROVE Account(s)'
    OBVIOUS
  <2>1. CASE status[s] = "running"
    <3>1. start[s] # None \/ Starts(s) # {}
      BY <2>1 DEF Account, Framed
    <3>2. Baseline(s)'
      BY <1>1, <1>2, <2>1 DEF Account, Baseline
    <3>3. InHand(s)' /\ Decided(s)'
      BY <1>1, <1>2, <2>1, <3>1 DEF Account, InHand, Decided
    <3> QED
      BY <1>1, <1>2, <2>1, <3>2, <3>3 DEF Account, Away, Framed
  <2>2. CASE status[s] = "cut"
    BY <1>1, <1>2, <1>5, <2>2 DEF Account, Baseline, InHand, Decided, Away, Framed
  <2> QED
    BY <1>1, <2>1, <2>2
<1> QED
  BY <1>1, <1>3, <1>4, <1>6 DEF Accounts

LEMMA ClickAccounts ==
  ASSUME Exclusive, Accounts, NEW s \in Sessions, NEW kind \in {"apply", "discard"}, Click(s, kind)
  PROVE  Accounts'
<1>1. UNCHANGED <<at, hand, start, endTree, tree, credit, status, promoted, rows>> /\ Enqueue(s, kind, None)
  BY DEF Click, history
<1>2. kind \in Kinds /\ \A t \in Sessions : KindOf(t)
  BY DEF Kinds, Accounts
<1>3. \A t \in Sessions : KindOf(t)' /\ Starts(t)' = Starts(t) /\ Ends(t)' = Ends(t)
  BY <1>1, <1>2, EnqueueJobs DEF Exclusive, Starts, Ends, Kinds
<1>4. \A t \in Sessions : Busy(t)' = Busy(t)
  BY <1>1 DEF Busy, Replays
<1> QED
  BY <1>1, <1>3, <1>4, SameAccount DEF Accounts

LEMMA AsideAccounts ==
  ASSUME Exclusive, Accounts,
         \/ \E s \in Sessions : Promote(s) \/ Acknowledge(s)
         \/ \E h \in Hunks : OperatorEdit(h)
         \/ UNCHANGED vars
  PROVE  Accounts'
<1>1. /\ UNCHANGED <<chain, at, hand, start, endTree, tree, credit, status>> /\ promoted \subseteq promoted'
      /\ \A t \in Sessions : "uncapturable" \in rows[t] => "uncapturable" \in rows'[t]
  BY DEF Promote, Acknowledge, OperatorEdit, Clear, vars, lane, counts, history, Exclusive, TypeOK
<1>2. \A t \in Sessions : Starts(t)' = Starts(t) /\ Ends(t)' = Ends(t) /\ Busy(t)' = Busy(t)
  BY <1>1 DEF Starts, Ends, Queued, Busy, Replays
<1>3. \A t \in Sessions : KindOf(t)'
  BY <1>1, <1>2 DEF Accounts, KindOf, First
<1> QED
  BY <1>1, <1>2, <1>3, SameAccount DEF Accounts

(* The daemon forgets every baseline, and the account starts from the worktree. *)
LEMMA RestartAccounts ==
  ASSUME Exclusive, NEW lost \in SUBSET Present, Restart(lost) PROVE Accounts'
<1>1. /\ chain' = {} /\ credit' = tree /\ tree' = tree
      /\ \A s \in Sessions : at'[s] = "none" /\ start'[s] = None /\ endTree'[s] = None
      /\ \A s \in Sessions : status'[s] # "running"
  BY DEF Restart, Exclusive, TypeOK
<1>2. \A s \in Sessions : Starts(s)' = {} /\ Ends(s)' = {} /\ ~Busy(s)' /\ KindOf(s)'
  BY <1>1 DEF Starts, Ends, Queued, Busy, KindOf
<1> QED
  BY <1>1, <1>2 DEF Accounts, Account, Baseline, InHand, Decided, Away, Framed

LEMMA InitAccounts == Init => Accounts
<1> SUFFICES ASSUME Init PROVE Accounts
  OBVIOUS
<1>1. \A s \in Sessions : Starts(s) = {} /\ Ends(s) = {} /\ ~Busy(s) /\ KindOf(s)
  BY DEF Init, Starts, Ends, Queued, Busy, KindOf
<1> QED
  BY <1>1 DEF Init, Accounts, Account, Baseline, InHand, Decided, Away, Framed

LEMMA NextAccounts ==
  ASSUME ~FirstMayFail PROVE Exclusive /\ Accounts /\ [Next]_vars => Accounts'
<1> SUFFICES ASSUME Exclusive, Accounts, [Next]_vars PROVE Accounts'
  OBVIOUS
<1>1. CASE \E s \in Sessions : Job(s)
  <2>1. PICK s \in Sessions : Job(s)
    BY <1>1
  <2>2. KindOf(s) /\ (s \notin promoted => Account(s)) /\ promoted' = promoted
    BY <2>1 DEF Accounts, Job, StartJob, EndJob, ApplyJob, DiscardJob, Check, Snapshot, Read, Write,
       Compare, CompareFails, Resolve
  <2>3. Account(s) => Account(s)'
    BY <2>1, <2>2, StartJobAccounts, EndJobAccounts, ReplayAccounts, WriteAccounts DEF Job
  <2> QED
    BY <2>1, <2>2, <2>3, JobKind, OthersKeep DEF Accounts
<1>2. CASE \E s \in Sessions, prior \in Sessions \cup {None} : Launch(s, prior)
  BY <1>2, LaunchAccounts
<1>3. CASE \E s \in Sessions : TurnStart(s) \/ TurnEnd(s)
  BY <1>3, FrameUnsynced, TurnStartAccounts, TurnEndAccounts
<1>4. CASE \E s \in Sessions, kind \in {"apply", "discard"} : Click(s, kind)
  BY <1>4, ClickAccounts
<1>5. CASE \E s \in Sessions, h \in Hunks : AgentEdit(s, h)
  BY <1>5, AgentEditAccounts
<1>6. CASE \E lost \in SUBSET Present : Restart(lost)
  BY <1>6, RestartAccounts
<1> QED
  BY <1>1, <1>2, <1>3, <1>4, <1>5, <1>6, AsideAccounts, Zenon DEF Next

(* Unless a first step of a session may fail, what it edited was applied or     *)
(* held, or is shown as living in its worktree only, between its turns.         *)
THEOREM EditsAreAccounted ==
  ASSUME ~FirstMayFail PROVE Spec => []Accounted
<1>1. Exclusive /\ Accounts => Accounted
  <2> SUFFICES ASSUME Exclusive, Accounts, NEW s \in Sessions, Quiet(s)
               PROVE  tree[s] = credit[s] \/ "uncapturable" \in rows[s]
    BY DEF Accounted
  <2>1. Account(s) /\ Starts(s) = {} /\ Ends(s) = {} /\ status[s] # "running"
    BY DEF Accounts, Quiet, Starts, Ends, Queued
  <2>2. at[s] = "none"
    BY DEF Exclusive, Chained, Quiet
  <2> QED
    BY <2>1, <2>2 DEF Account, Decided, Framed, Busy
<1>2. Exclusive /\ Accounts /\ [Next]_vars => Accounts'
  BY NextAccounts
<1> QED
  BY <1>1, <1>2, Invariance, InitAccounts, PTL DEF Spec
=============================================================================
