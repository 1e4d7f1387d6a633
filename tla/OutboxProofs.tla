---------------------------- MODULE OutboxProofs ----------------------------
(***************************************************************************)
(* Proofs about Outbox, for any number of replicas, rows and destinations  *)
(* and any values of its limits.                                           *)
(***************************************************************************)
EXTENDS Outbox, FiniteSetTheorems, TLAPS

-----------------------------------------------------------------------------
(* The inductive invariant *)

\* A row on an operation's path was made by that replica.
Handed == \A p \in Replicas : \A i \in hands[p] :
            status[i] # "none" /\ named[i] = Has[p]

\* What a replica is sending was recorded, and what it holds as sent, or is
\* about to settle, landed.
Held == /\ landed \subseteq Recorded
        /\ \A p \in Replicas : /\ publishing[p] \subseteq Recorded
                               /\ sent[p] \subseteq landed
                               /\ marks[p] \subseteq landed
                               /\ cycle[p].marks \subseteq landed

\* A page is a copy of rows that were in the collection, and owes no more than
\* they named.
PageKnown == \A p \in Replicas : \A r \in cycle[p].page :
               /\ status[r.id] \in {"stored", "reaped"}
               /\ r.owed \subseteq named[r.id]

\* A row owes only what it named, what it does not owe any more landed, and one
\* that is published, or reaped, owes nothing.
Debt == \A i \in Rows :
          /\ outstanding[i] \subseteq named[i]
          /\ \A d \in named[i] \ outstanding[i] : <<i, d>> \in landed
          /\ published[i] => outstanding[i] = {} /\ status[i] \in {"stored", "reaped"}
          /\ status[i] = "reaped" => published[i]

IInv == TypeOK /\ Handed /\ Held /\ PageKnown /\ Debt

-----------------------------------------------------------------------------
(* Facts about the operators *)

Page == [id : Rows, owed : SUBSET Destinations]

CycleType == [pc    : {"idle", "read", "page", "wait", "mark"},
              lanes : SUBSET Lanes,
              after : Rows \cup {0},
              page  : SUBSET Page,
              full  : BOOLEAN,
              marks : SUBSET Pairs]

\* What #publish starts belongs to the rows it was given, and goes where they
\* were outstanding for.
LEMMA StartedOwed ==
  ASSUME TypeOK, NEW p \in Replicas, NEW page \in SUBSET Page,
         NEW pair \in Started(p, page)
  PROVE  \E r \in page : /\ pair = <<r.id, pair[2]>>
                         /\ pair \in Pairs
                         /\ pair[2] \in r.owed
                         /\ pair[2] \in Has[p]
<1> DEFINE Ids(d) == {r.id : r \in {q \in page : Due(p, q.id, q.owed, d)}}
           Sends(d) == Admitted(p, d, Ids(d))
<1>1. PICK d \in Has[p] : pair \in Sends(d) \X {d}
  BY DEF Started
<1>2. pair[1] \in Sends(d) /\ pair[2] = d /\ pair = <<pair[1], pair[2]>>
  <2> HIDE DEF Sends
  <2> QED BY <1>1
<1>3. pair[1] \in Ids(d)
  BY <1>2 DEF Admitted
<1>4. PICK r \in page : r.id = pair[1] /\ Due(p, r.id, r.owed, d)
  BY <1>3
<1>5. d \in Destinations /\ r.id \in Rows
  BY OutboxAssumption DEF Page
<1> QED
  BY <1>2, <1>4, <1>5 DEF Due, Pairs

\* A group of a marking settles only what is in the marking.
LEMMA GroupMarked ==
  ASSUME NEW set \in SUBSET Pairs, NEW g \in Groups(set)
  PROVE  /\ g.ids \in SUBSET Rows
         /\ g.names \in SUBSET Destinations
         /\ \A i \in g.ids, d \in g.names : <<i, d>> \in set
<1>1. PICK i \in {pair[1] : pair \in set} :
        g = [ids   |-> {j \in Rows : Completed(set, j) = Completed(set, i)},
             names |-> Completed(set, i)]
  BY DEF Groups
<1>2. g.ids = {j \in Rows : Completed(set, j) = g.names} /\ g.names = Completed(set, i)
  BY <1>1
<1>3. g.names \in SUBSET Destinations
  BY <1>2 DEF Completed
<1>4. ASSUME NEW j \in g.ids, NEW d \in g.names PROVE <<j, d>> \in set
  <2>1. d \in Completed(set, j)
    BY <1>2
  <2> QED BY <2>1 DEF Completed
<1> QED
  BY <1>2, <1>3, <1>4

\* The states a cycle is put in are states of a cycle.
LEMMA CycleTyped ==
  ASSUME TypeOK, NEW p \in Replicas
  PROVE  /\ Slots(p) \in SUBSET Lanes
         /\ NoCycle \in CycleType
         /\ \A set \in SUBSET Pairs : Marking(set) \in CycleType
         /\ \A lanes \in SUBSET Lanes : Ticked(p, lanes) \in CycleType
         /\ \A c \in CycleType : Onward(p, c) \in CycleType
<1>1. Slots(p) \in SUBSET Lanes
  BY DEF Slots
<1>2. NoCycle \in CycleType
  BY DEF NoCycle, CycleType
<1>3. ASSUME NEW set \in SUBSET Pairs PROVE Marking(set) \in CycleType
  BY <1>2 DEF Marking, NoCycle, CycleType
<1>4. ASSUME NEW lanes \in SUBSET Lanes PROVE Ticked(p, lanes) \in CycleType
  <2>1. cycle[p] \in CycleType
    BY DEF TypeOK, CycleType, Page
  <2> QED BY <2>1, <1>2 DEF Ticked, NoCycle, CycleType
<1>5. ASSUME NEW c \in CycleType PROVE Onward(p, c) \in CycleType
  <2>1. sent[p] \in SUBSET Pairs
    BY DEF TypeOK
  <2> QED BY <2>1, <1>1, <1>3 DEF Onward, NoCycle, CycleType
<1> QED
  BY <1>1, <1>2, <1>3, <1>4, <1>5

\* The batched write keeps the types of the two fields it sets.
LEMMA SettledTyped ==
  ASSUME TypeOK, NEW ids, NEW names, Settled(ids, names)
  PROVE  outstanding' \in [Rows -> SUBSET Destinations] /\ published' \in [Rows -> BOOLEAN]
<1>1. outstanding' \in [Rows -> SUBSET Destinations]
  BY DEF Settled, TypeOK
<1>2. published' \in [Rows -> BOOLEAN]
  BY DEF Settled, TypeOK
<1> QED BY <1>1, <1>2

-----------------------------------------------------------------------------
(* Type correctness *)

\* Every step of the outbox leaves its variables in their types.
LEMMA TypeStep == TypeOK /\ [Next]_vars => TypeOK'
<1> SUFFICES ASSUME TypeOK, [Next]_vars PROVE TypeOK'
  OBVIOUS
<1> USE OutboxAssumption DEF collection, memory, history
<1>1. ASSUME NEW p \in Replicas, NEW i \in Rows, Row(p, i) PROVE TypeOK'
  <2>1. \E l \in Lanes : lane' = [lane EXCEPT ![i] = l]
    BY <1>1, CycleTyped DEF Row, LaneChoice
  <2> QED BY <1>1, <2>1 DEF Row, TypeOK
<1>2. ASSUME NEW p \in Replicas, NEW i \in Rows, Commit(p, i) PROVE TypeOK'
  BY <1>2 DEF Commit, TypeOK
<1>3. ASSUME NEW p \in Replicas, NEW i \in Rows, Refuse(p, i) PROVE TypeOK'
  BY <1>3 DEF Refuse, TypeOK
<1>4. ASSUME NEW p \in Replicas, NEW i \in Rows, Publish(p, i) PROVE TypeOK'
  <2>1. {[id |-> i, owed |-> Has[p]]} \in SUBSET Page
    BY DEF Page
  <2>2. Started(p, {[id |-> i, owed |-> Has[p]]}) \in SUBSET Pairs
    BY <2>1, StartedOwed
  <2>3. publishing' \in [Replicas -> SUBSET Pairs]
    BY <1>4, <2>2 DEF Publish, TypeOK
  <2> QED BY <1>4, <2>3 DEF Publish, TypeOK
<1>5. ASSUME NEW p \in Replicas, NEW i \in Rows, NEW d \in Destinations, Land(p, i, d)
      PROVE  TypeOK'
  BY <1>5 DEF Land, TypeOK, Pairs
<1>6. ASSUME NEW p \in Replicas, NEW i \in Rows, NEW d \in Destinations, Confirm(p, i, d)
      PROVE  TypeOK'
  BY <1>6 DEF Confirm, TypeOK, Pairs
<1>7. ASSUME NEW p \in Replicas, NEW i \in Rows, NEW d \in Destinations, Fail(p, i, d)
      PROVE  TypeOK'
  BY <1>7 DEF Fail, TypeOK
<1>8. ASSUME NEW p \in Replicas, NEW c \in CycleType, cycle' = [cycle EXCEPT ![p] = c]
      PROVE  cycle' \in [Replicas -> CycleType]
  BY <1>8 DEF TypeOK, CycleType, Page
<1>9. ASSUME NEW p \in Replicas, Tick(p) PROVE TypeOK'
  <2>1. cycle' \in [Replicas -> CycleType]
    BY <1>8, <1>9, CycleTyped DEF Tick
  <2> QED BY <1>9, <2>1 DEF Tick, TypeOK, CycleType, Page
<1>10. ASSUME NEW p \in Replicas, Read(p) PROVE TypeOK'
  <2> DEFINE ids == Pending(cycle[p].lanes, cycle[p].after)
             page == {[id |-> i, owed |-> outstanding[i]] : i \in ids}
             c == [cycle[p] EXCEPT !.pc = "page", !.page = page,
                                   !.full = (Cardinality(ids) = BATCH)]
  <2>1. ids \in SUBSET Rows
    BY DEF Pending, Matching
  <2>2. page \in SUBSET Page
    <3> HIDE DEF ids
    <3> QED BY <2>1 DEF TypeOK, Page
  <2>3. cycle[p] \in CycleType
    BY DEF TypeOK, CycleType, Page
  <2>4. c \in CycleType
    <3> HIDE DEF page, ids
    <3> QED BY <2>2, <2>3 DEF CycleType
  <2>5. cycle' = [cycle EXCEPT ![p] = c]
    BY <1>10 DEF Read, TypeOK
  <2>6. cycle' \in [Replicas -> CycleType]
    <3> HIDE DEF c
    <3> QED BY <1>8, <2>4, <2>5
  <2> QED BY <1>10, <2>6 DEF Read, TypeOK, CycleType, Page
<1>11. ASSUME NEW p \in Replicas, ReadFailed(p) \/ Exhausted(p) PROVE TypeOK'
  <2>1. Marking(sent[p]) \in CycleType
    BY CycleTyped DEF TypeOK
  <2>2. cycle' \in [Replicas -> CycleType]
    BY <1>8, <1>11, <2>1 DEF ReadFailed, Exhausted
  <2> QED BY <1>11, <2>2 DEF ReadFailed, Exhausted, TypeOK, CycleType, Page
<1>12. ASSUME NEW p \in Replicas, Recover(p) PROVE TypeOK'
  <2> DEFINE rows == {r \in cycle[p].page : \E d \in Has[p] : Due(p, r.id, r.owed, d)}
             Used(last) == [cycle[p] EXCEPT !.after = last.id, !.page = {}, !.pc = "wait"]
  <2>1. PICK last \in cycle[p].page :
          cycle' = [cycle EXCEPT ![p] = IF rows = {} THEN Onward(p, Used(last)) ELSE Used(last)]
    BY <1>12 DEF Recover
  <2>2. cycle[p] \in CycleType /\ cycle[p].page \in SUBSET Page
    BY DEF TypeOK, CycleType, Page
  <2>3. Used(last) \in CycleType
    BY <2>2 DEF CycleType, Page
  <2>4. cycle' \in [Replicas -> CycleType]
    <3> HIDE DEF Used, rows
    <3> QED BY <1>8, <2>1, <2>3, CycleTyped
  <2>5. Started(p, rows) \in SUBSET Pairs
    BY <2>2, StartedOwed
  <2>6. publishing' \in [Replicas -> SUBSET Pairs]
    <3>1. publishing' = [publishing EXCEPT ![p] = @ \cup Started(p, rows)]
      BY <1>12 DEF Recover
    <3> HIDE DEF rows
    <3> QED BY <2>5, <3>1 DEF TypeOK
  <2>7. UNCHANGED <<collection, phase, assignment, hands, sent, marks, history>>
    BY <1>12 DEF Recover
  <2> QED BY <2>4, <2>6, <2>7 DEF TypeOK, CycleType, Page
<1>13. ASSUME NEW p \in Replicas, Awaited(p) PROVE TypeOK'
  <2>1. cycle[p] \in CycleType
    BY DEF TypeOK, CycleType, Page
  <2>2. cycle' \in [Replicas -> CycleType]
    BY <1>8, <1>13, <2>1, CycleTyped DEF Awaited
  <2> QED BY <1>13, <2>2 DEF Awaited, TypeOK, CycleType, Page
<1>14. ASSUME NEW p \in Replicas, NEW g,
              cycle' = [cycle EXCEPT ![p] = Marking(cycle[p].marks \ (g.ids \X g.names))]
       PROVE  cycle' \in [Replicas -> CycleType]
  <2> DEFINE rest == cycle[p].marks \ (g.ids \X g.names)
  <2>1. rest \in SUBSET Pairs
    BY DEF TypeOK
  <2> HIDE DEF rest
  <2>2. cycle' = [cycle EXCEPT ![p] = Marking(rest)]
    BY <1>14 DEF rest
  <2> QED BY <1>8, <2>1, <2>2, CycleTyped
<1>15. ASSUME NEW p \in Replicas, NEW g \in Groups(cycle[p].marks), Settle(p, g)
       PROVE  TypeOK'
  <2>1. Settled(g.ids, g.names)
    BY <1>15 DEF Settle
  <2>2. cycle' \in [Replicas -> CycleType]
    BY <1>14, <1>15 DEF Settle
  <2>3. sent' \in [Replicas -> SUBSET Pairs]
    BY <1>15 DEF Settle, TypeOK
  <2> QED BY <1>15, <2>1, <2>2, <2>3, SettledTyped DEF Settle, TypeOK, CycleType, Page
<1>16. ASSUME NEW p \in Replicas, NEW g \in Groups(cycle[p].marks), NEW made \in SUBSET g.ids,
              SettleFailed(p, g, made)
       PROVE  TypeOK'
  <2>1. Settled(made, g.names)
    BY <1>16 DEF SettleFailed
  <2>2. cycle' \in [Replicas -> CycleType]
    BY <1>14, <1>16 DEF SettleFailed
  <2> QED BY <1>16, <2>1, <2>2, SettledTyped DEF SettleFailed, TypeOK, CycleType, Page
<1>17. ASSUME NEW p \in Replicas, NEW g \in Groups(marks[p]), NEW made \in SUBSET g.ids,
              NEW ok \in BOOLEAN, CloseSettle(p, g, made, ok)
       PROVE  TypeOK'
  <2>1. Settled(made, g.names)
    BY <1>17 DEF CloseSettle
  <2> QED BY <1>17, <2>1, SettledTyped DEF CloseSettle, TypeOK
<1>18. ASSUME NEW p \in Replicas, Close(p) \/ Drained(p) PROVE TypeOK'
  <2>1. /\ phase' \in [Replicas -> {"down", "open", "draining", "marking", "closed"}]
        /\ marks' \in [Replicas -> SUBSET Pairs]
    <3>1. CASE Close(p)
      BY <3>1 DEF Close, TypeOK
    <3>2. CASE Drained(p)
      BY <3>2 DEF Drained, TypeOK
    <3> QED BY <1>18, <3>1, <3>2
  <2> QED BY <1>18, <2>1 DEF Close, Drained, TypeOK
<1>19. ASSUME NEW p \in Replicas, Crash(p) PROVE TypeOK'
  <2>1. cycle' \in [Replicas -> CycleType]
    BY <1>8, <1>19, CycleTyped DEF Crash
  <2>2. status' \in [Rows -> {"none", "drafted", "refused", "stored", "reaped"}]
    BY <1>19 DEF Crash, TypeOK
  <2> QED BY <1>19, <2>1, <2>2 DEF Crash, TypeOK, CycleType, Page
<1>20. ASSUME NEW p \in Replicas, Start(p) PROVE TypeOK'
  <2>1. cycle' \in [Replicas -> CycleType]
    BY <1>8, <1>20, CycleTyped DEF Start
  <2> QED BY <1>20, <2>1 DEF Start, TypeOK, CycleType, Page
<1>21. ASSUME NEW p \in Replicas, NEW c \in Claims \cup {Idle}, Discover(p, c) PROVE TypeOK'
  <2>1. Slots(p)' \in SUBSET Lanes
    BY DEF Slots
  <2>2. cycle[p] \in CycleType
    BY DEF TypeOK, CycleType, Page
  <2>3. cycle' \in [Replicas -> CycleType]
    BY <1>8, <1>21, <2>1, <2>2, CycleTyped DEF Discover
  <2> QED BY <1>21, <2>3 DEF Discover, TypeOK, CycleType, Page
<1>22. ASSUME NEW i \in Rows, Elapse(i) \/ Reap(i) PROVE TypeOK'
  BY <1>22 DEF Elapse, Reap, TypeOK
<1>23. CASE UNCHANGED vars
  BY <1>23 DEF vars, TypeOK
<1> QED
  BY <1>1, <1>2, <1>3, <1>4, <1>5, <1>6, <1>7, <1>9, <1>10, <1>11, <1>12, <1>13, <1>15,
     <1>16, <1>17, <1>18, <1>19, <1>20, <1>21, <1>22, <1>23
  DEF Next, Operation, Emission, Pump, Marks, Lifecycle

-----------------------------------------------------------------------------
(* Nothing is dropped, and nothing is made up *)

InCollection == {"stored", "reaped"}

\* A row that was made keeps what it named, and one that got into the
\* collection is never taken out of it before it is published.
RowKept == \A i \in Rows :
             /\ status[i] # "none" => status'[i] # "none" /\ named'[i] = named[i]
             /\ status[i] \in InCollection => status'[i] \in InCollection

(* No step of any kind takes back what a row has come to. *)
LEMMA RowStep == TypeOK /\ [Next]_vars => RowKept
<1> SUFFICES ASSUME TypeOK, [Next]_vars PROVE RowKept
  OBVIOUS
<1> USE DEF collection, memory, history, InCollection, RowKept, TypeOK
<1>1. ASSUME NEW p \in Replicas, Operation(p) PROVE RowKept
  BY <1>1 DEF Operation, Row, Commit, Refuse, Publish
<1>2. ASSUME NEW p \in Replicas, Emission(p) PROVE RowKept
  BY <1>2 DEF Emission, Land, Confirm, Fail
<1>3. ASSUME NEW p \in Replicas, Pump(p) PROVE UNCHANGED <<status, named>>
  BY <1>3 DEF Pump, Marks, Tick, Read, ReadFailed, Exhausted, Recover, Awaited, Settle,
              SettleFailed, CloseSettle
<1>4. ASSUME NEW p \in Replicas, Lifecycle(p) PROVE RowKept
  BY <1>4 DEF Lifecycle, Start, Close, Drained, Crash, Discover
<1>5. ASSUME NEW i \in Rows, Elapse(i) \/ Reap(i) PROVE RowKept
  BY <1>5 DEF Elapse, Reap
<1>6. CASE UNCHANGED vars
  BY <1>6 DEF vars
<1> QED
  BY <1>1, <1>2, <1>3, <1>4, <1>5, <1>6 DEF Next

\* A step that leaves alone what the world has and what the rows owe, and takes
\* nothing new into memory, keeps the invariant.
Lesser == /\ landed' = landed
          /\ UNCHANGED <<outstanding, published>>
          /\ \A p \in Replicas : /\ hands'[p] \subseteq hands[p]
                                 /\ publishing'[p] \subseteq publishing[p]
                                 /\ sent'[p] \subseteq landed
                                 /\ marks'[p] \subseteq sent[p] \cup marks[p]
                                 /\ cycle'[p].marks \subseteq sent[p] \cup cycle[p].marks
                                 /\ cycle'[p].page \subseteq cycle[p].page

(* A step that leaves the processes no more than they had keeps the invariant. *)
LEMMA LesserStep ==
  ASSUME IInv, TypeOK', RowKept, Lesser, \A i \in Rows : status'[i] = "reaped" => published[i],
         named' = named
  PROVE  Handed' /\ Held' /\ PageKnown' /\ Debt'
<1>0. Recorded \subseteq Recorded'
  BY DEF Recorded, RowKept, InCollection, Pairs
<1>1. Handed'
  BY DEF IInv, Handed, Lesser, RowKept, TypeOK
<1>2. Held'
  BY <1>0 DEF IInv, Held, Lesser
<1>3. PageKnown'
  BY DEF IInv, PageKnown, Lesser, RowKept, InCollection, TypeOK
<1>4. Debt'
  BY DEF IInv, Debt, Lesser, RowKept, InCollection
<1> QED BY <1>1, <1>2, <1>3, <1>4

\* The write of a marking, or of any part of one, settles only what landed.
LEMMA SettleLanded ==
  ASSUME IInv, RowKept, NEW ids \in SUBSET Rows, NEW names \in SUBSET Destinations,
         \A i \in ids, d \in names : <<i, d>> \in landed,
         Settled(ids, names), UNCHANGED <<status, named, landed>>
  PROVE  Debt'
<1> SUFFICES ASSUME NEW i \in Rows
             PROVE  /\ outstanding'[i] \subseteq named[i]
                    /\ \A d \in named[i] \ outstanding'[i] : <<i, d>> \in landed
                    /\ published'[i] => /\ outstanding'[i] = {}
                                        /\ status[i] \in {"stored", "reaped"}
                    /\ status[i] = "reaped" => published'[i]
  BY DEF Debt
<1>1. CASE i \in ids /\ status[i] = "stored"
  <2>1. outstanding'[i] = outstanding[i] \ names
    BY <1>1 DEF Settled
  <2>2. published'[i] = (outstanding[i] \ names = {})
    BY <1>1 DEF Settled
  <2>3. named[i] \in SUBSET Destinations
    BY DEF IInv, TypeOK
  <2> QED BY <1>1, <2>1, <2>2, <2>3 DEF IInv, Debt
<1>2. CASE ~(i \in ids /\ status[i] = "stored")
  BY <1>2 DEF Settled, IInv, Debt
<1> QED BY <1>1, <1>2

\* The marking that follows a group is a part of the marking it was in.
LEMMA MarkingMarks == \A set : /\ Marking(set).marks = set
                               /\ Marking(set).page = {}
BY DEF Marking, NoCycle

\* Starting a publication of rows that are known to the collection.
LEMMA StartedRecorded ==
  ASSUME IInv, NEW p \in Replicas, NEW page \in SUBSET Page,
         \A r \in page : status[r.id] \in {"stored", "reaped"} /\ r.owed \subseteq named[r.id]
  PROVE  Started(p, page) \subseteq Recorded
<1> SUFFICES ASSUME NEW pair \in Started(p, page) PROVE pair \in Recorded
  OBVIOUS
<1>1. PICK r \in page : pair = <<r.id, pair[2]>> /\ pair \in Pairs /\ pair[2] \in r.owed
  BY StartedOwed DEF IInv
<1>2. pair[1] = r.id
  BY <1>1
<1> QED BY <1>1, <1>2 DEF Recorded

(* Every step keeps the invariant, action by action. *)
LEMMA InvStep == IInv /\ [Next]_vars => IInv'
<1> SUFFICES ASSUME IInv, [Next]_vars PROVE IInv'
  OBVIOUS
<1> DEFINE Safe == Handed /\ Held /\ PageKnown /\ Debt
<1> USE DEF collection, memory, history
<1>a. TypeOK
  BY DEF IInv
<1>b. TypeOK'
  BY <1>a, TypeStep
<1>c. RowKept
  BY <1>a, RowStep
<1>d. ASSUME Lesser, named' = named, UNCHANGED status PROVE Safe'
  BY <1>b, <1>c, <1>d, LesserStep DEF IInv, Debt
<1>e. \A p \in Replicas : sent[p] \subseteq landed /\ cycle[p].marks \subseteq landed
  BY DEF IInv, Held
<1>1. ASSUME NEW p \in Replicas, NEW i \in Rows, Row(p, i) PROVE Safe'
  <2>1. \A j \in Rows : j # i => named'[j] = named[j] /\ status'[j] = status[j]
                                   /\ outstanding'[j] = outstanding[j]
    BY <1>1, <1>a DEF Row, TypeOK
  <2>2. named'[i] = Has[p] /\ outstanding'[i] = Has[p] /\ status'[i] = "drafted" /\ ~published[i]
    BY <1>1, <1>a DEF Row, TypeOK, IInv, Debt
  <2>3. Recorded \subseteq Recorded'
    BY <1>1, <2>1 DEF Recorded, Row, Pairs
  <2>4. Handed'
    BY <1>1, <1>a, <1>c, <2>1, <2>2 DEF Handed, Row, IInv, TypeOK, RowKept
  <2>5. Held'
    BY <1>1, <2>3 DEF IInv, Held, Row
  <2>6. PageKnown'
    BY <1>1, <1>a, <1>c DEF IInv, PageKnown, Row, RowKept, InCollection, TypeOK
  <2>7. Debt'
    BY <1>1, <2>1, <2>2 DEF IInv, Debt, Row
  <2> QED BY <2>4, <2>5, <2>6, <2>7
<1>2. ASSUME NEW p \in Replicas, NEW i \in Rows, Commit(p, i) \/ Refuse(p, i) PROVE Safe'
  <2>1. Lesser
    BY <1>2, <1>a, <1>e DEF Commit, Refuse, Lesser, TypeOK
  <2>2. \A j \in Rows : status'[j] = "reaped" => published[j]
    BY <1>2, <1>a DEF Commit, Refuse, TypeOK, IInv, Debt
  <2> QED BY <1>2, <1>b, <1>c, <2>1, <2>2, LesserStep DEF Commit, Refuse
<1>3. ASSUME NEW p \in Replicas, NEW i \in Rows, Publish(p, i) PROVE Safe'
  <2> DEFINE page == {[id |-> i, owed |-> Has[p]]}
  <2>1. page \in SUBSET Page
    BY OutboxAssumption DEF Page
  <2>2. status[i] \in {"stored", "reaped"} /\ named[i] = Has[p]
    BY <1>3, <1>a DEF Publish, IInv, Handed, TypeOK
  <2>3. Started(p, page) \subseteq Recorded
    <3>1. \A r \in page : status[r.id] \in {"stored", "reaped"} /\ r.owed \subseteq named[r.id]
      BY <2>2
    <3> HIDE DEF page
    <3> QED BY <2>1, <3>1, StartedRecorded
  <2>4. Recorded' = Recorded
    BY <1>3 DEF Publish, Recorded
  <2>5. \A q \in Replicas : publishing'[q] \subseteq Recorded
    BY <1>3, <1>a, <2>3 DEF Publish, IInv, Held, TypeOK
  <2>6. Held'
    BY <1>3, <2>4, <2>5 DEF Publish, IInv, Held
  <2>7. Handed'
    BY <1>3, <1>a DEF Publish, IInv, Handed, TypeOK
  <2>8. PageKnown' /\ Debt'
    BY <1>3 DEF Publish, IInv, PageKnown, Debt
  <2> QED BY <2>6, <2>7, <2>8
<1>4. ASSUME NEW p \in Replicas, NEW i \in Rows, NEW d \in Destinations, Land(p, i, d)
      PROVE  Safe'
  <2>1. <<i, d>> \in Recorded
    BY <1>4 DEF Land, IInv, Held
  <2>2. Recorded' = Recorded
    BY <1>4 DEF Land, Recorded
  <2>3. Held'
    BY <1>4, <2>1, <2>2 DEF Land, IInv, Held
  <2> QED BY <1>4, <2>3 DEF Land, IInv, Handed, PageKnown, Debt
<1>5. ASSUME NEW p \in Replicas, NEW i \in Rows, NEW d \in Destinations,
             Confirm(p, i, d) \/ Fail(p, i, d)
      PROVE  Safe'
  <2>1. \A q \in Replicas : sent'[q] \subseteq landed
    <3>1. CASE Confirm(p, i, d)
      <4>1. \A q \in Replicas : sent'[q] = IF q = p THEN sent[p] \cup {<<i, d>>} ELSE sent[q]
        BY <3>1, <1>a DEF Confirm, TypeOK
      <4>2. <<i, d>> \in landed
        BY <3>1 DEF Confirm
      <4> QED BY <1>e, <4>1, <4>2
    <3>2. CASE Fail(p, i, d)
      BY <3>2, <1>e DEF Fail
    <3> QED BY <1>5, <3>1, <3>2
  <2>2. \A q \in Replicas : publishing'[q] \subseteq publishing[q]
    BY <1>5, <1>a DEF Confirm, Fail, TypeOK
  <2>3. Lesser
    BY <1>5, <2>1, <2>2 DEF Confirm, Fail, Lesser
  <2> QED BY <1>5, <1>d, <2>3 DEF Confirm, Fail
<1>6. ASSUME NEW p \in Replicas, NEW c, cycle' = [cycle EXCEPT ![p] = c],
             c.marks \subseteq sent[p] \cup cycle[p].marks, c.page \subseteq cycle[p].page,
             UNCHANGED <<collection, hands, publishing, sent, marks, history>>
      PROVE  Safe'
  BY <1>6, <1>a, <1>d, <1>e DEF Lesser, TypeOK
<1>7. ASSUME NEW p \in Replicas, Tick(p) \/ Start(p) PROVE Safe'
  <2>1. /\ Ticked(p, Slots(p)).marks \subseteq sent[p] \cup cycle[p].marks
        /\ Ticked(p, Slots(p)).page \subseteq cycle[p].page
    BY DEF Ticked, NoCycle
  <2> QED BY <1>6, <1>7, <2>1 DEF Tick, Start
<1>8. ASSUME NEW p \in Replicas, Read(p) PROVE Safe'
  <2> DEFINE ids == Pending(cycle[p].lanes, cycle[p].after)
             page == {[id |-> i, owed |-> outstanding[i]] : i \in ids}
  <2>1. ids \subseteq {i \in Rows : status[i] = "stored"}
    BY DEF Pending, Matching
  <2>2. \A r \in page : status[r.id] = "stored" /\ r.owed \subseteq named[r.id]
    <3> HIDE DEF ids
    <3> QED BY <2>1 DEF IInv, Debt
  <2>3. /\ \A q \in Replicas : cycle'[q].marks = cycle[q].marks
        /\ \A q \in Replicas : q # p => cycle'[q] = cycle[q]
        /\ cycle'[p].page = page
    BY <1>8, <1>a DEF Read, TypeOK
  <2>4. UNCHANGED <<collection, hands, publishing, sent, marks, history>>
    BY <1>8 DEF Read
  <2>5. PageKnown'
    <3> HIDE DEF page
    <3> QED BY <2>2, <2>3, <2>4 DEF IInv, PageKnown
  <2>6. Held'
    BY <2>3, <2>4 DEF IInv, Held, Recorded
  <2> QED BY <2>4, <2>5, <2>6 DEF IInv, Handed, Debt
<1>9. ASSUME NEW p \in Replicas, ReadFailed(p) \/ Exhausted(p) PROVE Safe'
  BY <1>6, <1>9, MarkingMarks DEF ReadFailed, Exhausted
<1>10. ASSUME NEW p \in Replicas, NEW c
       PROVE  Onward(p, c).marks \subseteq sent[p] /\ Onward(p, c).page = {}
  BY MarkingMarks DEF Onward, NoCycle
<1>11. ASSUME NEW p \in Replicas, Awaited(p) PROVE Safe'
  BY <1>6, <1>10, <1>11 DEF Awaited
<1>12. ASSUME NEW p \in Replicas, Recover(p) PROVE Safe'
  <2> DEFINE rows == {r \in cycle[p].page : \E d \in Has[p] : Due(p, r.id, r.owed, d)}
             Used(last) == [cycle[p] EXCEPT !.after = last.id, !.page = {}, !.pc = "wait"]
  <2>1. PICK last \in cycle[p].page :
          cycle' = [cycle EXCEPT ![p] = IF rows = {} THEN Onward(p, Used(last)) ELSE Used(last)]
    BY <1>12 DEF Recover
  <2>2. publishing' = [publishing EXCEPT ![p] = @ \cup Started(p, rows)]
    BY <1>12 DEF Recover
  <2>3. UNCHANGED <<collection, phase, assignment, hands, sent, marks, history>>
    BY <1>12 DEF Recover
  <2>4. Used(last).marks = cycle[p].marks /\ Used(last).page = {}
    BY <1>a DEF TypeOK
  <2>5. rows \in SUBSET Page
    BY <1>a DEF TypeOK, Page
  <2>6. \A r \in rows : status[r.id] \in {"stored", "reaped"} /\ r.owed \subseteq named[r.id]
    BY DEF IInv, PageKnown
  <2> HIDE DEF rows, Used
  <2>7. Started(p, rows) \subseteq Recorded
    BY <2>5, <2>6, StartedRecorded
  <2>8. Recorded' = Recorded
    BY <2>3 DEF Recorded
  <2>9. \A q \in Replicas : /\ cycle'[q].marks \subseteq sent[q] \cup cycle[q].marks
                            /\ cycle'[q].page \subseteq cycle[q].page
    BY <1>10, <1>a, <2>1, <2>4 DEF TypeOK
  <2>10. \A q \in Replicas : publishing'[q] \subseteq Recorded
    BY <1>a, <2>2, <2>7 DEF TypeOK, IInv, Held
  <2>11. Held'
    BY <2>3, <2>8, <2>9, <2>10 DEF IInv, Held
  <2>12. PageKnown'
    BY <2>3, <2>9 DEF IInv, PageKnown
  <2> QED BY <2>3, <2>11, <2>12 DEF IInv, Handed, Debt
<1>13. ASSUME NEW p \in Replicas, NEW set \in SUBSET landed, NEW g \in Groups(set),
              NEW made \in SUBSET g.ids, Settled(made, g.names),
              UNCHANGED <<status, hands, publishing, history>>,
              \A q \in Replicas : /\ sent'[q] \subseteq sent[q]
                                  /\ marks'[q] \subseteq marks[q]
                                  /\ cycle'[q].marks \subseteq cycle[q].marks
                                  /\ cycle'[q].page \subseteq cycle[q].page
       PROVE  Safe'
  <2>1. set \in SUBSET Pairs
    BY <1>a DEF TypeOK
  <2>2. /\ made \in SUBSET Rows /\ g.names \in SUBSET Destinations
        /\ \A i \in made, d \in g.names : <<i, d>> \in landed
    BY <2>1, GroupMarked
  <2>3. Debt'
    BY <1>13, <1>c, <2>2, SettleLanded
  <2>4. Recorded' = Recorded
    BY <1>13 DEF Recorded
  <2>5. Held'
    BY <1>13, <2>4 DEF IInv, Held
  <2>6. PageKnown' /\ Handed'
    BY <1>13 DEF IInv, PageKnown, Handed
  <2> QED BY <2>3, <2>5, <2>6
<1>14. ASSUME NEW p \in Replicas, NEW g \in Groups(cycle[p].marks), NEW made \in SUBSET g.ids,
              Settled(made, g.names),
              cycle' = [cycle EXCEPT ![p] = Marking(cycle[p].marks \ (g.ids \X g.names))],
              UNCHANGED <<status, hands, publishing, marks, history>>,
              \A q \in Replicas : sent'[q] \subseteq sent[q]
       PROVE  Safe'
  <2>1. \A q \in Replicas : /\ cycle'[q].marks \subseteq cycle[q].marks
                            /\ cycle'[q].page \subseteq cycle[q].page
    BY <1>14, <1>a, MarkingMarks DEF TypeOK
  <2> QED BY <1>13, <1>14, <1>e, <2>1
<1>15. ASSUME NEW p \in Replicas, NEW g \in Groups(cycle[p].marks), Settle(p, g) PROVE Safe'
  <2>1. \A q \in Replicas : sent'[q] \subseteq sent[q]
    BY <1>15, <1>a DEF Settle, TypeOK
  <2> QED BY <1>14, <1>15, <2>1 DEF Settle
<1>16. ASSUME NEW p \in Replicas, NEW g \in Groups(cycle[p].marks), NEW made \in SUBSET g.ids,
              SettleFailed(p, g, made)
       PROVE  Safe'
  BY <1>14, <1>16 DEF SettleFailed
<1>17. ASSUME NEW p \in Replicas, NEW g \in Groups(marks[p]), NEW made \in SUBSET g.ids,
              NEW ok \in BOOLEAN, CloseSettle(p, g, made, ok)
       PROVE  Safe'
  <2>1. marks[p] \in SUBSET landed
    BY DEF IInv, Held
  <2>2. \A q \in Replicas : sent'[q] \subseteq sent[q] /\ marks'[q] \subseteq marks[q]
    BY <1>17, <1>a DEF CloseSettle, TypeOK
  <2>3. cycle' = cycle /\ Settled(made, g.names)
        /\ UNCHANGED <<status, hands, publishing, history>>
    BY <1>17 DEF CloseSettle
  <2> QED BY <1>13, <2>1, <2>2, <2>3
<1>18. ASSUME NEW p \in Replicas, Close(p) \/ Drained(p) PROVE Safe'
  <2>1. \A q \in Replicas : marks'[q] \subseteq sent[q] \cup marks[q]
    BY <1>18, <1>a DEF Close, Drained, TypeOK
  <2>2. Lesser
    BY <1>18, <1>e, <2>1 DEF Close, Drained, Lesser
  <2> QED BY <1>18, <1>d, <2>2 DEF Close, Drained
<1>19. ASSUME NEW p \in Replicas, Crash(p) PROVE Safe'
  <2>1. Lesser
    BY <1>19, <1>a, <1>e DEF Crash, Lesser, TypeOK, NoCycle
  <2>2. \A j \in Rows : status'[j] = "reaped" => published[j]
    BY <1>19, <1>a DEF Crash, TypeOK, IInv, Debt
  <2> QED BY <1>19, <1>b, <1>c, <2>1, <2>2, LesserStep DEF Crash
<1>20. ASSUME NEW p \in Replicas, NEW c \in Claims \cup {Idle}, Discover(p, c) PROVE Safe'
  <2> DEFINE next == IF phase[p] = "open" THEN Ticked(p, Slots(p)') ELSE cycle[p]
  <2>1. next.marks \subseteq sent[p] \cup cycle[p].marks /\ next.page \subseteq cycle[p].page
    BY DEF Ticked, NoCycle
  <2>2. cycle' = [cycle EXCEPT ![p] = next]
    BY <1>20 DEF Discover
  <2> HIDE DEF next
  <2> QED BY <1>6, <1>20, <2>1, <2>2 DEF Discover
<1>21. ASSUME NEW i \in Rows, Elapse(i) PROVE Safe'
  BY <1>21, <1>a, <1>d, <1>e DEF Elapse, Lesser, TypeOK
<1>22. ASSUME NEW i \in Rows, Reap(i) PROVE Safe'
  <2>1. Lesser
    BY <1>22, <1>a, <1>e DEF Reap, Lesser, TypeOK
  <2>2. \A j \in Rows : status'[j] = "reaped" => published[j]
    BY <1>22, <1>a DEF Reap, TypeOK, IInv, Debt
  <2> QED BY <1>22, <1>b, <1>c, <2>1, <2>2, LesserStep DEF Reap
<1>23. ASSUME UNCHANGED vars PROVE Safe'
  <2>1. Lesser
    BY <1>23, <1>a, <1>e DEF vars, Lesser, TypeOK
  <2> QED BY <1>23, <1>d, <2>1 DEF vars
<1>24. Safe'
  <2> HIDE DEF Safe
  <2> QED
  BY <1>1, <1>2, <1>3, <1>4, <1>5, <1>7, <1>8, <1>9, <1>11, <1>12, <1>15, <1>16, <1>17,
     <1>18, <1>19, <1>20, <1>21, <1>22, <1>23
  DEF Next, Operation, Emission, Pump, Marks, Lifecycle
<1> QED
  BY <1>b, <1>24 DEF IInv

\* The variables of the outbox keep their types.
THEOREM Typed == Spec => []TypeOK
<1>1. Init => TypeOK
  BY OutboxAssumption DEF Init, TypeOK, NoCycle, Pairs, Lanes
<1> QED
  BY <1>1, TypeStep, PTL DEF Spec

\* The inductive invariant holds of every behaviour.
THEOREM Invariance == Spec => []IInv
<1>1. Init => IInv
  <2> SUFFICES ASSUME Init PROVE IInv
    OBVIOUS
  <2>1. TypeOK
    BY OutboxAssumption DEF Init, TypeOK, NoCycle, Pairs, Lanes
  <2>2. Handed /\ Held /\ PageKnown /\ Debt
    BY DEF Init, Handed, Held, PageKnown, Debt, NoCycle
  <2> QED BY <2>1, <2>2 DEF IInv
<1> QED
  BY <1>1, InvStep, PTL DEF Spec

\* Whatever replicas crash, close, are refused or hand lanes over, a row is
\* written off for a destination only once it landed there, and only rows that
\* landed everywhere they named are reaped.
THEOREM NothingIsDropped == Spec => []NothingDropped
<1>1. IInv => NothingDropped
  BY DEF IInv, Debt, NothingDropped
<1> QED
  BY <1>1, Invariance, PTL

\* Nothing is sent that no transaction committed.
THEOREM NoPhantoms == Spec => []NoPhantom
<1>1. IInv => NoPhantom
  BY DEF IInv, Held, NoPhantom
<1> QED
  BY <1>1, Invariance, PTL

-----------------------------------------------------------------------------
(* The outbox implements AtLeastOnce *)

Done == {pair \in Recorded : pair[2] \notin outstanding[pair[1]]}

\* A step that does not touch the rows of the collection is one the promise
\* does not see.
LEMMA Unseen ==
  ASSUME TypeOK, UNCHANGED landed,
         \A i \in Rows : \/ /\ status[i] \notin InCollection
                            /\ status'[i] \notin InCollection
                         \/ /\ status[i] \in InCollection /\ status'[i] \in InCollection
                            /\ named'[i] = named[i] /\ outstanding'[i] = outstanding[i]
  PROVE  UNCHANGED <<Recorded, landed, Done>>
<1> USE DEF InCollection, Pairs
<1>1. Recorded' = Recorded
  BY DEF Recorded
<1>2. \A pair \in Recorded : outstanding'[pair[1]] = outstanding[pair[1]]
  BY DEF Recorded
<1>3. Done' = Done
  BY <1>1, <1>2 DEF Done
<1> QED BY <1>1, <1>3

\* One batched write is one step of the promise that writes items off.
LEMMA SettleSeen ==
  ASSUME IInv, IInv', NEW ids, NEW names, Settled(ids, names), UNCHANGED <<status, named, landed>>
  PROVE  Promise!Settle
<1>1. Recorded' = Recorded
  BY DEF Recorded
<1>2. \A i \in Rows : outstanding'[i] \subseteq outstanding[i]
  BY DEF Settled
<1>3. Done \subseteq Done'
  BY <1>1, <1>2 DEF Done, Recorded, Pairs
<1>4. Done' \subseteq Recorded \cap landed
  <2> SUFFICES ASSUME NEW pair \in Done' PROVE pair \in Recorded /\ pair \in landed
    OBVIOUS
  <2>1. /\ pair \in Recorded /\ pair[2] \notin outstanding'[pair[1]]
        /\ pair[1] \in Rows /\ pair = <<pair[1], pair[2]>>
    BY <1>1 DEF Done, Recorded, Pairs
  <2>2. pair[2] \in named[pair[1]] \ outstanding'[pair[1]]
    BY <2>1 DEF Recorded
  <2>3. named' = named /\ landed' = landed
    OBVIOUS
  <2>4. <<pair[1], pair[2]>> \in landed
    BY <2>1, <2>2, <2>3 DEF IInv, Debt
  <2> QED BY <2>1, <2>4
<1> QED
  BY <1>1, <1>3, <1>4 DEF Promise!Settle, Done

\* Every step of the outbox is a step of the promise, or one it does not see.
LEMMA PromiseStep ==
  ASSUME IInv, IInv', [Next]_vars
  PROVE  [Promise!Next]_<<Recorded, landed, Done>>
<1> USE DEF collection, memory, history
<1>a. TypeOK /\ TypeOK'
  BY DEF IInv
<1> DEFINE Goal == [Promise!Next]_<<Recorded, landed, Done>>
<1>b. ASSUME UNCHANGED <<status, named, outstanding, landed>> PROVE Goal
  BY <1>a, <1>b, Unseen DEF InCollection
<1>1. ASSUME NEW p \in Replicas, NEW i \in Rows, Row(p, i) \/ Refuse(p, i) PROVE Goal
  <2>1. \A j \in Rows : \/ /\ status[j] \notin InCollection
                           /\ status'[j] \notin InCollection
                        \/ /\ status[j] = status'[j]
                           /\ named'[j] = named[j] /\ outstanding'[j] = outstanding[j]
    BY <1>1, <1>a DEF Row, Refuse, TypeOK, InCollection
  <2>2. UNCHANGED landed
    BY <1>1 DEF Row, Refuse
  <2> QED BY <1>a, <2>1, <2>2, Unseen
<1>2. ASSUME NEW p \in Replicas, NEW i \in Rows, Commit(p, i) PROVE Goal
  <2>1. Recorded \subseteq Recorded' /\ Recorded' \subseteq Pairs
    BY <1>2, <1>a DEF Commit, Recorded, Pairs, TypeOK
  <2>2. Done' = Done
    <3>1. \A d \in named[i] : d \in outstanding[i]
      <4> SUFFICES ASSUME NEW d \in named[i], d \notin outstanding[i] PROVE FALSE
        OBVIOUS
      <4>1. <<i, d>> \in Recorded
        BY DEF IInv, Debt, Held
      <4> QED BY <1>2, <4>1 DEF Commit, Recorded
    <3>2. \A pair \in Recorded' : pair \in Recorded \/ pair[1] = i
      BY <1>2, <1>a DEF Commit, Recorded, Pairs, TypeOK
    <3>3. \A pair \in Recorded' : pair[2] \in named[pair[1]]
      BY <1>2 DEF Commit, Recorded
    <3>4. UNCHANGED outstanding
      BY <1>2 DEF Commit
    <3> QED BY <2>1, <3>1, <3>2, <3>3, <3>4 DEF Done
  <2>3. UNCHANGED landed
    BY <1>2 DEF Commit
  <2> DEFINE new == Recorded' \ Recorded
  <2>4. new \in SUBSET (Pairs \ Recorded) /\ Recorded' = Recorded \cup new
    BY <2>1
  <2>5. Promise!Record
    BY <2>2, <2>3, <2>4 DEF Promise!Record, Done
  <2> QED BY <2>5 DEF Promise!Next
<1>3. ASSUME NEW p \in Replicas, NEW i \in Rows, NEW d \in Destinations, Land(p, i, d) PROVE Goal
  <2>1. <<i, d>> \in Recorded
    BY <1>3 DEF Land, IInv, Held
  <2>2. UNCHANGED <<Recorded, Done>>
    BY <1>3 DEF Land, Recorded, Done
  <2>3. Promise!Land
    BY <1>3, <2>1, <2>2 DEF Land, Promise!Land, Done
  <2> QED BY <2>3 DEF Promise!Next
<1>4. ASSUME NEW p \in Replicas, Marks(p) PROVE Goal
  <2>1. \E ids, names : Settled(ids, names) /\ UNCHANGED <<status, named, landed>>
    BY <1>4 DEF Marks, Settle, SettleFailed, CloseSettle
  <2>2. Promise!Settle
    BY <2>1, SettleSeen
  <2> QED BY <2>2 DEF Promise!Next
<1>5. ASSUME NEW p \in Replicas, Crash(p) PROVE Goal
  <2>1. \A j \in Rows : \/ /\ status[j] \notin InCollection
                           /\ status'[j] \notin InCollection
                        \/ status[j] = status'[j]
    BY <1>5, <1>a DEF Crash, TypeOK, InCollection
  <2>2. UNCHANGED <<landed, named, outstanding>>
    BY <1>5 DEF Crash
  <2> QED BY <1>a, <2>1, <2>2, Unseen
<1>6. ASSUME NEW i \in Rows, Reap(i) PROVE Goal
  <2>1. \A j \in Rows : \/ status[j] \in InCollection /\ status'[j] \in InCollection
                        \/ status[j] = status'[j]
    BY <1>6, <1>a DEF Reap, TypeOK, InCollection
  <2>2. UNCHANGED <<landed, named, outstanding>>
    BY <1>6 DEF Reap
  <2> QED BY <1>a, <2>1, <2>2, Unseen
<1>7. ASSUME NEW p \in Replicas, NEW i \in Rows, Publish(p, i) PROVE Goal
  BY <1>7, <1>b DEF Publish
<1>8. ASSUME NEW p \in Replicas, NEW i \in Rows, NEW d \in Destinations,
             Confirm(p, i, d) \/ Fail(p, i, d)
      PROVE  Goal
  BY <1>8, <1>b DEF Confirm, Fail
<1>9. ASSUME NEW p \in Replicas,
             Tick(p) \/ Read(p) \/ ReadFailed(p) \/ Exhausted(p) \/ Recover(p) \/ Awaited(p)
      PROVE  Goal
  BY <1>9, <1>b DEF Tick, Read, ReadFailed, Exhausted, Recover, Awaited
<1>10. ASSUME NEW p \in Replicas, NEW c,
              Start(p) \/ Close(p) \/ Drained(p) \/ Discover(p, c)
       PROVE  Goal
  BY <1>10, <1>b DEF Start, Close, Drained, Discover
<1>11. ASSUME NEW i \in Rows, Elapse(i) PROVE Goal
  BY <1>11, <1>b DEF Elapse
<1>12. ASSUME UNCHANGED vars PROVE Goal
  BY <1>12, <1>b DEF vars
<1> HIDE DEF Goal
<1>13. Goal
  BY <1>1, <1>2, <1>3, <1>4, <1>5, <1>6, <1>7, <1>8, <1>9, <1>10, <1>11, <1>12
  DEF Next, Operation, Emission, Pump, Lifecycle
<1> QED BY <1>13 DEF Goal

\* The outbox is an implementation of its promise: an item is recorded with the
\* commit of its change, lands any number of times and is written off after.
THEOREM KeepsPromise == Spec => Implements
<1>1. Init => Promise!Init
  <2> SUFFICES ASSUME Init PROVE Promise!Init
    OBVIOUS
  <2>1. \A pair \in Pairs : status[pair[1]] = "none"
    BY DEF Init, Pairs
  <2>2. Recorded = {}
    BY <2>1 DEF Recorded
  <2> QED BY <2>2 DEF Init, Promise!Init
<1>2. IInv /\ IInv' /\ [Next]_vars => [Promise!Next]_<<Recorded, landed, Done>>
  BY PromiseStep
<1> QED
  BY <1>1, <1>2, Invariance, PTL DEF Spec, Implements, Promise!Spec, Done

-----------------------------------------------------------------------------
(* What a process holds for a destination *)

\* Rows are numbers, and there are finitely many of any kind of them.
LEMMA Few ==
  ASSUME NEW S \in SUBSET Rows
  PROVE  IsFiniteSet(S) /\ Cardinality(S) \in Nat /\ \A i \in S : i \in Nat
<1>1. IsFiniteSet(S)
  BY OutboxAssumption, FS_Subset
<1>2. Cardinality(S) \in Nat
  BY <1>1, FS_CardinalityType
<1>3. QED
  BY <1>1, <1>2, OutboxAssumption

\* A later row has more before it.
LEMMA MoreBefore ==
  ASSUME NEW S \in SUBSET Rows, NEW i \in S, NEW k \in S, i < k
  PROVE  Cardinality({j \in S : j < i}) < Cardinality({j \in S : j < k})
<1>1. PICK before : before = {j \in S : j < i}
  OBVIOUS
<1>2. PICK later : later = {j \in S : j < k}
  OBVIOUS
<1>3. before \in SUBSET Rows /\ later \in SUBSET Rows
  BY <1>1, <1>2
<1>4. /\ IsFiniteSet(before) /\ Cardinality(before) \in Nat
      /\ IsFiniteSet(later) /\ Cardinality(later) \in Nat
  BY <1>3, Few
<1>5. i \in Nat /\ k \in Nat /\ \A j \in S : j \in Nat
  BY Few
<1>6. before \subseteq later /\ i \in later /\ i \notin before
  <2>1. ASSUME NEW j \in before PROVE j \in later
    <3>1. j \in S /\ j \in Nat /\ j < i
      BY <1>1, <1>5, <2>1
    <3>2. j < k
      BY <1>5, <3>1
    <3>3. QED
      BY <1>2, <3>1, <3>2
  <2>2. i \in later
    BY <1>2
  <2>3. i \notin before
    BY <1>1, <1>5
  <2>4. QED
    BY <2>1, <2>2, <2>3
<1>7. Cardinality(before) <= Cardinality(later) /\ (Cardinality(later) = Cardinality(before) => later = before)
  BY <1>4, <1>6, FS_Subset
<1>8. QED
  BY <1>1, <1>2, <1>4, <1>6, <1>7

\* The first rows of a kind, up to a number: no more than the number.
LEMMA FirstFew ==
  ASSUME NEW S \in SUBSET Rows, NEW m \in Nat, NEW n \in Nat
  PROVE  Cardinality({i \in S : m + Cardinality({j \in S : j < i}) < n}) <= IF m < n THEN n - m ELSE 0
<1>1. PICK first : first = {i \in S : m + Cardinality({j \in S : j < i}) < n}
  OBVIOUS
<1>2. first \in SUBSET Rows
  BY <1>1
<1>3. ASSUME NEW i \in S PROVE Cardinality({j \in S : j < i}) \in Nat
  <2>1. PICK before \in SUBSET Rows : before = {j \in S : j < i}
    OBVIOUS
  <2>2. QED
    BY <2>1, Few
<1>4. CASE m >= n
  <2>1. first = {}
    BY <1>1, <1>3, <1>4
  <2>2. Cardinality(first) = 0
    BY <2>1, FS_EmptySet
  <2>3. QED
    BY <1>1, <1>4, <2>2
<1>5. CASE m < n
  <2>1. PICK top \in Int : top = n - m - 1
    BY <1>5
  <2>2. PICK ranks : ranks = 0 .. top
    OBVIOUS
  <2>3. IsFiniteSet(ranks) /\ Cardinality(ranks) = n - m
    <3>1. 0 \in Int /\ top \in Int
      OBVIOUS
    <3>2. IsFiniteSet(0 .. top) /\ Cardinality(0 .. top) = IF 0 > top THEN 0 ELSE top - 0 + 1
      BY <3>1, FS_Interval, Zenon
    <3>3. QED
      BY <1>5, <2>1, <2>2, <3>2
  <2>4. PICK f : f = [i \in first |-> Cardinality({j \in S : j < i})]
    OBVIOUS
  <2>5. ASSUME NEW i \in first PROVE f[i] = Cardinality({j \in S : j < i}) /\ f[i] \in ranks
    <3>1. f[i] = Cardinality({j \in S : j < i})
      BY <2>4
    <3>2. i \in S /\ m + f[i] < n /\ f[i] \in Nat
      BY <1>1, <1>3, <3>1
    <3>3. QED
      BY <1>5, <2>1, <2>2, <3>1, <3>2
  <2>6. ASSUME NEW i \in first, NEW k \in first, f[i] = f[k] PROVE i = k
    <3>1. i \in S /\ k \in S /\ i \in Nat /\ k \in Nat
      BY <1>1, Few
    <3>2. ASSUME NEW a \in S, NEW b \in S, a < b
          PROVE  Cardinality({j \in S : j < a}) # Cardinality({j \in S : j < b})
      BY <1>3, <3>2, MoreBefore
    <3>3. Cardinality({j \in S : j < i}) = Cardinality({j \in S : j < k})
      BY <2>5, <2>6
    <3>4. ~(i < k) /\ ~(k < i)
      BY <3>1, <3>2, <3>3
    <3>5. QED
      BY <3>1, <3>4
  <2>7. f \in [first -> ranks]
    BY <2>4, <2>5
  <2>8. f \in Injection(first, ranks)
    BY <2>6, <2>7 DEF Injection, IsInjective
  <2>9. Cardinality(first) <= Cardinality(ranks)
    BY <2>3, <2>8, FS_Injection
  <2>10. QED
    BY <1>1, <1>5, <2>3, <2>9
<1>6. QED
  BY <1>4, <1>5

\* What #publish starts for one destination is what that destination's caps
\* admit of some rows.
LEMMA StartedTo ==
  ASSUME TypeOK, NEW p \in Replicas, NEW page \in SUBSET Page, NEW d \in Destinations
  PROVE  \E rows \in SUBSET Rows : To(Started(p, page), d) \subseteq Admitted(p, d, rows)
<1>1. PICK rows : rows = {r.id : r \in {q \in page : Due(p, q.id, q.owed, d)}}
  OBVIOUS
<1>2. rows \in SUBSET Rows
  BY <1>1 DEF Page
<1>3. ASSUME NEW i \in To(Started(p, page), d) PROVE i \in Admitted(p, d, rows)
  <2> DEFINE Ids(e) == {r.id : r \in {q \in page : Due(p, q.id, q.owed, e)}}
             Sends(e) == Admitted(p, e, Ids(e))
  <2>1. PICK e \in Has[p] : <<i, d>> \in Sends(e) \X {e}
    BY <1>3 DEF To, Started
  <2>2. e = d /\ i \in Sends(e)
    <3> HIDE DEF Sends
    <3> QED BY <2>1
  <2>3. Ids(d) = rows
    BY <1>1
  <2>4. QED
    BY <2>2, <2>3
<1>4. QED
  BY <1>2, <1>3

\* What is admitted keeps a destination within the cap on what is in flight,
\* and is nothing at all once the other cap is reached.
LEMMA AdmittedFew ==
  ASSUME TypeOK, NEW p \in Replicas, NEW d \in Destinations, NEW rows \in SUBSET Rows
  PROVE  /\ Admitted(p, d, rows) \in SUBSET Rows
         /\ Cardinality(To(sent[p], d)) >= PUBLISHED => Admitted(p, d, rows) = {}
         /\ Cardinality(Admitted(p, d, rows))
              <= IF Cardinality(To(publishing[p], d)) < INFLIGHT
                   THEN INFLIGHT - Cardinality(To(publishing[p], d)) ELSE 0
<1> USE OutboxAssumption
<1>1. PICK m \in Nat : m = Cardinality(To(publishing[p], d))
  <2>1. To(publishing[p], d) \in SUBSET Rows
    BY DEF To
  <2>2. QED
    BY <2>1, Few
<1>2. PICK first : first = {i \in rows : m + Cardinality({j \in rows : j < i}) < INFLIGHT}
  OBVIOUS
<1>3. Cardinality(first) <= IF m < INFLIGHT THEN INFLIGHT - m ELSE 0
  BY <1>2, FirstFew
<1>4. CASE Cardinality(To(sent[p], d)) >= PUBLISHED
  <2>1. Admitted(p, d, rows) = {}
    BY <1>4 DEF Admitted
  <2>2. Cardinality(Admitted(p, d, rows)) = 0
    BY <2>1, FS_EmptySet
  <2>3. QED
    BY <1>1, <2>1, <2>2
<1>5. CASE ~(Cardinality(To(sent[p], d)) >= PUBLISHED)
  <2>1. Admitted(p, d, rows) = first
    BY <1>1, <1>2, <1>5 DEF Admitted
  <2>2. QED
    BY <1>1, <1>2, <1>3, <1>5, <2>1
<1>6. QED
  BY <1>4, <1>5

\* The two caps, of the publications of p to d.
Capped(p, d) ==
  /\ Cardinality(To(publishing[p], d)) <= INFLIGHT
  /\ Cardinality(To(publishing[p] \cup sent[p], d)) <= PUBLISHED + INFLIGHT - 1

\* One set of rows is no larger than another it is in.
LEMMA Smaller ==
  ASSUME NEW T \in SUBSET Rows, NEW S \in SUBSET T
  PROVE  Cardinality(S) \in Nat /\ Cardinality(T) \in Nat /\ Cardinality(S) <= Cardinality(T)
<1>1. S \in SUBSET Rows
  OBVIOUS
<1>2. Cardinality(S) \in Nat /\ Cardinality(T) \in Nat /\ IsFiniteSet(T)
  BY <1>1, Few
<1>3. QED
  BY <1>2, FS_Subset

\* A step that puts nothing new in flight.
LEMMA NoneStarted ==
  ASSUME TypeOK, NEW p \in Replicas, NEW d \in Destinations, Capped(p, d),
         publishing'[p] \subseteq publishing[p],
         publishing'[p] \cup sent'[p] \subseteq publishing[p] \cup sent[p]
  PROVE  Capped(p, d)'
<1> USE OutboxAssumption
<1>1. PICK flying \in SUBSET Rows : flying = To(publishing[p], d)
  BY DEF To
<1>2. PICK all \in SUBSET Rows : all = To(publishing[p] \cup sent[p], d)
  BY DEF To
<1>3. PICK after : after = To(publishing'[p], d)
  OBVIOUS
<1>4. PICK left : left = To(publishing'[p] \cup sent'[p], d)
  OBVIOUS
<1>5. after \subseteq flying
  BY <1>1, <1>3 DEF To
<1>6. left \subseteq all
  BY <1>2, <1>4 DEF To
<1>7. Cardinality(after) \in Nat /\ Cardinality(flying) \in Nat /\ Cardinality(after) <= Cardinality(flying)
  BY <1>5, Smaller
<1>8. Cardinality(left) \in Nat /\ Cardinality(all) \in Nat /\ Cardinality(left) <= Cardinality(all)
  BY <1>6, Smaller
<1>9. Cardinality(flying) <= INFLIGHT /\ Cardinality(all) <= PUBLISHED + INFLIGHT - 1
  BY <1>1, <1>2 DEF Capped
<1>10. Cardinality(after) <= INFLIGHT /\ Cardinality(left) <= PUBLISHED + INFLIGHT - 1
  BY <1>7, <1>8, <1>9
<1>11. QED
  BY <1>3, <1>4, <1>10 DEF Capped

\* Publications are started: `#published` is below its cap, or none are.
LEMMA SomeStarted ==
  ASSUME TypeOK, NEW p \in Replicas, NEW d \in Destinations, Capped(p, d), NEW page \in SUBSET Page,
         publishing'[p] = publishing[p] \cup Started(p, page), sent'[p] = sent[p]
  PROVE  Capped(p, d)'
<1> USE OutboxAssumption
<1>1. PICK rows \in SUBSET Rows : To(Started(p, page), d) \subseteq Admitted(p, d, rows)
  BY StartedTo
<1>2. PICK flying \in SUBSET Rows : flying = To(publishing[p], d)
  BY DEF To
<1>3. PICK unmarked \in SUBSET Rows : unmarked = To(sent[p], d)
  BY DEF To
<1>4. PICK new \in SUBSET Rows : new = To(Started(p, page), d)
  BY DEF To
<1>5. /\ Cardinality(flying) \in Nat /\ IsFiniteSet(flying) /\ Cardinality(flying) <= INFLIGHT
      /\ Cardinality(unmarked) \in Nat /\ IsFiniteSet(unmarked)
      /\ Cardinality(new) \in Nat /\ IsFiniteSet(new)
  BY <1>2, Few DEF Capped
<1>6. /\ Cardinality(unmarked) >= PUBLISHED => new = {}
      /\ Cardinality(new) <= IF Cardinality(flying) < INFLIGHT THEN INFLIGHT - Cardinality(flying) ELSE 0
  <2>1. PICK most \in SUBSET Rows : most = Admitted(p, d, rows)
    BY AdmittedFew
  <2>2. /\ Cardinality(unmarked) >= PUBLISHED => most = {}
        /\ Cardinality(most) <= IF Cardinality(flying) < INFLIGHT THEN INFLIGHT - Cardinality(flying) ELSE 0
    BY <1>2, <1>3, <2>1, AdmittedFew
  <2>3. new \subseteq most
    BY <1>1, <1>4, <2>1
  <2>4. Cardinality(new) <= Cardinality(most) /\ Cardinality(most) \in Nat
    BY <2>3, Smaller
  <2>5. QED
    BY <1>5, <2>2, <2>3, <2>4
<1>7. To(publishing'[p], d) = flying \cup new
  BY <1>2, <1>4 DEF To
<1>8. To(publishing'[p] \cup sent'[p], d) = (flying \cup new) \cup unmarked
  BY <1>2, <1>3, <1>4 DEF To
<1>9. PICK both \in SUBSET Rows : both = flying \cup new
  OBVIOUS
<1>10. Cardinality(both) \in Nat /\ IsFiniteSet(both) /\ Cardinality(both) <= INFLIGHT
  <2>1. Cardinality(both) \in Nat /\ IsFiniteSet(both)
    BY Few
  <2>2. PICK meet \in SUBSET Rows : meet = flying \cap new
    OBVIOUS
  <2>3. Cardinality(meet) \in Nat
    BY Few
  <2>4. Cardinality(both) = Cardinality(flying) + Cardinality(new) - Cardinality(meet)
    BY <1>5, <1>9, <2>2, FS_Union
  <2>5. QED
    BY <1>5, <1>6, <2>1, <2>3, <2>4
<1>11. PICK all \in SUBSET Rows : all = both \cup unmarked
  OBVIOUS
<1>12. Cardinality(all) <= PUBLISHED + INFLIGHT - 1
  <2>1. CASE new = {}
    <3>1. all = To(publishing[p] \cup sent[p], d)
      BY <1>2, <1>3, <1>9, <1>11, <2>1 DEF To
    <3>2. QED
      BY <3>1 DEF Capped
  <2>2. CASE new # {}
    <3>1. Cardinality(unmarked) < PUBLISHED
      <4>1. ~(Cardinality(unmarked) >= PUBLISHED)
        BY <1>6, <2>2, Zenon
      <4>2. Cardinality(unmarked) \in Nat /\ PUBLISHED \in Nat
        BY <1>5
      <4>3. QED
        BY <4>1, <4>2
    <3>2. PICK meet \in SUBSET Rows : meet = both \cap unmarked
      OBVIOUS
    <3>3. Cardinality(meet) \in Nat
      BY Few
    <3>4. Cardinality(all) = Cardinality(both) + Cardinality(unmarked) - Cardinality(meet)
      BY <1>5, <1>10, <1>11, <3>2, FS_Union
    <3>5. QED
      BY <1>5, <1>10, <3>1, <3>3, <3>4
  <2>3. QED
    BY <2>1, <2>2
<1>13. QED
  BY <1>7, <1>8, <1>9, <1>10, <1>11, <1>12 DEF Capped

\* A step that puts nothing new in flight anywhere, and takes no publication for
\* confirmed that was not in flight.
NoneNew == \A p \in Replicas : /\ publishing'[p] \subseteq publishing[p]
                               /\ publishing'[p] \cup sent'[p] \subseteq publishing[p] \cup sent[p]

\* A step of p that starts publications.
StartsSome(p) == /\ sent' = sent
                 /\ \E page \in SUBSET Page :
                      publishing' = [publishing EXCEPT ![p] = @ \cup Started(p, page)]

\* Every step starts publications at one process, or puts nothing in flight.
LEMMA StepStarts ==
  ASSUME TypeOK, [Next]_vars
  PROVE  NoneNew \/ \E p \in Replicas : StartsSome(p) /\ (Recover(p) \/ \E i \in Rows : Publish(p, i))
<1> USE DEF collection, memory, history
<1>1. ASSUME UNCHANGED <<publishing, sent>> PROVE NoneNew
  BY <1>1 DEF NoneNew
<1>2. ASSUME NEW p \in Replicas, NEW i \in Rows, Row(p, i) \/ Commit(p, i) \/ Refuse(p, i) PROVE NoneNew
  BY <1>1, <1>2 DEF Row, Commit, Refuse
<1>3. ASSUME NEW p \in Replicas, NEW i \in Rows, Publish(p, i) PROVE NoneNew \/ StartsSome(p)
  <2>1. CASE phase[p] # "open" \/ Defer
    <3>1. publishing' = [publishing EXCEPT ![p] = publishing[p]] /\ sent' = sent
      BY <1>3, <2>1 DEF Publish
    <3>2. publishing' = publishing
      BY <3>1 DEF TypeOK
    <3>3. QED
      BY <1>1, <3>1, <3>2
  <2>2. CASE ~(phase[p] # "open" \/ Defer)
    <3>1. PICK page : page = {[id |-> i, owed |-> Has[p]]}
      OBVIOUS
    <3>2. page \in SUBSET Page
      BY <3>1, OutboxAssumption DEF Page
    <3>3. publishing' = [publishing EXCEPT ![p] = @ \cup Started(p, page)] /\ sent' = sent
      BY <1>3, <2>2, <3>1 DEF Publish
    <3>4. QED
      BY <3>2, <3>3 DEF StartsSome
  <2>3. QED
    BY <2>1, <2>2
<1>4. ASSUME NEW p \in Replicas, Emission(p) PROVE NoneNew
  <2>1. PICK i \in Rows, d \in Destinations : Land(p, i, d) \/ Confirm(p, i, d) \/ Fail(p, i, d)
    BY <1>4 DEF Emission
  <2>2. CASE Land(p, i, d)
    BY <1>1, <2>2 DEF Land
  <2>3. CASE Confirm(p, i, d)
    <3>1. ASSUME NEW q \in Replicas, q # p PROVE publishing'[q] = publishing[q] /\ sent'[q] = sent[q]
      BY <2>3, <3>1 DEF Confirm, TypeOK
    <3>2. /\ publishing'[p] = publishing[p] \ {<<i, d>>} /\ sent'[p] = sent[p] \cup {<<i, d>>}
          /\ <<i, d>> \in publishing[p]
      BY <2>3 DEF Confirm, TypeOK
    <3>3. QED
      BY <3>1, <3>2 DEF NoneNew
  <2>4. CASE Fail(p, i, d)
    <3>1. sent' = sent /\ \A q \in Replicas : publishing'[q] \subseteq publishing[q]
      BY <2>4 DEF Fail, TypeOK
    <3>2. QED
      BY <3>1 DEF NoneNew
  <2>5. QED
    BY <2>1, <2>2, <2>3, <2>4
<1>5. ASSUME NEW p \in Replicas, Tick(p) \/ Read(p) \/ ReadFailed(p) \/ Exhausted(p) \/ Awaited(p) PROVE NoneNew
  BY <1>1, <1>5 DEF Tick, Read, ReadFailed, Exhausted, Awaited
<1>6. ASSUME NEW p \in Replicas, Recover(p) PROVE StartsSome(p)
  <2>1. PICK rows : rows = {r \in cycle[p].page : \E d \in Has[p] : Due(p, r.id, r.owed, d)}
    OBVIOUS
  <2>2. rows \in SUBSET Page
    BY <2>1 DEF TypeOK, Page
  <2>3. publishing' = [publishing EXCEPT ![p] = @ \cup Started(p, rows)] /\ sent' = sent
    BY <1>6, <2>1 DEF Recover
  <2>4. QED
    BY <2>2, <2>3 DEF StartsSome
<1>7. ASSUME NEW p \in Replicas, Marks(p) PROVE NoneNew
  <2>1. ASSUME NEW g, Settle(p, g) PROVE NoneNew
    BY <2>1 DEF Settle, NoneNew, TypeOK
  <2>2. ASSUME NEW g, NEW made, SettleFailed(p, g, made) PROVE NoneNew
    BY <1>1, <2>2 DEF SettleFailed
  <2>3. ASSUME NEW g, NEW made, NEW ok \in BOOLEAN, CloseSettle(p, g, made, ok) PROVE NoneNew
    <3>1. publishing' = publishing
      BY <2>3 DEF CloseSettle
    <3>2. sent' = [sent EXCEPT ![p] = IF ok THEN @ \ (g.ids \X g.names) ELSE @]
      BY <2>3 DEF CloseSettle
    <3>3. \A q \in Replicas : sent'[q] \subseteq sent[q]
      BY <3>2 DEF TypeOK
    <3>4. QED
      BY <3>1, <3>3 DEF NoneNew
  <2>4. QED
    BY <1>7, <2>1, <2>2, <2>3 DEF Marks
<1>8. ASSUME NEW p \in Replicas, Lifecycle(p) PROVE NoneNew
  <2>1. CASE Crash(p)
    BY <2>1 DEF Crash, NoneNew, TypeOK
  <2>2. CASE ~Crash(p)
    BY <1>1, <1>8, <2>2 DEF Lifecycle, Start, Close, Drained, Discover
  <2>3. QED
    BY <2>1, <2>2
<1>9. ASSUME NEW i \in Rows, Elapse(i) \/ Reap(i) PROVE NoneNew
  BY <1>1, <1>9 DEF Elapse, Reap
<1>10. CASE UNCHANGED vars
  BY <1>1, <1>10 DEF vars
<1>11. QED
  BY <1>2, <1>3, <1>4, <1>5, <1>6, <1>7, <1>8, <1>9, <1>10 DEF Next, Operation, Pump

\* A destination that never answers costs a process no more than its two caps:
\* what is in flight and what is confirmed and not marked, together.
THEOREM Bounded == Spec => []MemoryBounded
<1> DEFINE AllCapped == \A p \in Replicas, d \in Destinations : Capped(p, d)
<1>1. Init => AllCapped
  <2> SUFFICES ASSUME Init, NEW p \in Replicas, NEW d \in Destinations PROVE Capped(p, d)
    OBVIOUS
  <2>1. To(publishing[p], d) = {} /\ To(publishing[p] \cup sent[p], d) = {}
    BY DEF Init, To
  <2>2. Cardinality({}) = 0 /\ INFLIGHT \in Nat \ {0} /\ PUBLISHED \in Nat \ {0}
    BY FS_EmptySet, OutboxAssumption
  <2>3. 0 <= INFLIGHT /\ 0 <= PUBLISHED + INFLIGHT - 1
    BY <2>2
  <2>4. QED
    BY <2>1, <2>2, <2>3 DEF Capped
<1>2. TypeOK /\ AllCapped /\ [Next]_vars => AllCapped'
  <2> SUFFICES ASSUME TypeOK, AllCapped, [Next]_vars, NEW q \in Replicas, NEW d \in Destinations
               PROVE  Capped(q, d)'
    OBVIOUS
  <2>1. Capped(q, d)
    OBVIOUS
  <2>2. CASE NoneNew
    BY <2>1, <2>2, NoneStarted DEF NoneNew
  <2>3. ASSUME NEW p \in Replicas, StartsSome(p) PROVE Capped(q, d)'
    <3>1. PICK page \in SUBSET Page : publishing' = [publishing EXCEPT ![p] = @ \cup Started(p, page)]
      BY <2>3 DEF StartsSome
    <3>2. sent'[q] = sent[q]
      BY <2>3 DEF StartsSome
    <3>3. CASE q = p
      <4>1. publishing'[q] = publishing[q] \cup Started(q, page)
        BY <3>1, <3>3 DEF TypeOK
      <4>2. QED
        BY <2>1, <3>2, <4>1, SomeStarted
    <3>4. CASE q # p
      <4>1. publishing'[q] = publishing[q]
        BY <3>1, <3>4 DEF TypeOK
      <4>2. QED
        BY <2>1, <3>2, <4>1, NoneStarted
    <3>5. QED
      BY <3>3, <3>4
  <2>4. QED
    BY <2>2, <2>3, StepStarts
<1>3. AllCapped => MemoryBounded
  BY DEF Capped, MemoryBounded
<1>4. QED
  BY <1>1, <1>2, <1>3, Typed, PTL DEF Spec

-----------------------------------------------------------------------------
(* What a destination confirmed is not sent to it again *)

\* Nothing is left of a process that is down.
Silent(p) ==
  phase[p] = "down" => /\ hands[p] = {} /\ publishing[p] = {} /\ confirmed[p] = {}
                       /\ cycle[p] = NoCycle

\* A cycle holds a page only from the query to the use of it, and what was read
\* was due.
Paged(p) ==
  /\ cycle[p].page # {} => cycle[p].pc = "page"
  /\ \A r \in cycle[p].page : due[r.id]

\* A row an operation has not handed over yet was sent by the pump, if at all.
Early(p) ==
  \A i \in hands[p], d \in Destinations : <<i, d>> \in publishing[p] \cup confirmed[p] => due[i]

\* What was confirmed to p is held as sent, or is settled, in the collection and
\* in the page that p has read of it.
Known(p) ==
  phase[p] = "open" =>
    /\ \A pair \in confirmed[p] : pair \in sent[p] \/ pair[2] \notin outstanding[pair[1]]
    /\ \A r \in cycle[p].page, d \in Destinations :
         <<r.id, d>> \in confirmed[p] => <<r.id, d>> \in sent[p] \/ d \notin r.owed

Trails(p) == confirmed[p] \subseteq landed /\ Silent(p) /\ Paged(p) /\ Early(p) /\ Known(p)

TrailInv == IInv /\ \A p \in Replicas : Trails(p)

\* What no step takes back: what landed, that a row is due, and, of a row that
\* was made, what it does not owe.
Forward ==
  /\ landed \subseteq landed'
  /\ \A i \in Rows : due[i] => due'[i]
  /\ \A i \in Rows : status[i] # "none" => outstanding'[i] \subseteq outstanding[i]

\* No step takes any of it back.
LEMMA StepForward == ASSUME TypeOK, [Next]_vars PROVE Forward
<1> USE DEF collection, memory, history, Forward
<1>1. ASSUME NEW p \in Replicas, Operation(p) PROVE Forward
  <2>1. PICK i \in Rows : Row(p, i) \/ Commit(p, i) \/ Refuse(p, i) \/ Publish(p, i)
    BY <1>1 DEF Operation
  <2>2. CASE Row(p, i)
    BY <2>2 DEF Row, TypeOK
  <2>3. CASE ~Row(p, i)
    BY <2>1, <2>3 DEF Commit, Refuse, Publish
  <2>4. QED
    BY <2>2, <2>3
<1>2. ASSUME NEW p \in Replicas, Emission(p) PROVE Forward
  BY <1>2 DEF Emission, Land, Confirm, Fail
<1>3. ASSUME NEW ids, NEW names, Settled(ids, names), landed' = landed, due' = due PROVE Forward
  BY <1>3 DEF Settled
<1>4. ASSUME NEW p \in Replicas, Marks(p) PROVE Forward
  BY <1>3, <1>4 DEF Marks, Settle, SettleFailed, CloseSettle
<1>5. ASSUME NEW p \in Replicas, Pump(p) PROVE Forward
  BY <1>4, <1>5 DEF Pump, Tick, Read, ReadFailed, Exhausted, Recover, Awaited
<1>6. ASSUME NEW p \in Replicas, Lifecycle(p) PROVE Forward
  BY <1>6 DEF Lifecycle, Start, Close, Drained, Crash, Discover
<1>7. ASSUME NEW i \in Rows, Elapse(i) \/ Reap(i) PROVE Forward
  BY <1>7 DEF Elapse, Reap, TypeOK
<1>8. CASE UNCHANGED vars
  BY <1>8 DEF vars
<1>9. QED
  BY <1>1, <1>2, <1>5, <1>6, <1>7, <1>8 DEF Next

\* What is in flight at a process, or was confirmed to it, belongs to rows that
\* were made, and what is reaped owes nothing.
LEMMA Made ==
  ASSUME TrailInv, NEW p \in Replicas, NEW pair \in publishing[p] \cup confirmed[p]
  PROVE  /\ pair \in Pairs /\ pair[1] \in Rows /\ pair[2] \in Destinations /\ pair = <<pair[1], pair[2]>>
         /\ status[pair[1]] \in {"stored", "reaped"}
         /\ status[pair[1]] = "reaped" => outstanding[pair[1]] = {}
<1>1. pair \in Recorded
  BY DEF TrailInv, Trails, IInv, Held
<1>2. pair \in Pairs /\ status[pair[1]] \in {"stored", "reaped"}
  BY <1>1 DEF Recorded
<1>3. pair[1] \in Rows /\ pair[2] \in Destinations /\ pair = <<pair[1], pair[2]>>
  BY <1>2 DEF Pairs
<1>4. status[pair[1]] = "reaped" => outstanding[pair[1]] = {}
  BY <1>3 DEF TrailInv, IInv, Debt
<1>5. QED
  BY <1>2, <1>3, <1>4

\* A step of p that reads nothing and forgets nothing it may send again.
LEMMA TrailStep ==
  ASSUME TrailInv, TypeOK', Forward, NEW p \in Replicas,
         Silent(p)',
         cycle'[p].page \subseteq cycle[p].page, cycle'[p].page # {} => cycle'[p].pc = "page",
         \A i \in hands'[p] : i \in hands[p] \/ status[i] = "none",
         \A pair \in publishing'[p] : pair \in publishing[p] \/ due[pair[1]] \/ pair[1] \notin hands'[p],
         \A pair \in confirmed'[p] : pair \in confirmed[p] \/ (pair \in publishing[p] /\ pair \in sent'[p] /\ pair \in landed),
         phase'[p] = "open" => (phase[p] = "open" /\ sent[p] \subseteq sent'[p]) \/ confirmed'[p] = {}
  PROVE  Trails(p)'
<1>1. Trails(p) /\ TypeOK
  BY DEF TrailInv, IInv
<1>2. confirmed'[p] \subseteq landed'
  BY <1>1 DEF Trails, Forward
<1>3. Paged(p)'
  <2>1. \A r \in cycle'[p].page : r.id \in Rows /\ due[r.id]
    BY <1>1 DEF Trails, Paged, TypeOK
  <2>2. QED
    BY <2>1 DEF Paged, Forward
<1>4. Early(p)'
  <2> SUFFICES ASSUME NEW i \in hands'[p], NEW d \in Destinations,
                      <<i, d>> \in publishing'[p] \cup confirmed'[p]
               PROVE  due'[i]
    BY DEF Early
  <2>1. i \in Rows
    BY DEF TypeOK
  <2>2. CASE due[i]
    BY <2>1, <2>2 DEF Forward
  <2>3. CASE ~due[i]
    <3>1. <<i, d>> \in publishing[p] \cup confirmed[p]
      BY <2>3
    <3>2. status[i] # "none"
      <4>1. PICK pair : pair = <<i, d>>
        OBVIOUS
      <4>2. status[pair[1]] \in {"stored", "reaped"}
        BY <3>1, <4>1, Made
      <4>3. QED
        BY <4>1, <4>2
    <3>3. i \in hands[p]
      BY <3>2
    <3>4. QED
      BY <1>1, <2>3, <3>1, <3>3 DEF Trails, Early
  <2>4. QED
    BY <2>2, <2>3
<1>5. Known(p)'
  <2> SUFFICES ASSUME phase'[p] = "open"
               PROVE  /\ \A pair \in confirmed'[p] : pair \in sent'[p] \/ pair[2] \notin outstanding'[pair[1]]
                      /\ \A r \in cycle'[p].page, d \in Destinations :
                           <<r.id, d>> \in confirmed'[p] => <<r.id, d>> \in sent'[p] \/ d \notin r.owed
    BY DEF Known
  <2>1. CASE confirmed'[p] = {}
    BY <2>1
  <2>2. CASE phase[p] = "open" /\ sent[p] \subseteq sent'[p]
    <3>1. ASSUME NEW pair \in confirmed'[p], pair \notin sent'[p]
          PROVE  pair \in confirmed[p] /\ pair \notin sent[p]
      BY <2>2, <3>1
    <3>2. ASSUME NEW pair \in confirmed'[p], pair \notin sent'[p]
          PROVE  pair[2] \notin outstanding'[pair[1]]
      <4>1. pair \in confirmed[p] /\ pair \notin sent[p]
        BY <3>1, <3>2
      <4>2. pair[1] \in Rows /\ status[pair[1]] # "none"
        BY <4>1, Made
      <4>3. pair[2] \notin outstanding[pair[1]]
        BY <1>1, <2>2, <4>1 DEF Trails, Known
      <4>4. QED
        BY <4>2, <4>3 DEF Forward
    <3>3. ASSUME NEW r \in cycle'[p].page, NEW d \in Destinations,
                 <<r.id, d>> \in confirmed'[p], <<r.id, d>> \notin sent'[p]
          PROVE  d \notin r.owed
      <4>1. r \in cycle[p].page /\ <<r.id, d>> \in confirmed[p] /\ <<r.id, d>> \notin sent[p]
        BY <3>1, <3>3
      <4>2. QED
        BY <1>1, <2>2, <4>1 DEF Trails, Known
    <3>4. QED
      BY <3>2, <3>3
  <2>3. QED
    BY <2>1, <2>2
<1>6. QED
  BY <1>2, <1>3, <1>4, <1>5 DEF Trails

\* A process that a step does not concern.
Bystander(q) ==
  /\ phase'[q] = phase[q] /\ hands'[q] = hands[q] /\ publishing'[q] = publishing[q]
  /\ sent'[q] = sent[q] /\ confirmed'[q] = confirmed[q] /\ cycle'[q] = cycle[q]

\* It loses no trail.
LEMMA StandsBy ==
  ASSUME TrailInv, TypeOK', Forward, NEW q \in Replicas, Bystander(q)
  PROVE  Trails(q)'
<1>1. Silent(q) /\ Paged(q)
  BY DEF TrailInv, Trails
<1>2. Silent(q)' /\ cycle'[q].page \subseteq cycle[q].page /\ (cycle'[q].page # {} => cycle'[q].pc = "page")
  BY <1>1 DEF Silent, Paged, Bystander
<1>3. QED
  BY <1>2, TrailStep DEF Bystander

\* A step of one process.
LEMMA AtOne ==
  ASSUME TrailInv, IInv', Forward, NEW p \in Replicas, Trails(p)',
         \A q \in Replicas \ {p} : Bystander(q)
  PROVE  TrailInv'
<1>1. ASSUME NEW q \in Replicas, q # p PROVE Trails(q)'
  BY <1>1, StandsBy DEF IInv
<1>2. QED
  BY <1>1 DEF TrailInv

\* A step of a cycle that takes no page.
LEMMA CycleTrails ==
  ASSUME TrailInv, IInv', Forward, NEW p \in Replicas, NEW c, cycle' = [cycle EXCEPT ![p] = c],
         c.page = {} \/ c = cycle[p], phase[p] # "down" \/ phase'[p] = "open",
         phase' = [phase EXCEPT ![p] = phase'[p]], phase'[p] = "open" => phase[p] \in {"open", "down"},
         phase'[p] = "down" => phase[p] = "down",
         UNCHANGED <<hands, publishing, sent, confirmed>>
  PROVE  TrailInv'
<1>1. TypeOK /\ TypeOK' /\ Silent(p) /\ Paged(p)
  BY DEF TrailInv, IInv, Trails
<1>2. cycle'[p] = c
  BY <1>1 DEF TypeOK
<1>3. cycle'[p].page \subseteq cycle[p].page /\ (cycle'[p].page # {} => cycle'[p].pc = "page")
  BY <1>1, <1>2 DEF Paged
<1>4. Silent(p)' /\ (phase'[p] = "open" => phase[p] = "open" \/ confirmed'[p] = {})
  BY <1>1 DEF Silent
<1>5. Trails(p)'
  BY <1>1, <1>3, <1>4, TrailStep
<1>6. \A q \in Replicas \ {p} : Bystander(q)
  BY <1>1 DEF Bystander, TypeOK
<1>7. QED
  BY <1>5, <1>6, AtOne

\* A page is read: it owes what the collection owes.
LEMMA ReadTrails == ASSUME TrailInv, IInv', Forward, NEW p \in Replicas, Read(p) PROVE TrailInv'
<1> USE DEF collection, memory, history
<1>1. TypeOK /\ TypeOK' /\ Trails(p)
  BY DEF TrailInv, IInv
<1>2. PICK ids : ids = Pending(cycle[p].lanes, cycle[p].after)
  OBVIOUS
<1>3. ids \subseteq Rows /\ \A i \in ids : due[i]
  BY <1>2 DEF Pending, Matching
<1>4. PICK page : page = {[id |-> i, owed |-> outstanding[i]] : i \in ids}
  OBVIOUS
<1>5. \A r \in page : r.id \in ids /\ r.owed = outstanding[r.id]
  BY <1>4
<1>6. cycle'[p].page = page /\ cycle'[p].pc = "page"
  BY <1>1, <1>2, <1>4 DEF Read, TypeOK
<1>7. /\ phase' = phase /\ hands' = hands /\ publishing' = publishing /\ sent' = sent
      /\ confirmed' = confirmed /\ due' = due /\ outstanding' = outstanding /\ landed' = landed
      /\ cycle[p].pc = "read"
  BY DEF Read
<1>8. Silent(p)'
  BY <1>1, <1>7 DEF Trails, Silent, NoCycle
<1>9. Paged(p)'
  BY <1>3, <1>5, <1>6, <1>7 DEF Paged
<1>10. Known(p)'
  <2>1. ASSUME phase[p] = "open", NEW r \in page, NEW d \in Destinations, <<r.id, d>> \in confirmed[p]
        PROVE  <<r.id, d>> \in sent[p] \/ d \notin r.owed
    <3>1. PICK pair : pair = <<r.id, d>>
      OBVIOUS
    <3>2. pair \in sent[p] \/ pair[2] \notin outstanding[pair[1]]
      BY <1>1, <2>1, <3>1 DEF Trails, Known
    <3>3. QED
      BY <1>5, <3>1, <3>2
  <2>2. ASSUME phase[p] = "open", NEW pair \in confirmed[p]
        PROVE  pair \in sent[p] \/ pair[2] \notin outstanding[pair[1]]
    BY <1>1, <2>2 DEF Trails, Known
  <2>3. QED
    BY <1>6, <1>7, <2>1, <2>2 DEF Known
<1>11. Trails(p)'
  BY <1>1, <1>7, <1>8, <1>9, <1>10 DEF Trails, Early
<1>12. \A q \in Replicas \ {p} : Bystander(q)
  BY <1>1 DEF Read, Bystander, TypeOK
<1>13. QED
  BY <1>11, <1>12, AtOne

\* A group is settled and forgotten: the collection owes none of it, and the
\* cycle holds no page.
LEMMA SettleTrails ==
  ASSUME TrailInv, IInv', Forward, NEW p \in Replicas, NEW g \in Groups(cycle[p].marks), Settle(p, g)
  PROVE  TrailInv'
<1> USE DEF collection, memory, history
<1>1. TypeOK /\ TypeOK' /\ Trails(p)
  BY DEF TrailInv, IInv
<1>2. PICK rest : rest = cycle[p].marks \ (g.ids \X g.names)
  OBVIOUS
<1>3. /\ phase' = phase /\ hands' = hands /\ publishing' = publishing
      /\ confirmed' = confirmed /\ due' = due /\ landed' = landed
      /\ cycle[p].pc = "mark" /\ Settled(g.ids, g.names)
  BY DEF Settle
<1>4. cycle' = [cycle EXCEPT ![p] = Marking(rest)] /\ sent' = [sent EXCEPT ![p] = @ \ (g.ids \X g.names)]
  BY <1>2 DEF Settle
<1>5. cycle'[p].page = {} /\ sent'[p] = sent[p] \ (g.ids \X g.names)
  BY <1>1, <1>4, MarkingMarks DEF TypeOK
<1>6. Silent(p)' /\ Paged(p)'
  BY <1>1, <1>3, <1>5 DEF Trails, Silent, NoCycle, Paged
<1>7. ASSUME phase[p] = "open", NEW pair \in confirmed[p], pair \notin sent'[p]
      PROVE  pair[2] \notin outstanding'[pair[1]]
  <2>1. /\ pair[1] \in Rows /\ pair[2] \in Destinations /\ pair = <<pair[1], pair[2]>>
        /\ status[pair[1]] \in {"stored", "reaped"}
        /\ status[pair[1]] = "reaped" => outstanding[pair[1]] = {}
    BY <1>7, Made
  <2>2. CASE pair \notin sent[p]
    <3>1. pair[2] \notin outstanding[pair[1]]
      BY <1>1, <1>7, <2>2 DEF Trails, Known
    <3>2. QED
      BY <2>1, <3>1 DEF Forward
  <2>3. CASE pair \in sent[p]
    <3>1. pair[1] \in g.ids /\ pair[2] \in g.names
      BY <1>5, <1>7, <2>1, <2>3
    <3>2. CASE status[pair[1]] = "stored"
      <4>1. outstanding'[pair[1]] = outstanding[pair[1]] \ g.names
        BY <1>3, <2>1, <3>1, <3>2 DEF Settled
      <4>2. QED
        BY <3>1, <4>1
    <3>3. CASE status[pair[1]] = "reaped"
      BY <2>1, <3>3 DEF Forward
    <3>4. QED
      BY <2>1, <3>2, <3>3
  <2>4. QED
    BY <2>2, <2>3
<1>8. Known(p)'
  BY <1>3, <1>5, <1>7 DEF Known
<1>9. Trails(p)'
  BY <1>1, <1>3, <1>6, <1>8 DEF Trails, Early
<1>10. \A q \in Replicas \ {p} : Bystander(q)
  BY <1>1, <1>3, <1>4 DEF Bystander, TypeOK
<1>11. QED
  BY <1>9, <1>10, AtOne

\* A step that concerns no process.
LEMMA NoneTrails ==
  ASSUME TrailInv, IInv', Forward, UNCHANGED <<phase, hands, publishing, sent, confirmed, cycle>>
  PROVE  TrailInv'
<1>1. \A q \in Replicas : Trails(q)'
  BY StandsBy DEF Bystander, IInv
<1>2. QED
  BY <1>1 DEF TrailInv

\* A step of an operation at p, or of a publication of it.
LEMMA PathTrails ==
  ASSUME TrailInv, IInv', Forward, NEW p \in Replicas, phase[p] # "down", phase' = phase, cycle' = cycle,
         \A q \in Replicas \ {p} : /\ hands'[q] = hands[q] /\ publishing'[q] = publishing[q]
                                   /\ sent'[q] = sent[q] /\ confirmed'[q] = confirmed[q],
         \A i \in hands'[p] : i \in hands[p] \/ status[i] = "none",
         \A pair \in publishing'[p] : pair \in publishing[p] \/ due[pair[1]] \/ pair[1] \notin hands'[p],
         \A pair \in confirmed'[p] : pair \in confirmed[p] \/ (pair \in publishing[p] /\ pair \in sent'[p] /\ pair \in landed),
         sent[p] \subseteq sent'[p]
  PROVE  TrailInv'
<1>1. TypeOK /\ TypeOK' /\ Paged(p)
  BY DEF TrailInv, IInv, Trails
<1>2. Silent(p)' /\ cycle'[p].page \subseteq cycle[p].page /\ (cycle'[p].page # {} => cycle'[p].pc = "page")
  BY <1>1 DEF Silent, Paged
<1>3. Trails(p)'
  BY <1>1, <1>2, TrailStep
<1>4. \A q \in Replicas \ {p} : Bystander(q)
  BY DEF Bystander
<1>5. QED
  BY <1>3, <1>4, AtOne

\* What is handed, in flight, or at a cycle, is of a process that is up.
LEMMA Up ==
  ASSUME TrailInv, NEW p \in Replicas, hands[p] # {} \/ publishing[p] # {} \/ cycle[p].pc # "idle"
  PROVE  phase[p] # "down"
BY DEF TrailInv, Trails, Silent, NoCycle

\* What an operation does with a row.
LEMMA OperationTrails == ASSUME TrailInv, IInv', Forward, NEW p \in Replicas, Operation(p) PROVE TrailInv'
<1> USE DEF collection, memory, history
<1>1. TypeOK /\ TypeOK'
  BY DEF TrailInv, IInv
<1>2. PICK i \in Rows : Row(p, i) \/ Commit(p, i) \/ Refuse(p, i) \/ Publish(p, i)
  BY DEF Operation
<1>3. CASE Row(p, i)
  <2>1. /\ phase[p] # "down" /\ phase' = phase /\ cycle' = cycle /\ publishing' = publishing /\ sent' = sent
        /\ confirmed' = confirmed /\ status[i] = "none" /\ hands' = [hands EXCEPT ![p] = @ \cup {i}]
    BY <1>3 DEF Row
  <2>2. hands'[p] = hands[p] \cup {i} /\ \A q \in Replicas \ {p} : hands'[q] = hands[q]
    BY <1>1, <2>1 DEF TypeOK
  <2>3. QED
    BY <2>1, <2>2, PathTrails
<1>4. CASE Commit(p, i)
  BY <1>4, NoneTrails DEF Commit
<1>5. CASE Refuse(p, i)
  <2>1. /\ phase' = phase /\ cycle' = cycle /\ publishing' = publishing /\ sent' = sent
        /\ confirmed' = confirmed /\ i \in hands[p] /\ hands' = [hands EXCEPT ![p] = @ \ {i}]
    BY <1>5 DEF Refuse
  <2>2. hands'[p] = hands[p] \ {i} /\ \A q \in Replicas \ {p} : hands'[q] = hands[q]
    BY <1>1, <2>1 DEF TypeOK
  <2>3. phase[p] # "down"
    BY <2>1, Up
  <2>4. QED
    BY <2>1, <2>2, <2>3, PathTrails
<1>6. CASE Publish(p, i)
  <2>1. PICK page : page = {[id |-> i, owed |-> Has[p]]}
    OBVIOUS
  <2>2. page \in SUBSET Page
    BY <2>1, OutboxAssumption DEF Page
  <2>3. /\ phase' = phase /\ cycle' = cycle /\ sent' = sent
        /\ confirmed' = confirmed /\ i \in hands[p] /\ hands' = [hands EXCEPT ![p] = @ \ {i}]
    BY <1>6 DEF Publish
  <2>4. hands'[p] = hands[p] \ {i} /\ \A q \in Replicas \ {p} : hands'[q] = hands[q]
    BY <1>1, <2>3 DEF TypeOK
  <2>5. phase[p] # "down"
    BY <2>3, Up
  <2>6. /\ publishing'[p] \subseteq publishing[p] \cup Started(p, page)
        /\ \A q \in Replicas \ {p} : publishing'[q] = publishing[q]
    BY <1>1, <1>6, <2>1 DEF Publish, TypeOK
  <2>7. ASSUME NEW pair \in Started(p, page) PROVE pair[1] = i
    <3>1. PICK r \in page : pair = <<r.id, pair[2]>>
      BY <1>1, <2>2, <2>7, StartedOwed
    <3>2. QED
      BY <2>1, <3>1
  <2>8. QED
    BY <2>3, <2>4, <2>5, <2>6, <2>7, PathTrails
<1>7. QED
  BY <1>2, <1>3, <1>4, <1>5, <1>6

\* A publication lands, is confirmed, or fails.
LEMMA EmissionTrails == ASSUME TrailInv, IInv', Forward, NEW p \in Replicas, Emission(p) PROVE TrailInv'
<1> USE DEF collection, memory, history
<1>1. TypeOK /\ TypeOK'
  BY DEF TrailInv, IInv
<1>2. PICK i \in Rows, d \in Destinations : Land(p, i, d) \/ Confirm(p, i, d) \/ Fail(p, i, d)
  BY DEF Emission
<1>3. CASE Land(p, i, d)
  BY <1>3, NoneTrails DEF Land
<1>4. CASE Confirm(p, i, d)
  <2>1. /\ phase' = phase /\ cycle' = cycle /\ hands' = hands
        /\ <<i, d>> \in publishing[p] /\ <<i, d>> \in landed
    BY <1>4 DEF Confirm
  <2>2. /\ publishing'[p] = publishing[p] \ {<<i, d>>} /\ sent'[p] = sent[p] \cup {<<i, d>>}
        /\ confirmed'[p] = confirmed[p] \cup {<<i, d>>}
    BY <1>1, <1>4 DEF Confirm, TypeOK
  <2>3. \A q \in Replicas \ {p} : /\ hands'[q] = hands[q] /\ publishing'[q] = publishing[q]
                                  /\ sent'[q] = sent[q] /\ confirmed'[q] = confirmed[q]
    BY <1>1, <1>4 DEF Confirm, TypeOK
  <2>4. phase[p] # "down"
    BY <2>1, Up
  <2>5. QED
    BY <2>1, <2>2, <2>3, <2>4, PathTrails
<1>5. CASE Fail(p, i, d)
  <2>1. /\ phase' = phase /\ cycle' = cycle /\ hands' = hands /\ sent' = sent /\ confirmed' = confirmed
        /\ <<i, d>> \in publishing[p] /\ publishing' = [publishing EXCEPT ![p] = @ \ {<<i, d>>}]
    BY <1>5 DEF Fail
  <2>2. publishing'[p] = publishing[p] \ {<<i, d>>} /\ \A q \in Replicas \ {p} : publishing'[q] = publishing[q]
    BY <1>1, <2>1 DEF TypeOK
  <2>3. phase[p] # "down"
    BY <2>1, Up
  <2>4. QED
    BY <2>1, <2>2, <2>3, PathTrails
<1>6. QED
  BY <1>2, <1>3, <1>4, <1>5

\* The page is used: what it starts was due.
LEMMA RecoverTrails == ASSUME TrailInv, IInv', Forward, NEW p \in Replicas, Recover(p) PROVE TrailInv'
<1> USE DEF collection, memory, history
<1>1. TypeOK /\ TypeOK' /\ Trails(p)
  BY DEF TrailInv, IInv
<1>2. PICK rows : rows = {r \in cycle[p].page : \E d \in Has[p] : Due(p, r.id, r.owed, d)}
  OBVIOUS
<1>3. rows \in SUBSET Page /\ \A r \in rows : due[r.id]
  BY <1>1, <1>2 DEF TypeOK, Page, Trails, Paged
<1>4. /\ publishing' = [publishing EXCEPT ![p] = @ \cup Started(p, rows)]
      /\ phase' = phase /\ hands' = hands /\ sent' = sent /\ confirmed' = confirmed /\ cycle[p].pc = "page"
  BY <1>2 DEF Recover
<1>5. PICK last : cycle' = [cycle EXCEPT ![p] =
                              IF rows = {} THEN Onward(p, [cycle[p] EXCEPT !.after = last.id, !.page = {}, !.pc = "wait"])
                                           ELSE [cycle[p] EXCEPT !.after = last.id, !.page = {}, !.pc = "wait"]]
  BY <1>2 DEF Recover
<1>6. PICK c : c = [cycle[p] EXCEPT !.after = last.id, !.page = {}, !.pc = "wait"]
  OBVIOUS
<1>7. c.page = {} /\ Onward(p, c).page = {}
  BY <1>1, <1>6, MarkingMarks DEF TypeOK, Onward, NoCycle
<1>8. cycle'[p].page = {} /\ \A q \in Replicas \ {p} : cycle'[q] = cycle[q]
  BY <1>1, <1>5, <1>6, <1>7 DEF TypeOK
<1>9. /\ publishing'[p] = publishing[p] \cup Started(p, rows)
      /\ \A q \in Replicas \ {p} : publishing'[q] = publishing[q]
  BY <1>1, <1>4 DEF TypeOK
<1>10. ASSUME NEW pair \in Started(p, rows) PROVE due[pair[1]]
  <2>1. PICK r \in rows : pair = <<r.id, pair[2]>>
    BY <1>1, <1>3, <1>10, StartedOwed
  <2>2. pair[1] = r.id
    BY <2>1
  <2>3. QED
    BY <1>3, <2>2
<1>11. Silent(p)'
  <2>1. phase[p] # "down"
    BY <1>4, Up
  <2>2. QED
    BY <1>4, <2>1 DEF Silent
<1>12. Trails(p)'
  BY <1>1, <1>4, <1>8, <1>9, <1>10, <1>11, TrailStep
<1>13. \A q \in Replicas \ {p} : Bystander(q)
  BY <1>4, <1>8, <1>9 DEF Bystander
<1>14. QED
  BY <1>12, <1>13, AtOne

\* The rest of the pump.
LEMMA PumpTrails == ASSUME TrailInv, IInv', Forward, NEW p \in Replicas, Pump(p) PROVE TrailInv'
<1> USE DEF collection, memory, history
<1>1. TypeOK /\ TypeOK'
  BY DEF TrailInv, IInv
<1>2. ASSUME NEW c, c.page = {}, phase[p] # "down", cycle' = [cycle EXCEPT ![p] = c], phase' = phase,
             UNCHANGED <<hands, publishing, sent, confirmed>>
      PROVE  TrailInv'
  <2>1. phase' = [phase EXCEPT ![p] = phase'[p]]
    BY <1>1, <1>2 DEF TypeOK
  <2>2. QED
    BY <1>2, <2>1, CycleTrails
<1>3. CASE Tick(p)
  <2>1. PICK c : c = Ticked(p, Slots(p))
    OBVIOUS
  <2>2. c.page = {}
    BY <1>3, <2>1 DEF Tick, Ticked, NoCycle
  <2>3. QED
    BY <1>2, <1>3, <2>1, <2>2 DEF Tick
<1>4. CASE ReadFailed(p) \/ Exhausted(p)
  <2>1. PICK c : c = Marking(sent[p])
    OBVIOUS
  <2>2. c.page = {}
    BY <2>1, MarkingMarks
  <2>3. phase[p] # "down"
    BY <1>4, Up DEF ReadFailed, Exhausted
  <2>4. QED
    BY <1>2, <1>4, <2>1, <2>2, <2>3 DEF ReadFailed, Exhausted
<1>5. CASE Awaited(p)
  <2>1. PICK c : c = Onward(p, cycle[p])
    OBVIOUS
  <2>2. c.page = {}
    BY <2>1, MarkingMarks DEF Onward, NoCycle
  <2>3. phase[p] # "down"
    BY <1>5, Up DEF Awaited
  <2>4. QED
    BY <1>2, <1>5, <2>1, <2>2, <2>3 DEF Awaited
<1>6. ASSUME NEW g \in Groups(cycle[p].marks), NEW made, SettleFailed(p, g, made) PROVE TrailInv'
  <2>1. PICK c : c = Marking(cycle[p].marks \ (g.ids \X g.names))
    OBVIOUS
  <2>2. c.page = {}
    BY <2>1, MarkingMarks
  <2>3. phase[p] # "down"
    BY <1>6, Up DEF SettleFailed
  <2>4. QED
    BY <1>2, <1>6, <2>1, <2>2, <2>3 DEF SettleFailed
<1>7. ASSUME NEW g \in Groups(marks[p]), NEW made, NEW ok \in BOOLEAN, CloseSettle(p, g, made, ok) PROVE TrailInv'
  <2>1. /\ hands' = hands /\ publishing' = publishing /\ confirmed' = confirmed /\ cycle' = cycle
        /\ phase[p] = "marking" /\ phase' = [phase EXCEPT ![p] = IF marks'[p] = {} THEN "closed" ELSE @]
        /\ sent' = [sent EXCEPT ![p] = IF ok THEN @ \ (g.ids \X g.names) ELSE @]
    BY <1>7 DEF CloseSettle
  <2>2. phase'[p] \in {"marking", "closed"} /\ \A q \in Replicas \ {p} : phase'[q] = phase[q] /\ sent'[q] = sent[q]
    BY <1>1, <2>1 DEF TypeOK
  <2>3. Paged(p)
    BY DEF TrailInv, Trails
  <2>4. Silent(p)' /\ cycle'[p].page \subseteq cycle[p].page /\ (cycle'[p].page # {} => cycle'[p].pc = "page")
    BY <2>1, <2>2, <2>3 DEF Silent, Paged
  <2>5. Trails(p)'
    BY <1>1, <2>1, <2>2, <2>4, TrailStep
  <2>6. \A q \in Replicas \ {p} : Bystander(q)
    BY <2>1, <2>2 DEF Bystander
  <2>7. QED
    BY <2>5, <2>6, AtOne
<1>8. QED
  BY <1>3, <1>4, <1>5, <1>6, <1>7, ReadTrails, RecoverTrails, SettleTrails DEF Pump, Marks

\* A process starts, closes, ends, or is told of its lanes.
LEMMA LifecycleTrails == ASSUME TrailInv, IInv', Forward, NEW p \in Replicas, Lifecycle(p) PROVE TrailInv'
<1> USE DEF collection, memory, history
<1>1. TypeOK /\ TypeOK' /\ Trails(p)
  BY DEF TrailInv, IInv
<1>2. CASE Start(p)
  <2>1. PICK c : c = Ticked(p, Slots(p))
    OBVIOUS
  <2>2. c.page = {}
    BY <1>1, <1>2, <2>1 DEF Start, Ticked, NoCycle, Trails, Silent
  <2>3. phase' = [phase EXCEPT ![p] = phase'[p]] /\ phase'[p] = "open" /\ phase[p] = "down"
    BY <1>1, <1>2 DEF Start, TypeOK
  <2>4. cycle' = [cycle EXCEPT ![p] = c] /\ UNCHANGED <<hands, publishing, sent, confirmed>>
    BY <1>2, <2>1 DEF Start
  <2>5. QED
    BY <2>2, <2>3, <2>4, CycleTrails
<1>3. CASE Close(p) \/ Drained(p)
  <2>1. PICK c : c = cycle[p]
    OBVIOUS
  <2>2. cycle' = [cycle EXCEPT ![p] = c] /\ UNCHANGED <<hands, publishing, sent, confirmed>>
    BY <1>1, <1>3, <2>1 DEF Close, Drained, TypeOK
  <2>3. /\ phase' = [phase EXCEPT ![p] = phase'[p]]
        /\ phase[p] \in {"open", "draining"} /\ phase'[p] \in {"draining", "marking", "closed"}
    BY <1>1, <1>3 DEF Close, Drained, TypeOK
  <2>4. QED
    BY <2>1, <2>2, <2>3, CycleTrails
<1>4. CASE Crash(p)
  <2>1. /\ hands'[p] = {} /\ publishing'[p] = {} /\ confirmed'[p] = {} /\ cycle'[p] = NoCycle
        /\ phase'[p] = "down"
    BY <1>1, <1>4 DEF Crash, TypeOK
  <2>2. Trails(p)'
    BY <2>1 DEF Trails, Silent, Paged, Early, Known, NoCycle
  <2>3. \A q \in Replicas \ {p} : Bystander(q)
    BY <1>1, <1>4 DEF Crash, Bystander, TypeOK
  <2>4. QED
    BY <2>2, <2>3, AtOne
<1>5. ASSUME NEW claim \in Claims \cup {Idle}, Discover(p, claim) PROVE TrailInv'
  <2>1. PICK c : c = IF phase[p] = "open" THEN Ticked(p, Slots(p)') ELSE cycle[p]
    OBVIOUS
  <2>2. c.page = {} \/ c = cycle[p]
    BY <2>1 DEF Ticked, NoCycle
  <2>3. /\ cycle' = [cycle EXCEPT ![p] = c] /\ UNCHANGED <<hands, publishing, sent, confirmed>>
        /\ phase[p] # "down" /\ phase' = phase
    BY <1>5, <2>1 DEF Discover
  <2>4. phase' = [phase EXCEPT ![p] = phase'[p]]
    BY <1>1, <2>3 DEF TypeOK
  <2>5. phase'[p] = "open" => phase[p] \in {"open", "down"}
    BY <2>3
  <2>6. QED
    BY <2>2, <2>3, <2>4, <2>5, CycleTrails
<1>6. QED
  BY <1>2, <1>3, <1>4, <1>5 DEF Lifecycle

\* The invariant behind NeverResent.
THEOREM TrailInvariance == Spec => []TrailInv
<1>1. Init /\ IInv => TrailInv
  BY DEF Init, TrailInv, Trails, Silent, Paged, Early, Known, NoCycle
<1>2. TrailInv /\ IInv' /\ [Next]_vars => TrailInv'
  <2> SUFFICES ASSUME TrailInv, IInv', [Next]_vars PROVE TrailInv'
    OBVIOUS
  <2> USE DEF collection, memory, history
  <2>1. Forward
    BY StepForward DEF TrailInv, IInv
  <2>2. ASSUME NEW i \in Rows, Elapse(i) \/ Reap(i) PROVE TrailInv'
    BY <2>1, <2>2, NoneTrails DEF Elapse, Reap
  <2>3. CASE UNCHANGED vars
    BY <2>1, <2>3, NoneTrails DEF vars
  <2>4. QED
    BY <2>1, <2>2, <2>3, OperationTrails, EmissionTrails, PumpTrails, LifecycleTrails DEF Next
<1>3. QED
  BY <1>1, <1>2, Invariance, PTL DEF Spec

\* What #publish starts is what is due by #due, row by row.
LEMMA StartedDue ==
  ASSUME TypeOK, NEW p \in Replicas, NEW page \in SUBSET Page, NEW pair \in Started(p, page)
  PROVE  \E r \in page : pair = <<r.id, pair[2]>> /\ Due(p, r.id, r.owed, pair[2])
<1> DEFINE Ids(d) == {r.id : r \in {q \in page : Due(p, q.id, q.owed, d)}}
           Sends(d) == Admitted(p, d, Ids(d))
<1>1. PICK d \in Has[p] : pair \in Sends(d) \X {d}
  BY DEF Started
<1>2. pair[1] \in Sends(d) /\ pair[2] = d /\ pair = <<pair[1], pair[2]>>
  <2> HIDE DEF Sends
  <2> QED BY <1>1
<1>3. pair[1] \in Ids(d)
  BY <1>2 DEF Admitted
<1>4. PICK r \in page : r.id = pair[1] /\ Due(p, r.id, r.owed, d)
  BY <1>3
<1>5. QED
  BY <1>2, <1>4

\* A process that is not closing never sends again what a destination confirmed
\* to it, whatever it has read, failed to mark or is sending, but for the row of
\* an operation that was slower than the gap: Outbox.#due.
THEOREM SentOnce == Spec => NeverResent
<1> DEFINE Once == \A p \in Replicas : phase[p] = "open" =>
                     \A pair \in (publishing'[p] \ publishing[p]) \cap confirmed[p] :
                       due[pair[1]] /\ pair[1] \in hands[p] \ hands'[p]
<1>1. TrailInv /\ [Next]_vars => [Once]_vars
  <2> SUFFICES ASSUME TrailInv, [Next]_vars PROVE Once
    OBVIOUS
  <2>1. TypeOK
    BY DEF TrailInv, IInv
  <2>2. CASE NoneNew
    BY <2>2 DEF NoneNew
  <2>3. ASSUME NEW p \in Replicas, Recover(p) PROVE Once
    <3>1. PICK rows : rows = {r \in cycle[p].page : \E d \in Has[p] : Due(p, r.id, r.owed, d)}
      OBVIOUS
    <3>2. publishing' = [publishing EXCEPT ![p] = @ \cup Started(p, rows)]
      BY <2>3, <3>1 DEF Recover
    <3>3. rows \in SUBSET Page /\ rows \subseteq cycle[p].page
      BY <2>1, <3>1 DEF TypeOK, Page
    <3>4. ASSUME phase[p] = "open", NEW pair \in Started(p, rows), pair \in confirmed[p] PROVE FALSE
      <4>1. PICK r \in rows : pair = <<r.id, pair[2]>> /\ Due(p, r.id, r.owed, pair[2])
        BY <2>1, <3>3, <3>4, StartedDue
      <4>2. pair[2] \in Destinations
        BY <3>4, Made
      <4>3. pair \notin sent[p] /\ pair[2] \in r.owed
        BY <4>1 DEF Due
      <4>4. pair \in sent[p] \/ pair[2] \notin r.owed
        BY <3>3, <3>4, <4>1, <4>2 DEF TrailInv, Trails, Known
      <4>5. QED
        BY <4>3, <4>4
    <3>5. ASSUME NEW q \in Replicas, phase[q] = "open"
          PROVE  (publishing'[q] \ publishing[q]) \cap confirmed[q] = {}
      BY <2>1, <3>2, <3>4, <3>5 DEF TypeOK
    <3>6. QED
      BY <3>5
  <2>4. ASSUME NEW p \in Replicas, NEW i \in Rows, Publish(p, i) PROVE Once
    <3>1. PICK page : page = {[id |-> i, owed |-> Has[p]]}
      OBVIOUS
    <3>2. page \in SUBSET Page
      BY <3>1, OutboxAssumption DEF Page
    <3>3. /\ publishing'[p] \subseteq publishing[p] \cup Started(p, page)
          /\ \A q \in Replicas \ {p} : publishing'[q] = publishing[q]
      BY <2>1, <2>4, <3>1 DEF Publish, TypeOK
    <3>4. i \in hands[p] \ hands'[p]
      BY <2>1, <2>4 DEF Publish, TypeOK
    <3>5. ASSUME NEW pair \in Started(p, page), pair \in confirmed[p] PROVE pair[1] = i /\ due[i]
      <4>1. PICK r \in page : pair = <<r.id, pair[2]>>
        BY <2>1, <3>2, <3>5, StartedDue
      <4>2. pair[1] = i /\ pair = <<i, pair[2]>>
        BY <3>1, <4>1
      <4>3. pair[2] \in Destinations
        BY <3>5, Made
      <4>4. due[i]
        BY <3>4, <3>5, <4>2, <4>3 DEF TrailInv, Trails, Early
      <4>5. QED
        BY <4>2, <4>4
    <3>6. QED
      BY <3>3, <3>4, <3>5
  <2>5. QED
    BY <2>1, <2>2, <2>3, <2>4, StepStarts
<1>2. QED
  BY <1>1, TrailInvariance, PTL DEF Spec, NeverResent
=============================================================================
