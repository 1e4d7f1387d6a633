------------------------------- MODULE Outbox -------------------------------
(***************************************************************************)
(* The transactional outbox of one component: the pump every replica runs  *)
(* (runtime/core/source/outbox.ts), the collection its rows are kept in    *)
(* (connectors/storages.mongodb/src/outbox.js) and the claim on lanes that *)
(* says which replica recovers a row (connectors/atomicity/src/atom.js).   *)
(*                                                                         *)
(* One replica is one JavaScript process: everything between two awaits is *)
(* one action.  A row is its id; what it carries is left out.  Time is left *)
(* out too: a row becomes due, a wait that has a time limit ends, and a     *)
(* publication fails at any moment.                                        *)
(***************************************************************************)
EXTENDS Naturals, FiniteSets

CONSTANTS Replicas,       \* the processes serving the component
          Rows,           \* row ids, uuid v7: numbers, as their order is used
          Destinations,   \* names of what rows are published to
          Has,            \* Has[p]: the destinations replica p was built with
          Defer,          \* TOA_OUTBOX_DEFER: only the pump publishes
          LANES, BATCH, INFLIGHT, PUBLISHED

ASSUME OutboxAssumption ==
         /\ Rows \subseteq Nat \ {0}
         /\ IsFiniteSet(Rows)
         /\ Has \in [Replicas -> SUBSET Destinations]
         /\ Defer \in BOOLEAN
         /\ LANES \in Nat \ {0}
         /\ BATCH \in Nat \ {0}
         /\ INFLIGHT \in Nat \ {0}
         /\ PUBLISHED \in Nat \ {0}

Lanes == 0 .. LANES - 1

\* A publication of row id to destination to; also one thing a row owes.
Pairs == Rows \X Destinations

\* What n-and-i hands out: which of how many this replica is, or nothing.
Claims == {c \in [i : Lanes, n : 1 .. LANES] : c.i < c.n}
Idle == [i |-> 0, n |-> 0]

VARIABLES
  \* the collection
  status,       \* status[i]: "none", "drafted", "refused", "stored", "reaped"
  lane,         \* lane[i]: the lane row i was written to
  outstanding,  \* outstanding[i]: the destinations row i has not been settled for
  published,    \* published[i]: the row's `published` field
  due,          \* due[i]: `pending <= now`
  \* the replicas' memory
  phase,        \* phase[p]: "down", "open", "draining", "marking", "closed"
  assignment,   \* assignment[p]: the claim of the replica's atom
  hands,        \* hands[p]: rows on an operation's path, written or about to be
  publishing,   \* publishing[p]: the publications in flight
  sent,         \* sent[p]: `#published`, confirmed and not yet marked
  cycle,        \* cycle[p]: where the one running cycle of the pump is
  marks,        \* marks[p]: what the marking of `close` has still to settle
  \* the world, and history
  named,        \* named[i]: what row i was outstanding for when it was made
  landed,       \* publications that reached their destination
  confirmed     \* confirmed[p]: every publication confirmed to this process

collection == <<status, lane, outstanding, published, due>>
memory == <<phase, assignment, hands, publishing, sent, cycle, marks>>
history == <<named, landed, confirmed>>
vars == <<collection, memory, history>>

NoCycle == [pc |-> "idle", lanes |-> {}, after |-> 0, page |-> {},
            full |-> FALSE, marks |-> {}]

-----------------------------------------------------------------------------
(* The atom *)

\* Atom.slots
Slots(p) == IF assignment[p] = Idle
              THEN {}
              ELSE {l \in Lanes : /\ l >= assignment[p].i
                                  /\ (l - assignment[p].i) % assignment[p].n = 0}

-----------------------------------------------------------------------------
(* Sending: Outbox.#due, #send and #publish *)

\* What was sent and not marked yet is forgotten.
DueUnlessSending(p, i, owed, d) == /\ d \in owed
                                   /\ d \in Has[p]
                                   /\ <<i, d>> \notin publishing[p]

\* Whether row i, read as outstanding for owed, is p's to send to d.
Due(p, i, owed, d) == /\ d \in owed
                      /\ d \in Has[p]
                      /\ <<i, d>> \notin sent[p]
                      /\ <<i, d>> \notin publishing[p]

To(set, d) == {i \in Rows : <<i, d>> \in set}

\* The cap on what is sent and not marked is left out.
AdmittedUnmarked(p, d, rows) ==
  {i \in rows : Cardinality(To(publishing[p], d))
                  + Cardinality({j \in rows : j < i}) < INFLIGHT}

\* One cap for all destinations.
AdmittedShared(p, d, rows) ==
  {i \in rows : Cardinality(publishing[p]) + Cardinality({j \in rows : j < i}) < INFLIGHT}

\* Of the rows p is to send to d, the ones the two caps let through: the first
\* ones, as rows are sent in the order of their ids.
Admitted(p, d, rows) ==
  IF Cardinality(To(sent[p], d)) >= PUBLISHED
    THEN {}
    ELSE {i \in rows : Cardinality(To(publishing[p], d))
                         + Cardinality({j \in rows : j < i}) < INFLIGHT}

\* What #publish starts for a set of rows, each with what it is outstanding for.
Started(p, page) ==
  UNION {Admitted(p, d, {r.id : r \in {q \in page : Due(p, q.id, q.owed, d)}})
           \X {d} : d \in Has[p]}

-----------------------------------------------------------------------------
(* The pump's cycle *)

\* #tick, and the part of #pump and #read up to the query: one cycle at a time.
Ticked(p, lanes) ==
  IF cycle[p].pc = "idle" THEN [NoCycle EXCEPT !.pc = "read", !.lanes = lanes]
                          ELSE cycle[p]

\* The start of #mark: what was published is grouped at once, and settled after.
Marking(set) == IF set = {} THEN NoCycle
                            ELSE [NoCycle EXCEPT !.pc = "mark", !.marks = set]

\* What a cycle does with a page it has dealt with: a full one may have been
\* cut short, so the pump reads on, and otherwise it marks.
Onward(p, c) ==
  IF c.full THEN [NoCycle EXCEPT !.pc = "read", !.lanes = Slots(p), !.after = c.after]
            ELSE Marking(sent[p])

-----------------------------------------------------------------------------
(* The collection: Outbox.pending and Outbox.settle of the Mongo storage *)

Matching(lanes, after) ==
  {i \in Rows : /\ status[i] = "stored"
                /\ lane[i] \in lanes
                /\ ~published[i]
                /\ due[i]
                /\ i > after}

\* The first `limit` of the rows that match, in the order of ids.
Pending(lanes, after) ==
  LET match == Matching(lanes, after)
  IN  {i \in match : Cardinality({j \in match : j < i}) < BATCH}

\* One updateMany: takes `names` out of what those rows are outstanding for,
\* and marks published the ones left outstanding for nothing.
Settled(ids, names) ==
  /\ outstanding' = [i \in Rows |-> IF i \in ids /\ status[i] = "stored"
                                      THEN outstanding[i] \ names ELSE outstanding[i]]
  /\ published' = [i \in Rows |-> IF i \in ids /\ status[i] = "stored"
                                    THEN outstanding[i] \ names = {} ELSE published[i]]

Completed(set, i) == {d \in Destinations : <<i, d>> \in set}

\* One write for all rows and all destinations.
OneGroup(set) == {[ids   |-> {pair[1] : pair \in set},
                   names |-> {pair[2] : pair \in set}] : one \in set}

\* #groups: the rows of a marking that share the destinations they landed at.
Groups(set) == {[ids   |-> {j \in Rows : Completed(set, j) = Completed(set, i)},
                 names |-> Completed(set, i)] : i \in {pair[1] : pair \in set}}

-----------------------------------------------------------------------------
(* What an operation does with a row *)

\* Outbox.#lane: a lane this replica owns, or any lane when it owns none.
LaneChoice(p) == IF Slots(p) = {} THEN Lanes ELSE Slots(p)

\* Outbox.row: outstanding for every destination of the replica that makes it.
Row(p, i) ==
  /\ phase[p] # "down"
  /\ status[i] = "none"
  /\ \E l \in LaneChoice(p) : lane' = [lane EXCEPT ![i] = l]
  /\ status' = [status EXCEPT ![i] = "drafted"]
  /\ outstanding' = [outstanding EXCEPT ![i] = Has[p]]
  /\ named' = [named EXCEPT ![i] = Has[p]]
  /\ hands' = [hands EXCEPT ![p] = @ \cup {i}]
  /\ UNCHANGED <<published, due, phase, assignment, publishing, sent, cycle, marks,
                 landed, confirmed>>

\* The entity's transaction commits, the row with it; or it does not, and the
\* row never was.
Commit(p, i) ==
  /\ i \in hands[p] /\ status[i] = "drafted"
  /\ status' = [status EXCEPT ![i] = "stored"]
  /\ UNCHANGED <<lane, outstanding, published, due, memory, history>>

Refuse(p, i) ==
  /\ i \in hands[p] /\ status[i] = "drafted"
  /\ status' = [status EXCEPT ![i] = "refused"]
  /\ hands' = [hands EXCEPT ![p] = @ \ {i}]
  /\ UNCHANGED <<lane, outstanding, published, due, phase, assignment, publishing,
                 sent, cycle, marks, history>>

\* Outbox.publish of a committed row: sent at once, unless closing or deferred.
\* The row is the one `row` made, outstanding for all this replica has.
Publish(p, i) ==
  /\ i \in hands[p] /\ status[i] \notin {"drafted", "refused"}
  /\ hands' = [hands EXCEPT ![p] = @ \ {i}]
  /\ publishing' = [publishing EXCEPT ![p] =
                      IF phase[p] # "open" \/ Defer
                        THEN @ ELSE @ \cup Started(p, {[id |-> i, owed |-> Has[p]]})]
  /\ UNCHANGED <<collection, phase, assignment, sent, cycle, marks, history>>

-----------------------------------------------------------------------------
(* A publication in flight *)

\* The destination takes the message.
Land(p, i, d) ==
  /\ <<i, d>> \in publishing[p]
  /\ landed' = landed \cup {<<i, d>>}
  /\ UNCHANGED <<collection, memory, named, confirmed>>

\* `emit` resolves, which the binding does for a message the broker confirmed.
Confirm(p, i, d) ==
  /\ <<i, d>> \in publishing[p]
  /\ <<i, d>> \in landed
  /\ sent' = [sent EXCEPT ![p] = @ \cup {<<i, d>>}]
  /\ confirmed' = [confirmed EXCEPT ![p] = @ \cup {<<i, d>>}]
  /\ publishing' = [publishing EXCEPT ![p] = @ \ {<<i, d>>}]
  /\ UNCHANGED <<collection, phase, assignment, hands, cycle, marks, named, landed>>

\* A rejected publication is taken for a confirmed one.
FailSent(p, i, d) ==
  /\ <<i, d>> \in publishing[p]
  /\ publishing' = [publishing EXCEPT ![p] = @ \ {<<i, d>>}]
  /\ sent' = [sent EXCEPT ![p] = @ \cup {<<i, d>>}]
  /\ UNCHANGED <<collection, phase, assignment, hands, cycle, marks, history>>

\* `emit` rejects, the message landed or not; the failure is swallowed.
Fail(p, i, d) ==
  /\ <<i, d>> \in publishing[p]
  /\ publishing' = [publishing EXCEPT ![p] = @ \ {<<i, d>>}]
  /\ UNCHANGED <<collection, phase, assignment, hands, sent, cycle, marks, history>>

-----------------------------------------------------------------------------
(* The pump *)

\* The timer, which `close` clears.
Tick(p) ==
  /\ phase[p] = "open"
  /\ cycle[p].pc = "idle"
  /\ cycle' = [cycle EXCEPT ![p] = Ticked(p, Slots(p))]
  /\ UNCHANGED <<collection, phase, assignment, hands, publishing, sent, marks, history>>

\* The query answers.  What it answers with is a copy: it may be stale when used.
Read(p) ==
  /\ cycle[p].pc = "read"
  /\ LET ids == Pending(cycle[p].lanes, cycle[p].after)
     IN  cycle' = [cycle EXCEPT ![p].pc = "page",
                                ![p].page = {[id |-> i, owed |-> outstanding[i]] : i \in ids},
                                ![p].full = Cardinality(ids) = BATCH]
  /\ UNCHANGED <<collection, phase, assignment, hands, publishing, sent, marks, history>>

\* The query fails, which reads as an empty page: the cycle marks and ends.
ReadFailed(p) ==
  /\ cycle[p].pc = "read"
  /\ cycle[p].lanes # {}
  /\ cycle' = [cycle EXCEPT ![p] = Marking(sent[p])]
  /\ UNCHANGED <<collection, phase, assignment, hands, publishing, sent, marks, history>>

\* The page is empty: the cycle marks and ends.
Exhausted(p) ==
  /\ cycle[p].pc = "page" /\ cycle[p].page = {}
  /\ cycle' = [cycle EXCEPT ![p] = Marking(sent[p])]
  /\ UNCHANGED <<collection, phase, assignment, hands, publishing, sent, marks, history>>

\* The page is used: everything still due in it is sent, and waited for if
\* there is any.  The next page, if the cycle reads one, is after its last row.
Recover(p) ==
  LET c == cycle[p]
      rows == {r \in c.page : \E d \in Has[p] : Due(p, r.id, r.owed, d)}
  IN  /\ c.pc = "page"
      /\ publishing' = [publishing EXCEPT ![p] = @ \cup Started(p, rows)]
      /\ \E last \in c.page :
           LET used == [c EXCEPT !.after = last.id, !.page = {}, !.pc = "wait"]
           IN  /\ \A r \in c.page : r.id <= last.id
               /\ cycle' = [cycle EXCEPT ![p] = IF rows = {} THEN Onward(p, used) ELSE used]
      /\ UNCHANGED <<collection, phase, assignment, hands, sent, marks, history>>

\* #awaited: all that was started has settled, or the interval is over.
Awaited(p) ==
  /\ cycle[p].pc = "wait"
  /\ cycle' = [cycle EXCEPT ![p] = Onward(p, cycle[p])]
  /\ UNCHANGED <<collection, phase, assignment, hands, publishing, sent, marks, history>>

\* #settle of one group of the cycle's marking, when the write succeeds: the
\* ids are forgotten.
Settle(p, g) ==
  /\ cycle[p].pc = "mark" /\ g \in Groups(cycle[p].marks)
  /\ Settled(g.ids, g.names)
  /\ sent' = [sent EXCEPT ![p] = @ \ (g.ids \X g.names)]
  /\ LET rest == cycle[p].marks \ (g.ids \X g.names)
     IN  cycle' = [cycle EXCEPT ![p] = Marking(rest)]
  /\ UNCHANGED <<status, lane, due, phase, assignment, hands, publishing, marks, history>>

\* ... and when it fails: whatever part of it was made, the ids are kept.
SettleFailed(p, g, made) ==
  /\ cycle[p].pc = "mark" /\ g \in Groups(cycle[p].marks)
  /\ made \subseteq g.ids
  /\ Settled(made, g.names)
  /\ LET rest == cycle[p].marks \ (g.ids \X g.names)
     IN  cycle' = [cycle EXCEPT ![p] = Marking(rest)]
  /\ UNCHANGED <<status, lane, due, phase, assignment, hands, publishing, sent, marks,
                 history>>

-----------------------------------------------------------------------------
(* Lifecycle *)

\* Outbox.close up to the drain.  A cycle that is running is left to run.
Close(p) ==
  /\ phase[p] = "open"
  /\ phase' = [phase EXCEPT ![p] = "draining"]
  /\ UNCHANGED <<collection, assignment, hands, publishing, sent, cycle, marks, history>>

\* #drain: the publications have settled, or DRAIN is over; then #mark begins.
Drained(p) ==
  /\ phase[p] = "draining"
  /\ phase' = [phase EXCEPT ![p] = IF sent[p] = {} THEN "closed" ELSE "marking"]
  /\ marks' = [marks EXCEPT ![p] = sent[p]]
  /\ UNCHANGED <<collection, assignment, hands, publishing, sent, cycle, history>>

\* The marking of `close`, one group; `made` is all of it when the write succeeds.
CloseSettle(p, g, made, ok) ==
  /\ phase[p] = "marking" /\ g \in Groups(marks[p])
  /\ made \subseteq g.ids /\ (ok => made = g.ids)
  /\ Settled(made, g.names)
  /\ sent' = [sent EXCEPT ![p] = IF ok THEN @ \ (g.ids \X g.names) ELSE @]
  /\ marks' = [marks EXCEPT ![p] = @ \ (g.ids \X g.names)]
  /\ phase' = [phase EXCEPT ![p] = IF marks'[p] = {} THEN "closed" ELSE @]
  /\ UNCHANGED <<status, lane, due, assignment, hands, publishing, cycle, history>>

\* The process ends, closed or not, and all it held in memory with it.
Crash(p) ==
  /\ phase[p] # "down"
  /\ status' = [i \in Rows |-> IF i \in hands[p] /\ status[i] = "drafted"
                                 THEN "refused" ELSE status[i]]
  /\ phase' = [phase EXCEPT ![p] = "down"]
  /\ assignment' = [assignment EXCEPT ![p] = Idle]
  /\ hands' = [hands EXCEPT ![p] = {}]
  /\ publishing' = [publishing EXCEPT ![p] = {}]
  /\ sent' = [sent EXCEPT ![p] = {}]
  /\ cycle' = [cycle EXCEPT ![p] = NoCycle]
  /\ marks' = [marks EXCEPT ![p] = {}]
  /\ confirmed' = [confirmed EXCEPT ![p] = {}]
  /\ UNCHANGED <<lane, outstanding, published, due, named, landed>>

\* Outbox.open: `onassigned` calls back at once, with a claim or without.
Start(p) ==
  /\ phase[p] = "down"
  /\ phase' = [phase EXCEPT ![p] = "open"]
  /\ cycle' = [cycle EXCEPT ![p] = Ticked(p, Slots(p))]
  /\ UNCHANGED <<collection, assignment, hands, publishing, sent, marks, history>>

\* Atom.#discover: n-and-i yields another claim, or none, and calls the pump
\* unless it has taken its listener off.
Discover(p, c) ==
  /\ phase[p] # "down"
  /\ c # assignment[p]
  /\ assignment' = [assignment EXCEPT ![p] = c]
  /\ cycle' = [cycle EXCEPT ![p] = IF phase[p] = "open" THEN Ticked(p, Slots(p)') ELSE @]
  /\ UNCHANGED <<collection, phase, hands, publishing, sent, marks, history>>

-----------------------------------------------------------------------------
(* The collection's clock *)

\* A row's `pending` moment passes.
Elapse(i) ==
  /\ status[i] = "stored" /\ ~due[i]
  /\ due' = [due EXCEPT ![i] = TRUE]
  /\ UNCHANGED <<status, lane, outstanding, published, memory, history>>

\* The TTL monitor takes a row that has a `publishedAt`, past its retention.
Reap(i) ==
  /\ status[i] = "stored" /\ published[i]
  /\ status' = [status EXCEPT ![i] = "reaped"]
  /\ UNCHANGED <<lane, outstanding, published, due, memory, history>>

-----------------------------------------------------------------------------
Init ==
  /\ status = [i \in Rows |-> "none"]
  /\ lane = [i \in Rows |-> 0]
  /\ outstanding = [i \in Rows |-> {}]
  /\ published = [i \in Rows |-> FALSE]
  /\ due = [i \in Rows |-> FALSE]
  /\ phase = [p \in Replicas |-> "down"]
  /\ assignment = [p \in Replicas |-> Idle]
  /\ hands = [p \in Replicas |-> {}]
  /\ publishing = [p \in Replicas |-> {}]
  /\ sent = [p \in Replicas |-> {}]
  /\ cycle = [p \in Replicas |-> NoCycle]
  /\ marks = [p \in Replicas |-> {}]
  /\ named = [i \in Rows |-> {}]
  /\ landed = {}
  /\ confirmed = [p \in Replicas |-> {}]

Operation(p) == \E i \in Rows : Row(p, i) \/ Commit(p, i) \/ Refuse(p, i) \/ Publish(p, i)

Emission(p) == \E i \in Rows, d \in Destinations :
                 Land(p, i, d) \/ Confirm(p, i, d) \/ Fail(p, i, d)

Marks(p) == \/ \E g \in Groups(cycle[p].marks) :
                  \/ Settle(p, g)
                  \/ \E made \in SUBSET g.ids : SettleFailed(p, g, made)
            \/ \E g \in Groups(marks[p]), ok \in BOOLEAN :
                  \E made \in SUBSET g.ids : CloseSettle(p, g, made, ok)

Pump(p) == Tick(p) \/ Read(p) \/ ReadFailed(p) \/ Exhausted(p) \/ Recover(p)
           \/ Awaited(p) \/ Marks(p)

Lifecycle(p) == \/ Start(p) \/ Close(p) \/ Drained(p) \/ Crash(p)
                \/ \E c \in Claims \cup {Idle} : Discover(p, c)

Next == \/ \E p \in Replicas : Operation(p) \/ Emission(p) \/ Pump(p) \/ Lifecycle(p)
        \/ \E i \in Rows : Elapse(i) \/ Reap(i)

Spec == Init /\ [][Next]_vars

-----------------------------------------------------------------------------
(* Properties *)

TypeOK ==
  /\ status \in [Rows -> {"none", "drafted", "refused", "stored", "reaped"}]
  /\ lane \in [Rows -> Lanes]
  /\ outstanding \in [Rows -> SUBSET Destinations]
  /\ published \in [Rows -> BOOLEAN]
  /\ due \in [Rows -> BOOLEAN]
  /\ phase \in [Replicas -> {"down", "open", "draining", "marking", "closed"}]
  /\ assignment \in [Replicas -> Claims \cup {Idle}]
  /\ hands \in [Replicas -> SUBSET Rows]
  /\ publishing \in [Replicas -> SUBSET Pairs]
  /\ sent \in [Replicas -> SUBSET Pairs]
  /\ cycle \in [Replicas -> [pc    : {"idle", "read", "page", "wait", "mark"},
                             lanes : SUBSET Lanes,
                             after : Rows \cup {0},
                             page  : SUBSET [id : Rows, owed : SUBSET Destinations],
                             full  : BOOLEAN,
                             marks : SUBSET Pairs]]
  /\ marks \in [Replicas -> SUBSET Pairs]
  /\ named \in [Rows -> SUBSET Destinations]
  /\ landed \in SUBSET Pairs
  /\ confirmed \in [Replicas -> SUBSET Pairs]

\* Nothing is dropped: whatever crashes, closes, fails or changes hands, a row
\* of the collection is taken out of a destination's debt only once it landed
\* there, and the TTL takes only rows that landed everywhere they named.
NothingDropped ==
  \A i \in Rows : status[i] \in {"stored", "reaped"} =>
    /\ \A d \in named[i] \ outstanding[i] : <<i, d>> \in landed
    /\ status[i] = "reaped" => outstanding[i] = {}

\* No event of a change that was not committed: what lands, and what is on its
\* way, belongs to a row whose transaction committed and that named the
\* destination.
Recorded == {pair \in Pairs : /\ status[pair[1]] \in {"stored", "reaped"}
                              /\ pair[2] \in named[pair[1]]}

NoPhantom == /\ landed \subseteq Recorded
             /\ \A p \in Replicas : publishing[p] \subseteq Recorded

\* What a process holds for a destination is bounded by its two caps together:
\* the one on `#published` is read before a publication and grows after it.
MemoryBounded ==
  \A p \in Replicas, d \in Destinations :
    Cardinality(To(publishing[p] \cup sent[p], d)) <= PUBLISHED + INFLIGHT - 1

\* A process that is not closing never sends again what a destination confirmed
\* to it: the row of a page that another destination still owes, the row whose
\* marking failed and the row it is sending are all skipped.  The one exception
\* is an operation slower than the gap: its row was due, and so recovered by
\* the pump, before it was handed over for the first time.
NeverResent ==
  [][\A p \in Replicas : phase[p] = "open" =>
       \A pair \in (publishing'[p] \ publishing[p]) \cap confirmed[p] :
         due[pair[1]] /\ pair[1] \in hands[p] \ hands'[p]]_vars

-----------------------------------------------------------------------------
(* Refinement *)

\* The promise of the outbox, whatever replicas do: AtLeastOnce.
Promise == INSTANCE AtLeastOnce
             WITH Items <- Pairs,
                  recorded <- Recorded,
                  settled <- {pair \in Recorded : pair[2] \notin outstanding[pair[1]]}

Implements == Promise!Spec

-----------------------------------------------------------------------------
(* Liveness *)

CONSTANT Reliable  \* destinations that take what is sent to them often enough

\* The timer keeps ticking and the process keeps running; the collection and a
\* reliable destination answer some of the calls made of them for ever.  Nothing
\* is assumed of claims, of restarts, or of the other destinations.
Fairness ==
  /\ \A p \in Replicas : /\ WF_vars(Tick(p))
                         /\ SF_vars(Read(p))
                         /\ WF_vars(Exhausted(p))
                         /\ WF_vars(Recover(p))
                         /\ WF_vars(Awaited(p))
                         /\ SF_vars(\E g \in Groups(cycle[p].marks) : Settle(p, g))
                         /\ \A i \in Rows, d \in Reliable : /\ SF_vars(Land(p, i, d))
                                                            /\ SF_vars(Confirm(p, i, d))
  /\ \A i \in Rows : WF_vars(Elapse(i))

FairSpec == Spec /\ Fairness

\* One replica that can publish there stays open and keeps the lane.
Kept(l) == \E p \in Replicas :
             <>[](phase[p] = "open" /\ l \in Slots(p) /\ Reliable \subseteq Has[p])

\* Recovery: whatever happened to the process that wrote it, a row in a lane
\* that comes to rest with an open replica is settled for every destination
\* that takes what it is sent, also while another destination of the row is
\* down and holds its publications in flight.
Recovery == \A l \in Lanes, i \in Rows :
              Kept(l) => (status[i] = "stored" /\ lane[i] = l
                            ~> outstanding[i] \cap Reliable = {})

=============================================================================
