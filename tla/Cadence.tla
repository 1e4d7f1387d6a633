------------------------------- MODULE Cadence -------------------------------
(***************************************************************************)
(* Delayed and scheduled calls: the rows of the metronome component         *)
(* (extensions/cadence/components/cadence.metronome), the aspects that hand *)
(* them over (source/Aspect.ts, source/Scheduler.ts) and the dispatchers    *)
(* that make the calls (source/Dispatcher.ts), one to a replica.            *)
(*                                                                         *)
(* A replica is one JavaScript process: everything between two awaits is    *)
(* one action.  A row is its id, its lane and the occurrence it waits for;  *)
(* the endpoint, the request and the region are left out.  A set of rows is *)
(* settled in one transaction that compares versions and retries, so it is  *)
(* one action at the store.  Time is a clock all of them read.              *)
(***************************************************************************)
EXTENDS Integers, FiniteSets

CONSTANTS Replicas,      \* the processes that run a dispatcher
          Handers,       \* callers of `context.schedule`, one hand-over at a time each
          Ids,           \* rows, an id each
          Recurring,     \* the rows that carry a schedule
          Intervals,     \* the delays `context.delay` is asked for
          Overdue,       \* Overdue[i]: how late the call may be, or Absent
          Expiry,        \* Expiry[i]: when the schedule i ends
          Calendar,      \* the occurrences of the schedules
          Lanes,         \* lanes of the collection
          Assignments,   \* what an atom may be given: sets of lanes
          Misfits,       \* rows a target may refuse for good
          Halts,         \* whether a halt may be signalled
          DISCRETENESS, BATCH,
          Horizon,       \* bound: when the clock stops
          Handles,       \* bound: timers and calls of one row in one process
          Strays         \* bound: late settles at a time

Absent == -1
Never == 1000000

ASSUME CadenceAssumption ==
         /\ Recurring \subseteq Ids
         /\ IsFiniteSet(Ids)
         /\ Intervals \subseteq Nat
         /\ Overdue \in [Ids -> Nat \cup {Absent}]
         /\ Expiry \in [Ids -> Nat]
         /\ Calendar \subseteq Nat
         /\ Lanes # {}
         /\ Assignments \subseteq SUBSET Lanes
         /\ Misfits \subseteq Ids
         /\ Halts \in BOOLEAN
         /\ DISCRETENESS \in Nat \ {0}
         /\ BATCH \in Nat \ {0}
         /\ Horizon \in Nat
         /\ Handles \in Nat \ {0}
         /\ Strays \in Nat

VARIABLES
  clock,
  \* the collection
  rows,       \* rows[i]: [state, due, lane], state "none", "live" or "dead"
  \* the handers
  hand,       \* hand[h]: a hand-over between its read and its write
  \* the dispatchers' memory
  status,     \* status[p]: "down", "open", "quiet" or "closing"
  lanes,      \* lanes[p]: what the replica's atom says it owns
  armed,      \* armed[p][i]: the handle `armed` holds for row i, 0 for none
  timers,     \* timers[p]: timers set and calls on their way
  called,     \* called[p][i]: the occurrence i was disposed of at, or Absent
  ended,      \* ended[p]: recurring rows that are over
  scan,       \* scan[p]: where the one running scan is
  settling,   \* settling[p][w]: the settle that w waits for
  \* the world, and history
  strays,     \* settles nobody waits for any more, which may still land
  made,       \* the calls the target's queue took, by row and occurrence
  refused,    \* rows whose call the target will never take
  unread      \* unread[p]: rows p's last scan says nothing owes

store == <<rows, hand>>
process == <<status, lanes>>
held == <<armed, timers>>
disposed == <<called, ended>>
passes == <<scan, settling>>
history == <<made, refused, unread>>
vars == <<clock, store, process, held, disposed, passes, strays, history>>

Waiters == {"scan", "stop"}
NoScan == [pc |-> "idle", lanes |-> {}, until |-> 0, page |-> {}]
NoSettle == [pc |-> "none", made |-> [i \in Ids |-> Absent], ended |-> {}]
NoHand == [pc |-> "idle", id |-> Absent, due |-> 0, lane |-> Absent]

Least(set) == CHOOSE n \in set : \A m \in set : n <= m

-----------------------------------------------------------------------------
(* Occurrences and bounds: row.ts *)

\* That there is none is read as a moment.
FollowingNull(after) == LET ahead == {t \in Calendar : t > after}
                        IN  IF ahead = {} THEN Absent ELSE Least(ahead)

\* occurrences: the first one after a moment, Never where there is none.
Following(after) == LET ahead == {t \in Calendar : t > after}
                    IN  IF ahead = {} THEN Never ELSE Least(ahead)

\* row and recurring: the moment nothing of the row is made after.
Expires(i, due) == IF i \in Recurring THEN Expiry[i]
                   ELSE IF Overdue[i] = Absent THEN Never
                   ELSE due + Overdue[i]

\* bound: the moment past which the occurrence `due` of row i is not made.
Bound(i, due) == IF i \notin Recurring THEN Expires(i, due)
                 ELSE IF Overdue[i] = Absent THEN Following(due)
                 ELSE due + Overdue[i]

\* An occurrence is moved on from whatever the one that was made.
AfterAny(i, row, s) ==
  LET next == Following(IF clock > row.due THEN clock ELSE row.due)
  IN  IF row.state # "live" \/ ~(s.made[i] # Absent \/ i \in s.ended) THEN row
      ELSE IF i \notin Recurring \/ i \in s.ended \/ next > Expiry[i]
             THEN [row EXCEPT !.state = "dead"]
      ELSE [row EXCEPT !.due = next]

\* settle.js, and following of row.ts: what settling s makes of row i.
After(i, row, s) ==
  LET next == Following(IF clock > row.due THEN clock ELSE row.due)
  IN  IF row.state # "live" \/ ~(s.made[i] # Absent \/ i \in s.ended) THEN row
      ELSE IF i \notin Recurring \/ i \in s.ended THEN [row EXCEPT !.state = "dead"]
      ELSE IF s.made[i] # row.due THEN row
      ELSE IF next > Expiry[i] THEN [row EXCEPT !.state = "dead"]
      ELSE [row EXCEPT !.due = next]

-----------------------------------------------------------------------------
(* Handing calls over *)

\* delay.js: a call to make later, in a lane drawn at random.
Delay(i) ==
  /\ i \notin Recurring
  /\ rows[i].state = "none"
  /\ \E interval \in Intervals, l \in Lanes :
       rows' = [rows EXCEPT ![i] = [state |-> "live", due |-> clock + interval, lane |-> l]]
  /\ UNCHANGED <<clock, hand, process, held, disposed, passes, strays, history>>

\* Aspect.cancel and Scheduler.cancel: `terminate` tombstones the row.
Cancel(i) ==
  /\ rows[i].state = "live"
  /\ rows' = [rows EXCEPT ![i].state = "dead"]
  /\ UNCHANGED <<clock, hand, process, held, disposed, passes, strays, history>>

\* Scheduler.schedule, up to what it reads: the first occurrence from now, and
\* whether a tombstone holds the id.
Observe(h, i) ==
  /\ hand[h] = NoHand
  /\ i \in Recurring
  /\ Following(clock) <= Expiry[i]
  /\ \E l \in Lanes :
       hand' = [hand EXCEPT ![h] = [pc   |-> IF rows[i].state = "dead" THEN "resume" ELSE "ensure",
                                    id   |-> i,
                                    due  |-> Following(clock),
                                    lane |-> l]]
  /\ UNCHANGED <<clock, rows, process, held, disposed, passes, strays, history>>

\* The write of a schedule that is new, or was live: a live one is left alone,
\* and a tombstone refuses it, which is answered by resuming it.
Ensure(h) ==
  LET i == hand[h].id
  IN  /\ hand[h].pc = "ensure"
      /\ rows' = [rows EXCEPT ![i] = IF @.state = "none"
                                       THEN [state |-> "live", due |-> hand[h].due,
                                             lane |-> hand[h].lane]
                                       ELSE @]
      /\ hand' = [hand EXCEPT ![h] = IF rows[i].state = "dead" THEN [@ EXCEPT !.pc = "resume"]
                                                               ELSE NoHand]
      /\ UNCHANGED <<clock, process, held, disposed, passes, strays, history>>

\* Scheduler.resume and resume.js: the tombstone is revived.
Resume(h) ==
  /\ hand[h].pc = "resume"
  /\ rows' = [rows EXCEPT ![hand[h].id] = [state |-> "live", due |-> hand[h].due,
                                           lane |-> hand[h].lane]]
  /\ hand' = [hand EXCEPT ![h] = NoHand]
  /\ UNCHANGED <<clock, process, held, disposed, passes, strays, history>>

-----------------------------------------------------------------------------
(* Settling: Dispatcher.settle *)

\* What a settle started now would write.
Owed(p) == [pc |-> "sent", made |-> called[p], ended |-> ended[p]]

Nothing(p) == called[p] = NoSettle.made /\ ended[p] = {}

\* The write is made: the rows are moved on, or disposed of.
Land(p, w) ==
  /\ settling[p][w].pc = "sent"
  /\ rows' = [i \in Ids |-> After(i, rows[i], settling[p][w])]
  /\ settling' = [settling EXCEPT ![p][w].pc = "landed"]
  /\ UNCHANGED <<clock, hand, process, held, disposed, scan, strays, history>>

\* One nobody waits for any more lands late.
Stray(s) ==
  /\ s \in strays
  /\ rows' = [i \in Ids |-> After(i, rows[i], s)]
  /\ strays' = strays \ {s}
  /\ UNCHANGED <<clock, hand, process, held, disposed, passes, history>>

\* The settles of p that are on their way when p stops waiting for them: any may
\* still land.
LeftBehind(p, ws) ==
  \E late \in SUBSET {settling[p][w] : w \in {v \in ws : settling[p][v].pc = "sent"}} :
    /\ late # {} => Cardinality(strays \cup late) <= Strays
    /\ strays' = strays \cup late

\* The reading a scan goes on to, of the lanes p owns by then.
Reading(ls) == IF ls = {}
                 THEN NoScan
                 ELSE [NoScan EXCEPT !.pc = "read", !.lanes = ls,
                                     !.until = clock + 2 * DISCRETENESS]

\* What was written is forgotten, whatever has been called since.
Forgotten(p, s) ==
  /\ called' = [called EXCEPT ![p] = [i \in Ids |-> IF s.made[i] # Absent THEN Absent ELSE @[i]]]
  /\ ended' = [ended EXCEPT ![p] = @ \ s.ended]

\* The answer of a settle that was made; a scan goes on to its reading.
Settled(p, w) ==
  /\ settling[p][w].pc = "landed"
  /\ Forgotten(p, settling[p][w])
  /\ settling' = [settling EXCEPT ![p][w] = NoSettle]
  /\ scan' = IF w = "scan" THEN [scan EXCEPT ![p] = Reading(lanes[p])] ELSE scan
  /\ UNCHANGED <<clock, store, process, held, strays, history>>

\* A settle that raised, whether or not it was, or will be, made: what it was to
\* settle is kept, and a scan ends.
SettleFailed(p, w) ==
  /\ settling[p][w].pc # "none"
  /\ LeftBehind(p, {w})
  /\ settling' = [settling EXCEPT ![p][w] = NoSettle]
  /\ scan' = IF w = "scan" THEN [scan EXCEPT ![p] = NoScan] ELSE scan
  /\ UNCHANGED <<clock, store, process, held, disposed, history>>

-----------------------------------------------------------------------------
(* Scanning: Dispatcher.tick, adopt and scan *)

\* tick: one scan at a time, and it settles before it reads.
Ticked(p, ls) ==
  IF scan[p].pc # "idle" THEN UNCHANGED passes
  ELSE IF Nothing(p)
    THEN /\ scan' = [scan EXCEPT ![p] = Reading(ls)]
         /\ UNCHANGED settling
  ELSE /\ scan' = [scan EXCEPT ![p].pc = "settle"]
       /\ settling' = [settling EXCEPT ![p]["scan"] = Owed(p)]

\* The interval has elapsed.
Tick(p) ==
  /\ status[p] = "open"
  /\ Ticked(p, lanes[p])
  /\ UNCHANGED <<clock, store, process, held, disposed, strays, history>>

\* What is overdue is not read.
MatchingAhead(ls, until) == {i \in Ids : /\ rows[i].state = "live"
                                         /\ rows[i].lane \in ls
                                         /\ rows[i].due < until
                                         /\ rows[i].due >= clock}

Matching(ls, until) == {i \in Ids : /\ rows[i].state = "live"
                                    /\ rows[i].lane \in ls
                                    /\ rows[i].due < until}

\* The rows enumerate answers with: the first BATCH of those that match, by due.
Enumerated(ls, until) ==
  LET match == Matching(ls, until)
  IN  {page \in SUBSET match :
         /\ Cardinality(page) = IF Cardinality(match) < BATCH THEN Cardinality(match) ELSE BATCH
         /\ \A i \in page, j \in match \ page : rows[i].due <= rows[j].due}

\* The store reads; what it answers is used later, when it arrives.
Read(p) ==
  /\ scan[p].pc = "read"
  /\ \E page \in Enumerated(scan[p].lanes, scan[p].until) :
       scan' = [scan EXCEPT ![p].pc = "arm",
                            ![p].page = {[id |-> i, due |-> rows[i].due, lane |-> rows[i].lane] :
                                           i \in page}]
  /\ UNCHANGED <<clock, store, process, held, disposed, settling, strays, history>>

\* The read raises and the scan ends.
ReadFailed(p) ==
  /\ scan[p].pc \in {"read", "arm"}
  /\ scan' = [scan EXCEPT ![p] = NoScan]
  /\ UNCHANGED <<clock, store, process, held, disposed, settling, strays, history>>

-----------------------------------------------------------------------------
(* Arming: Dispatcher.arm, forget and disarm *)

\* Handles of row i nothing in the process uses.
Free(p, i) == {h \in 1 .. Handles : \A t \in timers[p] : <<t.id, t.h>> # <<i, h>>}

\* The rows of a page that are not in hand: arm's first return.
Fresh(p) == {r \in scan[p].page : /\ armed[p][r.id] = 0
                                  /\ called[p][r.id] = Absent
                                  /\ r.id \notin ended[p]}

Over(r) == r.id \in Recurring /\ Expires(r.id, r.due) <= clock

Lapsed(r) == ~Over(r) /\ (Bound(r.id, r.due) <= clock \/ Expires(r.id, r.due) <= clock)

\* What arming the page sets timers for.
Arming(p) == {r \in Fresh(p) : ~Over(r) /\ ~Lapsed(r)}

\* What is not read is kept.
UnowedNever(p) == {}

\* forget: what is armed and was not read, of a batch that was not cut short.
Unowed(p) == IF Cardinality(scan[p].page) = BATCH
               THEN {}
               ELSE {i \in Ids : /\ armed[p][i] # 0
                                 /\ i \notin {r.id : r \in scan[p].page}
                                 /\ called[p][i] = Absent}

\* A timer that is cleared is no more; one that has fired is a call, and goes on.
Cleared(p, ids) == {t \in timers[p] : t.id \in ids /\ t.h = armed[p][t.id] /\ ~t.fired}

\* The read arrives: each row of it is armed, or found to be over or past its
\* bound, and what is armed and is owed no more is given up.
Arm(p) ==
  /\ scan[p].pc = "arm"
  /\ \A r \in Arming(p) : Free(p, r.id) # {}
  /\ LET handle(r) == Least(Free(p, r.id))
         set == {[id |-> r.id, h |-> handle(r), due |-> r.due, lane |-> r.lane,
                  fired |-> FALSE] : r \in Arming(p)}
     IN  /\ timers' = [timers EXCEPT ![p] = (@ \ Cleared(p, Unowed(p))) \cup set]
         /\ armed' = [armed EXCEPT ![p] =
                        [i \in Ids |-> IF \E t \in set : t.id = i
                                         THEN (CHOOSE t \in set : t.id = i).h
                                       ELSE IF i \in Unowed(p) THEN 0
                                       ELSE @[i]]]
  /\ called' = [called EXCEPT ![p] =
                  [i \in Ids |-> IF \E r \in Fresh(p) : r.id = i /\ Lapsed(r)
                                   THEN (CHOOSE r \in Fresh(p) : r.id = i).due
                                   ELSE @[i]]]
  /\ ended' = [ended EXCEPT ![p] = @ \cup {r.id : r \in {q \in Fresh(p) : Over(q)}}]
  /\ scan' = [scan EXCEPT ![p] = NoScan]
  /\ unread' = [unread EXCEPT ![p] =
                  (IF Cardinality(scan[p].page) = BATCH THEN @ ELSE Ids)
                    \ {r.id : r \in scan[p].page}]
  /\ UNCHANGED <<clock, store, process, settling, strays, made, refused>>

\* disarm: the rows p holds in lanes it does not own any more.
Lost(p, ls) == {t.id : t \in {u \in timers[p] : u.h = armed[p][u.id] /\ u.lane \notin ls}}

\* The timers are cleared and the entries are left.
DroppedTimers(p, ids) ==
  /\ timers' = [timers EXCEPT ![p] = @ \ Cleared(p, ids)]
  /\ UNCHANGED armed

Dropped(p, ids) ==
  /\ timers' = [timers EXCEPT ![p] = @ \ Cleared(p, ids)]
  /\ armed' = [armed EXCEPT ![p] = [i \in Ids |-> IF i \in ids THEN 0 ELSE @[i]]]

-----------------------------------------------------------------------------
(* Dispatching *)

\* The timer of a row fires and its call goes out, unless the dispatcher closes.
Fire(p, t) ==
  /\ t \in timers[p] /\ ~t.fired
  /\ t.due <= clock
  /\ status[p] \in {"open", "quiet"}
  /\ timers' = [timers EXCEPT ![p] = (@ \ {t}) \cup {[t EXCEPT !.fired = TRUE]}]
  /\ UNCHANGED <<clock, store, process, armed, disposed, passes, strays, history>>

FireClosing(p, t) ==
  /\ t \in timers[p] /\ ~t.fired
  /\ t.due <= clock
  /\ status[p] = "closing"
  /\ timers' = [timers EXCEPT ![p] = @ \ {t}]
  /\ armed' = [armed EXCEPT ![p][t.id] = 0]
  /\ UNCHANGED <<clock, store, process, disposed, passes, strays, history>>

\* A call is over: whatever `armed` holds for its row is let go of.
CallOver(p, t) ==
  /\ t \in timers[p] /\ t.fired
  /\ timers' = [timers EXCEPT ![p] = @ \ {t}]
  /\ armed' = [armed EXCEPT ![p][t.id] = 0]
  /\ UNCHANGED <<clock, store, process, passes, strays, unread>>

\* The broker took the task.
Taken(p, t) ==
  /\ CallOver(p, t)
  /\ made' = made \cup {<<t.id, t.due>>}
  /\ called' = [called EXCEPT ![p][t.id] = t.due]
  /\ UNCHANGED <<ended, refused>>

\* The target will never take it: a schedule is over, another call is settled.
Refused(p, t) ==
  /\ t.id \in Misfits
  /\ CallOver(p, t)
  /\ refused' = refused \cup {t.id}
  /\ IF t.id \in Recurring
       THEN /\ ended' = [ended EXCEPT ![p] = @ \cup {t.id}]
            /\ UNCHANGED called
       ELSE /\ called' = [called EXCEPT ![p][t.id] = t.due]
            /\ UNCHANGED ended
  /\ UNCHANGED made

\* It failed on the way out, or its answer was lost: the next scan calls again.
Failed(p, t) ==
  /\ CallOver(p, t)
  /\ \/ UNCHANGED made
     \/ made' = made \cup {<<t.id, t.due>>}
  /\ UNCHANGED <<disposed, refused>>

-----------------------------------------------------------------------------
(* The process *)

\* open: the interval is set and the atom's listener is called as it is added,
\* which scans at once.
Open(p) ==
  /\ status[p] = "down"
  /\ status' = [status EXCEPT ![p] = "open"]
  /\ Ticked(p, lanes[p])
  /\ UNCHANGED <<clock, store, lanes, held, disposed, strays, history>>

\* What a dispatcher does with the lanes it is told of: what is armed for any other is
\* dropped, and a scan begins.
Adopt(p, ls) == Dropped(p, Lost(p, ls)) /\ Ticked(p, ls)

\* The group's loop yields: the claim changes, and an open dispatcher adopts it.
Assign(p, ls) ==
  /\ status[p] # "down"
  /\ lanes[p] # ls
  /\ lanes' = [lanes EXCEPT ![p] = ls]
  /\ IF status[p] = "open" THEN Adopt(p, ls) ELSE UNCHANGED <<held, passes>>
  /\ UNCHANGED <<clock, store, status, disposed, strays, history>>

\* What pause and close share: what is armed is disarmed, and what was called is
\* settled.  A scan that is running is not stopped.
Stopped(p) ==
  /\ Dropped(p, Ids)
  /\ settling' = [settling EXCEPT ![p]["stop"] = IF Nothing(p) THEN NoSettle ELSE Owed(p)]
  /\ UNCHANGED <<clock, store, lanes, disposed, scan, history>>

Pause(p) ==
  /\ Halts
  /\ status[p] = "open"
  /\ status' = [status EXCEPT ![p] = "quiet"]
  /\ Stopped(p)
  /\ UNCHANGED strays

\* unpause: a halt waits for the pause to return before it can be called off. The
\* dispatcher listens to its claim again and is told of it at once.
Unpause(p) ==
  /\ status[p] = "quiet"
  /\ settling[p]["stop"] = NoSettle
  /\ status' = [status EXCEPT ![p] = "open"]
  /\ Adopt(p, lanes[p])
  /\ UNCHANGED <<clock, store, lanes, disposed, strays, history>>

\* A pause that is still settling matters no more than by what it may write.
Close(p) ==
  /\ status[p] \in {"open", "quiet"}
  /\ status' = [status EXCEPT ![p] = "closing"]
  /\ LeftBehind(p, {"stop"})
  /\ Stopped(p)

\* The process ends, closed or crashed, with all it had in memory; a call on its
\* way may have been taken, and a settle on its way may land.
Exit(p) ==
  /\ status[p] # "down"
  /\ status' = [status EXCEPT ![p] = "down"]
  /\ lanes' = [lanes EXCEPT ![p] = {}]
  /\ armed' = [armed EXCEPT ![p] = [i \in Ids |-> 0]]
  /\ timers' = [timers EXCEPT ![p] = {}]
  /\ called' = [called EXCEPT ![p] = NoSettle.made]
  /\ ended' = [ended EXCEPT ![p] = {}]
  /\ scan' = [scan EXCEPT ![p] = NoScan]
  /\ settling' = [settling EXCEPT ![p] = [w \in Waiters |-> NoSettle]]
  /\ LeftBehind(p, Waiters)
  /\ \E sent \in SUBSET {<<t.id, t.due>> : t \in {u \in timers[p] : u.fired}} :
       made' = made \cup sent
  /\ unread' = [unread EXCEPT ![p] = {}]
  /\ UNCHANGED <<clock, store, refused>>

Advance ==
  /\ clock < Horizon
  /\ clock' = clock + 1
  /\ UNCHANGED <<store, process, held, disposed, passes, strays, history>>

-----------------------------------------------------------------------------
Init ==
  /\ clock = 0
  /\ rows = [i \in Ids |-> [state |-> "none", due |-> 0, lane |-> CHOOSE l \in Lanes : TRUE]]
  /\ hand = [h \in Handers |-> NoHand]
  /\ status = [p \in Replicas |-> "down"]
  /\ lanes = [p \in Replicas |-> {}]
  /\ armed = [p \in Replicas |-> [i \in Ids |-> 0]]
  /\ timers = [p \in Replicas |-> {}]
  /\ called = [p \in Replicas |-> NoSettle.made]
  /\ ended = [p \in Replicas |-> {}]
  /\ scan = [p \in Replicas |-> NoScan]
  /\ settling = [p \in Replicas |-> [w \in Waiters |-> NoSettle]]
  /\ strays = {}
  /\ made = {}
  /\ refused = {}
  /\ unread = [p \in Replicas |-> {}]

Calls(p) == \E t \in timers[p] : \/ Fire(p, t)
                                 \/ FireClosing(p, t)
                                 \/ Taken(p, t)
                                 \/ Refused(p, t)
                                 \/ Failed(p, t)

Dispatcher(p) == \/ Open(p)
                 \/ Tick(p)
                 \/ Read(p)
                 \/ ReadFailed(p)
                 \/ Arm(p)
                 \/ \E w \in Waiters : Land(p, w) \/ Settled(p, w) \/ SettleFailed(p, w)
                 \/ Calls(p)
                 \/ \E ls \in Assignments : Assign(p, ls)
                 \/ Pause(p)
                 \/ Unpause(p)
                 \/ Close(p)
                 \/ Exit(p)

Next == \/ \E i \in Ids : Delay(i) \/ Cancel(i)
        \/ \E h \in Handers : (\E i \in Ids : Observe(h, i)) \/ Ensure(h) \/ Resume(h)
        \/ \E p \in Replicas : Dispatcher(p)
        \/ \E s \in strays : Stray(s)
        \/ Advance

Spec == Init /\ [][Next]_vars

\* The clock and the intervals go on, and a timer that is due fires.  The store and
\* the broker may fail any number of times, and not always.
Fairness ==
  /\ WF_vars(Advance)
  /\ \A p \in Replicas :
       /\ WF_vars(Tick(p))
       /\ SF_vars(Read(p))
       /\ SF_vars(Arm(p))
       /\ \A w \in Waiters : SF_vars(Land(p, w)) /\ SF_vars(Settled(p, w))
       /\ \A i \in Ids : /\ WF_vars(\E t \in timers[p] : t.id = i /\ Fire(p, t))
                         /\ SF_vars(\E t \in timers[p] : t.id = i /\ Taken(p, t))

FairSpec == Spec /\ Fairness

-----------------------------------------------------------------------------
(* What is checked *)

Moments == Nat

Settles == [pc : {"none", "sent", "landed"}, made : [Ids -> Moments \cup {Absent}],
            ended : SUBSET Recurring]

Timers == [id : Ids, h : 1 .. Handles, due : Moments, lane : Lanes, fired : BOOLEAN]

Scans == [pc : {"idle", "settle", "read", "arm"}, lanes : SUBSET Lanes, until : Moments,
          page : SUBSET [id : Ids, due : Moments, lane : Lanes]]

\* The types of the state: Dispatcher.ts and the rows of the metronome.
TypeOK ==
  /\ clock \in Moments
  /\ rows \in [Ids -> [state : {"none", "live", "dead"}, due : Moments, lane : Lanes]]
  /\ hand \in [Handers -> [pc : {"idle", "ensure", "resume"}, id : Recurring \cup {Absent},
                           due : Moments, lane : Lanes \cup {Absent}]]
  /\ status \in [Replicas -> {"down", "open", "quiet", "closing"}]
  /\ lanes \in [Replicas -> SUBSET Lanes]
  /\ armed \in [Replicas -> [Ids -> 0 .. Handles]]
  /\ timers \in [Replicas -> SUBSET Timers]
  /\ called \in [Replicas -> [Ids -> Moments \cup {Absent}]]
  /\ ended \in [Replicas -> SUBSET Recurring]
  /\ scan \in [Replicas -> Scans]
  /\ settling \in [Replicas -> [Waiters -> Settles]]
  /\ strays \subseteq Settles
  /\ made \subseteq Ids \X Moments
  /\ refused \subseteq Ids
  /\ unread \in [Replicas -> SUBSET Ids]

\* The occurrence a row waits for has been made, is past its bound or past the
\* end of its schedule, or is one the target will never take.
Disposed(i, due) == \/ <<i, due>> \in made
                    \/ Bound(i, due) <= clock
                    \/ Expires(i, due) <= clock
                    \/ i \in refused

\* A row leaves the occurrence it waits for only once that one is disposed of, or
\* the row is cancelled: whatever settle arrives, twice, late or from a replica
\* whose lane changed hands (settle.js), and however a schedule is handed over
\* again (Scheduler.schedule).
NothingSkipped ==
  [][\A i \in Ids : rows[i].state = "live" /\ rows'[i] # rows[i]
       => Disposed(i, rows[i].due) \/ Cancel(i)]_vars

\* What `armed` holds is a timer or a call of that row in this process: an entry
\* with neither would keep the row from ever being armed again (Dispatcher.arm).
InHand ==
  \A p \in Replicas, i \in Ids :
    armed[p][i] # 0 => \E t \in timers[p] : t.id = i /\ t.h = armed[p][i]

\* A row is held only for as long as the store keeps saying it is owed: once a
\* scan that was not cut short has not read a row, no timer of this process is
\* set for it (Dispatcher.forget).  One already due is about to fire regardless.
HeldWhileOwed ==
  \A p \in Replicas : \A t \in timers[p] :
    ~t.fired /\ t.due > clock => t.id \notin unread[p]

Keeps(p) == status[p] = "open" /\ lanes[p] = Lanes

\* Once a replica stays open and keeps the lanes, every occurrence that comes due
\* is disposed of, whatever crashed, closed, was paused or failed before: a crash
\* loses the timers and nothing else (Dispatcher.scan).
Disposal ==
  (\E p \in Replicas : <>[]Keeps(p))
    => <>[](\A i \in Ids : rows[i].state = "live" => rows[i].due > Horizon)
=============================================================================
