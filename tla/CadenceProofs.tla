---------------------------- MODULE CadenceProofs ----------------------------
(***************************************************************************)
(* Cadence for any replicas, rows, lanes, claims and bounds: no occurrence  *)
(* is left that was not disposed of, where one caller at a time hands a     *)
(* schedule over; no entry is left without a timer; and a delayed call is   *)
(* given up once the store says that nothing owes it.                       *)
(***************************************************************************)
EXTENDS Cadence, WellFoundedInduction, TLAPS

-----------------------------------------------------------------------------
(* Facts about the operators *)

\* A set of natural numbers has a least one, and Least is it.
LEMMA LeastOf ==
  ASSUME NEW S, S \subseteq Nat, S # {}
  PROVE  Least(S) \in S /\ \A m \in S : Least(S) <= m
<1>0. IsWellFoundedOn({ss \in Nat \X Nat : ss[1] < ss[2]}, Nat)
  BY NatLessThanWellFounded, Zenon DEF OpToRel
<1>1. PICK n \in S : \A m \in S : ~(<<m, n>> \in {ss \in Nat \X Nat : ss[1] < ss[2]})
  BY <1>0, WFMin, Zenon
<1>2. \A m \in S : n <= m
  <2> SUFFICES ASSUME NEW m \in S, m < n PROVE FALSE
    OBVIOUS
  <2>1. <<m, n>> \in Nat \X Nat
    OBVIOUS
  <2>2. <<m, n>>[1] < <<m, n>>[2]
    OBVIOUS
  <2>3. QED
    BY <1>1, <2>1, <2>2, Zenon
<1>3. QED
  BY <1>2 DEF Least

\* The occurrence after a moment is a moment.
LEMMA FollowingTyped == \A n : Following(n) \in Nat
<1> SUFFICES ASSUME NEW n PROVE Following(n) \in Nat
  OBVIOUS
<1>1. {t \in Calendar : t > n} \subseteq Nat
  BY CadenceAssumption
<1>2. QED
  BY <1>1, LeastOf DEF Following, Never

\* So are the bound of an occurrence and the end of a row.
LEMMA BoundTyped ==
  ASSUME NEW i \in Ids, NEW d \in Nat
  PROVE  Bound(i, d) \in Int /\ Expires(i, d) \in Int
BY CadenceAssumption, FollowingTyped DEF Bound, Expires, Absent, Never

RowType == [state : {"none", "live", "dead"}, due : Moments, lane : Lanes]

HandType == [pc : {"idle", "ensure", "resume"}, id : Recurring \cup {Absent},
             due : Moments, lane : Lanes \cup {Absent}]

\* What settling makes of a row is a row.
LEMMA AfterTyped ==
  ASSUME clock \in Nat, NEW i \in Ids, NEW row \in RowType, NEW s \in Settles
  PROVE  After(i, row, s) \in RowType
<1>1. \A n : Following(n) \in Nat
  BY FollowingTyped
<1>2. QED
  BY <1>1 DEF After, RowType, Moments

\* What stands for no settle, no scan and no hand-over has the type of one.
LEMMA NothingTyped == NoSettle \in Settles /\ NoScan \in Scans /\ NoHand \in HandType
<1>1. NoSettle.made \in [Ids -> Moments \cup {Absent}]
  BY DEF NoSettle
<1>2. QED
  BY <1>1 DEF NoSettle, NoScan, NoHand, Settles, Scans, HandType, Moments

\* What is remembered makes a settle.
LEMMA OwedTyped ==
  ASSUME TypeOK, NEW p \in Replicas
  PROVE  Owed(p) \in Settles
BY DEF Owed, TypeOK, Settles

\* The reading a scan goes on to is a scan.
LEMMA ReadingTyped ==
  ASSUME clock \in Nat, NEW ls \in SUBSET Lanes
  PROVE  Reading(ls) \in Scans
<1>1. clock + 2 * DISCRETENESS \in Nat
  BY CadenceAssumption
<1>2. QED
  BY <1>1, NothingTyped DEF Reading, NoScan, Scans, Moments

\* A tick leaves the scan and the settles in their types.
LEMMA TickedTyped ==
  ASSUME TypeOK, NEW p \in Replicas, NEW ls \in SUBSET Lanes, Ticked(p, ls)
  PROVE  /\ scan' \in [Replicas -> Scans]
         /\ settling' \in [Replicas -> [Waiters -> Settles]]
<1>0. /\ clock \in Nat
      /\ scan \in [Replicas -> Scans]
      /\ settling \in [Replicas -> [Waiters -> Settles]]
  BY DEF TypeOK, Moments
<1>1. CASE scan[p].pc # "idle"
  BY <1>0, <1>1 DEF Ticked, passes
<1>2. CASE scan[p].pc = "idle" /\ Nothing(p)
  <2>1. Reading(ls) \in Scans
    BY <1>0, ReadingTyped
  <2>2. QED
    BY <1>0, <1>2, <2>1 DEF Ticked
<1>3. CASE scan[p].pc = "idle" /\ ~Nothing(p)
  <2>1. Owed(p) \in Settles
    BY OwedTyped
  <2>2. settling' = [settling EXCEPT ![p] = [@ EXCEPT !["scan"] = Owed(p)]]
    BY <1>3 DEF Ticked
  <2>3. [settling[p] EXCEPT !["scan"] = Owed(p)] \in [Waiters -> Settles]
    BY <1>0, <2>1
  <2>4. scan' = [scan EXCEPT ![p] = [@ EXCEPT !.pc = "settle"]]
    BY <1>3 DEF Ticked
  <2>5. [scan[p] EXCEPT !.pc = "settle"] \in Scans
    BY <1>0 DEF Scans
  <2>6. QED
    BY <1>0, <2>2, <2>3, <2>4, <2>5
<1>4. QED
  BY <1>1, <1>2, <1>3

\* What is left behind is settles that were under way.
LEMMA LeftBehindTyped ==
  ASSUME TypeOK, NEW p \in Replicas, NEW ws \in SUBSET Waiters, LeftBehind(p, ws)
  PROVE  /\ strays' \subseteq Settles
         /\ \A s \in strays' : s \in strays \/ \E w \in Waiters : s = settling[p][w]
<1>1. PICK late \in SUBSET {settling[p][w] : w \in {v \in ws : settling[p][v].pc = "sent"}} :
        strays' = strays \cup late
  BY DEF LeftBehind
<1>2. QED
  BY <1>1 DEF TypeOK

\* Disarming leaves timers and handles in their types.
LEMMA DroppedTyped ==
  ASSUME TypeOK, NEW p \in Replicas, NEW ids, Dropped(p, ids)
  PROVE  /\ timers' \in [Replicas -> SUBSET Timers]
         /\ armed' \in [Replicas -> [Ids -> 0 .. Handles]]
<1>1. timers' \in [Replicas -> SUBSET Timers]
  BY DEF Dropped, TypeOK
<1>2. [i \in Ids |-> IF i \in ids THEN 0 ELSE armed[p][i]] \in [Ids -> 0 .. Handles]
  BY CadenceAssumption DEF TypeOK
<1>3. armed' = [armed EXCEPT ![p] = [i \in Ids |-> IF i \in ids THEN 0 ELSE armed[p][i]]]
  BY DEF Dropped
<1>4. QED
  BY <1>1, <1>2, <1>3 DEF TypeOK

-----------------------------------------------------------------------------
(* Type correctness *)

\* What is armed of a page is a set of timers, one handle each.
LEMMA ArmingTyped ==
  ASSUME TypeOK, NEW p \in Replicas, \A r \in Arming(p) : Free(p, r.id) # {}
  PROVE  \A r \in Arming(p) :
           [id |-> r.id, h |-> Least(Free(p, r.id)), due |-> r.due, lane |-> r.lane,
            fired |-> FALSE] \in Timers
<1> SUFFICES ASSUME NEW r \in Arming(p)
             PROVE  [id |-> r.id, h |-> Least(Free(p, r.id)), due |-> r.due, lane |-> r.lane,
                     fired |-> FALSE] \in Timers
  OBVIOUS
<1>1. Free(p, r.id) \subseteq 1 .. Handles
  BY DEF Free
<1>2. Free(p, r.id) \subseteq Nat
  BY <1>1, CadenceAssumption
<1>3. Least(Free(p, r.id)) \in 1 .. Handles
  BY <1>1, <1>2, LeastOf
<1>4. scan[p] \in Scans
  BY DEF TypeOK
<1>5. r \in [id : Ids, due : Moments, lane : Lanes]
  BY <1>4 DEF Arming, Fresh, Scans
<1>6. QED
  BY <1>3, <1>5 DEF Timers

\* A hand-over under way is of a schedule, to a lane.
HandKnown == \A h \in Handers :
               hand[h].pc # "idle" => hand[h].id \in Recurring /\ hand[h].lane \in Lanes

\* Every step of the callers, the store and the dispatchers leaves the variables in
\* their types.
LEMMA TypeStep == TypeOK /\ HandKnown /\ [Next]_vars => TypeOK' /\ HandKnown'
<1> SUFFICES ASSUME TypeOK, HandKnown, [Next]_vars PROVE TypeOK' /\ HandKnown'
  OBVIOUS
<1> USE DEF store, process, held, disposed, passes, history
<1>0. /\ clock \in Nat
      /\ rows \in [Ids -> RowType]
      /\ hand \in [Handers -> HandType]
      /\ timers \in [Replicas -> SUBSET Timers]
      /\ armed \in [Replicas -> [Ids -> 0 .. Handles]]
      /\ called \in [Replicas -> [Ids -> Moments \cup {Absent}]]
      /\ ended \in [Replicas -> SUBSET Recurring]
      /\ scan \in [Replicas -> Scans]
      /\ settling \in [Replicas -> [Waiters -> Settles]]
      /\ strays \subseteq Settles
  BY DEF TypeOK, RowType, HandType, Moments
<1>1. ASSUME NEW i \in Ids, Delay(i) PROVE TypeOK' /\ HandKnown'
  <2>1. PICK interval \in Intervals, l \in Lanes :
          rows' = [rows EXCEPT ![i] = [state |-> "live", due |-> clock + interval, lane |-> l]]
    BY <1>1 DEF Delay
  <2>2. clock + interval \in Nat
    BY <1>0, CadenceAssumption
  <2>3. rows' \in [Ids -> RowType]
    BY <1>0, <2>1, <2>2 DEF RowType, Moments
  <2>4. QED
    BY <1>1, <2>3 DEF Delay, TypeOK, RowType, HandKnown
<1>2. ASSUME NEW i \in Ids, Cancel(i) PROVE TypeOK' /\ HandKnown'
  <2>1. rows' = [rows EXCEPT ![i] = [@ EXCEPT !.state = "dead"]]
    BY <1>2 DEF Cancel
  <2>2. rows' \in [Ids -> RowType]
    BY <1>0, <2>1 DEF RowType
  <2>3. QED
    BY <1>2, <2>2 DEF Cancel, TypeOK, RowType, HandKnown
<1>3. ASSUME NEW h \in Handers, NEW i \in Ids, Observe(h, i) PROVE TypeOK' /\ HandKnown'
  <2>1. PICK l \in Lanes :
          hand' = [hand EXCEPT ![h] = [pc   |-> IF rows[i].state = "dead" THEN "resume" ELSE "ensure",
                                       id   |-> i,
                                       due  |-> Following(clock),
                                       lane |-> l]]
    BY <1>3 DEF Observe
  <2>2. i \in Recurring /\ Following(clock) \in Nat
    BY <1>3, FollowingTyped DEF Observe
  <2>3. hand' \in [Handers -> HandType]
    BY <1>0, <2>1, <2>2 DEF HandType, Moments
  <2>4. HandKnown'
    BY <1>0, <2>1, <2>2 DEF HandKnown
  <2>5. QED
    BY <1>3, <2>3, <2>4 DEF Observe, TypeOK, HandType
<1>4. ASSUME NEW h \in Handers, Ensure(h) PROVE TypeOK' /\ HandKnown'
  <2>1. hand[h].id \in Ids /\ hand[h].id \in Recurring /\ hand[h].lane \in Lanes /\ hand[h].due \in Nat
    BY <1>0, <1>4, CadenceAssumption DEF Ensure, HandKnown, HandType, Moments
  <2>2. rows' \in [Ids -> RowType]
    BY <1>0, <1>4, <2>1 DEF Ensure, RowType, Moments
  <2>3. hand' = [hand EXCEPT ![h] = IF rows[hand[h].id].state = "dead"
                                      THEN [hand[h] EXCEPT !.pc = "resume"] ELSE NoHand]
    BY <1>4 DEF Ensure
  <2>4. [hand[h] EXCEPT !.pc = "resume"] \in HandType /\ NoHand \in HandType
    BY <1>0, NothingTyped DEF HandType
  <2>5. hand' \in [Handers -> HandType]
    BY <1>0, <2>3, <2>4
  <2>6. HandKnown'
    BY <1>0, <2>1, <2>3 DEF HandKnown, NoHand, HandType
  <2>7. QED
    BY <1>4, <2>2, <2>5, <2>6 DEF Ensure, TypeOK, RowType, HandType
<1>5. ASSUME NEW h \in Handers, Resume(h) PROVE TypeOK' /\ HandKnown'
  <2>1. hand[h].id \in Ids /\ hand[h].lane \in Lanes /\ hand[h].due \in Nat
    BY <1>0, <1>5, CadenceAssumption DEF Resume, HandKnown, HandType, Moments
  <2>2. rows' \in [Ids -> RowType]
    BY <1>0, <1>5, <2>1 DEF Resume, RowType, Moments
  <2>3. hand' \in [Handers -> HandType]
    BY <1>0, <1>5, NothingTyped DEF Resume
  <2>4. HandKnown'
    BY <1>0, <1>5 DEF Resume, HandKnown, NoHand
  <2>5. QED
    BY <1>5, <2>2, <2>3, <2>4 DEF Resume, TypeOK, RowType, HandType
<1>6. ASSUME NEW s \in Settles, rows' = [i \in Ids |-> After(i, rows[i], s)]
      PROVE  rows' \in [Ids -> RowType]
  BY <1>0, <1>6, AfterTyped
<1>7. ASSUME NEW p \in Replicas, NEW w \in Waiters, NEW s \in Settles,
             settling' = [settling EXCEPT ![p][w] = s]
      PROVE  settling' \in [Replicas -> [Waiters -> Settles]]
  BY <1>0, <1>7
<1>8. ASSUME NEW p \in Replicas, NEW w \in Waiters, Land(p, w) PROVE TypeOK' /\ HandKnown'
  <2>1. settling[p][w] \in Settles
    BY <1>0
  <2>2. rows' \in [Ids -> RowType]
    BY <1>6, <1>8, <2>1 DEF Land
  <2>3. PICK s : s = [settling[p][w] EXCEPT !.pc = "landed"]
    OBVIOUS
  <2>4. s \in Settles
    BY <2>1, <2>3 DEF Settles
  <2>5. settling' = [settling EXCEPT ![p][w] = s]
    BY <1>0, <1>8, <2>3 DEF Land
  <2>6. settling' \in [Replicas -> [Waiters -> Settles]]
    BY <1>7, <2>4, <2>5
  <2>7. QED
    BY <1>8, <2>2, <2>6 DEF Land, TypeOK, RowType, HandKnown
<1>9. ASSUME NEW s \in strays, Stray(s) PROVE TypeOK' /\ HandKnown'
  <2>1. rows' \in [Ids -> RowType]
    BY <1>0, <1>6, <1>9 DEF Stray
  <2>2. QED
    BY <1>9, <2>1 DEF Stray, TypeOK, RowType, HandKnown
<1>10. ASSUME NEW p \in Replicas, NEW w \in Waiters, Settled(p, w) PROVE TypeOK' /\ HandKnown'
  <2>1. settling' \in [Replicas -> [Waiters -> Settles]]
    BY <1>7, <1>10, NothingTyped DEF Settled
  <2>2. Reading(lanes[p]) \in Scans
    BY <1>0, ReadingTyped DEF TypeOK
  <2>3. scan' \in [Replicas -> Scans]
    BY <1>0, <1>10, <2>2 DEF Settled
  <2>4. /\ called' = [called EXCEPT ![p] = [i \in Ids |-> IF settling[p][w].made[i] # Absent
                                                           THEN Absent ELSE called[p][i]]]
        /\ ended' = [ended EXCEPT ![p] = @ \ settling[p][w].ended]
    BY <1>10 DEF Settled, Forgotten
  <2>5. [i \in Ids |-> IF settling[p][w].made[i] # Absent THEN Absent ELSE called[p][i]]
          \in [Ids -> Moments \cup {Absent}]
    BY <1>0
  <2>6. /\ called' \in [Replicas -> [Ids -> Moments \cup {Absent}]]
        /\ ended' \in [Replicas -> SUBSET Recurring]
    BY <1>0, <2>4, <2>5
  <2>7. QED
    BY <1>10, <2>1, <2>3, <2>6 DEF Settled, TypeOK, HandKnown
<1>11. ASSUME NEW p \in Replicas, NEW w \in Waiters, SettleFailed(p, w)
       PROVE  TypeOK' /\ HandKnown'
  <2>1. settling' \in [Replicas -> [Waiters -> Settles]]
    BY <1>7, <1>11, NothingTyped DEF SettleFailed
  <2>2. scan' \in [Replicas -> Scans]
    BY <1>0, <1>11, NothingTyped DEF SettleFailed
  <2>3. strays' \subseteq Settles
    BY <1>11, LeftBehindTyped DEF SettleFailed
  <2>4. QED
    BY <1>11, <2>1, <2>2, <2>3 DEF SettleFailed, TypeOK, HandKnown
<1>12. ASSUME NEW p \in Replicas, Tick(p) PROVE TypeOK' /\ HandKnown'
  <2>1. lanes[p] \in SUBSET Lanes
    BY DEF TypeOK
  <2>2. scan' \in [Replicas -> Scans] /\ settling' \in [Replicas -> [Waiters -> Settles]]
    BY <1>12, <2>1, TickedTyped DEF Tick
  <2>3. QED
    BY <1>12, <2>2 DEF Tick, TypeOK, HandKnown
<1>13. ASSUME NEW p \in Replicas, Read(p) PROVE TypeOK' /\ HandKnown'
  <2>1. PICK page \in Enumerated(scan[p].lanes, scan[p].until) :
          scan' = [scan EXCEPT ![p] = [@ EXCEPT !.pc = "arm",
                     !.page = {[id |-> i, due |-> rows[i].due, lane |-> rows[i].lane] : i \in page}]]
    BY <1>13 DEF Read
  <2>2. page \subseteq Ids
    BY DEF Enumerated, Matching
  <2>3. PICK read : read = {[id |-> i, due |-> rows[i].due, lane |-> rows[i].lane] : i \in page}
    OBVIOUS
  <2>4. read \in SUBSET [id : Ids, due : Moments, lane : Lanes]
    BY <1>0, <2>2, <2>3 DEF RowType
  <2>5. [scan[p] EXCEPT !.pc = "arm", !.page = read] \in Scans
    BY <1>0, <2>4 DEF Scans
  <2>6. scan' \in [Replicas -> Scans]
    BY <1>0, <2>1, <2>3, <2>5
  <2>7. QED
    BY <1>13, <2>6 DEF Read, TypeOK, HandKnown
<1>14. ASSUME NEW p \in Replicas, ReadFailed(p) PROVE TypeOK' /\ HandKnown'
  <2>1. scan' \in [Replicas -> Scans]
    BY <1>0, <1>14, NothingTyped DEF ReadFailed
  <2>2. QED
    BY <1>14, <2>1 DEF ReadFailed, TypeOK, HandKnown
<1>15. ASSUME NEW p \in Replicas, Arm(p) PROVE TypeOK' /\ HandKnown'
  <2>1. PICK set : set = {[id |-> r.id, h |-> Least(Free(p, r.id)), due |-> r.due,
                           lane |-> r.lane, fired |-> FALSE] : r \in Arming(p)}
    OBVIOUS
  <2>2. set \subseteq Timers
    BY <1>15, <2>1, ArmingTyped DEF Arm
  <2>3. /\ timers' = [timers EXCEPT ![p] = (@ \ Cleared(p, Unowed(p))) \cup set]
        /\ armed' = [armed EXCEPT ![p] =
                       [i \in Ids |-> IF \E t \in set : t.id = i
                                        THEN (CHOOSE t \in set : t.id = i).h
                                      ELSE IF i \in Unowed(p) THEN 0
                                      ELSE armed[p][i]]]
    BY <1>15, <2>1 DEF Arm
  <2>4. timers' \in [Replicas -> SUBSET Timers]
    BY <1>0, <2>2, <2>3
  <2>5. \A i \in Ids : (\E t \in set : t.id = i) => (CHOOSE t \in set : t.id = i).h \in 0 .. Handles
    BY <2>2 DEF Timers
  <2>6. 0 \in 0 .. Handles
    BY CadenceAssumption
  <2>7. armed' \in [Replicas -> [Ids -> 0 .. Handles]]
    <3>1. [i \in Ids |-> IF \E t \in set : t.id = i THEN (CHOOSE t \in set : t.id = i).h
                         ELSE IF i \in Unowed(p) THEN 0 ELSE armed[p][i]] \in [Ids -> 0 .. Handles]
      BY <1>0, <2>5, <2>6
    <3>2. QED
      BY <1>0, <2>3, <3>1
  <2>8. Fresh(p) \subseteq [id : Ids, due : Moments, lane : Lanes]
    BY <1>0 DEF Fresh, Scans
  <2>9. called' \in [Replicas -> [Ids -> Moments \cup {Absent}]]
    <3>1. \A i \in Ids : (\E r \in Fresh(p) : r.id = i /\ Lapsed(r))
                           => (CHOOSE r \in Fresh(p) : r.id = i).due \in Moments
      BY <2>8
    <3>2. called' = [called EXCEPT ![p] =
                       [i \in Ids |-> IF \E r \in Fresh(p) : r.id = i /\ Lapsed(r)
                                        THEN (CHOOSE r \in Fresh(p) : r.id = i).due
                                        ELSE called[p][i]]]
      BY <1>15 DEF Arm
    <3>3. [i \in Ids |-> IF \E r \in Fresh(p) : r.id = i /\ Lapsed(r)
                           THEN (CHOOSE r \in Fresh(p) : r.id = i).due
                           ELSE called[p][i]] \in [Ids -> Moments \cup {Absent}]
      BY <1>0, <3>1
    <3>4. QED
      BY <1>0, <3>2, <3>3
  <2>10. ended' \in [Replicas -> SUBSET Recurring]
    BY <1>0, <1>15 DEF Arm, Over
  <2>11. scan' \in [Replicas -> Scans]
    BY <1>0, <1>15, NothingTyped DEF Arm
  <2>12. unread' \in [Replicas -> SUBSET Ids]
    BY <1>15 DEF Arm, TypeOK
  <2>13. UNCHANGED <<clock, store, process, settling, strays, made, refused>>
    BY <1>15 DEF Arm
  <2>14. QED
    BY <2>4, <2>7, <2>9, <2>10, <2>11, <2>12, <2>13 DEF TypeOK, HandKnown
<1>16. ASSUME NEW p \in Replicas, NEW t \in timers[p], Fire(p, t) PROVE TypeOK' /\ HandKnown'
  <2>1. t \in Timers
    BY <1>0
  <2>2. [t EXCEPT !.fired = TRUE] \in Timers
    BY <2>1 DEF Timers
  <2>3. timers' \in [Replicas -> SUBSET Timers]
    BY <1>0, <1>16, <2>2 DEF Fire
  <2>4. QED
    BY <1>16, <2>3 DEF Fire, TypeOK, HandKnown
<1>17. ASSUME NEW p \in Replicas, NEW t \in timers[p],
              timers' = [timers EXCEPT ![p] = @ \ {t}], armed' = [armed EXCEPT ![p][t.id] = 0]
       PROVE  /\ t.id \in Ids
              /\ t.due \in Moments
              /\ timers' \in [Replicas -> SUBSET Timers]
              /\ armed' \in [Replicas -> [Ids -> 0 .. Handles]]
  <2>1. t \in Timers
    BY <1>0
  <2>2. t.id \in Ids /\ t.due \in Moments
    BY <2>1 DEF Timers
  <2>3. 0 \in 0 .. Handles
    BY CadenceAssumption
  <2>4. armed' \in [Replicas -> [Ids -> 0 .. Handles]]
    BY <1>0, <1>17, <2>2, <2>3
  <2>5. QED
    BY <1>0, <1>17, <2>2, <2>4
<1>18. ASSUME NEW p \in Replicas, NEW t \in timers[p], FireClosing(p, t)
       PROVE  TypeOK' /\ HandKnown'
  <2>1. /\ timers' \in [Replicas -> SUBSET Timers]
        /\ armed' \in [Replicas -> [Ids -> 0 .. Handles]]
    BY <1>17, <1>18 DEF FireClosing
  <2>2. QED
    BY <1>18, <2>1 DEF FireClosing, TypeOK, HandKnown
<1>19. ASSUME NEW p \in Replicas, NEW t \in timers[p], CallOver(p, t),
              \/ UNCHANGED called
              \/ called' = [called EXCEPT ![p][t.id] = t.due],
              \/ UNCHANGED ended
              \/ ended' = [ended EXCEPT ![p] = @ \cup {t.id}] /\ t.id \in Recurring,
              made' = made \/ made' = made \cup {<<t.id, t.due>>},
              refused' = refused \/ refused' = refused \cup {t.id}
       PROVE  TypeOK' /\ HandKnown'
  <2>1. /\ t.id \in Ids
        /\ t.due \in Moments
        /\ timers' \in [Replicas -> SUBSET Timers]
        /\ armed' \in [Replicas -> [Ids -> 0 .. Handles]]
    BY <1>17, <1>19 DEF CallOver
  <2>2. called' \in [Replicas -> [Ids -> Moments \cup {Absent}]]
    <3>1. CASE UNCHANGED called
      BY <1>0, <3>1
    <3>2. CASE called' = [called EXCEPT ![p][t.id] = t.due]
      <4>1. [called[p] EXCEPT ![t.id] = t.due] \in [Ids -> Moments \cup {Absent}]
        BY <1>0, <2>1
      <4>2. called' = [called EXCEPT ![p] = [called[p] EXCEPT ![t.id] = t.due]]
        BY <3>2
      <4>3. QED
        BY <1>0, <4>1, <4>2
    <3>3. QED
      BY <1>19, <3>1, <3>2
  <2>3. ended' \in [Replicas -> SUBSET Recurring]
    <3>1. CASE UNCHANGED ended
      BY <1>0, <3>1
    <3>2. CASE t.id \in Recurring /\ ended' = [ended EXCEPT ![p] = @ \cup {t.id}]
      <4>1. ended[p] \cup {t.id} \in SUBSET Recurring
        BY <1>0, <3>2
      <4>2. QED
        BY <1>0, <3>2, <4>1
    <3>3. QED
      BY <1>19, <3>1, <3>2
  <2>4. made' \subseteq Ids \X Moments /\ refused' \subseteq Ids
    BY <1>19, <2>1 DEF TypeOK
  <2>5. UNCHANGED <<clock, store, process, passes, strays, unread>>
    BY <1>19 DEF CallOver
  <2>6. QED
    BY <2>1, <2>2, <2>3, <2>4, <2>5 DEF TypeOK, HandKnown
<1>20. ASSUME NEW p \in Replicas, NEW t \in timers[p],
              Taken(p, t) \/ Refused(p, t) \/ Failed(p, t)
       PROVE  TypeOK' /\ HandKnown'
  <2>1. CASE Taken(p, t)
    BY <1>19, <2>1 DEF Taken
  <2>2. CASE Refused(p, t)
    BY <1>19, <2>2 DEF Refused
  <2>3. CASE Failed(p, t)
    BY <1>19, <2>3 DEF Failed
  <2>4. QED
    BY <1>20, <2>1, <2>2, <2>3
<1>21. ASSUME NEW p \in Replicas, Open(p) \/ Unpause(p) PROVE TypeOK' /\ HandKnown'
  <2>1. lanes[p] \in SUBSET Lanes
    BY DEF TypeOK
  <2>2. scan' \in [Replicas -> Scans] /\ settling' \in [Replicas -> [Waiters -> Settles]]
    BY <1>21, <2>1, TickedTyped DEF Open, Unpause, Adopt
  <2>3. status' \in [Replicas -> {"down", "open", "quiet", "closing"}]
    BY <1>21 DEF Open, Unpause, TypeOK
  <2>4. UNCHANGED <<clock, store, lanes, disposed, strays, history>>
    BY <1>21 DEF Open, Unpause
  <2>5. timers' \in [Replicas -> SUBSET Timers] /\ armed' \in [Replicas -> [Ids -> 0 .. Handles]]
    <3>1. CASE Open(p)
      BY <1>0, <3>1 DEF Open, held
    <3>2. CASE Unpause(p)
      BY <3>2, DroppedTyped DEF Unpause, Adopt
    <3>3. QED
      BY <1>21, <3>1, <3>2
  <2>6. QED
    BY <2>2, <2>3, <2>4, <2>5 DEF TypeOK, HandKnown
<1>22. ASSUME NEW p \in Replicas, NEW ls \in Assignments, Assign(p, ls)
       PROVE  TypeOK' /\ HandKnown'
  <2>1. ls \in SUBSET Lanes
    BY CadenceAssumption
  <2>2. lanes' \in [Replicas -> SUBSET Lanes]
    BY <1>22, <2>1 DEF Assign, TypeOK
  <2>3. /\ timers' \in [Replicas -> SUBSET Timers]
        /\ armed' \in [Replicas -> [Ids -> 0 .. Handles]]
        /\ scan' \in [Replicas -> Scans]
        /\ settling' \in [Replicas -> [Waiters -> Settles]]
    <3>1. CASE status[p] = "open"
      BY <1>22, <2>1, <3>1, DroppedTyped, TickedTyped DEF Assign, Adopt
    <3>2. CASE status[p] # "open"
      BY <1>0, <1>22, <3>2 DEF Assign
    <3>3. QED
      BY <3>1, <3>2
  <2>4. UNCHANGED <<clock, store, status, disposed, strays, history>>
    BY <1>22 DEF Assign
  <2>5. QED
    BY <2>2, <2>3, <2>4 DEF TypeOK, HandKnown
<1>23. ASSUME NEW p \in Replicas, Stopped(p)
       PROVE  /\ timers' \in [Replicas -> SUBSET Timers]
              /\ armed' \in [Replicas -> [Ids -> 0 .. Handles]]
              /\ settling' \in [Replicas -> [Waiters -> Settles]]
  <2>1. /\ timers' \in [Replicas -> SUBSET Timers]
        /\ armed' \in [Replicas -> [Ids -> 0 .. Handles]]
    BY <1>23, DroppedTyped DEF Stopped
  <2>2. PICK s : s = IF Nothing(p) THEN NoSettle ELSE Owed(p)
    OBVIOUS
  <2>3. s \in Settles
    BY <2>2, NothingTyped, OwedTyped
  <2>4. settling' = [settling EXCEPT ![p]["stop"] = s]
    BY <1>23, <2>2 DEF Stopped
  <2>5. settling' \in [Replicas -> [Waiters -> Settles]]
    BY <1>7, <2>3, <2>4 DEF Waiters
  <2>6. QED
    BY <2>1, <2>5
<1>24. ASSUME NEW p \in Replicas, Pause(p) \/ Close(p) PROVE TypeOK' /\ HandKnown'
  <2>1. Stopped(p)
    BY <1>24 DEF Pause, Close
  <2>2. strays' \subseteq Settles
    <3>1. CASE Pause(p)
      BY <1>0, <3>1 DEF Pause
    <3>2. CASE Close(p)
      BY <3>2, LeftBehindTyped DEF Close, Waiters
    <3>3. QED
      BY <1>24, <3>1, <3>2
  <2>3. status' \in [Replicas -> {"down", "open", "quiet", "closing"}]
    BY <1>24 DEF Pause, Close, TypeOK
  <2>4. UNCHANGED <<clock, store, lanes, disposed, scan, history>>
    BY <2>1 DEF Stopped
  <2>5. QED
    BY <1>23, <2>1, <2>2, <2>3, <2>4 DEF TypeOK, HandKnown
<1>25. ASSUME NEW p \in Replicas, Exit(p) PROVE TypeOK' /\ HandKnown'
  <2>1. strays' \subseteq Settles
    BY <1>25, LeftBehindTyped DEF Exit
  <2>2. /\ scan' \in [Replicas -> Scans]
        /\ settling' \in [Replicas -> [Waiters -> Settles]]
    BY <1>0, <1>25, NothingTyped DEF Exit
  <2>3. called' \in [Replicas -> [Ids -> Moments \cup {Absent}]]
    BY <1>0, <1>25, NothingTyped DEF Exit, Settles
  <2>4. armed' \in [Replicas -> [Ids -> 0 .. Handles]]
    <3>1. [i \in Ids |-> 0] \in [Ids -> 0 .. Handles]
      BY CadenceAssumption
    <3>2. QED
      BY <1>0, <1>25, <3>1 DEF Exit
  <2>5. /\ timers' \in [Replicas -> SUBSET Timers]
        /\ ended' \in [Replicas -> SUBSET Recurring]
    BY <1>0, <1>25 DEF Exit
  <2>6. made' \subseteq Ids \X Moments
    <3>1. PICK sent \in SUBSET {<<t.id, t.due>> : t \in {u \in timers[p] : u.fired}} :
            made' = made \cup sent
      BY <1>25 DEF Exit
    <3>2. \A t \in timers[p] : t.id \in Ids /\ t.due \in Moments
      BY <1>0 DEF Timers
    <3>3. sent \subseteq Ids \X Moments
      BY <3>1, <3>2
    <3>4. QED
      BY <3>1, <3>3 DEF TypeOK
  <2>7. /\ status' \in [Replicas -> {"down", "open", "quiet", "closing"}]
        /\ lanes' \in [Replicas -> SUBSET Lanes]
        /\ unread' \in [Replicas -> SUBSET Ids]
    BY <1>25 DEF Exit, TypeOK
  <2>8. UNCHANGED <<clock, store, refused>>
    BY <1>25 DEF Exit
  <2>9. QED
    BY <2>1, <2>2, <2>3, <2>4, <2>5, <2>6, <2>7, <2>8 DEF TypeOK, HandKnown
<1>26. ASSUME Advance PROVE TypeOK' /\ HandKnown'
  BY <1>26 DEF Advance, TypeOK, HandKnown, Moments
<1>27. CASE UNCHANGED vars
  BY <1>27 DEF vars, TypeOK, HandKnown
<1>28. QED
  BY <1>1, <1>2, <1>3, <1>4, <1>5, <1>8, <1>9, <1>10, <1>11, <1>12, <1>13, <1>14, <1>15, <1>16,
     <1>18, <1>20, <1>21, <1>22, <1>24, <1>25, <1>26, <1>27
  DEF Next, Dispatcher, Calls

-----------------------------------------------------------------------------
(* What a process remembers is true, and stays true *)

\* A delayed call waits for one occurrence, which is `d`.
Same(i, d) == i \in Recurring \/ (rows[i].state # "none" /\ rows[i].due = d)

\* What a settle says was called is disposed of, and what it says is over is over.
Justified(s) ==
  /\ \A i \in Ids : s.made[i] # Absent => Disposed(i, s.made[i]) /\ Same(i, s.made[i])
  /\ \A i \in s.ended : i \in refused \/ Expiry[i] <= clock

\* Timers, pages, what was called, and settles under way or left behind.
HeldTrue == \A p \in Replicas : \A t \in timers[p] : Same(t.id, t.due)

PageTrue == \A p \in Replicas :
              /\ \A r \in scan[p].page : Same(r.id, r.due)
              /\ \A r, q \in scan[p].page : r.id = q.id => r = q

MemoryTrue == \A p \in Replicas : Justified(Owed(p))

SettleTrue == /\ \A p \in Replicas, w \in Waiters : Justified(settling[p][w])
              /\ \A s \in strays : Justified(s)

\* What is to be resumed is a tombstone.
HandTrue == \A h \in Handers : hand[h].pc = "resume" => rows[hand[h].id].state = "dead"

Memory == TypeOK /\ HandKnown /\ HeldTrue /\ PageTrue /\ MemoryTrue /\ SettleTrue

\* How a step may change the rows.
Moves ==
  \/ UNCHANGED rows
  \/ \E i \in Ids : Delay(i) \/ Cancel(i)
  \/ \E h \in Handers : Ensure(h) \/ Resume(h)
  \/ \E s \in strays : rows' = [i \in Ids |-> After(i, rows[i], s)]
  \/ \E p \in Replicas, w \in Waiters : rows' = [i \in Ids |-> After(i, rows[i], settling[p][w])]

\* No other step changes a row.
LEMMA MovesStep == [Next]_vars => Moves
<1> SUFFICES ASSUME [Next]_vars PROVE Moves
  OBVIOUS
<1>1. CASE \E i \in Ids : Delay(i) \/ Cancel(i)
  BY <1>1 DEF Moves
<1>2. CASE \E h \in Handers : (\E i \in Ids : Observe(h, i)) \/ Ensure(h) \/ Resume(h)
  BY <1>2 DEF Moves, Observe
<1>3. ASSUME NEW p \in Replicas, Dispatcher(p) PROVE Moves
  <2>1. CASE \E w \in Waiters : Land(p, w)
    BY <2>1 DEF Moves, Land
  <2>2. CASE \E w \in Waiters : Settled(p, w) \/ SettleFailed(p, w)
    BY <2>2 DEF Moves, Settled, SettleFailed, store
  <2>3. CASE Calls(p)
    BY <2>3 DEF Moves, Calls, Fire, FireClosing, Taken, Refused, Failed, CallOver, store
  <2>4. CASE Open(p) \/ Tick(p) \/ Read(p) \/ ReadFailed(p) \/ Arm(p)
    BY <2>4 DEF Moves, Open, Tick, Read, ReadFailed, Arm, store
  <2>5. CASE (\E ls \in Assignments : Assign(p, ls)) \/ Pause(p) \/ Unpause(p) \/ Close(p) \/ Exit(p)
    BY <2>5 DEF Moves, Assign, Pause, Unpause, Close, Exit, Stopped, store
  <2>6. QED
    BY <1>3, <2>1, <2>2, <2>3, <2>4, <2>5 DEF Dispatcher
<1>4. CASE \E s \in strays : Stray(s)
  BY <1>4 DEF Moves, Stray
<1>5. CASE Advance \/ UNCHANGED vars
  BY <1>5 DEF Moves, Advance, vars, store
<1>6. QED
  BY <1>1, <1>2, <1>3, <1>4, <1>5 DEF Next

\* What a step never undoes: time goes on, what was made or refused remains so, and
\* a delayed call keeps the moment it waits for.
Later ==
  /\ clock <= clock'
  /\ made \subseteq made'
  /\ refused \subseteq refused'
  /\ \A i \in Ids \ Recurring :
       rows[i].state # "none" => rows'[i].state # "none" /\ rows'[i].due = rows[i].due

\* No step undoes any of it.
LEMMA LaterStep == TypeOK /\ HandKnown /\ [Next]_vars => Later
<1> SUFFICES ASSUME TypeOK, HandKnown, [Next]_vars PROVE Later
  OBVIOUS
<1>1. clock \in Nat /\ rows \in [Ids -> RowType]
  BY DEF TypeOK, RowType, Moments
<1>2. clock' = clock \/ clock' = clock + 1
  <2>1. ASSUME NEW p \in Replicas, Dispatcher(p) PROVE clock' = clock
    BY <2>1 DEF Dispatcher, Calls, Land, Settled, SettleFailed, Fire, FireClosing, Taken, Refused,
                Failed, CallOver, Open, Tick, Read, ReadFailed, Arm, Assign, Pause, Unpause, Close,
                Exit, Stopped
  <2>2. QED
    BY <2>1 DEF Next, Delay, Cancel, Observe, Ensure, Resume, Stray, Advance, vars
<1>3. made \subseteq made' /\ refused \subseteq refused'
  <2>1. ASSUME NEW p \in Replicas, Calls(p) PROVE made \subseteq made' /\ refused \subseteq refused'
    BY <2>1 DEF Calls, Fire, FireClosing, Taken, Refused, Failed, CallOver, history
  <2>2. ASSUME NEW p \in Replicas, Exit(p) PROVE made \subseteq made' /\ refused \subseteq refused'
    BY <2>2 DEF Exit
  <2>3. ASSUME NEW p \in Replicas, Dispatcher(p)
        PROVE  made \subseteq made' /\ refused \subseteq refused'
    BY <2>1, <2>2, <2>3
    DEF Dispatcher, Land, Settled, SettleFailed, Open, Tick, Read, ReadFailed, Arm, Assign, Pause,
        Unpause, Close, Stopped, history
  <2>4. QED
    BY <2>3 DEF Next, Delay, Cancel, Observe, Ensure, Resume, Stray, Advance, vars, history
<1>4. ASSUME NEW i \in Ids \ Recurring, rows[i].state # "none"
      PROVE  rows'[i].state # "none" /\ rows'[i].due = rows[i].due
  <2>1. ASSUME NEW s, rows' = [j \in Ids |-> After(j, rows[j], s)]
        PROVE  rows'[i].state # "none" /\ rows'[i].due = rows[i].due
    <3>1. rows'[i] = After(i, rows[i], s)
      BY <2>1
    <3>2. rows[i] \in RowType
      BY <1>1
    <3>3. rows'[i] = rows[i] \/ rows'[i] = [rows[i] EXCEPT !.state = "dead"]
      BY <3>1 DEF After
    <3>4. QED
      BY <1>4, <3>2, <3>3 DEF RowType
  <2>2. ASSUME NEW j \in Ids, Delay(j) \/ Cancel(j)
        PROVE  rows'[i].state # "none" /\ rows'[i].due = rows[i].due
    BY <1>1, <1>4, <2>2 DEF Delay, Cancel, RowType
  <2>3. ASSUME NEW h \in Handers, Ensure(h) \/ Resume(h)
        PROVE  rows'[i] = rows[i]
    BY <1>1, <2>3 DEF Ensure, Resume, HandKnown
  <2>4. QED
    BY <1>4, <2>1, <2>2, <2>3, MovesStep DEF Moves
<1>5. QED
  BY <1>1, <1>2, <1>3, <1>4 DEF Later

\* What is true of an occurrence remains true.
LEMMA DisposedStable ==
  ASSUME clock \in Nat, clock' \in Nat, Later, NEW i \in Ids, NEW d \in Nat, Disposed(i, d)
  PROVE  Disposed(i, d)'
<1>1. Bound(i, d) \in Int /\ Expires(i, d) \in Int
  BY BoundTyped
<1>2. QED
  BY <1>1 DEF Disposed, Later

\* A delayed call keeps the moment that was read of it.
LEMMA SameStable ==
  ASSUME Later, NEW i \in Ids, NEW d, Same(i, d)
  PROVE  Same(i, d)'
BY DEF Later, Same

\* What a settle says remains true while it is on its way.
LEMMA JustifiedStable ==
  ASSUME clock \in Nat, clock' \in Nat, Later, NEW s \in Settles, Justified(s)
  PROVE  Justified(s)'
<1>1. ASSUME NEW i \in Ids, s.made[i] # Absent
      PROVE  Disposed(i, s.made[i])' /\ Same(i, s.made[i])'
  <2>1. s.made[i] \in Nat
    BY <1>1 DEF Settles, Moments
  <2>2. QED
    BY <1>1, <2>1, DisposedStable, SameStable DEF Justified
<1>2. ASSUME NEW i \in s.ended
      PROVE  i \in refused' \/ Expiry[i] <= clock'
  <2>1. Expiry[i] \in Nat
    BY CadenceAssumption DEF Settles
  <2>2. QED
    BY <2>1 DEF Justified, Later
<1>3. QED
  BY <1>1, <1>2 DEF Justified

-----------------------------------------------------------------------------
(* What a step keeps of each *)

HeldKept == \A p \in Replicas : \A t \in timers'[p] :
              \E u \in timers[p] : t.id = u.id /\ t.due = u.due

PageKept == \A p \in Replicas : scan'[p].page \subseteq scan[p].page

MemoryKept == \A p \in Replicas :
                /\ \A i \in Ids : called'[p][i] \in {called[p][i], Absent}
                /\ ended'[p] \subseteq ended[p]

SettleKept ==
  /\ \A p \in Replicas, w \in Waiters :
       \E s \in {settling[p][w], NoSettle, Owed(p)} :
         settling'[p][w].made = s.made /\ settling'[p][w].ended = s.ended
  /\ \A s \in strays' : s \in strays \/ \E p \in Replicas, w \in Waiters : s = settling[p][w]

\* Timers that were set before still tell of their rows.
LEMMA HeldStable ==
  ASSUME TypeOK, Later, HeldTrue, HeldKept
  PROVE  HeldTrue'
<1> SUFFICES ASSUME NEW p \in Replicas, NEW t \in timers'[p] PROVE Same(t.id, t.due)'
  BY DEF HeldTrue
<1>1. PICK u \in timers[p] : t.id = u.id /\ t.due = u.due
  BY DEF HeldKept
<1>2. u.id \in Ids /\ Same(u.id, u.due)
  BY DEF TypeOK, Timers, HeldTrue
<1>3. Same(u.id, u.due)'
  BY <1>2, SameStable
<1>4. QED
  BY <1>1, <1>3

\* So does a page that was read.
LEMMA PageStable ==
  ASSUME TypeOK, Later, PageTrue, PageKept
  PROVE  PageTrue'
<1> SUFFICES ASSUME NEW p \in Replicas
             PROVE  /\ \A r \in scan'[p].page : Same(r.id, r.due)'
                    /\ \A r, q \in scan'[p].page : r.id = q.id => r = q
  BY DEF PageTrue
<1>1. ASSUME NEW r \in scan'[p].page PROVE Same(r.id, r.due)'
  <2>1. r \in scan[p].page
    BY DEF PageKept
  <2>2. scan[p] \in Scans
    BY DEF TypeOK
  <2>3. r.id \in Ids
    BY <2>1, <2>2 DEF Scans
  <2>4. QED
    BY <2>1, <2>3, SameStable DEF PageTrue
<1>2. \A r, q \in scan'[p].page : r.id = q.id => r = q
  BY DEF PageTrue, PageKept
<1>3. QED
  BY <1>1, <1>2

\* What was remembered and is not added to remains true.
LEMMA MemoryStable ==
  ASSUME TypeOK, TypeOK', Later, MemoryTrue, MemoryKept
  PROVE  MemoryTrue'
<1> SUFFICES ASSUME NEW p \in Replicas PROVE Justified(Owed(p))'
  BY DEF MemoryTrue
<1>1. PICK s : s = Owed(p)
  OBVIOUS
<1>2. s \in Settles /\ Justified(s)
  BY <1>1, OwedTyped DEF MemoryTrue
<1>3. clock \in Nat /\ clock' \in Nat
  BY DEF TypeOK, Moments
<1>4. Justified(s)'
  BY <1>2, <1>3, JustifiedStable
<1>5. s.made = called[p] /\ s.ended = ended[p]
  BY <1>1 DEF Owed
<1>6. \A i \in Ids : called'[p][i] \in {s.made[i], Absent}
  BY <1>5 DEF MemoryKept
<1>7. ended'[p] \subseteq s.ended
  BY <1>5 DEF MemoryKept
<1>8. Owed(p)'.made = called'[p] /\ Owed(p)'.ended = ended'[p]
  BY DEF Owed
<1>9. QED
  BY <1>4, <1>6, <1>7, <1>8 DEF Justified

\* So do the settles that were under way, and those made of what is remembered.
LEMMA SettleStable ==
  ASSUME TypeOK, TypeOK', Later, MemoryTrue, SettleTrue, SettleKept
  PROVE  SettleTrue'
<1>0. clock \in Nat /\ clock' \in Nat
  BY DEF TypeOK, Moments
<1>1. ASSUME NEW p \in Replicas, NEW w \in Waiters PROVE Justified(settling[p][w])'
  <2>1. PICK s \in {settling[p][w], NoSettle, Owed(p)} :
          settling'[p][w].made = s.made /\ settling'[p][w].ended = s.ended
    BY DEF SettleKept
  <2>2. Justified(NoSettle)
    BY DEF Justified, NoSettle
  <2>3. s \in Settles /\ Justified(s)
    BY <2>1, <2>2, OwedTyped, NothingTyped DEF SettleTrue, MemoryTrue, TypeOK
  <2>4. Justified(s)'
    BY <1>0, <2>3, JustifiedStable
  <2>5. QED
    BY <2>1, <2>4 DEF Justified
<1>2. ASSUME NEW s \in strays' PROVE Justified(s)'
  <2>1. s \in Settles /\ Justified(s)
    BY DEF SettleKept, SettleTrue, TypeOK
  <2>2. QED
    BY <1>0, <2>1, JustifiedStable
<1>3. QED
  BY <1>1, <1>2 DEF SettleTrue

\* A tick starts a settle of what is remembered, or a reading of nothing yet.
LEMMA TickedKept ==
  ASSUME TypeOK, NEW p \in Replicas, NEW ls, Ticked(p, ls), UNCHANGED strays
  PROVE  PageKept /\ SettleKept
<1>0. /\ scan \in [Replicas -> Scans]
      /\ settling \in [Replicas -> [Waiters -> Settles]]
  BY DEF TypeOK
<1>1. CASE scan[p].pc # "idle"
  BY <1>0, <1>1 DEF Ticked, passes, PageKept, SettleKept
<1>2. CASE scan[p].pc = "idle" /\ Nothing(p)
  <2>1. Reading(ls).page = {}
    BY DEF Reading, NoScan
  <2>2. PageKept
    BY <1>0, <1>2, <2>1 DEF Ticked, PageKept
  <2>3. SettleKept
    BY <1>2 DEF Ticked, SettleKept
  <2>4. QED
    BY <2>2, <2>3
<1>3. CASE scan[p].pc = "idle" /\ ~Nothing(p)
  <2>1. PageKept
    BY <1>0, <1>3 DEF Ticked, PageKept, Scans
  <2>2. \A q \in Replicas, w \in Waiters : settling'[q][w] \in {settling[q][w], Owed(q)}
    BY <1>0, <1>3 DEF Ticked
  <2>3. SettleKept
    BY <2>2 DEF SettleKept
  <2>4. QED
    BY <2>1, <2>3
<1>4. QED
  BY <1>1, <1>2, <1>3

\* Disarming sets no timer.
LEMMA DroppedKept ==
  ASSUME TypeOK, NEW p \in Replicas, NEW ids, Dropped(p, ids)
  PROVE  HeldKept
BY DEF Dropped, TypeOK, HeldKept

\* All of them together.
LEMMA MemoryStep ==
  ASSUME Memory, TypeOK', HandKnown', Later, HeldKept, PageKept, MemoryKept, SettleKept
  PROVE  Memory'
BY HeldStable, PageStable, MemoryStable, SettleStable DEF Memory

\* What a dispatcher remembers of a row after it disposed of it.
LEMMA Remembered ==
  ASSUME TypeOK, TypeOK', Later, MemoryTrue, NEW p \in Replicas,
         \A q \in Replicas \ {p} : called'[q] = called[q] /\ ended'[q] = ended[q],
         \A i \in Ids : called'[p][i] # called[p][i] =>
           \E d : called'[p][i] = d /\ Disposed(i, d)' /\ Same(i, d)',
         \A i \in ended'[p] \ ended[p] : i \in refused' \/ Expiry[i] <= clock'
  PROVE  MemoryTrue'
<1> SUFFICES ASSUME NEW q \in Replicas PROVE Justified(Owed(q))'
  BY DEF MemoryTrue
<1>1. PICK s : s = Owed(q)
  OBVIOUS
<1>2. s \in Settles /\ Justified(s)
  BY <1>1, OwedTyped DEF MemoryTrue
<1>3. clock \in Nat /\ clock' \in Nat
  BY DEF TypeOK, Moments
<1>4. Justified(s)'
  BY <1>2, <1>3, JustifiedStable
<1>5. s.made = called[q] /\ s.ended = ended[q]
  BY <1>1 DEF Owed
<1>6. Owed(q)'.made = called'[q] /\ Owed(q)'.ended = ended'[q]
  BY DEF Owed
<1>7. ASSUME NEW i \in Ids, called'[q][i] # Absent
      PROVE  Disposed(i, called[q][i])' /\ Same(i, called[q][i])'
  <2>1. CASE called'[q][i] = called[q][i]
    BY <1>4, <1>5, <1>7, <2>1 DEF Justified
  <2>2. CASE called'[q][i] # called[q][i]
    <3>1. PICK d : called'[q][i] = d /\ Disposed(i, d)' /\ Same(i, d)'
      BY <2>2
    <3>2. QED
      BY <3>1 DEF Disposed, Same
  <2>3. QED
    BY <2>1, <2>2
<1>8. ASSUME NEW i \in ended'[q] PROVE i \in refused' \/ Expiry[i] <= clock'
  <2>1. CASE i \in ended[q]
    BY <1>4, <1>5, <2>1 DEF Justified
  <2>2. CASE i \notin ended[q]
    BY <2>2
  <2>3. QED
    BY <2>1, <2>2
<1>9. QED
  BY <1>6, <1>7, <1>8 DEF Justified

\* Every step keeps what is remembered true.
LEMMA InvStep == Memory /\ [Next]_vars => Memory'
<1> SUFFICES ASSUME Memory, [Next]_vars PROVE Memory'
  OBVIOUS
<1> USE DEF store, process, held, disposed, passes, history
<1>0. TypeOK /\ HandKnown /\ TypeOK' /\ HandKnown' /\ Later
  BY TypeStep, LaterStep DEF Memory
<1>t. /\ timers \in [Replicas -> SUBSET Timers]
      /\ called \in [Replicas -> [Ids -> Moments \cup {Absent}]]
      /\ ended \in [Replicas -> SUBSET Recurring]
      /\ scan \in [Replicas -> Scans]
      /\ settling \in [Replicas -> [Waiters -> Settles]]
  BY <1>0 DEF TypeOK
<1>h. ASSUME UNCHANGED timers PROVE HeldKept
  BY <1>h DEF HeldKept
<1>p. ASSUME UNCHANGED scan PROVE PageKept
  BY <1>p DEF PageKept
<1>m. ASSUME UNCHANGED disposed PROVE MemoryKept
  BY <1>m DEF MemoryKept
<1>s. ASSUME UNCHANGED <<settling, strays>> PROVE SettleKept
  BY <1>s DEF SettleKept
<1>1. CASE \/ \E i \in Ids : Delay(i) \/ Cancel(i)
           \/ \E h \in Handers : (\E i \in Ids : Observe(h, i)) \/ Ensure(h) \/ Resume(h)
           \/ Advance
           \/ UNCHANGED vars
  <2>1. UNCHANGED <<timers, scan, disposed, settling, strays>>
    BY <1>1 DEF Delay, Cancel, Observe, Ensure, Resume, Advance, vars
  <2>2. QED
    BY <1>0, <1>h, <1>p, <1>m, <1>s, <2>1, MemoryStep
<1>2. ASSUME NEW s \in strays, Stray(s) PROVE Memory'
  <2>1. UNCHANGED <<timers, scan, disposed, settling>> /\ strays' \subseteq strays
    BY <1>2 DEF Stray
  <2>2. SettleKept
    BY <2>1 DEF SettleKept
  <2>3. QED
    BY <1>0, <1>h, <1>p, <1>m, <2>1, <2>2, MemoryStep
<1>3. ASSUME NEW p \in Replicas, NEW w \in Waiters, Land(p, w) PROVE Memory'
  <2>1. UNCHANGED <<timers, scan, disposed, strays>>
    BY <1>3 DEF Land
  <2>2. settling' = [settling EXCEPT ![p][w].pc = "landed"]
    BY <1>3 DEF Land
  <2>3. \A q \in Replicas, v \in Waiters : /\ settling'[q][v].made = settling[q][v].made
                                             /\ settling'[q][v].ended = settling[q][v].ended
    BY <1>t, <2>2 DEF Settles
  <2>4. SettleKept
    BY <2>1, <2>3 DEF SettleKept
  <2>5. QED
    BY <1>0, <1>h, <1>p, <1>m, <2>1, <2>4, MemoryStep
<1>4. ASSUME NEW p \in Replicas, NEW w \in Waiters, NEW r, r.page = {},
             settling' = [settling EXCEPT ![p][w] = NoSettle],
             scan' = IF w = "scan" THEN [scan EXCEPT ![p] = r] ELSE scan
      PROVE  /\ PageKept
             /\ \A q \in Replicas, v \in Waiters : settling'[q][v] \in {settling[q][v], NoSettle}
  BY <1>t, <1>4 DEF PageKept
<1>5. ASSUME NEW p \in Replicas, NEW w \in Waiters, Settled(p, w) PROVE Memory'
  <2>1. UNCHANGED <<timers, strays>>
    BY <1>5 DEF Settled
  <2>2. Reading(lanes[p]).page = {}
    BY DEF Reading, NoScan
  <2>3. /\ PageKept
        /\ \A q \in Replicas, v \in Waiters : settling'[q][v] \in {settling[q][v], NoSettle}
    BY <1>4, <1>5, <2>2 DEF Settled
  <2>4. SettleKept
    BY <2>1, <2>3 DEF SettleKept
  <2>5. MemoryKept
    BY <1>t, <1>5 DEF Settled, Forgotten, MemoryKept
  <2>6. QED
    BY <1>0, <1>h, <2>1, <2>3, <2>4, <2>5, MemoryStep
<1>6. ASSUME NEW p \in Replicas, NEW w \in Waiters, SettleFailed(p, w) PROVE Memory'
  <2>1. UNCHANGED <<timers, disposed>>
    BY <1>6 DEF SettleFailed
  <2>2. NoScan.page = {}
    BY DEF NoScan
  <2>3. /\ PageKept
        /\ \A q \in Replicas, v \in Waiters : settling'[q][v] \in {settling[q][v], NoSettle}
    BY <1>4, <1>6, <2>2 DEF SettleFailed
  <2>4. \A s \in strays' : s \in strays \/ \E v \in Waiters : s = settling[p][v]
    BY <1>0, <1>6, LeftBehindTyped DEF SettleFailed
  <2>5. SettleKept
    BY <2>3, <2>4 DEF SettleKept
  <2>6. QED
    BY <1>0, <1>h, <1>m, <2>1, <2>3, <2>5, MemoryStep
<1>7. ASSUME NEW p \in Replicas, Tick(p) \/ Open(p) \/ Unpause(p) PROVE Memory'
  <2>1. UNCHANGED <<disposed, strays>> /\ Ticked(p, lanes[p])
    BY <1>7 DEF Tick, Open, Unpause, Adopt
  <2>2. HeldKept
    <3>1. CASE Tick(p) \/ Open(p)
      BY <1>h, <3>1 DEF Tick, Open, held
    <3>2. CASE Unpause(p)
      BY <1>0, <3>2, DroppedKept DEF Unpause, Adopt
    <3>3. QED
      BY <1>7, <3>1, <3>2
  <2>3. QED
    BY <1>0, <1>h, <1>m, <2>1, <2>2, TickedKept, MemoryStep
<1>8. ASSUME NEW p \in Replicas, Read(p) PROVE Memory'
  <2>1. UNCHANGED <<timers, disposed, settling, strays>>
    BY <1>8 DEF Read
  <2>2. PICK page \in Enumerated(scan[p].lanes, scan[p].until) :
          scan' = [scan EXCEPT ![p] = [@ EXCEPT !.pc = "arm",
                     !.page = {[id |-> i, due |-> rows[i].due, lane |-> rows[i].lane] : i \in page}]]
    BY <1>8 DEF Read
  <2>3. \A i \in page : i \in Ids /\ rows[i].state = "live"
    BY DEF Enumerated, Matching
  <2>4. PICK read : read = {[id |-> i, due |-> rows[i].due, lane |-> rows[i].lane] : i \in page}
    OBVIOUS
  <2>5. scan'[p].page = read /\ \A q \in Replicas \ {p} : scan'[q] = scan[q]
    BY <1>t, <2>2, <2>4 DEF Scans
  <2>6. UNCHANGED rows
    BY <1>8 DEF Read
  <2>7. PageTrue'
    <3>1. ASSUME NEW r \in read PROVE Same(r.id, r.due)'
      BY <2>3, <2>4, <2>6 DEF Same
    <3>2. \A r, q \in read : r.id = q.id => r = q
      BY <2>4
    <3>3. ASSUME NEW q \in Replicas \ {p}, NEW r \in scan[q].page PROVE Same(r.id, r.due)'
      BY <2>6 DEF Memory, PageTrue, Same
    <3>4. QED
      BY <2>5, <3>1, <3>2, <3>3 DEF Memory, PageTrue
  <2>8. QED
    BY <1>0, <1>h, <1>m, <1>s, <2>1, <2>7, HeldStable, MemoryStable, SettleStable DEF Memory
<1>9. ASSUME NEW p \in Replicas, ReadFailed(p) PROVE Memory'
  <2>1. UNCHANGED <<timers, disposed, settling, strays>>
    BY <1>9 DEF ReadFailed
  <2>2. PageKept
    BY <1>t, <1>9 DEF ReadFailed, PageKept, NoScan
  <2>3. QED
    BY <1>0, <1>h, <1>m, <1>s, <2>1, <2>2, MemoryStep
<1>10. ASSUME NEW p \in Replicas, Arm(p) PROVE Memory'
  <2>0. Fresh(p) \subseteq scan[p].page /\ scan[p].page \subseteq [id : Ids, due : Moments, lane : Lanes]
    BY <1>t DEF Fresh, Scans
  <2>1. UNCHANGED <<clock, rows, made, refused, settling, strays>>
    BY <1>10 DEF Arm
  <2>2. PageKept
    BY <1>t, <1>10 DEF Arm, PageKept, NoScan
  <2>3. HeldTrue'
    <3>1. PICK set : set = {[id |-> r.id, h |-> Least(Free(p, r.id)), due |-> r.due,
                             lane |-> r.lane, fired |-> FALSE] : r \in Arming(p)}
      OBVIOUS
    <3>2. timers' = [timers EXCEPT ![p] = (@ \ Cleared(p, Unowed(p))) \cup set]
      BY <1>10, <3>1 DEF Arm
    <3>3. \A t \in set : \E r \in scan[p].page : t.id = r.id /\ t.due = r.due
      BY <2>0, <3>1 DEF Arming
    <3>4. \A t \in set : Same(t.id, t.due)
      BY <3>3 DEF Memory, PageTrue
    <3>5. \A q \in Replicas : \A t \in timers'[q] : t \in timers[q] \/ t \in set
      BY <1>t, <3>2
    <3>6. \A q \in Replicas : \A t \in timers'[q] : Same(t.id, t.due)
      BY <3>4, <3>5 DEF Memory, HeldTrue
    <3>7. QED
      BY <2>1, <3>6 DEF HeldTrue, Same
  <2>4. MemoryTrue'
    <3>1. called' = [called EXCEPT ![p] =
                       [i \in Ids |-> IF \E r \in Fresh(p) : r.id = i /\ Lapsed(r)
                                        THEN (CHOOSE r \in Fresh(p) : r.id = i).due
                                        ELSE called[p][i]]]
      BY <1>10 DEF Arm
    <3>2. ASSUME NEW i \in Ids, called'[p][i] # called[p][i]
          PROVE  \E d : called'[p][i] = d /\ Disposed(i, d)' /\ Same(i, d)'
      <4>1. PICK r \in Fresh(p) : r.id = i /\ Lapsed(r)
        BY <1>t, <3>1, <3>2
      <4>2. (CHOOSE q \in Fresh(p) : q.id = i) = r
        BY <2>0, <4>1 DEF Memory, PageTrue
      <4>3. called'[p][i] = r.due
        BY <1>t, <3>1, <4>1, <4>2
      <4>4. Disposed(i, r.due)
        BY <4>1 DEF Lapsed, Disposed
      <4>5. Same(i, r.due)
        BY <2>0, <4>1 DEF Memory, PageTrue
      <4>6. Disposed(i, r.due)' /\ Same(i, r.due)'
        BY <2>1, <4>4, <4>5 DEF Disposed, Same
      <4>7. QED
        BY <4>3, <4>6
    <3>3. ended' = [ended EXCEPT ![p] = @ \cup {r.id : r \in {q \in Fresh(p) : Over(q)}}]
      BY <1>10 DEF Arm
    <3>4. ASSUME NEW i \in ended'[p] \ ended[p] PROVE i \in refused' \/ Expiry[i] <= clock'
      <4>1. PICK r \in Fresh(p) : r.id = i /\ Over(r)
        BY <1>t, <3>3, <3>4
      <4>2. QED
        BY <2>1, <4>1 DEF Over, Expires
    <3>5. \A q \in Replicas \ {p} : called'[q] = called[q] /\ ended'[q] = ended[q]
      BY <1>t, <3>1, <3>3
    <3>6. QED
      BY <1>0, <3>2, <3>4, <3>5, Remembered DEF Memory
  <2>5. QED
    BY <1>0, <1>s, <2>1, <2>2, <2>3, <2>4, PageStable, SettleStable DEF Memory
<1>11. ASSUME NEW p \in Replicas, NEW t \in timers[p], Fire(p, t) \/ FireClosing(p, t) PROVE Memory'
  <2>1. UNCHANGED <<disposed, scan, settling, strays>>
    BY <1>11 DEF Fire, FireClosing
  <2>2. HeldKept
    <3>1. CASE Fire(p, t)
      <4>1. [t EXCEPT !.fired = TRUE].id = t.id /\ [t EXCEPT !.fired = TRUE].due = t.due
        BY <1>t DEF Timers
      <4>2. \A q \in Replicas : \A u \in timers'[q] : u \in timers[q] \/ (q = p /\ u = [t EXCEPT !.fired = TRUE])
        BY <1>t, <3>1 DEF Fire
      <4>3. QED
        BY <4>1, <4>2 DEF HeldKept
    <3>2. CASE FireClosing(p, t)
      BY <1>t, <3>2 DEF FireClosing, HeldKept
    <3>3. QED
      BY <1>11, <3>1, <3>2
  <2>3. QED
    BY <1>0, <1>p, <1>m, <1>s, <2>1, <2>2, MemoryStep
<1>12. ASSUME NEW p \in Replicas, NEW t \in timers[p], CallOver(p, t), MemoryTrue' PROVE Memory'
  <2>1. UNCHANGED <<scan, settling, strays>>
    BY <1>12 DEF CallOver
  <2>2. HeldKept
    BY <1>t, <1>12 DEF CallOver, HeldKept
  <2>3. QED
    BY <1>0, <1>p, <1>s, <1>12, <2>1, <2>2, HeldStable, PageStable, SettleStable DEF Memory
<1>13. ASSUME NEW p \in Replicas, NEW t \in timers[p], called' = [called EXCEPT ![p][t.id] = t.due],
              UNCHANGED ended, Disposed(t.id, t.due)'
       PROVE  MemoryTrue'
  <2>1. t.id \in Ids
    BY <1>t DEF Timers
  <2>2. Same(t.id, t.due)'
    BY <1>0, <2>1, SameStable DEF Memory, HeldTrue
  <2>3. \A i \in Ids : called'[p][i] = called[p][i] \/ (i = t.id /\ called'[p][i] = t.due)
    BY <1>t, <1>13, <2>1
  <2>4. \A q \in Replicas \ {p} : called'[q] = called[q] /\ ended'[q] = ended[q]
    BY <1>t, <1>13
  <2>5. \A i \in Ids : called'[p][i] # called[p][i] =>
          \E d : called'[p][i] = d /\ Disposed(i, d)' /\ Same(i, d)'
    BY <1>13, <2>2, <2>3
  <2>6. QED
    BY <1>0, <1>13, <2>4, <2>5, Remembered DEF Memory
<1>14. ASSUME NEW p \in Replicas, NEW t \in timers[p], Taken(p, t) PROVE Memory'
  <2>1. Disposed(t.id, t.due)'
    BY <1>14 DEF Taken, Disposed
  <2>2. MemoryTrue'
    BY <1>13, <1>14, <2>1 DEF Taken
  <2>3. QED
    BY <1>12, <1>14, <2>2 DEF Taken
<1>15. ASSUME NEW p \in Replicas, NEW t \in timers[p], Refused(p, t) PROVE Memory'
  <2>1. t.id \in refused'
    BY <1>15 DEF Refused
  <2>2. MemoryTrue'
    <3>1. CASE t.id \notin Recurring
      <4>1. Disposed(t.id, t.due)'
        BY <2>1 DEF Disposed
      <4>2. QED
        BY <1>13, <1>15, <3>1, <4>1 DEF Refused
    <3>2. CASE t.id \in Recurring
      <4>1. called' = called /\ ended' = [ended EXCEPT ![p] = @ \cup {t.id}]
        BY <1>15, <3>2 DEF Refused
      <4>2. \A q \in Replicas \ {p} : called'[q] = called[q] /\ ended'[q] = ended[q]
        BY <1>t, <4>1
      <4>3. \A i \in ended'[p] \ ended[p] : i \in refused' \/ Expiry[i] <= clock'
        BY <1>t, <2>1, <4>1
      <4>4. \A i \in Ids : called'[p][i] # called[p][i] =>
              \E d : called'[p][i] = d /\ Disposed(i, d)' /\ Same(i, d)'
        BY <4>1
      <4>5. QED
        BY <1>0, <4>2, <4>3, <4>4, Remembered DEF Memory
    <3>3. QED
      BY <3>1, <3>2
  <2>3. QED
    BY <1>12, <1>15, <2>2 DEF Refused
<1>16. ASSUME NEW p \in Replicas, NEW t \in timers[p], Failed(p, t) PROVE Memory'
  <2>1. MemoryTrue'
    BY <1>0, <1>m, <1>16, MemoryStable DEF Failed, Memory
  <2>2. QED
    BY <1>12, <1>16, <2>1 DEF Failed
<1>17. ASSUME NEW p \in Replicas, NEW ls \in Assignments, Assign(p, ls) PROVE Memory'
  <2>1. UNCHANGED <<disposed, strays>>
    BY <1>17 DEF Assign
  <2>2. HeldKept /\ PageKept /\ SettleKept
    <3>1. CASE status[p] = "open"
      BY <1>0, <1>17, <2>1, <3>1, DroppedKept, TickedKept DEF Assign, Adopt
    <3>2. CASE status[p] # "open"
      BY <1>h, <1>p, <1>s, <1>17, <2>1, <3>2 DEF Assign
    <3>3. QED
      BY <3>1, <3>2
  <2>3. QED
    BY <1>0, <1>m, <2>1, <2>2, MemoryStep
<1>18. ASSUME NEW p \in Replicas, Pause(p) \/ Close(p) PROVE Memory'
  <2>1. Stopped(p)
    BY <1>18 DEF Pause, Close
  <2>2. UNCHANGED <<disposed, scan>> /\ Dropped(p, Ids)
    BY <2>1 DEF Stopped
  <2>3. \A s \in strays' : s \in strays \/ \E v \in Waiters : s = settling[p][v]
    BY <1>0, <1>18, LeftBehindTyped DEF Pause, Close, Waiters
  <2>4. settling' = [settling EXCEPT ![p]["stop"] = IF Nothing(p) THEN NoSettle ELSE Owed(p)]
    BY <2>1 DEF Stopped
  <2>5. \A q \in Replicas, v \in Waiters : settling'[q][v] \in {settling[q][v], NoSettle, Owed(q)}
    BY <1>t, <2>4
  <2>6. SettleKept
    BY <2>3, <2>5 DEF SettleKept
  <2>7. QED
    BY <1>0, <1>p, <1>m, <2>2, <2>6, DroppedKept, MemoryStep
<1>19. ASSUME NEW p \in Replicas, Exit(p) PROVE Memory'
  <2>1. HeldKept
    BY <1>t, <1>19 DEF Exit, HeldKept
  <2>2. PageKept
    BY <1>t, <1>19 DEF Exit, PageKept, NoScan
  <2>3. NoSettle.made = [i \in Ids |-> Absent]
    BY DEF NoSettle
  <2>4. MemoryKept
    BY <1>t, <1>19, <2>3 DEF Exit, MemoryKept
  <2>5. \A q \in Replicas, v \in Waiters : settling'[q][v] \in {settling[q][v], NoSettle}
    BY <1>t, <1>19 DEF Exit
  <2>6. \A s \in strays' : s \in strays \/ \E v \in Waiters : s = settling[p][v]
    BY <1>0, <1>19, LeftBehindTyped DEF Exit
  <2>7. SettleKept
    BY <2>5, <2>6 DEF SettleKept
  <2>8. QED
    BY <1>0, <2>1, <2>2, <2>4, <2>7, MemoryStep
<1>20. QED
  BY <1>1, <1>2, <1>3, <1>5, <1>6, <1>7, <1>8, <1>9, <1>10, <1>11, <1>14, <1>15, <1>16, <1>17,
     <1>18, <1>19
  DEF Next, Dispatcher, Calls

-----------------------------------------------------------------------------
(* Nothing is skipped *)

\* All of it holds where nothing has been written.
LEMMA InitMemory == Init => Memory /\ HandTrue
<1> SUFFICES ASSUME Init PROVE Memory /\ HandTrue
  OBVIOUS
<1>1. TypeOK
  <2>1. (CHOOSE l \in Lanes : TRUE) \in Lanes
    BY CadenceAssumption
  <2>2. /\ rows \in [Ids -> RowType]
        /\ hand \in [Handers -> HandType]
        /\ scan \in [Replicas -> Scans]
        /\ settling \in [Replicas -> [Waiters -> Settles]]
    BY <2>1, NothingTyped DEF Init, RowType, Moments
  <2>3. called \in [Replicas -> [Ids -> Moments \cup {Absent}]]
    BY NothingTyped DEF Init, Settles
  <2>4. armed \in [Replicas -> [Ids -> 0 .. Handles]]
    BY CadenceAssumption DEF Init
  <2>5. QED
    BY <2>2, <2>3, <2>4 DEF Init, TypeOK, RowType, HandType, Moments
<1>2. HandKnown /\ HandTrue
  BY DEF Init, HandKnown, HandTrue, NoHand
<1>3. HeldTrue /\ PageTrue
  BY DEF Init, HeldTrue, PageTrue, NoScan
<1>4. MemoryTrue
  BY DEF Init, MemoryTrue, Justified, Owed, NoSettle
<1>5. SettleTrue
  BY DEF Init, SettleTrue, Justified, NoSettle
<1>6. QED
  BY <1>1, <1>2, <1>3, <1>4, <1>5 DEF Memory

\* What settling moves on was disposed of.
LEMMA AfterDisposed ==
  ASSUME NEW s \in Settles, Justified(s), NEW i \in Ids, rows[i].state = "live",
         After(i, rows[i], s) # rows[i]
  PROVE  Disposed(i, rows[i].due)
<1>1. s.made[i] # Absent \/ i \in s.ended
  BY DEF After
<1>2. CASE i \in s.ended
  BY <1>2 DEF Justified, Disposed, Expires, Settles
<1>3. CASE i \notin s.ended /\ i \in Recurring
  BY <1>1, <1>3 DEF After, Justified
<1>4. CASE i \notin s.ended /\ i \notin Recurring
  BY <1>1, <1>4 DEF Justified, Same
<1>5. QED
  BY <1>2, <1>3, <1>4

\* A row that is live is moved by a settle of what was disposed of, by a
\* cancellation, or by a hand-over that resumes it.
LEMMA LeftStep ==
  ASSUME Memory, [Next]_vars, NEW i \in Ids, rows[i].state = "live", rows'[i] # rows[i]
  PROVE  \/ Disposed(i, rows[i].due)
         \/ Cancel(i)
         \/ \E h \in Handers : Resume(h) /\ hand[h].id = i
<1>0. rows \in [Ids -> RowType] /\ HandKnown
  BY DEF Memory, TypeOK, RowType
<1>1. ASSUME NEW j \in Ids, Delay(j) \/ Cancel(j) PROVE Cancel(i)
  BY <1>0, <1>1 DEF Delay, Cancel
<1>2. ASSUME NEW h \in Handers, Ensure(h) PROVE FALSE
  BY <1>0, <1>2 DEF Ensure
<1>3. ASSUME NEW h \in Handers, Resume(h) PROVE hand[h].id = i
  BY <1>0, <1>3 DEF Resume
<1>4. ASSUME NEW s \in Settles, Justified(s), rows' = [j \in Ids |-> After(j, rows[j], s)]
      PROVE  Disposed(i, rows[i].due)
  BY <1>4, AfterDisposed
<1>5. \A s \in strays : s \in Settles /\ Justified(s)
  BY DEF Memory, TypeOK, SettleTrue
<1>6. \A p \in Replicas, w \in Waiters : settling[p][w] \in Settles /\ Justified(settling[p][w])
  BY DEF Memory, TypeOK, SettleTrue
<1>7. QED
  BY <1>1, <1>2, <1>3, <1>4, <1>5, <1>6, MovesStep DEF Moves

\* Whose hand-over a step may change.
LEMMA HandsStep ==
  [Next]_vars => \/ UNCHANGED hand
                 \/ \E h \in Handers : (\E i \in Ids : Observe(h, i)) \/ Ensure(h) \/ Resume(h)
<1> SUFFICES ASSUME [Next]_vars
             PROVE  \/ UNCHANGED hand
                    \/ \E h \in Handers : (\E i \in Ids : Observe(h, i)) \/ Ensure(h) \/ Resume(h)
  OBVIOUS
<1>1. ASSUME NEW p \in Replicas, Dispatcher(p) PROVE UNCHANGED hand
  BY <1>1 DEF Dispatcher, Calls, Land, Settled, SettleFailed, Fire, FireClosing, Taken, Refused,
              Failed, CallOver, Open, Tick, Read, ReadFailed, Arm, Assign, Pause, Unpause, Close,
              Exit, Stopped, store
<1>2. QED
  BY <1>1 DEF Next, Delay, Cancel, Stray, Advance, vars, store

\* Where one caller hands over at a time, what it is to resume stays a tombstone.
LEMMA HandStep ==
  ASSUME \A h, k \in Handers : h = k, Memory, HandTrue, [Next]_vars
  PROVE  HandTrue'
<1>0. /\ rows \in [Ids -> RowType]
      /\ hand \in [Handers -> HandType]
      /\ HandKnown
  BY DEF Memory, TypeOK, RowType, HandType
<1>1. ASSUME NEW h \in Handers, NEW i \in Ids, Observe(h, i) PROVE HandTrue'
  <2>1. hand'[h].id = i /\ (hand'[h].pc = "resume" => rows[i].state = "dead") /\ rows' = rows
    BY <1>0, <1>1 DEF Observe
  <2>2. QED
    BY <2>1 DEF HandTrue
<1>2. ASSUME NEW h \in Handers, Ensure(h) PROVE HandTrue'
  <2>1. hand[h].id \in Ids
    BY <1>0, <1>2, CadenceAssumption DEF Ensure, HandKnown
  <2>2. CASE rows[hand[h].id].state = "dead"
    <3>1. hand'[h] = [hand[h] EXCEPT !.pc = "resume"] /\ rows'[hand[h].id] = rows[hand[h].id]
      BY <1>0, <1>2, <2>1, <2>2 DEF Ensure
    <3>2. hand'[h].id = hand[h].id
      BY <1>0, <3>1 DEF HandType
    <3>3. QED
      BY <2>2, <3>1, <3>2 DEF HandTrue
  <2>3. CASE rows[hand[h].id].state # "dead"
    <3>1. hand'[h] = NoHand
      BY <1>0, <1>2, <2>3 DEF Ensure
    <3>2. QED
      BY <3>1 DEF HandTrue, NoHand
  <2>4. QED
    BY <2>2, <2>3
<1>3. ASSUME NEW h \in Handers, Resume(h) PROVE HandTrue'
  <2>1. hand'[h] = NoHand
    BY <1>0, <1>3 DEF Resume
  <2>2. QED
    BY <2>1 DEF HandTrue, NoHand
<1>4. ASSUME UNCHANGED hand, \A h \in Handers : ~Ensure(h) /\ ~Resume(h) PROVE HandTrue'
  <2> SUFFICES ASSUME NEW h \in Handers, hand[h].pc = "resume"
               PROVE  rows'[hand[h].id].state = "dead"
    BY <1>4 DEF HandTrue
  <2>1. hand[h].id \in Recurring /\ hand[h].id \in Ids /\ rows[hand[h].id].state = "dead"
    BY <1>0, CadenceAssumption DEF HandKnown, HandTrue
  <2>2. ASSUME NEW j \in Ids, Delay(j) \/ Cancel(j) PROVE rows'[hand[h].id].state = "dead"
    BY <1>0, <2>1, <2>2 DEF Delay, Cancel, RowType
  <2>3. ASSUME NEW s, rows' = [j \in Ids |-> After(j, rows[j], s)]
        PROVE  rows'[hand[h].id].state = "dead"
    BY <2>1, <2>3 DEF After
  <2>4. QED
    BY <1>4, <2>1, <2>2, <2>3, MovesStep DEF Moves
<1>5. QED
  BY <1>1, <1>2, <1>3, <1>4, HandsStep

\* The dispatchers', the callers' and the rows' variables keep their types.
THEOREM Typed == Spec => []TypeOK
<1>1. Init => TypeOK /\ HandKnown
  BY InitMemory DEF Memory
<1>2. QED
  BY <1>1, TypeStep, PTL DEF Spec

\* Whatever is remembered in any process, or on its way from any, is true of the
\* rows: what was called is disposed of, whoever owned the lane.
THEOREM Remains == Spec => []Memory
<1>1. Init => Memory
  BY InitMemory
<1>2. QED
  BY <1>1, InvStep, PTL DEF Spec

\* A row that is live leaves the occurrence it waits for only once that one is
\* disposed of, or by a cancellation, or by a hand-over that resumes a row it read
\* as a tombstone (Scheduler.resume): however many hand schedules over.
THEOREM LeftByResume ==
  Spec => [][\A i \in Ids : rows[i].state = "live" /\ rows'[i] # rows[i]
               => \/ Disposed(i, rows[i].due)
                  \/ Cancel(i)
                  \/ \E h \in Handers : Resume(h) /\ hand[h].id = i]_vars
<1>1. Memory /\ [Next]_vars =>
        [\A i \in Ids : rows[i].state = "live" /\ rows'[i] # rows[i]
           => \/ Disposed(i, rows[i].due)
              \/ Cancel(i)
              \/ \E h \in Handers : Resume(h) /\ hand[h].id = i]_vars
  BY LeftStep
<1>2. QED
  BY <1>1, Remains, PTL DEF Spec

\* Where one caller at a time hands a schedule over, nothing is skipped: however many
\* replicas settle the same rows, late or twice, whatever claims they hold, and
\* whatever crashes, closes, is paused or fails (Dispatcher.ts, settle.js).
THEOREM KeptWaiting ==
  ASSUME \A h, k \in Handers : h = k
  PROVE  Spec => NothingSkipped
<1>1. Init => Memory /\ HandTrue
  BY InitMemory
<1>2. Memory /\ HandTrue /\ [Next]_vars => Memory' /\ HandTrue'
  BY InvStep, HandStep
<1>3. Memory /\ HandTrue /\ [Next]_vars =>
        [\A i \in Ids : rows[i].state = "live" /\ rows'[i] # rows[i]
           => Disposed(i, rows[i].due) \/ Cancel(i)]_vars
  <2> SUFFICES ASSUME Memory, HandTrue, [Next]_vars, NEW i \in Ids, rows[i].state = "live",
                      rows'[i] # rows[i]
               PROVE  Disposed(i, rows[i].due) \/ Cancel(i)
    OBVIOUS
  <2>1. ASSUME NEW h \in Handers, Resume(h), hand[h].id = i PROVE FALSE
    BY <2>1 DEF Resume, HandTrue
  <2>2. QED
    BY <2>1, LeftStep
<1>4. QED
  BY <1>1, <1>2, <1>3, PTL DEF Spec, NothingSkipped

-----------------------------------------------------------------------------
(* What is in hand *)

\* Disarming lets go of an entry and of its timer together.
LEMMA DroppedInHand ==
  ASSUME TypeOK, InHand, NEW p \in Replicas, NEW ids, Dropped(p, ids)
  PROVE  InHand'
<1>0. timers \in [Replicas -> SUBSET Timers] /\ armed \in [Replicas -> [Ids -> 0 .. Handles]]
  BY DEF TypeOK
<1>1. /\ timers' = [timers EXCEPT ![p] = @ \ Cleared(p, ids)]
      /\ armed' = [armed EXCEPT ![p] = [i \in Ids |-> IF i \in ids THEN 0 ELSE armed[p][i]]]
  BY DEF Dropped
<1>2. ASSUME NEW q \in Replicas, NEW i \in Ids, armed'[q][i] # 0
      PROVE  \E t \in timers'[q] : t.id = i /\ t.h = armed'[q][i]
  <2>1. CASE q # p
    BY <1>0, <1>1, <1>2, <2>1 DEF InHand
  <2>2. CASE q = p
    <3>1. i \notin ids /\ armed'[p][i] = armed[p][i]
      BY <1>0, <1>1, <1>2, <2>2
    <3>2. PICK t \in timers[p] : t.id = i /\ t.h = armed[p][i]
      BY <1>2, <2>2, <3>1 DEF InHand
    <3>3. t \in timers'[p]
      BY <1>0, <1>1, <3>1, <3>2 DEF Cleared
    <3>4. QED
      BY <2>2, <3>1, <3>2, <3>3
  <2>3. QED
    BY <2>1, <2>2
<1>3. QED
  BY <1>2 DEF InHand

\* A timer or a call that goes takes the entry of its row along.
LEMMA GoneInHand ==
  ASSUME TypeOK, InHand, NEW p \in Replicas, NEW t \in timers[p],
         timers' = [timers EXCEPT ![p] = @ \ {t}], armed' = [armed EXCEPT ![p][t.id] = 0]
  PROVE  InHand'
<1>0. timers \in [Replicas -> SUBSET Timers] /\ armed \in [Replicas -> [Ids -> 0 .. Handles]]
  BY DEF TypeOK
<1>1. t.id \in Ids
  BY <1>0 DEF Timers
<1>2. ASSUME NEW q \in Replicas, NEW i \in Ids, armed'[q][i] # 0
      PROVE  \E u \in timers'[q] : u.id = i /\ u.h = armed'[q][i]
  <2>1. armed'[q][i] = armed[q][i] /\ (q = p => i # t.id)
    BY <1>0, <1>1, <1>2
  <2>2. PICK u \in timers[q] : u.id = i /\ u.h = armed[q][i]
    BY <1>2, <2>1 DEF InHand
  <2>3. u \in timers'[q]
    BY <1>0, <2>1, <2>2
  <2>4. QED
    BY <2>1, <2>2, <2>3
<1>3. QED
  BY <1>2 DEF InHand

\* A page is armed with an entry to each timer, and what is given up goes with both.
LEMMA ArmInHand ==
  ASSUME TypeOK, InHand, NEW p \in Replicas, Arm(p)
  PROVE  InHand'
<1>0. timers \in [Replicas -> SUBSET Timers] /\ armed \in [Replicas -> [Ids -> 0 .. Handles]]
  BY DEF TypeOK
<1>1. PICK set : set = {[id |-> r.id, h |-> Least(Free(p, r.id)), due |-> r.due,
                         lane |-> r.lane, fired |-> FALSE] : r \in Arming(p)}
  OBVIOUS
<1>2. /\ timers' = [timers EXCEPT ![p] = (@ \ Cleared(p, Unowed(p))) \cup set]
      /\ armed' = [armed EXCEPT ![p] =
                     [i \in Ids |-> IF \E t \in set : t.id = i
                                      THEN (CHOOSE t \in set : t.id = i).h
                                    ELSE IF i \in Unowed(p) THEN 0
                                    ELSE armed[p][i]]]
  BY <1>1 DEF Arm
<1>3. ASSUME NEW q \in Replicas, NEW i \in Ids, armed'[q][i] # 0
      PROVE  \E t \in timers'[q] : t.id = i /\ t.h = armed'[q][i]
  <2>1. CASE q # p
    BY <1>0, <1>2, <1>3, <2>1 DEF InHand
  <2>2. CASE q = p /\ \E t \in set : t.id = i
    <3>1. PICK t : t = CHOOSE u \in set : u.id = i
      OBVIOUS
    <3>2. t \in set /\ t.id = i
      BY <2>2, <3>1
    <3>3. armed'[p][i] = t.h
      BY <1>0, <1>2, <2>2, <3>1
    <3>4. t \in timers'[p]
      BY <1>0, <1>2, <3>2
    <3>5. QED
      BY <2>2, <3>2, <3>3, <3>4
  <2>3. CASE q = p /\ ~\E t \in set : t.id = i
    <3>1. i \notin Unowed(p) /\ armed'[p][i] = armed[p][i]
      BY <1>0, <1>2, <1>3, <2>3
    <3>2. PICK t \in timers[p] : t.id = i /\ t.h = armed[p][i]
      BY <1>3, <2>3, <3>1 DEF InHand
    <3>3. t \in timers'[p]
      BY <1>0, <1>2, <3>1, <3>2 DEF Cleared
    <3>4. QED
      BY <2>3, <3>1, <3>2, <3>3
  <2>4. QED
    BY <2>1, <2>2, <2>3
<1>4. QED
  BY <1>3 DEF InHand

\* Every step leaves an entry only where there is a timer or a call.
LEMMA InHandStep == TypeOK /\ InHand /\ [Next]_vars => InHand'
<1> SUFFICES ASSUME TypeOK, InHand, [Next]_vars PROVE InHand'
  OBVIOUS
<1>0. timers \in [Replicas -> SUBSET Timers] /\ armed \in [Replicas -> [Ids -> 0 .. Handles]]
  BY DEF TypeOK
<1>1. ASSUME UNCHANGED held PROVE InHand'
  BY <1>1 DEF held, InHand
<1>2. CASE \/ \E i \in Ids : Delay(i) \/ Cancel(i)
           \/ \E h \in Handers : (\E i \in Ids : Observe(h, i)) \/ Ensure(h) \/ Resume(h)
           \/ \E s \in strays : Stray(s)
           \/ Advance
           \/ UNCHANGED vars
  BY <1>1, <1>2 DEF Delay, Cancel, Observe, Ensure, Resume, Stray, Advance, vars
<1>3. ASSUME NEW p \in Replicas,
             \/ \E w \in Waiters : Land(p, w) \/ Settled(p, w) \/ SettleFailed(p, w)
             \/ Open(p) \/ Tick(p) \/ Read(p) \/ ReadFailed(p)
      PROVE  InHand'
  BY <1>1, <1>3 DEF Land, Settled, SettleFailed, Open, Tick, Read, ReadFailed
<1>4. ASSUME NEW p \in Replicas, NEW t \in timers[p], Fire(p, t) PROVE InHand'
  <2>1. PICK f : f = [t EXCEPT !.fired = TRUE]
    OBVIOUS
  <2>2. f.id = t.id /\ f.h = t.h
    BY <1>0, <2>1 DEF Timers
  <2>3. timers' = [timers EXCEPT ![p] = (@ \ {t}) \cup {f}] /\ armed' = armed
    BY <1>4, <2>1 DEF Fire
  <2>4. ASSUME NEW q \in Replicas, NEW i \in Ids, armed[q][i] # 0
        PROVE  \E u \in timers'[q] : u.id = i /\ u.h = armed[q][i]
    <3>1. PICK u \in timers[q] : u.id = i /\ u.h = armed[q][i]
      BY <2>4 DEF InHand
    <3>2. CASE q = p /\ u = t
      BY <1>0, <2>2, <2>3, <3>1, <3>2
    <3>3. CASE ~(q = p /\ u = t)
      BY <1>0, <2>3, <3>1, <3>3
    <3>4. QED
      BY <3>2, <3>3
  <2>5. QED
    BY <2>3, <2>4 DEF InHand
<1>5. ASSUME NEW p \in Replicas, NEW t \in timers[p],
             FireClosing(p, t) \/ Taken(p, t) \/ Refused(p, t) \/ Failed(p, t)
      PROVE  InHand'
  BY <1>5, GoneInHand DEF FireClosing, Taken, Refused, Failed, CallOver
<1>6. ASSUME NEW p \in Replicas, (\E ls : Assign(p, ls)) \/ Unpause(p) PROVE InHand'
  BY <1>1, <1>6, DroppedInHand DEF Assign, Unpause, Adopt
<1>7. ASSUME NEW p \in Replicas, Pause(p) \/ Close(p) PROVE InHand'
  BY <1>7, DroppedInHand DEF Pause, Close, Stopped
<1>8. ASSUME NEW p \in Replicas, Exit(p) PROVE InHand'
  BY <1>0, <1>8 DEF Exit, InHand
<1>9. QED
  BY <1>2, <1>3, <1>4, <1>5, <1>6, <1>7, <1>8, ArmInHand DEF Next, Dispatcher, Calls

\* An entry of `armed` is never left without a timer or a call, so no row is kept from
\* being armed again: whatever fires, fails, is given up, is disarmed or is read at
\* the same time (Dispatcher.arm, forget, disarm and dispatch).
THEOREM NeverOrphaned == Spec => []InHand
<1>1. Init => InHand
  BY DEF Init, InHand
<1>2. QED
  BY <1>1, Typed, InHandStep, PTL DEF Spec

-----------------------------------------------------------------------------
(* What is given up *)

\* A timer of a delayed call that is not due yet.
Ahead(t) == ~t.fired /\ t.due > clock /\ t.id \notin Recurring

\* In one process: a call went out when it was due, and a timer that is not due is
\* the one `armed` holds, of a row that was not called and that no scan found missing.
Within(p) ==
  \A t \in timers[p] :
    /\ t.fired => t.due <= clock
    /\ Ahead(t) => /\ armed[p][t.id] = t.h
                   /\ called[p][t.id] = Absent
                   /\ t.id \notin unread[p]

InReach == \A p \in Replicas : Within(p)

\* A process keeps what it holds where a step sets no timer, takes no entry from a
\* timer that is not due, and marks no row of one as called.
LEMMA WithinKept ==
  ASSUME TypeOK, clock <= clock', clock' \in Nat, NEW p \in Replicas, Within(p),
         timers'[p] \subseteq timers[p],
         \A t \in timers'[p] : Ahead(t) => /\ armed'[p][t.id] = armed[p][t.id]
                                           /\ \/ called'[p][t.id] = called[p][t.id]
                                              \/ called'[p][t.id] = Absent,
         unread'[p] \subseteq unread[p]
  PROVE  Within(p)'
<1>1. ASSUME NEW t \in timers'[p], t.fired PROVE t.due <= clock'
  BY <1>1 DEF Within, TypeOK, Timers, Moments
<1>2. ASSUME NEW t \in timers'[p], ~t.fired /\ t.due > clock' /\ t.id \notin Recurring
      PROVE  armed'[p][t.id] = t.h /\ called'[p][t.id] = Absent /\ t.id \notin unread'[p]
  <2>1. Ahead(t)
    BY <1>2 DEF Ahead, TypeOK, Timers, Moments
  <2>2. QED
    BY <1>2, <2>1 DEF Within
<1>3. QED
  BY <1>1, <1>2, Zenon DEF Within, Ahead

\* Two timers of a delayed call wait for the same moment.
LEMMA OneMoment ==
  ASSUME HeldTrue, NEW p \in Replicas, NEW t \in timers[p], NEW u \in timers[p],
         t.id = u.id, t.id \notin Recurring
  PROVE  t.due = u.due
BY DEF HeldTrue, Same

\* Disarming clears the timers of the entries it lets go of.
LEMMA DroppedWithin ==
  ASSUME TypeOK, InReach, NEW p \in Replicas, NEW ids, Dropped(p, ids),
         UNCHANGED <<clock, called, unread>>
  PROVE  InReach'
<1>0. /\ timers \in [Replicas -> SUBSET Timers]
      /\ armed \in [Replicas -> [Ids -> 0 .. Handles]]
      /\ clock \in Nat
  BY DEF TypeOK, Moments
<1>1. /\ timers' = [timers EXCEPT ![p] = @ \ Cleared(p, ids)]
      /\ armed' = [armed EXCEPT ![p] = [i \in Ids |-> IF i \in ids THEN 0 ELSE armed[p][i]]]
  BY DEF Dropped
<1>2. ASSUME NEW q \in Replicas PROVE Within(q)'
  <2>1. timers'[q] \subseteq timers[q]
    BY <1>0, <1>1
  <2>2. ASSUME NEW t \in timers'[q], Ahead(t) PROVE armed'[q][t.id] = armed[q][t.id]
    <3>1. t \in timers[q] /\ t.id \in Ids /\ armed[q][t.id] = t.h
      BY <1>0, <2>1, <2>2 DEF Timers, InReach, Within
    <3>2. CASE q = p
      <4>1. t.id \notin ids
        BY <1>0, <1>1, <2>2, <3>1, <3>2 DEF Cleared, Ahead
      <4>2. QED
        BY <1>0, <1>1, <3>1, <3>2, <4>1
    <3>3. CASE q # p
      BY <1>0, <1>1, <3>3
    <3>4. QED
      BY <3>2, <3>3
  <2>3. QED
    BY <1>0, <2>1, <2>2, WithinKept DEF InReach
<1>3. QED
  BY <1>2 DEF InReach

\* A call, or a timer that is due, takes no entry from a timer that is not.
LEMMA GoneWithin ==
  ASSUME Memory, InReach, NEW p \in Replicas, NEW t \in timers[p], t.due <= clock,
         timers' = [timers EXCEPT ![p] = @ \ {t}],
         armed' = [armed EXCEPT ![p][t.id] = 0],
         \/ UNCHANGED called
         \/ called' = [called EXCEPT ![p][t.id] = t.due],
         UNCHANGED <<clock, unread>>
  PROVE  InReach'
<1>0. /\ TypeOK /\ HeldTrue
      /\ timers \in [Replicas -> SUBSET Timers]
      /\ armed \in [Replicas -> [Ids -> 0 .. Handles]]
      /\ called \in [Replicas -> [Ids -> Moments \cup {Absent}]]
      /\ clock \in Nat
  BY DEF Memory, TypeOK, Moments
<1>1. t.id \in Ids
  BY <1>0 DEF Timers
<1>2. ASSUME NEW q \in Replicas PROVE Within(q)'
  <2>1. timers'[q] \subseteq timers[q]
    BY <1>0
  <2>2. ASSUME NEW u \in timers'[q], Ahead(u)
        PROVE  armed'[q][u.id] = armed[q][u.id] /\ called'[q][u.id] = called[q][u.id]
    <3>1. u \in timers[q] /\ u.id \in Ids /\ u.due \in Nat /\ t.due \in Nat
      BY <1>0, <2>1 DEF Timers, Moments
    <3>2. q = p => u.id # t.id
      BY <1>0, <2>2, <3>1, OneMoment DEF Ahead
    <3>3. armed'[q][u.id] = armed[q][u.id]
      BY <1>0, <1>1, <3>1, <3>2
    <3>4. called'[q][u.id] = called[q][u.id]
      BY <1>0, <1>1, <3>1, <3>2
    <3>5. QED
      BY <3>3, <3>4
  <2>3. QED
    BY <1>0, <2>1, <2>2, WithinKept DEF InReach
<1>3. QED
  BY <1>2 DEF InReach

\* A scan that arrives clears every timer of a row it should have read and did not, and
\* what it sets is of rows it read.
LEMMA ArmWithin ==
  ASSUME Memory, InReach, NEW p \in Replicas, Arm(p)
  PROVE  InReach'
<1>0. /\ timers \in [Replicas -> SUBSET Timers]
      /\ armed \in [Replicas -> [Ids -> 0 .. Handles]]
      /\ called \in [Replicas -> [Ids -> Moments \cup {Absent}]]
      /\ unread \in [Replicas -> SUBSET Ids]
      /\ clock \in Nat /\ clock' = clock
      /\ scan[p] \in Scans
      /\ TypeOK /\ PageTrue
  BY DEF Memory, TypeOK, Moments, Arm
<1>1. PICK set : set = {[id |-> r.id, h |-> Least(Free(p, r.id)), due |-> r.due,
                         lane |-> r.lane, fired |-> FALSE] : r \in Arming(p)}
  OBVIOUS
<1>2. /\ timers' = [timers EXCEPT ![p] = (@ \ Cleared(p, Unowed(p))) \cup set]
      /\ armed' = [armed EXCEPT ![p] =
                     [i \in Ids |-> IF \E t \in set : t.id = i
                                      THEN (CHOOSE t \in set : t.id = i).h
                                    ELSE IF i \in Unowed(p) THEN 0
                                    ELSE armed[p][i]]]
  BY <1>1 DEF Arm
<1>3. called' = [called EXCEPT ![p] =
                   [i \in Ids |-> IF \E r \in Fresh(p) : r.id = i /\ Lapsed(r)
                                    THEN (CHOOSE r \in Fresh(p) : r.id = i).due
                                    ELSE called[p][i]]]
  BY DEF Arm
<1>4. unread' = [unread EXCEPT ![p] =
                   (IF Cardinality(scan[p].page) = BATCH THEN unread[p] ELSE Ids)
                     \ {r.id : r \in scan[p].page}]
  BY DEF Arm
<1>5. ASSUME NEW q \in Replicas, q # p PROVE Within(q)'
  <2>1. /\ timers'[q] = timers[q] /\ armed'[q] = armed[q]
        /\ called'[q] = called[q] /\ unread'[q] = unread[q]
    BY <1>0, <1>2, <1>3, <1>4, <1>5
  <2>2. QED
    BY <1>0, <2>1, WithinKept DEF InReach
<1>6. ASSUME NEW t \in timers[p], t \notin Cleared(p, Unowed(p))
      PROVE  /\ t.fired => t.due <= clock
             /\ Ahead(t) => /\ armed'[p][t.id] = t.h
                            /\ called'[p][t.id] = Absent
                            /\ t.id \notin unread'[p]
  <2>1. t.fired => t.due <= clock
    BY DEF InReach, Within
  <2>2. ASSUME Ahead(t)
        PROVE  /\ armed'[p][t.id] = t.h
               /\ called'[p][t.id] = Absent
               /\ t.id \notin unread'[p]
    <3>1. /\ armed[p][t.id] = t.h /\ called[p][t.id] = Absent /\ t.id \notin unread[p]
          /\ t.id \in Ids /\ t.h # 0
      BY <1>0, <2>2 DEF InReach, Within, Timers
    <3>2. t.id \notin Unowed(p)
      BY <1>6, <2>2, <3>1 DEF Cleared, Ahead
    <3>3. Cardinality(scan[p].page) = BATCH \/ t.id \in {r.id : r \in scan[p].page}
      BY <3>1, <3>2 DEF Unowed
    <3>4. t.id \notin unread'[p]
      BY <1>0, <1>4, <3>1, <3>3
    <3>5. \A r \in Fresh(p) : r.id # t.id
      BY <3>1 DEF Fresh
    <3>6. called'[p][t.id] = Absent
      BY <1>0, <1>3, <3>1, <3>5
    <3>7. \A u \in set : u.id # t.id
      BY <1>1, <3>5 DEF Arming
    <3>8. armed'[p][t.id] = t.h
      BY <1>0, <1>2, <3>1, <3>2, <3>7
    <3>9. QED
      BY <3>4, <3>6, <3>8
  <2>3. QED
    BY <2>1, <2>2
<1>7. ASSUME NEW t \in set
      PROVE  /\ ~t.fired
             /\ armed'[p][t.id] = t.h
             /\ called'[p][t.id] = Absent
             /\ t.id \notin unread'[p]
  <2>1. PICK r \in Arming(p) : t = [id |-> r.id, h |-> Least(Free(p, r.id)), due |-> r.due,
                                    lane |-> r.lane, fired |-> FALSE]
    BY <1>1
  <2>2. r \in Fresh(p) /\ r \in scan[p].page /\ r.id \in Ids /\ t.id = r.id
    BY <1>0, <2>1 DEF Arming, Fresh, Scans
  <2>3. \A u \in set : u.id = t.id => u.h = t.h
    BY <1>1, <2>1
  <2>4. PICK c : c = CHOOSE u \in set : u.id = t.id
    OBVIOUS
  <2>5. c \in set /\ c.id = t.id
    BY <1>7, <2>4
  <2>6. armed'[p][t.id] = c.h
    BY <1>0, <1>2, <1>7, <2>2, <2>4
  <2>7. called[p][t.id] = Absent
    BY <2>2 DEF Fresh
  <2>8. called'[p][t.id] = Absent
    <3>1. \A q \in Fresh(p) : q.id = t.id => q = r
      BY <1>0, <2>2 DEF Fresh, PageTrue
    <3>2. ~Lapsed(r)
      BY <2>1 DEF Arming
    <3>3. QED
      BY <1>0, <1>3, <2>2, <2>7, <3>1, <3>2
  <2>9. t.id \notin unread'[p]
    BY <1>0, <1>4, <2>2
  <2>10. QED
    BY <2>1, <2>3, <2>5, <2>6, <2>8, <2>9
<1>8. Within(p)'
  <2>1. timers'[p] = (timers[p] \ Cleared(p, Unowed(p))) \cup set
    BY <1>0, <1>2
  <2>2. ASSUME NEW t \in timers'[p]
        PROVE  /\ t.fired => t.due <= clock
               /\ Ahead(t) => /\ armed'[p][t.id] = t.h
                              /\ called'[p][t.id] = Absent
                              /\ t.id \notin unread'[p]
    BY <1>6, <1>7, <2>1, <2>2
  <2>3. QED
    BY <1>0, <2>2 DEF Within, Ahead
<1>9. QED
  BY <1>5, <1>8 DEF InReach

\* Every step leaves a timer that is not due with its entry, uncalled and not missing.
LEMMA InReachStep == Memory /\ InReach /\ [Next]_vars => InReach'
<1> SUFFICES ASSUME Memory, InReach, [Next]_vars PROVE InReach'
  OBVIOUS
<1>0. /\ TypeOK
      /\ timers \in [Replicas -> SUBSET Timers]
      /\ called \in [Replicas -> [Ids -> Moments \cup {Absent}]]
      /\ clock \in Nat
  BY DEF Memory, TypeOK, Moments
<1>1. ASSUME UNCHANGED <<armed, timers, called, unread>>, clock <= clock', clock' \in Nat
      PROVE  InReach'
  BY <1>0, <1>1, WithinKept DEF InReach
<1>2. CASE \/ \E i \in Ids : Delay(i) \/ Cancel(i)
           \/ \E h \in Handers : (\E i \in Ids : Observe(h, i)) \/ Ensure(h) \/ Resume(h)
           \/ \E s \in strays : Stray(s)
           \/ UNCHANGED vars
  <2>1. UNCHANGED <<clock, armed, timers, called, unread>>
    BY <1>2 DEF Delay, Cancel, Observe, Ensure, Resume, Stray, vars, held, disposed, history
  <2>2. QED
    BY <1>0, <1>1, <2>1
<1>3. CASE Advance
  BY <1>0, <1>1, <1>3 DEF Advance, held, disposed, history
<1>4. ASSUME NEW p \in Replicas,
             \/ \E w \in Waiters : Land(p, w) \/ SettleFailed(p, w)
             \/ Open(p) \/ Tick(p) \/ Read(p) \/ ReadFailed(p)
      PROVE  InReach'
  <2>1. UNCHANGED <<clock, armed, timers, called, unread>>
    BY <1>4 DEF Land, SettleFailed, Open, Tick, Read, ReadFailed, held, disposed, history
  <2>2. QED
    BY <1>0, <1>1, <2>1
<1>5. ASSUME NEW p \in Replicas, NEW w \in Waiters, Settled(p, w) PROVE InReach'
  <2>1. UNCHANGED <<clock, armed, timers, unread>>
    BY <1>5 DEF Settled, held, history
  <2>2. called' = [called EXCEPT ![p] = [i \in Ids |-> IF settling[p][w].made[i] # Absent
                                                         THEN Absent ELSE called[p][i]]]
    BY <1>5 DEF Settled, Forgotten
  <2>3. ASSUME NEW q \in Replicas, NEW t \in timers[q]
        PROVE  called'[q][t.id] = called[q][t.id] \/ called'[q][t.id] = Absent
    <3>1. t.id \in Ids
      BY <1>0 DEF Timers
    <3>2. QED
      BY <1>0, <2>2, <3>1
  <2>4. QED
    BY <1>0, <2>1, <2>3, WithinKept DEF InReach
<1>6. ASSUME NEW p \in Replicas, NEW t \in timers[p], Fire(p, t) PROVE InReach'
  <2>1. PICK f : f = [t EXCEPT !.fired = TRUE]
    OBVIOUS
  <2>2. f.due = t.due /\ f.fired
    BY <1>0, <2>1 DEF Timers
  <2>3. /\ timers' = [timers EXCEPT ![p] = (@ \ {t}) \cup {f}] /\ t.due <= clock
        /\ UNCHANGED <<clock, armed, called, unread>>
    BY <1>6, <2>1 DEF Fire, disposed, history
  <2>4. ASSUME NEW q \in Replicas, NEW u \in timers'[q]
        PROVE  /\ u.fired => u.due <= clock
               /\ Ahead(u) => /\ armed[q][u.id] = u.h
                              /\ called[q][u.id] = Absent
                              /\ u.id \notin unread[q]
    <3>1. u \in timers[q] \/ u = f
      BY <1>0, <2>3
    <3>2. QED
      BY <2>2, <2>3, <3>1 DEF InReach, Within, Ahead
  <2>5. QED
    BY <2>3, <2>4 DEF InReach, Within, Ahead
<1>7. ASSUME NEW p \in Replicas, NEW t \in timers[p],
             FireClosing(p, t) \/ Taken(p, t) \/ Refused(p, t) \/ Failed(p, t)
      PROVE  InReach'
  <2>1. t.due <= clock
    BY <1>7 DEF FireClosing, Taken, Refused, Failed, CallOver, InReach, Within
  <2>2. /\ timers' = [timers EXCEPT ![p] = @ \ {t}]
        /\ armed' = [armed EXCEPT ![p][t.id] = 0]
        /\ UNCHANGED <<clock, unread>>
    BY <1>7 DEF FireClosing, Taken, Refused, Failed, CallOver, history
  <2>3. UNCHANGED called \/ called' = [called EXCEPT ![p][t.id] = t.due]
    BY <1>7 DEF FireClosing, Taken, Refused, Failed, disposed
  <2>4. QED
    BY <2>1, <2>2, <2>3, GoneWithin
<1>8. ASSUME NEW p \in Replicas, (\E ls : Assign(p, ls)) \/ Unpause(p) PROVE InReach'
  <2>1. UNCHANGED <<clock, called, unread>> /\ (UNCHANGED held \/ \E ls : Dropped(p, Lost(p, ls)))
    BY <1>8 DEF Assign, Unpause, Adopt, disposed, history
  <2>2. QED
    BY <1>0, <1>1, <2>1, DroppedWithin DEF held
<1>9. ASSUME NEW p \in Replicas, Pause(p) \/ Close(p) PROVE InReach'
  BY <1>0, <1>9, DroppedWithin DEF Pause, Close, Stopped, disposed, history
<1>10. ASSUME NEW p \in Replicas, Exit(p) PROVE InReach'
  <2>1. timers'[p] = {}
    BY <1>0, <1>10 DEF Exit
  <2>2. ASSUME NEW q \in Replicas, q # p
        PROVE  /\ timers'[q] = timers[q] /\ armed'[q] = armed[q]
               /\ called'[q] = called[q] /\ unread'[q] = unread[q]
    BY <1>10, <2>2 DEF Exit, TypeOK
  <2>3. clock' = clock
    BY <1>10 DEF Exit
  <2>4. Within(p)'
    BY <2>1 DEF Within
  <2>5. ASSUME NEW q \in Replicas, q # p PROVE Within(q)'
    BY <1>0, <2>2, <2>3, <2>5, WithinKept DEF InReach
  <2>6. QED
    BY <2>4, <2>5 DEF InReach
<1>11. QED
  BY <1>2, <1>3, <1>4, <1>5, <1>6, <1>7, <1>8, <1>9, <1>10, ArmWithin DEF Next, Dispatcher, Calls

\* A timer of a delayed call that is not due is always one that can be cleared.
THEOREM Reached == Spec => []InReach
<1>1. Init => InReach
  BY DEF Init, InReach, Within
<1>2. QED
  BY <1>1, Remains, InReachStep, PTL DEF Spec

\* A delayed call is held only for as long as the store says it is owed: however lanes
\* change hands, whoever settles it, pauses or crashes, and whatever call of it is still
\* on its way (Dispatcher.forget).  Of a schedule this is not so: its row waits for
\* another moment each time, and the end of one call lets go of the timer of the next.
THEOREM GivenUp ==
  ASSUME Recurring = {}
  PROVE  Spec => []HeldWhileOwed
<1>1. InReach => HeldWhileOwed
  BY DEF HeldWhileOwed, InReach, Within, Ahead
<1>2. QED
  BY <1>1, Reached, PTL

=============================================================================
