----------------------------- MODULE WorkProofs ------------------------------
(***************************************************************************)
(* Deliveries for any components, operations, messages, calls and rounds,  *)
(* and whatever the other process serves.  Migrations for any number of    *)
(* replicas, migrations, steps and crashes, and any lease.  And the two as *)
(* they run together with Journal.                                         *)
(***************************************************************************)
EXTENDS MCWork, JournalProofs, FiniteSetTheorems, WellFoundedInduction, TLAPS

-----------------------------------------------------------------------------
(* Deliveries. *)

Places == {"unsent", "queued", "here", "loop", "there", "unserved", "parked", "over"}
Kinds == {"request", "task", "event"}
CloseSteps == {"none", "settling", "settled", "sealing", "sealed"}
Phases == {"serving", "receiver", "producer", "closed", "opening"}

Mails == [at : Places, kind : Kinds, to : Comps, op : Operations, from : {0} \cup Ids,
          again : 0 .. RESENDS + TRIES]

Closings == [phase : Phases, step : CloseSteps]

(* Messages are sent in the order of their numbers. *)
InTurn == \A m, n \in Ids : message[m].at = "unsent" /\ m < n => message[n].at = "unsent"

(* Who calls was sent before what it calls; and one that the loop brought  *)
(* is called from within this process, by a handler that is not over.      *)
Called == \A n \in Ids : /\ message[n].from # 0 => message[n].kind = "request" /\ message[n].from < n
                         /\ message[n].at = "loop" => message[n].from \in Inside

(* How far a consumer is in closing, and its communication with it. *)
Stepwise ==
  \A c \in Comps : /\ consumer[c].phase \in {"serving", "closed", "opening"} <=> consumer[c].step = "none"
                   /\ consumer[c].phase = "serving" => comm[c] = "open"

(* The communication is sealed only after the teardown saw nothing handled.*)
SealedSeen ==
  ~late => \A c \in Comps : comm[c] = "sealed" => consumer[c].step # "settling"

(* What the teardown saw stays true. *)
SeenStill == ~late /\ Seen => Here = {}

(* The inductive invariant. *)
DeliveriesInv == DeliveriesOK /\ InTurn /\ Called /\ Stepwise /\ SealedSeen /\ SeenStill

-----------------------------------------------------------------------------
(* What a message is before it is sent, and after everyone is done with it. *)
LEMMA UnsentType == Unsent \in Mails /\ Unsent.at = "unsent" /\ Unsent.from = 0
<1>1. (CHOOSE c \in Comps : TRUE) \in Comps /\ (CHOOSE o \in Operations : TRUE) \in Operations
  BY DeliveriesAssumption
<1>2. 0 \in 0 .. RESENDS + TRIES
  BY DeliveriesAssumption
<1>3. QED
  BY <1>1, <1>2 DEF Unsent, Mails, Places, Kinds

(* As above. *)
LEMMA SpentType == Spent \in Mails /\ Spent.at = "over" /\ Spent.from = 0
BY UnsentType DEF Spent, Mails, Places

(* The types of the state in the terms of this module. *)
LEMMA DeliveriesTypes ==
  DeliveriesOK <=> /\ message \in [Ids -> Mails]
                   /\ consumer \in [Comps -> Closings]
                   /\ comm \in [Comps -> {"open", "sealing", "sealed"}]
                   /\ stopping \in BOOLEAN
                   /\ round \in 0 .. Rounds
                   /\ late \in BOOLEAN
BY DEF DeliveriesOK, Mails, Closings, Places, Kinds, Phases, CloseSteps

(* As above, after a step. *)
LEMMA NextTypes ==
  ASSUME message' \in [Ids -> Mails], consumer' \in [Comps -> Closings],
         comm' \in [Comps -> {"open", "sealing", "sealed"}], stopping' \in BOOLEAN,
         round' \in 0 .. Rounds, late' \in BOOLEAN
  PROVE  DeliveriesOK'
BY DEF DeliveriesOK, Mails, Closings, Places, Kinds, Phases, CloseSteps

(* Numbers of messages are naturals, and what is here of them is finite. *)
LEMMA FiniteHere == IsFiniteSet(Here) /\ (Cardinality(Here) = 0 <=> Here = {})
<1>1. IsFiniteSet(Ids)
  BY FS_Interval, DeliveriesAssumption DEF Ids
<1>2. IsFiniteSet(Here)
  BY <1>1, FS_Subset DEF Here
<1>3. QED
  BY <1>2, FS_EmptySet

(* Nothing is sent at the start, and everything serves. *)
LEMMA DeliveriesInitially == DeliveriesInit => DeliveriesInv
<1> SUFFICES ASSUME DeliveriesInit PROVE DeliveriesInv
  OBVIOUS
<1>1. message \in [Ids -> Mails] /\ \A m \in Ids : message[m].at = "unsent" /\ message[m].from = 0
  BY UnsentType DEF DeliveriesInit
<1>2. consumer \in [Comps -> Closings] /\ \A c \in Comps : /\ consumer[c].phase = "serving"
                                                          /\ consumer[c].step = "none"
                                                          /\ comm[c] = "open"
  BY DEF DeliveriesInit, Serving, Closings, Phases, CloseSteps
<1>3. DeliveriesOK
  <2>1. comm \in [Comps -> {"open", "sealing", "sealed"}] /\ stopping \in BOOLEAN /\ late \in BOOLEAN
    BY DEF DeliveriesInit
  <2>2. round \in 0 .. Rounds
    BY DeliveriesAssumption DEF DeliveriesInit
  <2>3. QED
    BY <1>1, <1>2, <2>1, <2>2, DeliveriesTypes
<1>4. InTurn /\ Called
  BY <1>1 DEF InTurn, Called
<1>5. Stepwise /\ SealedSeen /\ SeenStill
  BY <1>2 DEF Stepwise, SealedSeen, SeenStill, Seen
<1>6. QED
  BY <1>3, <1>4, <1>5 DEF DeliveriesInv

-----------------------------------------------------------------------------
(* What the loop brought leads back to a delivery: where none is here,     *)
(* nothing is handled in this process.                                     *)
LEMMA NoneInside == ASSUME DeliveriesOK, Called, Here = {} PROVE Inside = {}
<1> DEFINE looped == {m \in Ids : message[m].at = "loop"}
<1>1. Inside = looped
  BY DEF Inside, Here
<1>2. SUFFICES ASSUME looped # {} PROVE FALSE
  BY <1>1
<1>3. looped \subseteq Nat
  BY DEF Ids
<1>4. PICK n \in looped : \A m \in looped : ~(<<m, n>> \in OpToRel(<, Nat))
  BY <1>2, <1>3, NatLessThanWellFounded, WFMin
<1>5. message[n].from \in looped
  BY <1>1 DEF Called
<1>6. message[n].from # 0
  BY <1>5 DEF Ids
<1>7. message[n].from < n
  BY <1>6 DEF Called
<1>8. <<message[n].from, n>> \in OpToRel(<, Nat)
  BY <1>3, <1>5, <1>7 DEF OpToRel
<1>9. QED
  BY <1>4, <1>5, <1>8

(* The invariant says what is checked: one that waits inside this process  *)
(* keeps the teardown from having seen nothing, and so from having sealed. *)
LEMMA Concluded == DeliveriesInv => NotWaitingOnSealed
<1> SUFFICES ASSUME DeliveriesInv, ~late, NEW m \in Inside, NEW n \in Outstanding(m),
                    message[n].at = "queued", consumer[message[n].to].phase # "opening"
             PROVE  Consumes(message[n].to)
  BY DEF NotWaitingOnSealed
<1> DEFINE c == message[n].to
<1>1. c \in Comps /\ consumer[c].phase \in Phases /\ consumer[c].step \in CloseSteps
  BY DeliveriesTypes DEF DeliveriesInv, Outstanding, Mails, Closings
<1>2. ~Seen
  BY NoneInside DEF DeliveriesInv, SeenStill
<1>3. consumer[c].phase # "closed"
  <2>1. consumer[c].phase = "closed" => consumer[c].step = "none"
    BY <1>1 DEF DeliveriesInv, Stepwise
  <2>2. QED
    BY <1>1, <1>2, <2>1 DEF Seen
<1>4. comm[c] # "sealed"
  <2>1. SUFFICES ASSUME comm[c] = "sealed" PROVE FALSE
    OBVIOUS
  <2>2. consumer[c].step # "settling" /\ consumer[c].phase # "serving"
    BY <1>1, <2>1 DEF DeliveriesInv, SealedSeen, Stepwise
  <2>3. consumer[c].phase \in {"receiver", "producer"}
    BY <1>1, <1>3, <2>2 DEF Phases
  <2>4. QED
    BY <1>1, <1>2, <2>2, <2>3 DEF Seen
<1>5. QED
  BY <1>3, <1>4 DEF Consumes

-----------------------------------------------------------------------------
(* One message becomes another: what has to hold of it. *)
LEMMA SetMail ==
  ASSUME DeliveriesInv, NEW m \in Ids, NEW r \in Mails, message' = [message EXCEPT ![m] = r],
         r.at # "unsent", \A n \in Ids : n < m => message[n].at # "unsent",
         r.from # 0 => r.kind = "request" /\ r.from < m,
         r.at = "loop" => r.from \in Inside,
         r.at \notin {"here", "loop"} => \A n \in Ids : message[n].at = "loop" => message[n].from # m
  PROVE  message' \in [Ids -> Mails] /\ InTurn' /\ Called'
<1>1. message \in [Ids -> Mails]
  BY DeliveriesTypes DEF DeliveriesInv
<1>2. message'[m] = r /\ \A n \in Ids \ {m} : message'[n] = message[n]
  BY <1>1
<1>3. message' \in [Ids -> Mails]
  BY <1>1
<1>4. InTurn'
  <2>1. InTurn /\ Ids \subseteq Nat
    BY DEF DeliveriesInv, Ids
  <2>2. QED
    BY <1>2, <2>1 DEF InTurn
<1>5. Called'
  <2>1. SUFFICES ASSUME NEW n \in Ids
                 PROVE  /\ message'[n].from # 0 => message'[n].kind = "request" /\ message'[n].from < n
                        /\ message'[n].at = "loop" => message'[n].from \in Inside'
    BY DEF Called
  <2>2. /\ message[n].from # 0 => message[n].kind = "request" /\ message[n].from < n
        /\ message[n].at = "loop" => message[n].from \in Inside
    BY DEF DeliveriesInv, Called
  <2>3. Inside \ {m} \subseteq Inside' /\ (r.at \in {"here", "loop"} => m \in Inside')
    BY <1>2 DEF Inside
  <2>4. r.at = "loop" => r.from # m
    BY DEF Inside, Ids
  <2>5. CASE n = m
    BY <1>2, <2>3, <2>4, <2>5
  <2>6. CASE n # m
    BY <1>2, <2>2, <2>3, <2>6
  <2>7. QED
    BY <2>5, <2>6
<1>6. QED
  BY <1>3, <1>4, <1>5

(* A step that leaves the consumers as they are. *)
LEMMA MailStep ==
  ASSUME DeliveriesInv, message' \in [Ids -> Mails], InTurn', Called',
         UNCHANGED <<consumer, comm, stopping, round>>, late' \in BOOLEAN, late => late',
         ~late' /\ Seen => Here' \subseteq Here
  PROVE  DeliveriesInv'
<1>1. DeliveriesOK
  BY DEF DeliveriesInv
<1>2. DeliveriesOK'
  BY <1>1, DeliveriesTypes, NextTypes
<1>3. Stepwise'
  BY DEF DeliveriesInv, Stepwise
<1>4. SealedSeen'
  BY DEF DeliveriesInv, SealedSeen
<1>5. SeenStill'
  BY DEF DeliveriesInv, SeenStill, Seen
<1>6. QED
  BY <1>2, <1>3, <1>4, <1>5 DEF DeliveriesInv

(* What there is to know of a message that was sent. *)
LEMMA SentMail ==
  ASSUME DeliveriesInv, NEW m \in Ids
  PROVE  /\ message[m] \in Mails
         /\ message[m].at # "unsent" => \A n \in Ids : n < m => message[n].at # "unsent"
         /\ message[m].from # 0 => message[m].kind = "request" /\ message[m].from < m
         /\ m \notin Inside => \A n \in Ids : message[n].at = "loop" => message[n].from # m
BY DeliveriesTypes DEF DeliveriesInv, InTurn, Called

(* The place of a message is set. *)
LEMMA PlaceMail ==
  ASSUME DeliveriesInv, NEW m \in Ids, NEW at \in Places \ {"unsent", "loop"},
         message' = [message EXCEPT ![m].at = at], message[m].at # "unsent",
         at = "here" \/ \A n \in Ids : message[n].at = "loop" => message[n].from # m
  PROVE  message' \in [Ids -> Mails] /\ InTurn' /\ Called'
<1>1. message \in [Ids -> Mails]
  BY DeliveriesTypes DEF DeliveriesInv
<1>2. PICK r : r = [message[m] EXCEPT !.at = at]
  OBVIOUS
<1>3. r \in Mails /\ r.at = at /\ r.from = message[m].from /\ r.kind = message[m].kind
  BY <1>1, <1>2 DEF Mails
<1>4. message' = [message EXCEPT ![m] = r]
  BY <1>1, <1>2
<1>5. /\ \A n \in Ids : n < m => message[n].at # "unsent"
      /\ message[m].from # 0 => message[m].kind = "request" /\ message[m].from < m
  BY SentMail
<1>6. r.at # "unsent" /\ r.at # "loop"
  BY <1>3
<1>7. r.at \notin {"here", "loop"} => \A n \in Ids : message[n].at = "loop" => message[n].from # m
  BY <1>3
<1>8. QED
  BY <1>3, <1>4, <1>5, <1>6, <1>7, SetMail

(* A message is sent from outside. *)
LEMMA ArrivesStep ==
  ASSUME DeliveriesInv, NEW m \in Ids, NEW c \in Comps, NEW kind \in Kinds, NEW op \in Operations,
         Arrives(m, c, kind, op)
  PROVE  DeliveriesInv'
<1>1. PICK r : r = [at |-> "queued", kind |-> kind, to |-> c, op |-> op, from |-> 0, again |-> 0]
  OBVIOUS
<1>2. 0 \in 0 .. RESENDS + TRIES
  BY DeliveriesAssumption
<1>3. r \in Mails /\ r.at = "queued" /\ r.from = 0
  BY <1>1, <1>2 DEF Mails, Places
<1>4. message' = [message EXCEPT ![m] = r] /\ UNCHANGED <<consumer, comm, stopping, round, late>>
  BY <1>1 DEF Arrives
<1>5. message[m].at = "unsent" /\ \A n \in Ids : n < m => message[n].at # "unsent"
  BY DEF Arrives, Next1, Ids
<1>6. m \notin Inside
  BY <1>5 DEF Inside
<1>7. message' \in [Ids -> Mails] /\ InTurn' /\ Called'
  BY <1>3, <1>4, <1>5, <1>6, SentMail, SetMail
<1>8. Here' \subseteq Here
  BY <1>3, <1>4, DeliveriesTypes DEF Here, DeliveriesInv
<1>9. late \in BOOLEAN
  BY DeliveriesTypes DEF DeliveriesInv
<1>10. QED
  BY <1>4, <1>7, <1>8, <1>9, MailStep

(* A consumer of this process takes a message. *)
LEMMA TakeStep == ASSUME DeliveriesInv, NEW m \in Ids, Take(m) PROVE DeliveriesInv'
<1>1. PICK at : at = Taken(m, Served[message[m].to], "here")
  OBVIOUS
<1>2. at \in {"here", "parked", "unserved"}
  BY <1>1 DEF Taken
<1>3. message[m].at = "queued" /\ message' = [message EXCEPT ![m].at = at]
  BY <1>1 DEF Take
<1>4. m \notin Inside
  BY <1>3 DEF Inside
<1>5. message' \in [Ids -> Mails] /\ InTurn' /\ Called'
  BY <1>2, <1>3, <1>4, SentMail, PlaceMail DEF Places
<1>6. UNCHANGED <<consumer, comm, stopping, round>> /\ late' = (late \/ (at = "here" /\ Seen))
  BY <1>1 DEF Take
<1>7. late' \in BOOLEAN
  BY <1>6, DeliveriesTypes DEF DeliveriesInv
<1>8. at # "here" => Here' \subseteq Here
  BY <1>3, DeliveriesTypes DEF Here, DeliveriesInv, Mails
<1>9. QED
  BY <1>5, <1>6, <1>7, <1>8, MailStep

(* The other process takes it. *)
LEMMA TakeThereStep == ASSUME DeliveriesInv, NEW m \in Ids, TakeThere(m) PROVE DeliveriesInv'
<1>1. PICK at : at = Taken(m, Theirs[message[m].to], "there")
  OBVIOUS
<1>2. at \in {"there", "parked", "unserved"}
  BY <1>1 DEF Taken
<1>3. message[m].at = "queued" /\ message' = [message EXCEPT ![m].at = at]
  BY <1>1 DEF TakeThere
<1>4. m \notin Inside
  BY <1>3 DEF Inside
<1>5. message' \in [Ids -> Mails] /\ InTurn' /\ Called'
  BY <1>2, <1>3, <1>4, SentMail, PlaceMail DEF Places
<1>6. UNCHANGED <<consumer, comm, stopping, round, late>>
  BY DEF TakeThere
<1>7. Here' \subseteq Here
  BY <1>2, <1>3, DeliveriesTypes DEF Here, DeliveriesInv, Mails
<1>8. late \in BOOLEAN
  BY DeliveriesTypes DEF DeliveriesInv
<1>9. QED
  BY <1>5, <1>6, <1>7, <1>8, MailStep

(* A handler calls a component. *)
LEMMA CallsStep ==
  ASSUME DeliveriesInv, NEW m \in Ids, NEW n \in Ids, NEW c \in Comps, NEW op \in Operations,
         Calls(m, n, c, op)
  PROVE  DeliveriesInv'
<1>1. PICK at : at = IF m \in Inside /\ Looped(c) /\ op \in Served[c] THEN "loop" ELSE "queued"
  OBVIOUS
<1>2. PICK r : r = [at |-> at, kind |-> "request", to |-> c, op |-> op, from |-> m, again |-> 0]
  OBVIOUS
<1>3. 0 \in 0 .. RESENDS + TRIES
  BY DeliveriesAssumption
<1>4. at \in {"loop", "queued"} /\ (at = "loop" => m \in Inside)
  BY <1>1
<1>5. r \in Mails /\ r.at = at /\ r.from = m /\ r.kind = "request"
  BY <1>2, <1>3, <1>4 DEF Mails, Places, Kinds
<1>6. message' = [message EXCEPT ![n] = r] /\ UNCHANGED <<consumer, comm, stopping, round, late>>
  BY <1>1, <1>2 DEF Calls
<1>7. message[n].at = "unsent" /\ \A k \in Ids : k < n => message[k].at # "unsent"
  BY DEF Calls, Next1, Ids
<1>8. m < n
  <2>1. message[m].at # "unsent"
    BY DEF Calls, Handled
  <2>2. ~(n < m) /\ n # m
    BY <1>7, <2>1 DEF DeliveriesInv, InTurn
  <2>3. QED
    BY <2>2 DEF Ids
<1>9. n \notin Inside
  BY <1>7 DEF Inside
<1>10. message' \in [Ids -> Mails] /\ InTurn' /\ Called'
  BY <1>4, <1>5, <1>6, <1>7, <1>8, <1>9, SentMail, SetMail
<1>11. Here' \subseteq Here
  BY <1>4, <1>5, <1>6, DeliveriesTypes DEF Here, DeliveriesInv
<1>12. late \in BOOLEAN
  BY DeliveriesTypes DEF DeliveriesInv
<1>13. QED
  BY <1>6, <1>10, <1>11, <1>12, MailStep

(* An unserved call is sent again, or its caller told. *)
LEMMA SendAgainStep == ASSUME DeliveriesInv, NEW n \in Ids, SendAgain(n) PROVE DeliveriesInv'
<1>1. message[n] \in Mails /\ message[n].at = "unserved"
  BY SentMail DEF SendAgain
<1>2. UNCHANGED <<consumer, comm, stopping, round, late>>
  BY DEF SendAgain
<1>3. PICK r \in Mails : /\ message' = [message EXCEPT ![n] = r]
                         /\ r.at \in {"over", "queued"}
                         /\ r.from # 0 => r.from = message[n].from /\ r.kind = message[n].kind
  <2>1. CASE Aborted(n) \/ message[n].again >= RESENDS
    <3>1. message' = [message EXCEPT ![n] = Spent]
      BY <2>1 DEF SendAgain
    <3>2. QED
      BY <3>1, SpentType
  <2>2. CASE ~(Aborted(n) \/ message[n].again >= RESENDS)
    <3>1. PICK r : r = [message[n] EXCEPT !.at = "queued", !.again = message[n].again + 1]
      OBVIOUS
    <3>2. message' = [message EXCEPT ![n] = r]
      BY <2>2, <3>1 DEF SendAgain
    <3>3. message[n].again \in 0 .. RESENDS + TRIES /\ message[n].again < RESENDS
      BY <1>1, <2>2, DeliveriesAssumption DEF Mails
    <3>4. message[n].again + 1 \in 0 .. RESENDS + TRIES
      BY <3>3, DeliveriesAssumption
    <3>5. r \in Mails /\ r.at = "queued" /\ r.from = message[n].from /\ r.kind = message[n].kind
      BY <1>1, <3>1, <3>4 DEF Mails, Places
    <3>6. QED
      BY <3>2, <3>5
  <2>3. QED
    BY <2>1, <2>2
<1>4. n \notin Inside
  BY <1>1 DEF Inside
<1>5. message' \in [Ids -> Mails] /\ InTurn' /\ Called'
  BY <1>1, <1>3, <1>4, SentMail, SetMail
<1>6. Here' \subseteq Here
  BY <1>3, DeliveriesTypes DEF Here, DeliveriesInv
<1>7. late \in BOOLEAN
  BY DeliveriesTypes DEF DeliveriesInv
<1>8. QED
  BY <1>2, <1>5, <1>6, <1>7, MailStep

(* A handler ends: the message is not handled any more. *)
LEMMA EndsMail ==
  ASSUME DeliveriesInv, NEW m \in Ids, NEW at \in {"over", "parked", "queued"}, Ends(m, at)
  PROVE  message' \in [Ids -> Mails] /\ InTurn' /\ Called' /\ Here' = Here \ {m}
<1>1. message[m] \in Mails /\ message[m].at \in {"here", "loop", "there"}
  BY SentMail DEF Ends, Handled
<1>2. \A n \in Ids : message[n].at = "loop" => message[n].from # m
  BY DEF Ends, Handled, Outstanding
<1>3. PICK r \in Mails : /\ message' = [message EXCEPT ![m] = r]
                         /\ r.at \in {"over", "parked", "queued"}
                         /\ r.from # 0 => r.from = message[m].from /\ r.kind = message[m].kind
  <2>1. CASE at = "over"
    <3>1. message' = [message EXCEPT ![m] = Spent]
      BY <2>1 DEF Ends
    <3>2. QED
      BY <3>1, SpentType
  <2>2. CASE at = "parked"
    <3>1. PICK r : r = [message[m] EXCEPT !.at = at]
      OBVIOUS
    <3>2. message' = [message EXCEPT ![m] = r]
      BY <2>2, <3>1 DEF Ends
    <3>3. r \in Mails /\ r.at = at /\ r.from = message[m].from /\ r.kind = message[m].kind
      BY <1>1, <2>2, <3>1 DEF Mails, Places
    <3>4. QED
      BY <2>2, <3>2, <3>3
  <2>3. CASE at = "queued"
    <3>1. PICK r : r = [message[m] EXCEPT !.at = at, !.again = message[m].again + 1]
      OBVIOUS
    <3>2. message' = [message EXCEPT ![m] = r]
      BY <2>3, <3>1 DEF Ends
    <3>3. message[m].again \in 0 .. RESENDS + TRIES /\ message[m].again < TRIES
      BY <1>1, <2>3 DEF Mails, Ends
    <3>4. message[m].again + 1 \in 0 .. RESENDS + TRIES
      BY <3>3, DeliveriesAssumption
    <3>5. r \in Mails /\ r.at = at /\ r.from = message[m].from /\ r.kind = message[m].kind
      BY <1>1, <2>3, <3>1, <3>4 DEF Mails, Places
    <3>6. QED
      BY <2>3, <3>2, <3>5
  <2>4. QED
    BY <2>1, <2>2, <2>3
<1>4. message' \in [Ids -> Mails] /\ InTurn' /\ Called'
  BY <1>1, <1>2, <1>3, SentMail, SetMail
<1>5. Here' = Here \ {m}
  BY <1>3, DeliveriesTypes DEF Here, DeliveriesInv
<1>6. QED
  BY <1>4, <1>5

(* The last delivery to end resolves everyone who waits for there to be    *)
(* none.                                                                   *)
LEMMA EndsStep ==
  ASSUME DeliveriesInv, NEW m \in Ids, NEW at \in {"over", "parked", "queued"}, Ends(m, at)
  PROVE  DeliveriesInv'
<1>1. message' \in [Ids -> Mails] /\ InTurn' /\ Called' /\ Here' = Here \ {m}
  BY EndsMail
<1>2. UNCHANGED <<comm, stopping, round, late>>
  BY DEF Ends
<1>3. DeliveriesOK /\ consumer \in [Comps -> Closings] /\ late \in BOOLEAN
  BY DeliveriesTypes DEF DeliveriesInv
<1>4. CASE UNCHANGED consumer
  BY <1>1, <1>2, <1>3, <1>4, MailStep
<1>5. CASE Here = {m} /\ consumer' = [c \in Comps |-> IF consumer[c].step = "settling"
                                                     THEN [consumer[c] EXCEPT !.step = "settled"]
                                                     ELSE consumer[c]]
  <2>1. consumer' \in [Comps -> Closings]
    BY <1>3, <1>5 DEF Closings, CloseSteps
  <2>2. \A c \in Comps : /\ consumer'[c].phase = consumer[c].phase
                         /\ consumer'[c].step # "settling"
                         /\ consumer'[c].step = "none" <=> consumer[c].step = "none"
    BY <1>3, <1>5 DEF Closings
  <2>3. DeliveriesOK'
    BY <1>1, <1>2, <1>3, <2>1, DeliveriesTypes, NextTypes
  <2>4. Stepwise' /\ SealedSeen'
    BY <1>2, <2>2 DEF DeliveriesInv, Stepwise, SealedSeen
  <2>5. SeenStill'
    BY <1>1, <1>5 DEF SeenStill
  <2>6. QED
    BY <1>1, <2>3, <2>4, <2>5 DEF DeliveriesInv
<1>6. QED
  BY <1>4, <1>5 DEF Ends, Done

-----------------------------------------------------------------------------
(* A step that leaves the messages as they are. *)
LEMMA ClosingStep ==
  ASSUME DeliveriesInv, UNCHANGED message, consumer' \in [Comps -> Closings],
         comm' \in [Comps -> {"open", "sealing", "sealed"}], stopping' \in BOOLEAN,
         round' \in 0 .. Rounds, late' \in BOOLEAN, Stepwise', SealedSeen', SeenStill'
  PROVE  DeliveriesInv'
<1>1. DeliveriesOK'
  BY NextTypes, DeliveriesTypes DEF DeliveriesInv
<1>2. InTurn'
  BY DEF DeliveriesInv, InTurn
<1>3. Called'
  BY DEF DeliveriesInv, Called, Inside
<1>4. QED
  BY <1>1, <1>2, <1>3 DEF DeliveriesInv

(* What the others are said to be when nothing of them changes. *)
LEMMA SameHere == ASSUME UNCHANGED message PROVE Here' = Here
BY DEF Here

(* What a consumer is when it begins to wait for the deliveries. *)
LEMMA AwaitType ==
  ASSUME NEW phase \in Phases
  PROVE  /\ Await(phase, Cardinality(Here)) \in Closings
         /\ Await(phase, Cardinality(Here)).phase = phase
         /\ Await(phase, Cardinality(Here)).step = IF Here = {} THEN "settled" ELSE "settling"
BY FiniteHere DEF Await, Closings, CloseSteps

(* The teardown begins, having seen nothing or waiting for everything. *)
LEMMA TeardownStep == ASSUME DeliveriesInv, Teardown PROVE DeliveriesInv'
<1>1. UNCHANGED <<message, comm, round, late>>
  BY DEF Teardown
<1>2. DeliveriesOK
  BY DEF DeliveriesInv
<1>3. \A c \in Comps : /\ consumer'[c] \in Closings
                       /\ consumer'[c].phase \in {"receiver", "producer"}
                       /\ consumer'[c].step = IF Here = {} THEN "settled" ELSE "settling"
  <2>1. {"receiver", "producer"} \subseteq Phases
    BY DEF Phases
  <2>2. SUFFICES ASSUME NEW c \in Comps
                 PROVE  /\ consumer'[c] \in Closings
                        /\ consumer'[c].phase \in {"receiver", "producer"}
                        /\ consumer'[c].step = IF Here = {} THEN "settled" ELSE "settling"
    OBVIOUS
  <2>3. PICK phase \in {"receiver", "producer"} : consumer'[c] = Await(phase, Cardinality(Here))
    BY DEF Teardown
  <2>4. QED
    BY <2>1, <2>3, AwaitType
<1>4. consumer' \in [Comps -> Closings]
  BY <1>3 DEF Teardown
<1>5. stopping' \in BOOLEAN
  BY DEF Teardown
<1>6. \A c \in Comps : comm[c] = "open"
  BY DEF Teardown, Serving, DeliveriesInv, Stepwise
<1>7. Stepwise' /\ SealedSeen'
  BY <1>1, <1>3, <1>6 DEF Stepwise, SealedSeen
<1>8. SeenStill'
  BY <1>1, <1>3, SameHere DEF SeenStill, Seen
<1>9. QED
  BY <1>1, <1>2, <1>4, <1>5, <1>7, <1>8, DeliveriesTypes, ClosingStep

(* One consumer moves on, having been seen or not as before. *)
LEMMA OneCloses ==
  ASSUME DeliveriesInv, UNCHANGED <<message, round, late>>, stopping' \in BOOLEAN, NEW c \in Comps,
         NEW k \in Closings, consumer' = [consumer EXCEPT ![c] = k],
         comm' \in [Comps -> {"open", "sealing", "sealed"}],
         \A d \in Comps \ {c} : comm'[d] = comm[d],
         k.phase \in {"serving", "closed", "opening"} <=> k.step = "none",
         k.phase = "serving" => comm'[c] = "open",
         ~late /\ comm'[c] = "sealed" => k.step # "settling",
         ~late /\ k.phase \in {"receiver", "producer", "closed"} /\ k.step # "settling" => Here = {}
  PROVE  DeliveriesInv'
<1>1. DeliveriesOK /\ consumer \in [Comps -> Closings]
  BY DeliveriesTypes DEF DeliveriesInv
<1>2. consumer' \in [Comps -> Closings]
  BY <1>1
<1>3. consumer'[c] = k /\ \A d \in Comps \ {c} : consumer'[d] = consumer[d]
  BY <1>1
<1>4. Stepwise'
  BY <1>3 DEF DeliveriesInv, Stepwise
<1>5. SealedSeen'
  BY <1>3 DEF DeliveriesInv, SealedSeen
<1>6. SeenStill'
  <2>1. ASSUME ~late, NEW d \in Comps, consumer'[d].phase \in {"receiver", "producer", "closed"},
               consumer'[d].step # "settling"
        PROVE  Here = {}
    <3>1. CASE d = c
      BY <1>3, <2>1, <3>1
    <3>2. CASE d # c
      BY <1>3, <2>1, <3>2 DEF DeliveriesInv, SeenStill, Seen
    <3>3. QED
      BY <3>1, <3>2
  <2>2. QED
    BY <2>1, SameHere DEF SeenStill, Seen
<1>7. QED
  BY <1>1, <1>2, <1>4, <1>5, <1>6, DeliveriesTypes, ClosingStep

(* What there is to know of a consumer. *)
LEMMA OneConsumer ==
  ASSUME DeliveriesInv, NEW c \in Comps
  PROVE  /\ consumer[c] \in Closings
         /\ comm \in [Comps -> {"open", "sealing", "sealed"}]
         /\ stopping \in BOOLEAN
         /\ consumer[c].phase \in {"serving", "closed", "opening"} <=> consumer[c].step = "none"
         /\ ~late /\ consumer[c].phase \in {"receiver", "producer", "closed"}
              /\ consumer[c].step # "settling" => Here = {}
BY DeliveriesTypes DEF DeliveriesInv, Stepwise, SeenStill, Seen

(* It calls for its communication to be sealed. *)
LEMMA SealsStep == ASSUME DeliveriesInv, NEW c \in Comps, Seals(c) PROVE DeliveriesInv'
<1>1. PICK k : k = [consumer[c] EXCEPT !.step = "sealing"]
  OBVIOUS
<1>2. /\ consumer[c] \in Closings
      /\ comm \in [Comps -> {"open", "sealing", "sealed"}]
      /\ stopping \in BOOLEAN
      /\ consumer[c].step = "settled"
  BY OneConsumer DEF Seals
<1>3. k \in Closings /\ k.phase = consumer[c].phase /\ k.step = "sealing"
  BY <1>1, <1>2 DEF Closings, CloseSteps
<1>4. consumer' = [consumer EXCEPT ![c] = k] /\ UNCHANGED <<message, stopping, round, late>>
  BY <1>1 DEF Seals
<1>5. comm' \in [Comps -> {"open", "sealing", "sealed"}] /\ \A d \in Comps \ {c} : comm'[d] = comm[d]
  BY <1>2 DEF Seals
<1>6. k.phase \notin {"serving", "closed", "opening"}
  BY <1>2, <1>3, OneConsumer
<1>7. ~late /\ k.phase \in {"receiver", "producer", "closed"} => Here = {}
  BY <1>2, <1>3, OneConsumer
<1>8. QED
  BY <1>2, <1>3, <1>4, <1>5, <1>6, <1>7, OneCloses

(* It is sealed. *)
LEMMA SealedStep == ASSUME DeliveriesInv, NEW c \in Comps, Sealed(c) PROVE DeliveriesInv'
<1>1. PICK k : k = [consumer[c] EXCEPT !.step = "sealed"]
  OBVIOUS
<1>2. /\ consumer[c] \in Closings
      /\ comm \in [Comps -> {"open", "sealing", "sealed"}]
      /\ stopping \in BOOLEAN
      /\ consumer[c].step = "sealing"
  BY OneConsumer DEF Sealed
<1>3. k \in Closings /\ k.phase = consumer[c].phase /\ k.step = "sealed"
  BY <1>1, <1>2 DEF Closings, CloseSteps
<1>4. consumer' = [consumer EXCEPT ![c] = k] /\ UNCHANGED <<message, stopping, round, late>>
  BY <1>1 DEF Sealed
<1>5. comm' \in [Comps -> {"open", "sealing", "sealed"}] /\ \A d \in Comps \ {c} : comm'[d] = comm[d]
  BY <1>2 DEF Sealed
<1>6. k.phase \notin {"serving", "closed", "opening"}
  BY <1>2, <1>3, OneConsumer
<1>7. ~late /\ k.phase \in {"receiver", "producer", "closed"} => Here = {}
  BY <1>2, <1>3, OneConsumer
<1>8. QED
  BY <1>2, <1>3, <1>4, <1>5, <1>6, <1>7, OneCloses

(* Its consumers are closed, or the producers follow the receivers: what   *)
(* was seen is still so, and they have nothing to wait for.                *)
LEMMA DrainsStep == ASSUME DeliveriesInv, NEW c \in Comps, Drains(c) PROVE DeliveriesInv'
<1>1. /\ consumer[c] \in Closings
      /\ comm \in [Comps -> {"open", "sealing", "sealed"}]
      /\ stopping \in BOOLEAN
      /\ consumer[c].step = "sealed"
      /\ UNCHANGED <<message, comm, round, late>>
  BY OneConsumer DEF Drains
<1>2. ~late /\ consumer[c].phase \in {"receiver", "producer"} => Here = {}
  BY <1>1, OneConsumer
<1>3. CASE consumer[c].phase = "receiver" /\ stopping' = TRUE
             /\ consumer' = [consumer EXCEPT ![c] = Await("producer", Cardinality(Here))]
  <2>1. PICK k : k = Await("producer", Cardinality(Here))
    OBVIOUS
  <2>2. k \in Closings /\ k.phase = "producer" /\ k.step = IF Here = {} THEN "settled" ELSE "settling"
    BY <2>1, AwaitType DEF Phases
  <2>3. consumer' = [consumer EXCEPT ![c] = k]
    BY <1>3, <2>1
  <2>4. QED
    BY <1>1, <1>2, <1>3, <2>2, <2>3, OneCloses
<1>4. CASE consumer[c].phase = "producer" /\ UNCHANGED stopping
             /\ consumer' = [consumer EXCEPT ![c] = [phase |-> "closed", step |-> "none"]]
  <2>1. PICK k : k = [phase |-> "closed", step |-> "none"]
    OBVIOUS
  <2>2. k \in Closings /\ k.phase = "closed" /\ k.step = "none"
    BY <2>1 DEF Closings, Phases, CloseSteps
  <2>3. consumer' = [consumer EXCEPT ![c] = k]
    BY <1>4, <2>1
  <2>4. QED
    BY <1>1, <1>2, <1>4, <2>2, <2>3, OneCloses
<1>5. QED
  BY <1>3, <1>4 DEF Drains

(* The process is built again, and what its teardown saw is forgotten. *)
LEMMA RebuildStep == ASSUME DeliveriesInv, Rebuild PROVE DeliveriesInv'
<1>1. UNCHANGED <<message, comm, stopping>> /\ late' = FALSE
  BY DEF Rebuild
<1>2. DeliveriesOK
  BY DEF DeliveriesInv
<1>3. consumer' \in [Comps -> Closings]
  BY DEF Rebuild, Closings, Phases, CloseSteps
<1>4. \A c \in Comps : consumer'[c].phase = "opening" /\ consumer'[c].step = "none"
  BY DEF Rebuild
<1>5. round' \in 0 .. Rounds
  BY <1>2, DeliveriesTypes, DeliveriesAssumption DEF Rebuild
<1>6. Stepwise' /\ SealedSeen' /\ SeenStill'
  BY <1>4 DEF Stepwise, SealedSeen, SeenStill, Seen
<1>7. QED
  BY <1>1, <1>2, <1>3, <1>5, <1>6, DeliveriesTypes, ClosingStep

(* The consumers of a component serve again. *)
LEMMA ReopensStep == ASSUME DeliveriesInv, NEW c \in Comps, Reopens(c) PROVE DeliveriesInv'
<1>1. /\ comm \in [Comps -> {"open", "sealing", "sealed"}]
      /\ UNCHANGED <<message, round, late>>
      /\ stopping' \in BOOLEAN
  BY OneConsumer DEF Reopens
<1>2. Serving \in Closings /\ Serving.phase = "serving" /\ Serving.step = "none"
  BY DEF Serving, Closings, Phases, CloseSteps
<1>3. consumer' = [consumer EXCEPT ![c] = Serving]
  BY DEF Reopens
<1>4. /\ comm' \in [Comps -> {"open", "sealing", "sealed"}]
      /\ comm'[c] = "open"
      /\ \A d \in Comps \ {c} : comm'[d] = comm[d]
  BY <1>1 DEF Reopens
<1>5. QED
  BY <1>1, <1>2, <1>3, <1>4, OneCloses

-----------------------------------------------------------------------------
(* Every step keeps the invariant. *)
LEMMA Preserved == DeliveriesInv /\ [DeliveriesNext]_deliveryVars => DeliveriesInv'
<1> SUFFICES ASSUME DeliveriesInv, [DeliveriesNext]_deliveryVars PROVE DeliveriesInv'
  OBVIOUS
<1>1. ASSUME NEW m \in Ids, NEW c \in Comps, NEW op \in Operations, NEW kind \in Kinds,
             Arrives(m, c, kind, op)
      PROVE  DeliveriesInv'
  BY <1>1, ArrivesStep
<1>2. ASSUME NEW m \in Ids, NEW n \in Ids, NEW c \in Comps, NEW op \in Operations, Calls(n, m, c, op)
      PROVE  DeliveriesInv'
  BY <1>2, CallsStep
<1>3. ASSUME NEW m \in Ids, Take(m) \/ TakeThere(m) \/ Handles(m) \/ SendAgain(m) PROVE DeliveriesInv'
  BY <1>3, TakeStep, TakeThereStep, EndsStep, SendAgainStep DEF Handles
<1>4. ASSUME NEW c \in Comps, CloseStep(c) \/ Reopens(c) PROVE DeliveriesInv'
  BY <1>4, SealsStep, SealedStep, DrainsStep, ReopensStep DEF CloseStep
<1>5. CASE Teardown
  BY <1>5, TeardownStep
<1>6. CASE Rebuild
  BY <1>6, RebuildStep
<1>7. CASE UNCHANGED deliveryVars
  <2>1. UNCHANGED <<message, consumer, comm, stopping, round, late>>
    BY <1>7 DEF deliveryVars
  <2>2. DeliveriesOK /\ InTurn' /\ Called'
    BY <2>1 DEF DeliveriesInv, InTurn, Called, Inside
  <2>3. QED
    BY <2>1, <2>2, SameHere, DeliveriesTypes, MailStep
<1>8. QED
  BY <1>1, <1>2, <1>3, <1>4, <1>5, <1>6, <1>7 DEF DeliveriesNext, Kinds

(* The types of Deliveries (producer.js, communication.js, deliveries.ts)  *)
(* hold for any components, messages and rounds.                           *)
THEOREM DeliveriesTyped == DeliveriesSpec => []DeliveriesOK
<1>1. DeliveriesInv => DeliveriesOK
  BY DEF DeliveriesInv
<1>2. QED
  BY DeliveriesInitially, Preserved, <1>1, PTL DEF DeliveriesSpec

(* No component stops taking calls under a delivery of its own process     *)
(* that waits for one, unless a delivery was taken after the count was     *)
(* seen at zero (Producer.close, deliveries.settled): whatever the         *)
(* deliveries call, in whichever order consumers close.                    *)
THEOREM NoneWaits == DeliveriesSpec => []NotWaitingOnSealed
BY DeliveriesInitially, Preserved, Concluded, PTL DEF DeliveriesSpec

(* What the teardown saw stays true: once a consumer stopped waiting for   *)
(* the deliveries, none is handled, by a consumer or by the loop, until    *)
(* one is taken after all (deliveries.ts, and Producer.close).             *)
THEOREM StaysIdle == DeliveriesSpec => [](~late /\ Seen => Inside = {})
<1>1. DeliveriesInv => (~late /\ Seen => Inside = {})
  BY NoneInside DEF DeliveriesInv, SeenStill
<1>2. QED
  BY DeliveriesInitially, Preserved, <1>1, PTL DEF DeliveriesSpec

-----------------------------------------------------------------------------
(* Migrations. *)

(* What is marked done was applied to its last step. *)
Marked == \A m \in Declared : rows[m] = "done" => applied[m] = 1 .. Steps

(* One that runs has a row, and has applied the steps it has counted. *)
Underway ==
  \A p \in Replicas : replica[p].at = "run" =>
    /\ rows[replica[p].migration] # "none"
    /\ 1 .. replica[p].step \subseteq applied[replica[p].migration]

(* The claim of one that runs is fresh unless it lapsed, and one about to  *)
(* take over a claim that is as it was read takes a stale one.             *)
Heard ==
  \A p \in Replicas :
    /\ replica[p].at = "run" /\ p \notin lapsed => age[replica[p].migration] <= LEASE
    /\ replica[p].at = "steal" /\ current[p] => age[replica[p].migration] > LEASE

(* The inductive invariant. *)
MigrationsInv == MigrationsOK /\ AfterTheOneBefore /\ Marked /\ Underway /\ Heard /\ OneRunner

State == [at : {"claim", "read", "steal", "run", "serving"}, migration : Declared, step : 0 .. Steps]

-----------------------------------------------------------------------------
(* The invariant holds at the start. *)
LEMMA MigrationsInitially == MigrationsInit => MigrationsInv
<1> SUFFICES ASSUME MigrationsInit PROVE MigrationsInv
  OBVIOUS
<1> USE MigrationsAssumption
<1>1. 1 \in Declared /\ 0 \in 0 .. Steps /\ 0 \in 0 .. LEASE + 1 /\ 0 \in 0 .. MaxCrashes
  BY DEF Declared
<1>2. \A p \in Replicas : replica[p] = Starting
  BY DEF MigrationsInit
<1>3. Starting.at = "claim" /\ Starting.migration = 1 /\ Starting.step = 0
  BY DEF Starting
<1>4. MigrationsOK
  BY <1>1 DEF MigrationsInit, MigrationsOK, Starting
<1>5. AfterTheOneBefore
  BY <1>2, <1>3 DEF AfterTheOneBefore, Declared
<1>6. Marked /\ Underway /\ Heard /\ OneRunner
  BY <1>2, <1>3 DEF MigrationsInit, Marked, Underway, Heard, OneRunner, Runs
<1>7. QED
  BY <1>4, <1>5, <1>6 DEF MigrationsInv

(* One that begins the steps of a migration, which it has claimed or taken *)
(* over while every other one that runs it had lapsed.                     *)
LEMMA BegunStep ==
  ASSUME MigrationsInv, NEW p \in Replicas, NEW m \in Declared, m = replica[p].migration,
         replica[p].at # "serving", Begun(p), Beaten(m),
         rows' \in [Declared -> {"none", "running", "done"}], rows'[m] # "none",
         \A k \in Declared \ {m} : rows'[k] = rows[k],
         rows[m] = "done" <=> rows'[m] = "done",
         \A q \in Replicas \ lapsed : ~Runs(q, m),
         UNCHANGED <<applied, lapsed, crashes>>
  PROVE  MigrationsInv'
<1> USE MigrationsAssumption
<1>1. replica[p] \in State /\ replica \in [Replicas -> State]
  BY DEF MigrationsInv, MigrationsOK, State
<1>2. /\ replica'[p] = [replica[p] EXCEPT !.at = "run", !.step = 0]
      /\ replica' = [replica EXCEPT ![p] = replica'[p]]
  BY <1>1 DEF Begun
<1>3. /\ replica'[p].at = "run" /\ replica'[p].migration = m /\ replica'[p].step = 0
      /\ replica'[p] \in State
  <2>1. PICK s \in State : s = replica[p]
    BY <1>1
  <2>2. replica'[p] = [s EXCEPT !.at = "run", !.step = 0]
    BY <1>2, <2>1
  <2>3. 0 \in 0 .. Steps
    OBVIOUS
  <2>4. QED
    BY <2>1, <2>2, <2>3 DEF State
<1>4. /\ \A q \in Replicas \ {p} : replica'[q] = replica[q]
      /\ replica' \in [Replicas -> State]
  BY <1>1, <1>2, <1>3
<1>5. /\ age' \in [Declared -> 0 .. LEASE + 1] /\ age'[m] = 0
      /\ \A k \in Declared \ {m} : age'[k] = age[k]
  BY DEF Beaten, MigrationsInv, MigrationsOK
<1>6. /\ current' \in [Replicas -> BOOLEAN]
      /\ \A q \in Replicas : current'[q] => current[q] /\ replica[q].migration # m
  BY DEF Beaten, MigrationsInv, MigrationsOK
<1>7. MigrationsOK'
  BY <1>4, <1>5, <1>6 DEF MigrationsOK, State, MigrationsInv
<1>8. AfterTheOneBefore'
  BY <1>3, <1>4 DEF AfterTheOneBefore, MigrationsInv
<1>9. Marked'
  BY DEF Marked, MigrationsInv
<1>10. Underway'
  <2> SUFFICES ASSUME NEW q \in Replicas, replica'[q].at = "run"
               PROVE  /\ rows'[replica'[q].migration] # "none"
                      /\ 1 .. replica'[q].step \subseteq applied'[replica'[q].migration]
    BY DEF Underway
  <2>1. CASE q = p
    BY <2>1, <1>3
  <2>2. CASE q # p
    <3>1. replica'[q] = replica[q] /\ replica[q].migration \in Declared
      BY <2>2, <1>1, <1>4 DEF State
    <3>2. QED
      BY <3>1 DEF Underway, MigrationsInv
  <2>3. QED
    BY <2>1, <2>2
<1>11. Heard'
  <2> SUFFICES ASSUME NEW q \in Replicas
               PROVE  /\ replica'[q].at = "run" /\ q \notin lapsed' => age'[replica'[q].migration] <= LEASE
                      /\ replica'[q].at = "steal" /\ current'[q] => age'[replica'[q].migration] > LEASE
    BY DEF Heard
  <2>1. CASE q = p
    BY <2>1, <1>3, <1>5
  <2>2. CASE q # p
    <3>1. replica'[q] = replica[q] /\ replica[q].migration \in Declared
      BY <2>2, <1>1, <1>4 DEF State
    <3>2. CASE replica[q].migration = m
      BY <3>1, <3>2, <1>5, <1>6
    <3>3. CASE replica[q].migration # m
      BY <3>1, <3>3, <1>5, <1>6 DEF Heard, MigrationsInv
    <3>4. QED
      BY <3>2, <3>3
  <2>3. QED
    BY <2>1, <2>2
<1>12. OneRunner'
  <2> SUFFICES ASSUME NEW k \in Declared, NEW a \in Replicas \ lapsed, NEW b \in Replicas \ lapsed,
                      Runs(a, k)', Runs(b, k)'
               PROVE  a = b
    BY DEF OneRunner
  <2>1. ASSUME NEW q \in Replicas \ lapsed, Runs(q, k)', q # p PROVE Runs(q, k) /\ k # m
    BY <2>1, <1>4 DEF Runs
  <2>2. ASSUME Runs(p, k)' PROVE k = m
    BY <2>2, <1>3 DEF Runs
  <2>3. QED
    BY <2>1, <2>2 DEF OneRunner, MigrationsInv
<1>13. QED
  BY <1>7, <1>8, <1>9, <1>10, <1>11, <1>12 DEF MigrationsInv

(* One that moves to another place of its own and begins nothing.          *)
LEMMA MoveStep ==
  ASSUME MigrationsInv, NEW p \in Replicas, NEW s \in State, replica' = [replica EXCEPT ![p] = s],
         s.at # "run" \/ (s.at = "run" /\ replica[p].at = "run" /\ s.migration = replica[p].migration),
         s.at = "run" => 1 .. s.step \subseteq applied'[s.migration],
         rows' \in [Declared -> {"none", "running", "done"}],
         \A k \in Declared : /\ rows[k] # "none" => rows'[k] # "none"
                             /\ rows[k] = "done" => rows'[k] = "done"
                             /\ rows'[k] = "done" => applied'[k] = 1 .. Steps
                             /\ applied[k] \subseteq applied'[k],
         applied' \in [Declared -> SUBSET (1 .. Steps)],
         \A k \in Declared : k < s.migration \/ s.at = "serving" => rows'[k] = "done",
         current' \in [Replicas -> BOOLEAN], \A q \in Replicas \ {p} : current'[q] = current[q],
         s.at = "steal" => age[s.migration] > LEASE,
         age' = age, lapsed' \in {lapsed, lapsed \ {p}}, s.at = "run" => lapsed' = lapsed,
         crashes' \in 0 .. MaxCrashes
  PROVE  MigrationsInv'
<1> USE MigrationsAssumption
<1>1. replica \in [Replicas -> State]
  BY DEF MigrationsInv, MigrationsOK, State
<1>2. /\ replica'[p] = s
      /\ \A q \in Replicas \ {p} : replica'[q] = replica[q]
      /\ replica' \in [Replicas -> State]
  BY <1>1
<1>3. MigrationsOK'
  BY <1>2 DEF MigrationsOK, State, MigrationsInv
<1>4. AfterTheOneBefore'
  <2> SUFFICES ASSUME NEW q \in Replicas, NEW k \in Declared,
                      k < replica'[q].migration \/ replica'[q].at = "serving"
               PROVE  rows'[k] = "done" /\ applied'[k] = 1 .. Steps
    BY DEF AfterTheOneBefore
  <2>1. CASE q = p
    BY <2>1, <1>2
  <2>2. CASE q # p
    BY <2>2, <1>2 DEF AfterTheOneBefore, MigrationsInv
  <2>3. QED
    BY <2>1, <2>2
<1>5. Marked'
  BY DEF Marked
<1>6. Underway'
  <2> SUFFICES ASSUME NEW q \in Replicas, replica'[q].at = "run"
               PROVE  /\ rows'[replica'[q].migration] # "none"
                      /\ 1 .. replica'[q].step \subseteq applied'[replica'[q].migration]
    BY DEF Underway
  <2>1. replica[q].at = "run" /\ replica'[q].migration = replica[q].migration
    BY <1>2
  <2>2. replica[q].migration \in Declared
    BY <1>1 DEF State
  <2>3. rows'[replica'[q].migration] # "none"
    BY <2>1, <2>2 DEF Underway, MigrationsInv
  <2>4. CASE q = p
    BY <2>3, <2>4, <1>2
  <2>5. CASE q # p
    BY <2>1, <2>2, <2>3, <2>5, <1>2 DEF Underway, MigrationsInv
  <2>6. QED
    BY <2>4, <2>5
<1>7. Heard'
  <2> SUFFICES ASSUME NEW q \in Replicas
               PROVE  /\ replica'[q].at = "run" /\ q \notin lapsed' => age'[replica'[q].migration] <= LEASE
                      /\ replica'[q].at = "steal" /\ current'[q] => age'[replica'[q].migration] > LEASE
    BY DEF Heard
  <2>1. CASE q = p
    BY <2>1, <1>2 DEF Heard, MigrationsInv
  <2>2. CASE q # p
    BY <2>2, <1>2 DEF Heard, MigrationsInv
  <2>3. QED
    BY <2>1, <2>2
<1>8. OneRunner'
  <2> SUFFICES ASSUME NEW k \in Declared, NEW a \in Replicas \ lapsed', NEW b \in Replicas \ lapsed',
                      Runs(a, k)', Runs(b, k)'
               PROVE  a = b
    BY DEF OneRunner
  <2>1. ASSUME NEW q \in Replicas \ lapsed', Runs(q, k)' PROVE Runs(q, k) /\ q \notin lapsed
    BY <2>1, <1>2 DEF Runs
  <2>2. QED
    BY <2>1 DEF OneRunner, MigrationsInv
<1>9. QED
  BY <1>3, <1>4, <1>5, <1>6, <1>7, <1>8 DEF MigrationsInv

(* The same, where nothing that is kept changes. *)
LEMMA WanderStep ==
  ASSUME MigrationsInv, NEW p \in Replicas, NEW s \in State, replica' = [replica EXCEPT ![p] = s],
         s.at # "run",
         \A k \in Declared : k < s.migration \/ s.at = "serving" => rows[k] = "done",
         current' \in [Replicas -> BOOLEAN], \A q \in Replicas \ {p} : current'[q] = current[q],
         s.at = "steal" => age[s.migration] > LEASE,
         UNCHANGED <<rows, age, applied, lapsed, crashes>>
  PROVE  MigrationsInv'
<1>1. /\ rows' \in [Declared -> {"none", "running", "done"}]
      /\ applied' \in [Declared -> SUBSET (1 .. Steps)]
      /\ crashes' \in 0 .. MaxCrashes
  BY DEF MigrationsInv, MigrationsOK
<1>2. \A k \in Declared : /\ rows[k] # "none" => rows'[k] # "none"
                          /\ rows[k] = "done" => rows'[k] = "done"
                          /\ rows'[k] = "done" => applied'[k] = 1 .. Steps
                          /\ applied[k] \subseteq applied'[k]
  BY DEF MigrationsInv, Marked
<1>3. age' = age /\ lapsed' = lapsed
  OBVIOUS
<1>4. \A k \in Declared : k < s.migration \/ s.at = "serving" => rows'[k] = "done"
  OBVIOUS
<1>5. QED
  BY <1>1, <1>2, <1>3, <1>4, MoveStep

(* Where a replica is, and which migration it is at. *)
LEMMA Where ==
  ASSUME MigrationsInv, NEW p \in Replicas
  PROVE  /\ replica \in [Replicas -> State]
         /\ replica[p] \in State
         /\ replica[p].migration \in Declared
BY DEF MigrationsInv, MigrationsOK, State

(* A replica that goes to a place where it runs nothing. *)
LEMMA GoesStep ==
  ASSUME MigrationsInv, NEW p \in Replicas, NEW at \in {"claim", "read", "steal"}, Goes(p, at),
         replica[p].at # "serving",
         current' \in [Replicas -> BOOLEAN], \A q \in Replicas \ {p} : current'[q] = current[q],
         at = "steal" => age[replica[p].migration] > LEASE,
         UNCHANGED <<rows, age, applied, lapsed, crashes>>
  PROVE  MigrationsInv'
<1>1. PICK s \in State : s = replica[p]
  BY Where
<1>2. PICK t : t = [s EXCEPT !.at = at]
  OBVIOUS
<1>3. t \in State /\ t.at = at /\ t.migration = s.migration
  BY <1>2 DEF State
<1>4. replica' = [replica EXCEPT ![p] = t]
  BY <1>1, <1>2, Where DEF Goes
<1>5. \A k \in Declared : k < t.migration \/ t.at = "serving" => rows[k] = "done"
  BY <1>1, <1>3 DEF MigrationsInv, AfterTheOneBefore
<1>6. t.at = "steal" => age[t.migration] > LEASE
  BY <1>1, <1>3
<1>7. QED
  BY <1>3, <1>4, <1>5, <1>6, WanderStep

(* The place of a replica that is done with its migration. *)
LEMMA OnwardPlace ==
  ASSUME MigrationsInv, NEW p \in Replicas, Onward(p)
  PROVE  \E t \in State : /\ replica' = [replica EXCEPT ![p] = t]
                           /\ t.at \in {"claim", "serving"}
                           /\ \A k \in Declared : k < t.migration \/ t.at = "serving"
                                                    => k <= replica[p].migration
<1> USE MigrationsAssumption
<1>1. PICK s \in State : s = replica[p]
  BY Where
<1>2. s.migration \in Declared
  BY DEF State
<1>3. CASE s.migration = List
  <2>1. PICK t : t = [s EXCEPT !.at = "serving", !.step = 0]
    OBVIOUS
  <2>2. t \in State /\ t.at = "serving" /\ t.migration = s.migration
    <3>1. 0 \in 0 .. Steps
      OBVIOUS
    <3>2. QED
      BY <2>1, <3>1 DEF State
  <2>3. replica' = [replica EXCEPT ![p] = t]
    BY <1>1, <1>3, <2>1, Where DEF Onward
  <2>4. \A k \in Declared : k <= s.migration
    BY <1>3 DEF Declared
  <2>5. QED
    BY <1>1, <2>2, <2>3, <2>4
<1>4. CASE s.migration # List
  <2>1. PICK t : t = [at |-> "claim", migration |-> s.migration + 1, step |-> 0]
    OBVIOUS
  <2>2. t \in State /\ t.at = "claim" /\ t.migration = s.migration + 1
    <3>1. 0 \in 0 .. Steps /\ s.migration + 1 \in Declared
      BY <1>2, <1>4 DEF Declared
    <3>2. QED
      BY <2>1, <3>1 DEF State
  <2>3. replica' = [replica EXCEPT ![p] = t]
    BY <1>1, <1>4, <2>1, Where DEF Onward
  <2>4. \A k \in Declared : k < t.migration => k <= s.migration
    BY <1>2, <2>2 DEF Declared
  <2>5. QED
    BY <1>1, <2>2, <2>3, <2>4
<1>5. QED
  BY <1>3, <1>4

-----------------------------------------------------------------------------
(* A claim keeps the invariant. *)
LEMMA ClaimStep == ASSUME MigrationsInv, NEW p \in Replicas, Claim(p) PROVE MigrationsInv'
<1>1. PICK m \in Declared : m = replica[p].migration
  BY Where
<1>2. replica[p].at = "claim" /\ UNCHANGED <<applied, lapsed, crashes>>
  BY DEF Claim
<1>3. CASE rows[m] = "none"
  <2>1. rows' = [rows EXCEPT ![m] = "running"] /\ Beaten(m) /\ Begun(p)
    BY <1>1, <1>3 DEF Claim
  <2>2. /\ rows' \in [Declared -> {"none", "running", "done"}] /\ rows'[m] = "running"
        /\ \A k \in Declared \ {m} : rows'[k] = rows[k]
    BY <2>1 DEF MigrationsInv, MigrationsOK
  <2>3. \A q \in Replicas \ lapsed : ~Runs(q, m)
    BY <1>3 DEF Runs, MigrationsInv, Underway
  <2>4. QED
    BY <1>1, <1>2, <1>3, <2>1, <2>2, <2>3, BegunStep
<1>4. CASE rows[m] # "none"
  <2>1. Goes(p, "read") /\ UNCHANGED <<rows, age, current>>
    BY <1>1, <1>4 DEF Claim
  <2>2. current' \in [Replicas -> BOOLEAN] /\ \A q \in Replicas \ {p} : current'[q] = current[q]
    BY <2>1 DEF MigrationsInv, MigrationsOK
  <2>3. QED
    BY <1>2, <2>1, <2>2, GoesStep
<1>5. QED
  BY <1>3, <1>4

(* Reading a row keeps the invariant. *)
LEMMA ReadStep == ASSUME MigrationsInv, NEW p \in Replicas, Read(p) PROVE MigrationsInv'
<1>1. PICK m \in Declared : m = replica[p].migration
  BY Where
<1>2. replica[p].at = "read" /\ UNCHANGED <<rows, age, applied, lapsed, crashes>>
  BY DEF Read
<1>3. current \in [Replicas -> BOOLEAN] /\ age[m] \in Nat /\ LEASE \in Nat
  BY MigrationsAssumption DEF MigrationsInv, MigrationsOK
<1>4. CASE rows[m] = "done"
  <2>1. Onward(p) /\ current' = current
    BY <1>1, <1>4 DEF Read
  <2>2. PICK t \in State : /\ replica' = [replica EXCEPT ![p] = t]
                           /\ t.at \in {"claim", "serving"}
                           /\ \A k \in Declared : k < t.migration \/ t.at = "serving" => k <= m
    BY <1>1, <2>1, OnwardPlace
  <2>3. \A k \in Declared : k <= m => rows[k] = "done"
    BY <1>1, <1>4 DEF MigrationsInv, AfterTheOneBefore, Declared
  <2>4. \A k \in Declared : k < t.migration \/ t.at = "serving" => rows[k] = "done"
    BY <2>2, <2>3
  <2>5. QED
    BY <1>2, <1>3, <2>1, <2>2, <2>4, WanderStep
<1>5. CASE rows[m] = "running" /\ Stale(m)
  <2>1. Goes(p, "steal") /\ current' = [current EXCEPT ![p] = TRUE]
    BY <1>1, <1>5 DEF Read
  <2>2. age[replica[p].migration] > LEASE
    BY <1>1, <1>5 DEF Stale
  <2>3. current' \in [Replicas -> BOOLEAN] /\ \A q \in Replicas \ {p} : current'[q] = current[q]
    BY <1>3, <2>1
  <2>4. QED
    BY <1>2, <2>1, <2>2, <2>3, GoesStep
<1>6. CASE rows[m] # "done" /\ ~(rows[m] = "running" /\ Stale(m))
  <2>1. Goes(p, "claim") /\ current' = current
    BY <1>1, <1>6 DEF Read
  <2>2. QED
    BY <1>2, <1>3, <2>1, GoesStep
<1>7. QED
  BY <1>4, <1>5, <1>6

(* Taking over keeps the invariant: by then whoever ran it had lapsed. *)
LEMMA StealStep == ASSUME MigrationsInv, NEW p \in Replicas, Steal(p) PROVE MigrationsInv'
<1>1. PICK m \in Declared : m = replica[p].migration
  BY Where
<1>2. replica[p].at = "steal" /\ UNCHANGED <<rows, applied, lapsed, crashes>>
  BY DEF Steal
<1>3. CASE Unchanged(p)
  <2>1. Beaten(m) /\ Begun(p)
    BY <1>1, <1>3 DEF Steal
  <2>2. rows[m] = "running" /\ current[p]
    BY <1>1, <1>3 DEF Unchanged
  <2>3. age[m] > LEASE /\ age[m] \in Nat /\ LEASE \in Nat
    BY <1>1, <1>2, <2>2, MigrationsAssumption DEF MigrationsInv, Heard, MigrationsOK
  <2>4. \A q \in Replicas \ lapsed : ~Runs(q, m)
    BY <2>3 DEF Runs, MigrationsInv, Heard
  <2>5. rows' \in [Declared -> {"none", "running", "done"}] /\ rows' = rows
    BY <1>2 DEF MigrationsInv, MigrationsOK
  <2>6. QED
    BY <1>1, <1>2, <2>1, <2>2, <2>4, <2>5, BegunStep
<1>4. CASE ~Unchanged(p)
  <2>1. Goes(p, "claim") /\ UNCHANGED <<age, current>>
    BY <1>4 DEF Steal
  <2>2. current' \in [Replicas -> BOOLEAN] /\ \A q \in Replicas \ {p} : current'[q] = current[q]
    BY <2>1 DEF MigrationsInv, MigrationsOK
  <2>3. QED
    BY <1>2, <2>1, <2>2, GoesStep
<1>5. QED
  BY <1>3, <1>4

(* A step of a migration keeps the invariant. *)
LEMMA ApplyStepStep == ASSUME MigrationsInv, NEW p \in Replicas, ApplyStep(p) PROVE MigrationsInv'
<1> USE MigrationsAssumption
<1>1. PICK s \in State : s = replica[p]
  BY Where
<1>2. s.migration \in Declared /\ s.step \in 0 .. Steps /\ s.at = "run" /\ s.step < Steps
  BY <1>1 DEF State, ApplyStep
<1>3. PICK t : t = [s EXCEPT !.step = s.step + 1]
  OBVIOUS
<1>4. t \in State /\ t.at = "run" /\ t.migration = s.migration /\ t.step = s.step + 1
  <2>1. s.step + 1 \in 0 .. Steps
    BY <1>2
  <2>2. QED
    BY <1>2, <1>3, <2>1 DEF State
<1>5. replica' = [replica EXCEPT ![p] = t]
  BY <1>1, <1>3, Where DEF ApplyStep
<1>6. /\ applied' = [applied EXCEPT ![s.migration] = @ \cup {s.step + 1}]
      /\ UNCHANGED <<rows, age, current, lapsed, crashes>>
  BY <1>1 DEF ApplyStep
<1>7. /\ applied' \in [Declared -> SUBSET (1 .. Steps)]
      /\ \A k \in Declared : applied[k] \subseteq applied'[k]
      /\ applied'[s.migration] = applied[s.migration] \cup {s.step + 1}
  <2>1. s.step + 1 \in 1 .. Steps
    BY <1>2
  <2>2. QED
    BY <1>2, <1>6, <2>1 DEF MigrationsInv, MigrationsOK
<1>8. 1 .. t.step \subseteq applied'[t.migration]
  <2>1. 1 .. s.step \subseteq applied[s.migration]
    BY <1>1, <1>2 DEF MigrationsInv, Underway
  <2>2. 1 .. t.step = (1 .. s.step) \cup {s.step + 1}
    BY <1>2, <1>4
  <2>3. QED
    BY <1>4, <1>7, <2>1, <2>2
<1>9. \A k \in Declared : /\ rows[k] # "none" => rows'[k] # "none"
                          /\ rows[k] = "done" => rows'[k] = "done"
                          /\ rows'[k] = "done" => applied'[k] = 1 .. Steps
                          /\ applied[k] \subseteq applied'[k]
  <2>1. ASSUME NEW k \in Declared, rows[k] = "done" PROVE applied'[k] = 1 .. Steps
    BY <1>7, <2>1 DEF MigrationsInv, Marked
  <2>2. QED
    BY <1>6, <1>7, <2>1
<1>10. \A k \in Declared : k < t.migration \/ t.at = "serving" => rows'[k] = "done"
  BY <1>1, <1>4, <1>6 DEF MigrationsInv, AfterTheOneBefore
<1>11. /\ rows' \in [Declared -> {"none", "running", "done"}] /\ crashes' \in 0 .. MaxCrashes
       /\ current' \in [Replicas -> BOOLEAN] /\ \A q \in Replicas \ {p} : current'[q] = current[q]
       /\ age' = age /\ lapsed' = lapsed
  BY <1>6 DEF MigrationsInv, MigrationsOK
<1>12. QED
  BY <1>1, <1>2, <1>4, <1>5, <1>7, <1>8, <1>9, <1>10, <1>11, MoveStep

(* Marking a migration keeps the invariant: all of its steps were applied. *)
LEMMA MarkDoneStep == ASSUME MigrationsInv, NEW p \in Replicas, MarkDone(p) PROVE MigrationsInv'
<1> USE MigrationsAssumption
<1>1. PICK m \in Declared : m = replica[p].migration
  BY Where
<1>2. /\ replica[p].at = "run" /\ replica[p].step = Steps /\ Onward(p)
      /\ rows' = [rows EXCEPT ![m] = "done"] /\ lapsed' = lapsed \ {p}
      /\ UNCHANGED <<age, current, applied, crashes>>
  BY <1>1 DEF MarkDone
<1>3. PICK t \in State : /\ replica' = [replica EXCEPT ![p] = t]
                         /\ t.at \in {"claim", "serving"}
                         /\ \A k \in Declared : k < t.migration \/ t.at = "serving" => k <= m
  BY <1>1, <1>2, OnwardPlace
<1>4. applied[m] = 1 .. Steps
  BY <1>1, <1>2 DEF MigrationsInv, Underway, MigrationsOK
<1>5. /\ rows' \in [Declared -> {"none", "running", "done"}] /\ rows'[m] = "done"
      /\ \A k \in Declared \ {m} : rows'[k] = rows[k]
  BY <1>2 DEF MigrationsInv, MigrationsOK
<1>6. \A k \in Declared : /\ rows[k] # "none" => rows'[k] # "none"
                          /\ rows[k] = "done" => rows'[k] = "done"
                          /\ rows'[k] = "done" => applied'[k] = 1 .. Steps
                          /\ applied[k] \subseteq applied'[k]
  BY <1>2, <1>4, <1>5 DEF MigrationsInv, Marked
<1>7. \A k \in Declared : k < t.migration \/ t.at = "serving" => rows'[k] = "done"
  <2>1. \A k \in Declared : k < m => rows[k] = "done"
    BY <1>1 DEF MigrationsInv, AfterTheOneBefore
  <2>2. QED
    BY <1>3, <1>5, <2>1 DEF Declared
<1>8. /\ applied' \in [Declared -> SUBSET (1 .. Steps)] /\ crashes' \in 0 .. MaxCrashes
      /\ current' \in [Replicas -> BOOLEAN] /\ \A q \in Replicas \ {p} : current'[q] = current[q]
      /\ age' = age /\ lapsed' \in {lapsed, lapsed \ {p}}
  BY <1>2 DEF MigrationsInv, MigrationsOK
<1>9. QED
  BY <1>3, <1>5, <1>6, <1>7, <1>8, MoveStep

(* A crash keeps the invariant. *)
LEMMA CrashStep == ASSUME MigrationsInv, NEW p \in Replicas, CrashStarting(p) PROVE MigrationsInv'
<1> USE MigrationsAssumption
<1>1. PICK t : t = Starting
  OBVIOUS
<1>2. t \in State /\ t.at = "claim" /\ t.migration = 1
  BY <1>1 DEF Starting, State, Declared
<1>3. /\ replica' = [replica EXCEPT ![p] = t] /\ lapsed' = lapsed \ {p}
      /\ crashes < MaxCrashes /\ crashes' = crashes + 1 /\ current' = [current EXCEPT ![p] = FALSE]
      /\ UNCHANGED <<rows, age, applied>>
  BY <1>1 DEF CrashStarting
<1>4. /\ rows' \in [Declared -> {"none", "running", "done"}]
      /\ applied' \in [Declared -> SUBSET (1 .. Steps)] /\ crashes' \in 0 .. MaxCrashes
      /\ current' \in [Replicas -> BOOLEAN] /\ \A q \in Replicas \ {p} : current'[q] = current[q]
      /\ age' = age /\ lapsed' \in {lapsed, lapsed \ {p}}
  BY <1>3 DEF MigrationsInv, MigrationsOK
<1>5. \A k \in Declared : /\ rows[k] # "none" => rows'[k] # "none"
                          /\ rows[k] = "done" => rows'[k] = "done"
                          /\ rows'[k] = "done" => applied'[k] = 1 .. Steps
                          /\ applied[k] \subseteq applied'[k]
  BY <1>3 DEF MigrationsInv, Marked
<1>6. \A k \in Declared : k < t.migration \/ t.at = "serving" => rows'[k] = "done"
  BY <1>2 DEF Declared
<1>7. QED
  BY <1>2, <1>3, <1>4, <1>5, <1>6, MoveStep

(* A heartbeat keeps the invariant, whoever owns the row it is set in. *)
LEMMA BeatStep == ASSUME MigrationsInv, NEW p \in Replicas, Beat(p) PROVE MigrationsInv'
<1> USE MigrationsAssumption
<1>1. PICK m \in Declared : m = replica[p].migration
  BY Where
<1>2. Beaten(m) /\ UNCHANGED <<rows, replica, applied, lapsed, crashes>>
  BY <1>1 DEF Beat
<1>3. /\ age' \in [Declared -> 0 .. LEASE + 1] /\ age'[m] = 0
      /\ \A k \in Declared \ {m} : age'[k] = age[k]
      /\ current' \in [Replicas -> BOOLEAN]
      /\ \A q \in Replicas : current'[q] => current[q] /\ replica[q].migration # m
  <2>1. /\ age' = [age EXCEPT ![m] = 0]
        /\ current' = [q \in Replicas |-> current[q] /\ replica[q].migration # m]
    BY <1>2 DEF Beaten
  <2>2. age \in [Declared -> 0 .. LEASE + 1] /\ 0 \in 0 .. LEASE + 1
    BY DEF MigrationsInv, MigrationsOK
  <2>3. current \in [Replicas -> BOOLEAN]
    BY DEF MigrationsInv, MigrationsOK
  <2>4. /\ age' \in [Declared -> 0 .. LEASE + 1] /\ age'[m] = 0
        /\ \A k \in Declared \ {m} : age'[k] = age[k]
    BY <2>1, <2>2
  <2>5. \A q \in Replicas : current'[q] = (current[q] /\ replica[q].migration # m)
    BY <2>1
  <2>6. current' \in [Replicas -> BOOLEAN]
    BY <2>1
  <2>7. QED
    BY <2>4, <2>5, <2>6
<1>4. Heard'
  <2> SUFFICES ASSUME NEW q \in Replicas
               PROVE  /\ replica[q].at = "run" /\ q \notin lapsed => age'[replica[q].migration] <= LEASE
                      /\ replica[q].at = "steal" /\ current'[q] => age'[replica[q].migration] > LEASE
    BY <1>2 DEF Heard
  <2>1. replica[q].migration \in Declared
    BY Where
  <2>2. QED
    BY <1>3, <2>1 DEF MigrationsInv, Heard
<1>5. QED
  BY <1>2, <1>3, <1>4
     DEF MigrationsInv, MigrationsOK, AfterTheOneBefore, Marked, Underway, OneRunner, Runs

(* Time that passes keeps the invariant: a claim it makes stale has lapsed. *)
LEMMA TickStep == ASSUME MigrationsInv, Tick PROVE MigrationsInv'
<1> USE MigrationsAssumption
<1>1. /\ age' = [m \in Declared |-> IF rows[m] = "running" /\ age[m] <= LEASE THEN age[m] + 1 ELSE age[m]]
      /\ lapsed' = lapsed \cup {p \in Replicas : \E m \in Declared : Runs(p, m) /\ age'[m] > LEASE}
      /\ UNCHANGED <<rows, replica, current, applied, crashes>>
  BY DEF Tick
<1>2. /\ age' \in [Declared -> 0 .. LEASE + 1]
      /\ \A m \in Declared : age[m] \in 0 .. LEASE + 1 /\ age'[m] >= age[m]
  BY <1>1 DEF MigrationsInv, MigrationsOK
<1>3. lapsed \subseteq lapsed' /\ lapsed' \subseteq Replicas
  BY <1>1 DEF MigrationsInv, MigrationsOK
<1>4. Heard'
  <2> SUFFICES ASSUME NEW q \in Replicas
               PROVE  /\ replica[q].at = "run" /\ q \notin lapsed' => age'[replica[q].migration] <= LEASE
                      /\ replica[q].at = "steal" /\ current[q] => age'[replica[q].migration] > LEASE
    BY <1>1 DEF Heard
  <2>1. PICK m \in Declared : m = replica[q].migration
    BY Where
  <2>2. age'[m] \in Nat /\ age[m] \in Nat /\ LEASE \in Nat
    BY <1>2
  <2>3. ASSUME replica[q].at = "run", q \notin lapsed' PROVE age'[m] <= LEASE
    BY <1>1, <2>1, <2>2, <2>3 DEF Runs
  <2>4. ASSUME replica[q].at = "steal", current[q] PROVE age'[m] > LEASE
    BY <1>2, <2>1, <2>2, <2>4 DEF MigrationsInv, Heard
  <2>5. QED
    BY <2>1, <2>3, <2>4
<1>5. OneRunner'
  BY <1>1, <1>3 DEF MigrationsInv, OneRunner, Runs
<1>6. MigrationsOK'
  BY <1>1, <1>2, <1>3 DEF MigrationsInv, MigrationsOK
<1>7. QED
  BY <1>1, <1>4, <1>5, <1>6 DEF MigrationsInv, AfterTheOneBefore, Marked, Underway

(* The invariant, for any replicas, migrations, steps, crashes and lease. *)
THEOREM MigrationsInvariance == MigrationsSpec => []MigrationsInv
<1>1. MigrationsInv /\ [MigrationsNext]_migrationVars => MigrationsInv'
  <2> SUFFICES ASSUME MigrationsInv, [MigrationsNext]_migrationVars PROVE MigrationsInv'
    OBVIOUS
  <2>1. CASE MigrationsNext
    BY <2>1, ClaimStep, ReadStep, StealStep, ApplyStepStep, MarkDoneStep, BeatStep, CrashStep, TickStep
       DEF MigrationsNext, Applies
  <2>2. CASE UNCHANGED migrationVars
    BY <2>2 DEF migrationVars, MigrationsInv, MigrationsOK, AfterTheOneBefore, Marked, Underway, Heard,
                OneRunner, Runs
  <2>3. QED
    BY <2>1, <2>2
<1>2. QED
  BY <1>1, MigrationsInitially, PTL DEF MigrationsSpec

(* A migration is begun, and the component serves, only after every earlier *)
(* one was applied to its last step, whoever stalled, crashed or took over. *)
THEOREM InOrder == MigrationsSpec => []AfterTheOneBefore
<1>1. MigrationsInv => AfterTheOneBefore
  BY DEF MigrationsInv
<1>2. QED
  BY <1>1, MigrationsInvariance, PTL

(* Of the replicas whose claim has not run out under them, one at most runs *)
(* a migration.                                                            *)
THEOREM OneRuns == MigrationsSpec => []OneRunner
<1>1. MigrationsInv => OneRunner
  BY DEF MigrationsInv
<1>2. QED
  BY <1>1, MigrationsInvariance, PTL

(* The state keeps its types: migrations.js. *)
THEOREM MigrationsTyped == MigrationsSpec => []MigrationsOK
<1>1. MigrationsInv => MigrationsOK
  BY DEF MigrationsInv
<1>2. QED
  BY <1>1, MigrationsInvariance, PTL

-----------------------------------------------------------------------------
(* All three together. *)

(* Each runs as it does alone: a step of one is none of the others. *)
LEMMA EachApart == WorkSpec => DeliveriesSpec /\ MigrationsSpec /\ JournalSpec
<1>1. WorkInit => DeliveriesInit /\ MigrationsInit /\ JournalInit
  BY DEF WorkInit
<1>2. [WorkNext]_workVars => /\ [DeliveriesNext]_deliveryVars
                             /\ [MigrationsNext]_migrationVars
                             /\ [JournalNext]_journalVars
  BY DEF WorkNext, workVars
<1>3. QED
  BY <1>1, <1>2, PTL DEF WorkSpec, DeliveriesSpec, MigrationsSpec, JournalSpec

(* The state of the deliveries, the migrations and the run keeps its types *)
(* (deliveries.ts, migrations.js, Run.ts).                                 *)
THEOREM WorkTyped == WorkSpec => []WorkOK
BY EachApart, DeliveriesTyped, MigrationsTyped, Typed, PTL DEF WorkOK
==============================================================================
