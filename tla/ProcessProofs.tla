----------------------------- MODULE ProcessProofs ---------------------------
(***************************************************************************)
(* Halt for any number of processes and halts, any depth of their trees,   *)
(* and whichever of them shut down, exit or are delivered a signal again.  *)
(* Connector for every tree, whatever is looked up while it runs, fails to *)
(* open or fails to close.  And the two as they run together.              *)
(***************************************************************************)
EXTENDS MCProcess, FiniteSetTheorems, WellFoundedInduction, TLAPS

Decisions == [halt : Halts \cup {None}, awaits : {"none", "map", "write", "reply"}]

(* The types the argument rests on. *)
Shape ==
  /\ queue \in [Procs -> SUBSET Signals]
  /\ deciding \in [Procs -> Decisions]
  /\ pending \in [Procs -> Halts \cup {None}]
  /\ halting \in [Procs -> BOOLEAN]
  /\ cycle \in [Procs -> SUBSET Stages]
  /\ obeyed \in [Procs -> Halts \cup {None}]
  /\ DOMAIN walks = Procs

(* A stop to be heard is written, and so is one to be acknowledged. *)
HeardOf == \A p \in Procs : \A h \in Halts : <<"stop", h>> \in queue[p] => h \in stops

Acknowledged ==
  \A p \in Procs : /\ deciding[p].awaits # "none" => deciding[p].halt \in Halts
                   /\ deciding[p].awaits = "reply" => deciding[p].halt \in stops

(* A process is in one stage of one cycle, which it is marked for, and the *)
(* walk of a cycle is one, of a process that is in the stage of walking.   *)
Single ==
  \A p \in Procs : /\ \A s, t \in cycle[p] : s = t
                   /\ cycle[p] # {} => halting[p]
                   /\ \A w \in walks[p] : w.for = "cycle" => "walking" \in cycle[p]
                   /\ \A v, w \in walks[p] : v.for = "cycle" /\ w.for = "cycle" => v = w

(* The inductive invariant. *)
IInv == Shape /\ HeardOf /\ Acknowledged /\ NotAlone /\ Single

-----------------------------------------------------------------------------
(* Nothing is under way at the start. *)
LEMMA Initially == HaltInit => IInv
BY DEF HaltInit, IInv, Shape, HeardOf, Acknowledged, NotAlone, Single, Idle, Decisions

(* A step that leaves the cycles alone, and begins no walk of one. *)
LEMMA AsideStep ==
  ASSUME IInv, Shape', HeardOf', Acknowledged', stops \subseteq stops', UNCHANGED <<halting, cycle, obeyed>>,
         \A q \in Procs : \A w \in walks'[q] : w.for = "cycle" => w \in walks[q]
  PROVE  IInv'
<1>1. NotAlone'
  BY DEF IInv, NotAlone
<1>2. Single'
  BY DEF IInv, Single
<1>3. QED
  BY <1>1, <1>2 DEF IInv

(* The walk of a quiesce or of a cycle, of which one part is next. *)
LEMMA PauseWalks ==
  ASSUME NEW p \in Procs, NEW for, NEW from, NEW others, DOMAIN walks = Procs, Pause(p, for, from, others)
  PROVE  /\ DOMAIN walks' = Procs
         /\ \A q \in Procs \ {p} : walks'[q] = walks[q]
         /\ Unhalted(p, from) = {} => walks'[p] = others
         /\ \E at : walks'[p] \subseteq others \cup {[for |-> for, at |-> at]}
BY DEF Pause

(* The walk of a cancel. *)
LEMMA UnpauseWalks ==
  ASSUME NEW p \in Procs, NEW from, NEW others, DOMAIN walks = Procs, Unpause(p, from, others)
  PROVE  /\ DOMAIN walks' = Procs
         /\ \A q \in Procs \ {p} : walks'[q] = walks[q]
         /\ \E at : walks'[p] \subseteq others \cup {[for |-> "cancel", at |-> at]}
BY DEF Unpause

(* A delivery takes from the queue of one process at most. *)
LEMMA DeliveredStep ==
  ASSUME IInv, NEW p \in Procs, NEW s, Delivered(p, s)
  PROVE  /\ queue' \in [Procs -> SUBSET Signals]
         /\ \A q \in Procs : queue'[q] \subseteq queue[q]
         /\ s \in queue[p]
BY DEF IInv, Shape, Delivered

(* What is published is there to be heard, and nothing else is.            *)
LEMMA PublishedStep ==
  ASSUME IInv, NEW s \in Signals, Published(s)
  PROVE  /\ queue' \in [Procs -> SUBSET Signals]
         /\ \A q \in Procs : queue'[q] \subseteq queue[q] \cup {s}
BY DEF IInv, Shape, Published

(* A halt is posted. *)
LEMMA PostStep == ASSUME IInv, NEW h \in Halts, Post(h) PROVE IInv'
<1>1. <<"halt", h>> \in Signals
  BY DEF Signals
<1>2. /\ queue' \in [Procs -> SUBSET Signals]
      /\ \A q \in Procs : queue'[q] \subseteq queue[q] \cup {<<"halt", h>>}
  BY <1>1, PublishedStep DEF Post
<1>3. UNCHANGED <<stops, halt, workload, obeyed>>
  BY DEF Post
<1>4. Shape' /\ Acknowledged'
  BY <1>2, <1>3 DEF IInv, Shape, Acknowledged, halt, workload
<1>5. HeardOf'
  BY <1>2, <1>3 DEF IInv, HeardOf
<1>6. QED
  BY <1>3, <1>4, <1>5, AsideStep DEF halt, workload

(* A halt is heard. *)
LEMMA BeginStep == ASSUME IInv, NEW p \in Procs, NEW h \in Halts, Begin(p, h) PROVE IInv'
<1>1. /\ queue' \in [Procs -> SUBSET Signals]
      /\ \A q \in Procs : queue'[q] \subseteq queue[q]
  BY DeliveredStep DEF Begin
<1>2. UNCHANGED <<stops, deciding, halting, cycle, obeyed>>
  BY DEF Begin
<1>3. pending' \in [Procs -> Halts \cup {None}]
  BY DEF Begin, IInv, Shape
<1>4. DOMAIN walks' = Procs /\ \A q \in Procs : \A w \in walks'[q] : w.for = "cycle" => w \in walks[q]
  <2>1. DOMAIN walks = Procs
    BY DEF IInv, Shape
  <2>2. CASE UNCHANGED walks
    BY <2>1, <2>2
  <2>3. CASE Pause(p, "quiesce", 1, walks[p])
    BY <2>1, <2>3, PauseWalks
  <2>4. QED
    BY <2>2, <2>3 DEF Begin, Quiesce
<1>5. Shape' /\ Acknowledged'
  BY <1>1, <1>2, <1>3, <1>4 DEF IInv, Shape, Acknowledged
<1>6. HeardOf'
  BY <1>1, <1>2 DEF IInv, HeardOf
<1>7. QED
  BY <1>2, <1>4, <1>5, <1>6, AsideStep

(* A process goes down for a halt the stop of which is written. *)
LEMMA DownStep ==
  ASSUME IInv, NEW p \in Procs, NEW h \in Halts, Down(p, h), h \in stops, stops' = stops, walks' = walks,
         queue' \in [Procs -> SUBSET Signals], \A q \in Procs : queue'[q] \subseteq queue[q],
         deciding' \in [Procs -> Decisions], Acknowledged'
  PROVE  IInv'
<1>1. pending' \in [Procs -> Halts \cup {None}]
  BY DEF Down, IInv, Shape
<1>2. obeyed' \in [Procs -> Halts \cup {None}] /\ \A q \in Procs \ {p} : obeyed'[q] = obeyed[q]
  BY DEF Down, IInv, Shape
<1>3. HeardOf'
  BY DEF IInv, HeardOf
<1>4. CASE halting[p] \/ leaving[p]
  <2>1. UNCHANGED <<halting, cycle>>
    BY <1>4 DEF Down, Stop
  <2>2. obeyed'[p] = obeyed[p]
    BY <1>4 DEF Down, IInv, Shape
  <2>3. obeyed' = obeyed
    BY <1>2, <2>2 DEF IInv, Shape
  <2>4. Shape'
    BY <1>1, <2>1, <2>3 DEF IInv, Shape
  <2>5. QED
    BY <1>3, <2>1, <2>3, <2>4, AsideStep
<1>5. CASE ~(halting[p] \/ leaving[p])
  <2>1. /\ halting' = [halting EXCEPT ![p] = TRUE]
        /\ cycle' = [cycle EXCEPT ![p] = @ \cup {"queued"}]
    BY <1>5 DEF Down, Stop
  <2>2. obeyed'[p] = h
    BY <1>5 DEF Down, IInv, Shape
  <2>3. cycle[p] = {} /\ \A w \in walks[p] : w.for # "cycle"
    BY <1>5 DEF IInv, Single
  <2>4. cycle'[p] = {"queued"} /\ \A q \in Procs \ {p} : cycle'[q] = cycle[q]
    BY <2>1, <2>3 DEF IInv, Shape
  <2>5. halting' \in [Procs -> BOOLEAN] /\ halting'[p] /\ \A q \in Procs \ {p} : halting'[q] = halting[q]
    BY <2>1 DEF IInv, Shape
  <2>6. cycle' \in [Procs -> SUBSET Stages]
    BY <2>1 DEF IInv, Shape, Stages
  <2>7. Shape'
    BY <1>1, <1>2, <2>5, <2>6 DEF IInv, Shape
  <2>8. NotAlone'
    BY <1>2, <2>2, <2>4 DEF IInv, NotAlone
  <2>9. Single'
    BY <2>3, <2>4, <2>5 DEF IInv, Single
  <2>10. QED
    BY <1>3, <2>7, <2>8, <2>9 DEF IInv
<1>6. QED
  BY <1>4, <1>5

(* A stop is heard. *)
LEMMA ObeyStep == ASSUME IInv, NEW p \in Procs, NEW h \in Halts, Obey(p, h) PROVE IInv'
<1>1. /\ queue' \in [Procs -> SUBSET Signals]
      /\ \A q \in Procs : queue'[q] \subseteq queue[q]
      /\ <<"stop", h>> \in queue[p]
  BY DeliveredStep DEF Obey
<1>2. h \in stops
  BY <1>1 DEF IInv, HeardOf
<1>3. UNCHANGED <<stops, deciding, walks>>
  BY DEF Obey
<1>4. Acknowledged' /\ deciding' \in [Procs -> Decisions]
  BY <1>3 DEF IInv, Shape, Acknowledged
<1>5. CASE Down(p, h)
  BY <1>1, <1>2, <1>3, <1>4, <1>5, DownStep
<1>6. CASE UNCHANGED <<pending, halting, cycle, obeyed>>
  <2>1. Shape'
    BY <1>1, <1>3, <1>6 DEF IInv, Shape
  <2>2. HeardOf'
    BY <1>1, <1>3 DEF IInv, HeardOf
  <2>3. QED
    BY <1>3, <1>4, <1>6, <2>1, <2>2, AsideStep
<1>7. QED
  BY <1>5, <1>6 DEF Obey

(* A step that touches only what is being decided, and the timer. *)
LEMMA DecidingStep ==
  ASSUME IInv, deciding' \in [Procs -> Decisions], pending' \in [Procs -> Halts \cup {None}],
         \A q \in Procs : deciding'[q].awaits \in {"none", "map", "write"} \/ deciding'[q] = deciding[q],
         \A q \in Procs : deciding'[q].awaits # "none" => deciding'[q].halt \in Halts,
         UNCHANGED <<stops, queue, workload, obeyed>>
  PROVE  IInv'
<1>1. Shape' /\ Acknowledged' /\ HeardOf'
  BY DEF IInv, Shape, Acknowledged, HeardOf, workload
<1>2. QED
  BY <1>1, AsideStep DEF workload

(* What one process decides is set. *)
LEMMA SetStep ==
  ASSUME IInv, NEW p \in Procs, NEW d \in Decisions, d.awaits # "reply",
         d.awaits # "none" => d.halt \in Halts,
         deciding' = [deciding EXCEPT ![p] = d], pending' \in [Procs -> Halts \cup {None}],
         UNCHANGED <<stops, queue, workload, obeyed>>
  PROVE  IInv'
<1>1. deciding \in [Procs -> Decisions]
  BY DEF IInv, Shape
<1>2. deciding' \in [Procs -> Decisions]
  BY <1>1
<1>3. \A q \in Procs : deciding'[q].awaits \in {"none", "map", "write"} \/ deciding'[q] = deciding[q]
  BY <1>1 DEF Decisions
<1>4. \A q \in Procs : deciding'[q].awaits # "none" => deciding'[q].halt \in Halts
  BY <1>1 DEF IInv, Acknowledged
<1>5. QED
  BY <1>2, <1>3, <1>4, DecidingStep

(* Nothing is being decided by a process that is idle. *)
LEMMA IdleType == Idle \in Decisions /\ Idle.awaits = "none"
BY DEF Idle, Decisions

(* The window is over, and the map is read. *)
LEMMA DecideStep == ASSUME IInv, NEW p \in Procs, Decide(p) PROVE IInv'
<1>1. UNCHANGED <<stops, queue, workload, obeyed, pending>>
  BY DEF Decide, signalling
<1>2. pending \in [Procs -> Halts \cup {None}]
  BY DEF IInv, Shape
<1>3. CASE pending[p] = None
  <2>1. deciding' = [deciding EXCEPT ![p] = Idle]
    BY <1>3 DEF Decide
  <2>2. QED
    BY <1>1, <1>2, <2>1, IdleType, SetStep
<1>4. CASE pending[p] # None
  <2>1. PICK d : d = [halt |-> pending[p], awaits |-> "map"]
    OBVIOUS
  <2>2. deciding' = [deciding EXCEPT ![p] = d]
    BY <1>4, <2>1 DEF Decide
  <2>3. d \in Decisions /\ d.awaits = "map" /\ d.halt \in Halts
    BY <1>2, <1>4, <2>1 DEF Decisions
  <2>4. QED
    BY <1>1, <1>2, <2>2, <2>3, SetStep
<1>5. QED
  BY <1>3, <1>4

(* The map says that something was called. *)
LEMMA BusyStep == ASSUME IInv, NEW p \in Procs, Busy(p) PROVE IInv'
<1>1. UNCHANGED <<stops, queue, workload, obeyed, pending>> /\ deciding' = [deciding EXCEPT ![p] = Idle]
  BY DEF Busy, signalling, Decided
<1>2. pending \in [Procs -> Halts \cup {None}]
  BY DEF IInv, Shape
<1>3. QED
  BY <1>1, <1>2, IdleType, SetStep

(* The map says that nothing was. *)
LEMMA StillStep == ASSUME IInv, NEW p \in Procs, Still(p) PROVE IInv'
<1>1. UNCHANGED <<stops, queue, workload, obeyed, pending>>
  BY DEF Still, signalling
<1>2. pending \in [Procs -> Halts \cup {None}] /\ deciding \in [Procs -> Decisions]
  BY DEF IInv, Shape
<1>3. CASE pending[p] # deciding[p].halt
  <2>1. deciding' = [deciding EXCEPT ![p] = Idle]
    BY <1>3 DEF Still
  <2>2. QED
    BY <1>1, <1>2, <2>1, IdleType, SetStep
<1>4. CASE pending[p] = deciding[p].halt
  <2>1. PICK e \in Decisions : e = deciding[p]
    BY <1>2
  <2>2. PICK d : d = [e EXCEPT !.awaits = "write"]
    OBVIOUS
  <2>3. d \in Decisions /\ d.awaits = "write" /\ d.halt = e.halt
    BY <2>2 DEF Decisions
  <2>4. deciding' = [deciding EXCEPT ![p] = d]
    BY <1>2, <1>4, <2>1, <2>2 DEF Still
  <2>5. e.halt \in Halts
    BY <2>1 DEF Still, IInv, Acknowledged
  <2>6. QED
    BY <1>1, <1>2, <2>3, <2>4, <2>5, SetStep
<1>5. QED
  BY <1>3, <1>4

(* A stop is written: what is to be heard of it is. *)
LEMMA WrittenStep ==
  ASSUME IInv, NEW h \in Halts, Written(h)
  PROVE  /\ queue' \in [Procs -> SUBSET Signals]
         /\ HeardOf'
         /\ h \in stops' /\ stops \subseteq stops'
<1>1. <<"stop", h>> \in Signals
  BY DEF Signals
<1>2. /\ queue' \in [Procs -> SUBSET Signals]
      /\ \A q \in Procs : queue'[q] \subseteq queue[q] \cup {<<"stop", h>>}
  BY <1>1, PublishedStep DEF Written
<1>3. stops' = stops \cup {h}
  BY DEF Written
<1>4. QED
  BY <1>2, <1>3 DEF IInv, HeardOf

(* A process writes the stop it decided on. *)
LEMMA WriteStep == ASSUME IInv, NEW p \in Procs, Write(p) PROVE IInv'
<1>1. deciding \in [Procs -> Decisions]
  BY DEF IInv, Shape
<1>2. PICK e \in Decisions : e = deciding[p]
  BY <1>1
<1>3. e.halt \in Halts
  BY <1>2 DEF Write, IInv, Acknowledged
<1>4. queue' \in [Procs -> SUBSET Signals] /\ HeardOf' /\ e.halt \in stops' /\ stops \subseteq stops'
  BY <1>2, <1>3, WrittenStep DEF Write
<1>5. UNCHANGED <<pending, workload, obeyed>>
  BY DEF Write
<1>6. PICK d : d = [e EXCEPT !.awaits = "reply"]
  OBVIOUS
<1>7. d \in Decisions /\ d.halt = e.halt
  BY <1>6 DEF Decisions
<1>8. deciding' = [deciding EXCEPT ![p] = d]
  BY <1>1, <1>2, <1>6 DEF Write
<1>9. Shape'
  BY <1>1, <1>4, <1>5, <1>7, <1>8 DEF IInv, Shape, workload
<1>10. Acknowledged'
  BY <1>1, <1>3, <1>4, <1>7, <1>8 DEF IInv, Acknowledged
<1>11. QED
  BY <1>4, <1>5, <1>9, <1>10, AsideStep DEF workload

(* The write is acknowledged. *)
LEMMA CalledStep == ASSUME IInv, NEW p \in Procs, Called(p) PROVE IInv'
<1>1. deciding \in [Procs -> Decisions]
  BY DEF IInv, Shape
<1>2. PICK h : h = deciding[p].halt
  OBVIOUS
<1>3. h \in Halts /\ h \in stops
  BY <1>2 DEF Called, IInv, Acknowledged
<1>4. Down(p, h) /\ UNCHANGED <<stops, queue, walks>> /\ deciding' = [deciding EXCEPT ![p] = Idle]
  BY <1>2 DEF Called, signalling, Decided
<1>5. deciding' \in [Procs -> Decisions]
  BY <1>1, <1>4, IdleType
<1>6. Acknowledged'
  BY <1>1, <1>4, IdleType DEF IInv, Acknowledged
<1>7. queue' \in [Procs -> SUBSET Signals]
  BY <1>4 DEF IInv, Shape
<1>8. QED
  BY <1>3, <1>4, <1>5, <1>6, <1>7, DownStep

(* It is refused, or not answered in time. *)
LEMMA UnansweredStep == ASSUME IInv, NEW p \in Procs, Unanswered(p) PROVE IInv'
<1>1. UNCHANGED <<stops, queue, workload, obeyed, pending>> /\ deciding' = [deciding EXCEPT ![p] = Idle]
  BY DEF Unanswered, Decided
<1>2. pending \in [Procs -> Halts \cup {None}]
  BY DEF IInv, Shape
<1>3. QED
  BY <1>1, <1>2, IdleType, SetStep

(* A stop nobody waits for is written after all. *)
LEMMA LandsStep == ASSUME IInv, NEW h \in Halts, Lands(h) PROVE IInv'
<1>1. queue' \in [Procs -> SUBSET Signals] /\ HeardOf' /\ stops \subseteq stops'
  BY WrittenStep DEF Lands
<1>2. UNCHANGED <<halt, workload, obeyed>>
  BY DEF Lands
<1>3. Shape' /\ Acknowledged'
  BY <1>1, <1>2 DEF IInv, Shape, Acknowledged, halt, workload
<1>4. QED
  BY <1>1, <1>2, <1>3, AsideStep DEF workload

(* A step that changes the walks, none of a cycle, and what is pending. *)
LEMMA WalksStep ==
  ASSUME IInv, pending' \in [Procs -> Halts \cup {None}], DOMAIN walks' = Procs,
         \A q \in Procs : \A w \in walks'[q] : w.for = "cycle" => w \in walks[q],
         UNCHANGED <<stops, queue, deciding, halting, cycle, obeyed>>
  PROVE  IInv'
<1>1. Shape' /\ Acknowledged' /\ HeardOf'
  BY DEF IInv, Shape, Acknowledged, HeardOf
<1>2. QED
  BY <1>1, AsideStep

(* A halt is called off. *)
LEMMA GiveStep == ASSUME IInv, NEW p \in Procs, Give(p) PROVE IInv'
<1>1. UNCHANGED <<stops, queue, deciding, halting, cycle, obeyed>>
  BY DEF Give, signalling
<1>2. pending' \in [Procs -> Halts \cup {None}]
  BY DEF Give, IInv, Shape
<1>3. DOMAIN walks = Procs
  BY DEF IInv, Shape
<1>4. CASE UNCHANGED walks
  BY <1>1, <1>2, <1>3, <1>4, WalksStep
<1>5. CASE Unpause(p, Depth, walks[p])
  <2>1. DOMAIN walks' = Procs /\ \A q \in Procs : \A w \in walks'[q] : w.for = "cycle" => w \in walks[q]
    BY <1>3, <1>5, UnpauseWalks
  <2>2. QED
    BY <1>1, <1>2, <2>1, WalksStep
<1>6. QED
  BY <1>4, <1>5 DEF Give

(* The walk of a quiesce goes on. *)
LEMMA PausedStep == ASSUME IInv, NEW p \in Procs, NEW walk \in walks[p], Paused(p, walk) PROVE IInv'
<1>1. UNCHANGED <<stops, queue, deciding, halting, cycle, obeyed, pending>>
  BY DEF Paused, signalling
<1>2. DOMAIN walks = Procs /\ pending \in [Procs -> Halts \cup {None}]
  BY DEF IInv, Shape
<1>3. DOMAIN walks' = Procs /\ \A q \in Procs : \A w \in walks'[q] : w.for = "cycle" => w \in walks[q]
  BY <1>2, PauseWalks DEF Paused
<1>4. QED
  BY <1>1, <1>2, <1>3, WalksStep

(* The walk of a cancel goes on. *)
LEMMA UnpausedStep == ASSUME IInv, NEW p \in Procs, NEW walk \in walks[p], Unpaused(p, walk) PROVE IInv'
<1>1. UNCHANGED <<stops, queue, deciding, halting, cycle, obeyed, pending>>
  BY DEF Unpaused, signalling, halt
<1>2. DOMAIN walks = Procs /\ pending \in [Procs -> Halts \cup {None}]
  BY DEF IInv, Shape
<1>3. DOMAIN walks' = Procs /\ \A q \in Procs : \A w \in walks'[q] : w.for = "cycle" => w \in walks[q]
  BY <1>2, UnpauseWalks DEF Unpaused
<1>4. QED
  BY <1>1, <1>2, <1>3, WalksStep

-----------------------------------------------------------------------------
(* A process enters another stage of the cycle it is in, or ends it. *)
LEMMA EntersStep ==
  ASSUME IInv, NEW p \in Procs, NEW stage \in Stages, NEW next \in SUBSET Stages, stage \in cycle[p],
         Enters(p, stage, next), \A s, t \in next : s = t,
         DOMAIN walks' = Procs, \A q \in Procs \ {p} : walks'[q] = walks[q],
         \A w \in walks'[p] : w.for = "cycle" => "walking" \in next,
         \A v, w \in walks'[p] : v.for = "cycle" /\ w.for = "cycle" => v = w,
         halting' \in [Procs -> BOOLEAN], \A q \in Procs \ {p} : halting'[q] = halting[q],
         next = {} \/ halting'[p] = halting[p],
         pending' \in [Procs -> Halts \cup {None}], queue' \in [Procs -> SUBSET Signals],
         \A q \in Procs : queue'[q] \subseteq queue[q],
         UNCHANGED <<stops, deciding, obeyed>>
  PROVE  IInv'
<1>1. cycle \in [Procs -> SUBSET Stages]
  BY DEF IInv, Shape
<1>2. cycle[p] = {stage}
  BY DEF IInv, Single
<1>3. /\ cycle' \in [Procs -> SUBSET Stages]
      /\ cycle'[p] = next
      /\ \A q \in Procs \ {p} : cycle'[q] = cycle[q]
  BY <1>1, <1>2 DEF Enters
<1>4. Shape' /\ Acknowledged' /\ HeardOf'
  BY <1>3 DEF IInv, Shape, Acknowledged, HeardOf
<1>5. NotAlone'
  BY <1>2, <1>3 DEF IInv, NotAlone
<1>6. Single'
  BY <1>2, <1>3 DEF IInv, Single
<1>7. QED
  BY <1>4, <1>5, <1>6 DEF IInv

(* A cycle begins, or its walk goes on. *)
LEMMA QuietensStep ==
  ASSUME IInv, NEW p \in Procs, NEW stage \in {"queued", "walking"}, stage \in cycle[p], NEW from,
         NEW others \in SUBSET walks[p], \A w \in others : w.for # "cycle",
         Quietens(p, stage, from, others),
         UNCHANGED <<signalling, halt, halting, obeyed>>
  PROVE  IInv'
<1>1. DOMAIN walks = Procs
  BY DEF IInv, Shape
<1>2. /\ DOMAIN walks' = Procs
      /\ \A q \in Procs \ {p} : walks'[q] = walks[q]
      /\ Unhalted(p, from) = {} => walks'[p] = others
      /\ \E at : walks'[p] \subseteq others \cup {[for |-> "cycle", at |-> at]}
  BY <1>1, PauseWalks DEF Quietens
<1>3. PICK next \in SUBSET Stages : /\ next = IF Unhalted(p, from) = {} THEN {"draining"} ELSE {"walking"}
                                    /\ Enters(p, stage, next)
  BY DEF Quietens, Stages
<1>4. /\ \A w \in walks'[p] : w.for = "cycle" => "walking" \in next
      /\ \A v, w \in walks'[p] : v.for = "cycle" /\ w.for = "cycle" => v = w
      /\ \A s, t \in next : s = t
  BY <1>2, <1>3
<1>5. /\ halting' = halting /\ pending' = pending /\ queue' = queue
      /\ UNCHANGED <<stops, deciding, obeyed>>
  BY DEF signalling, halt
<1>6. /\ halting \in [Procs -> BOOLEAN] /\ pending \in [Procs -> Halts \cup {None}]
      /\ queue \in [Procs -> SUBSET Signals]
  BY DEF IInv, Shape
<1>7. stage \in Stages
  BY DEF Stages
<1>8. QED
  BY <1>2, <1>3, <1>4, <1>5, <1>6, <1>7, EntersStep

(* A cycle begins. *)
LEMMA CycleStep == ASSUME IInv, NEW p \in Procs, Cycle(p) PROVE IInv'
<1>1. "queued" \in cycle[p] /\ Quietens(p, "queued", 1, walks[p]) /\ UNCHANGED <<signalling, halt, halting, obeyed>>
  BY DEF Cycle, At
<1>2. \A w \in walks[p] : w.for # "cycle"
  BY <1>1 DEF IInv, Single
<1>3. QED
  BY <1>1, <1>2, QuietensStep

(* Its walk goes on. *)
LEMMA CyclePausedStep ==
  ASSUME IInv, NEW p \in Procs, NEW walk \in walks[p], CyclePaused(p, walk) PROVE IInv'
<1>1. /\ walk.for = "cycle" /\ Quietens(p, "walking", walk.at + 1, walks[p] \ {walk})
      /\ UNCHANGED <<signalling, halt, halting, obeyed>>
  BY DEF CyclePaused
<1>2. "walking" \in cycle[p] /\ \A w \in walks[p] \ {walk} : w.for # "cycle"
  BY <1>1 DEF IInv, Single
<1>3. QED
  BY <1>1, <1>2, QuietensStep

(* The process is down. *)
LEMMA DrainedStep == ASSUME IInv, NEW p \in Procs, Drained(p) PROVE IInv'
<1>1. /\ "draining" \in cycle[p] /\ Enters(p, "draining", {"down"})
      /\ walks' = [walks EXCEPT ![p] = {}] /\ queue' = [queue EXCEPT ![p] = {}]
      /\ pending' = [pending EXCEPT ![p] = None]
      /\ UNCHANGED <<stops, deciding, halting, obeyed>>
  BY DEF Drained, At
<1>2. /\ DOMAIN walks = Procs /\ queue \in [Procs -> SUBSET Signals] /\ halting \in [Procs -> BOOLEAN]
      /\ pending \in [Procs -> Halts \cup {None}]
  BY DEF IInv, Shape
<1>3. "draining" \in Stages /\ {"down"} \in SUBSET Stages
  BY DEF Stages
<1>4. /\ DOMAIN walks' = Procs /\ walks'[p] = {} /\ \A q \in Procs \ {p} : walks'[q] = walks[q]
      /\ queue' \in [Procs -> SUBSET Signals] /\ \A q \in Procs : queue'[q] \subseteq queue[q]
      /\ pending' \in [Procs -> Halts \cup {None}]
  BY <1>1, <1>2
<1>5. QED
  BY <1>1, <1>2, <1>3, <1>4, EntersStep

(* It is built again. *)
LEMMA ResumeStep == ASSUME IInv, NEW p \in Procs, Resume(p) PROVE IInv'
<1>1. /\ "down" \in cycle[p] /\ Enters(p, "down", {"building"})
      /\ UNCHANGED <<walks, queue, pending, stops, deciding, halting, obeyed>>
  BY DEF Resume, At, signalling, halt
<1>2. /\ DOMAIN walks = Procs /\ queue \in [Procs -> SUBSET Signals] /\ halting \in [Procs -> BOOLEAN]
      /\ pending \in [Procs -> Halts \cup {None}]
  BY DEF IInv, Shape
<1>3. "down" \in Stages /\ {"building"} \in SUBSET Stages
  BY DEF Stages
<1>4. \A w \in walks[p] : w.for # "cycle"
  BY <1>1 DEF IInv, Single
<1>5. QED
  BY <1>1, <1>2, <1>3, <1>4, EntersStep

(* It works again. *)
LEMMA ResumedStep == ASSUME IInv, NEW p \in Procs, Resumed(p) PROVE IInv'
<1>1. /\ "building" \in cycle[p] /\ Enters(p, "building", {}) /\ halting' = [halting EXCEPT ![p] = FALSE]
      /\ UNCHANGED <<walks, queue, pending, stops, deciding, obeyed>>
  BY DEF Resumed, At, signalling, halt
<1>2. /\ DOMAIN walks = Procs /\ queue \in [Procs -> SUBSET Signals] /\ halting \in [Procs -> BOOLEAN]
      /\ pending \in [Procs -> Halts \cup {None}]
  BY DEF IInv, Shape
<1>3. "building" \in Stages /\ {} \in SUBSET Stages
  BY DEF Stages
<1>4. \A w \in walks[p] : w.for # "cycle"
  BY <1>1 DEF IInv, Single
<1>5. halting' \in [Procs -> BOOLEAN] /\ \A q \in Procs \ {p} : halting'[q] = halting[q]
  BY <1>1, <1>2
<1>6. /\ DOMAIN walks' = Procs /\ \A q \in Procs : walks'[q] = walks[q]
      /\ queue' \in [Procs -> SUBSET Signals] /\ \A q \in Procs : queue'[q] \subseteq queue[q]
      /\ pending' \in [Procs -> Halts \cup {None}] /\ UNCHANGED <<stops, deciding, obeyed>>
  BY <1>1, <1>2
<1>7. PICK next \in SUBSET Stages : next = {} /\ Enters(p, "building", next)
  BY <1>1, <1>3
<1>8. /\ \A w \in walks'[p] : w.for = "cycle" => "walking" \in next
      /\ \A v, w \in walks'[p] : v.for = "cycle" /\ w.for = "cycle" => v = w
      /\ \A s, t \in next : s = t
  BY <1>4, <1>6, <1>7
<1>9. "building" \in cycle[p]
  BY <1>1
<1>10. QED
  BY <1>3, <1>5, <1>6, <1>7, <1>8, <1>9, EntersStep

(* A shutdown begins. *)
LEMMA ShutdownStep == ASSUME IInv, NEW p \in Procs, Shutdown(p) PROVE IInv'
<1>1. Enters(p, "down", {}) /\ UNCHANGED <<walks, queue, pending, stops, deciding, halting, obeyed>>
  BY DEF Shutdown, signalling, halt
<1>2. /\ DOMAIN walks = Procs /\ queue \in [Procs -> SUBSET Signals] /\ halting \in [Procs -> BOOLEAN]
      /\ pending \in [Procs -> Halts \cup {None}] /\ cycle \in [Procs -> SUBSET Stages]
  BY DEF IInv, Shape
<1>3. CASE "down" \in cycle[p]
  <2>1. "down" \in Stages /\ {} \in SUBSET Stages
    BY DEF Stages
  <2>2. \A w \in walks[p] : w.for # "cycle"
    BY <1>3 DEF IInv, Single
  <2>3. QED
    BY <1>1, <1>2, <1>3, <2>1, <2>2, EntersStep
<1>4. CASE "down" \notin cycle[p]
  <2>1. cycle' = cycle
    BY <1>1, <1>2, <1>4 DEF Enters
  <2>2. QED
    BY <1>1, <1>2, <2>1, WalksStep
<1>5. QED
  BY <1>3, <1>4

(* A process exits. *)
LEMMA ExitStep == ASSUME IInv, NEW p \in Procs, Exit(p) PROVE IInv'
<1>1. Shape
  BY DEF IInv
<1>2. /\ queue' = [queue EXCEPT ![p] = {}]
      /\ pending' = [pending EXCEPT ![p] = None]
      /\ deciding' = [deciding EXCEPT ![p] = Idle]
      /\ halting' = [halting EXCEPT ![p] = FALSE]
      /\ cycle' = [cycle EXCEPT ![p] = {}]
      /\ walks' = [walks EXCEPT ![p] = {}]
      /\ UNCHANGED <<stops, obeyed>>
  BY DEF Exit
<1>3. Shape'
  BY <1>1, <1>2, IdleType DEF Shape
<1>4. HeardOf'
  BY <1>1, <1>2 DEF Shape, HeardOf, IInv
<1>5. Acknowledged'
  BY <1>1, <1>2, IdleType DEF Shape, Acknowledged, IInv
<1>6. NotAlone'
  BY <1>1, <1>2 DEF Shape, NotAlone, IInv
<1>7. Single'
  BY <1>1, <1>2 DEF Shape, Single, IInv
<1>8. QED
  BY <1>3, <1>4, <1>5, <1>6, <1>7 DEF IInv

-----------------------------------------------------------------------------
(* The invariant, for any processes, halts and depth. *)
THEOREM Invariance == HaltSpec => []IInv
<1>1. IInv /\ [HaltNext]_haltVars => IInv'
  <2> SUFFICES ASSUME IInv, [HaltNext]_haltVars PROVE IInv'
    OBVIOUS
  <2>1. CASE \E h \in Halts : Post(h) \/ Lands(h)
    BY <2>1, PostStep, LandsStep
  <2>2. ASSUME NEW p \in Procs, Hears(p) PROVE IInv'
    BY <2>2, BeginStep, ObeyStep DEF Hears
  <2>3. ASSUME NEW p \in Procs, Walking(p) PROVE IInv'
    BY <2>3, PausedStep, UnpausedStep, CyclePausedStep DEF Walking
  <2>4. ASSUME NEW p \in Procs, Deciding(p) \/ Give(p) PROVE IInv'
    BY <2>4, DecideStep, BusyStep, StillStep, WriteStep, CalledStep, UnansweredStep, GiveStep DEF Deciding
  <2>5. ASSUME NEW p \in Procs, Cycling(p) PROVE IInv'
    BY <2>5, CycleStep, DrainedStep, ResumeStep, ResumedStep DEF Cycling
  <2>6. ASSUME NEW p \in Procs, Shutdown(p) \/ Exit(p) PROVE IInv'
    BY <2>6, ShutdownStep, ExitStep
  <2>7. Mortal \subseteq Procs
    BY HaltAssumption
  <2>8. CASE UNCHANGED haltVars
    BY <2>8 DEF haltVars, signalling, halt, workload, IInv, Shape, HeardOf, Acknowledged, NotAlone, Single
  <2>9. QED
    BY <2>1, <2>2, <2>3, <2>4, <2>5, <2>6, <2>7, <2>8 DEF HaltNext
<1>2. QED
  BY <1>1, Initially, PTL DEF HaltSpec

(* No process goes down but for a halt the stop of which is written, so    *)
(* that every process can hear of it: decide and race of Halt.ts.          *)
THEOREM NoneAlone == HaltSpec => []NotAlone
<1>1. IInv => NotAlone
  BY DEF IInv
<1>2. QED
  BY <1>1, Invariance, PTL

(* A process is in one cycle at most, however many stops it hears: stop()  *)
(* of workload.js.                                                         *)
THEOREM OneAtATime == HaltSpec => []OneCycle
<1>1. ASSUME IInv PROVE OneCycle
  <2> SUFFICES ASSUME NEW p \in Procs PROVE Cardinality(cycle[p]) <= 1
    BY <1>1 DEF IInv, Single, OneCycle
  <2>1. CASE cycle[p] = {}
    BY <2>1, FS_EmptySet
  <2>2. CASE cycle[p] # {}
    <3>1. PICK stage : stage \in cycle[p]
      BY <2>2
    <3>2. cycle[p] = {stage}
      BY <1>1, <3>1 DEF IInv, Single
    <3>3. QED
      BY <3>2, FS_Singleton
  <2>3. QED
    BY <2>1, <2>2
<1>2. QED
  BY <1>1, Invariance, PTL

-----------------------------------------------------------------------------
(* Nothing is left paused.                                                 *)

(* The other types: with Shape, those of the whole state. *)
Rest ==
  /\ posted \subseteq Halts
  /\ stops \subseteq Halts
  /\ landing \subseteq Halts
  /\ redelivered \subseteq Again
  /\ timer \in [Procs -> {"none", "decide", "give"}]
  /\ quiesced \in [Procs -> BOOLEAN]
  /\ stopped \in [Procs -> SUBSET Parts]
  /\ walks \in [Procs -> SUBSET Walks]
  /\ leaving \in [Procs -> BOOLEAN]
  /\ gone \in [Procs -> BOOLEAN]
  /\ stray \subseteq Procs

(* The least of some parts is one of them. *)
LEMMA FirstIs ==
  ASSUME NEW parts \in SUBSET Nat, parts # {}
  PROVE  First(parts) \in parts /\ \A other \in parts : First(parts) <= other
<1>1. IsWellFoundedOn({ss \in Nat \X Nat : ss[1] < ss[2]}, Nat)
  BY NatLessThanWellFounded, Zenon DEF OpToRel
<1>2. PICK k \in parts : \A other \in parts : <<other, k>> \notin {ss \in Nat \X Nat : ss[1] < ss[2]}
  BY <1>1, WFMin, Zenon
<1>3. ASSUME NEW other \in parts, other < k PROVE FALSE
  <2>1. <<other, k>> \in Nat \X Nat /\ <<other, k>>[1] < <<other, k>>[2]
    BY <1>3
  <2>2. QED
    BY <1>2, <2>1, Zenon
<1>4. \A other \in parts : k <= other
  BY <1>3
<1>5. QED
  BY <1>4 DEF First

(* The last of some parts is one of them. *)
LEMMA LastIs ==
  ASSUME NEW parts \in SUBSET Parts, parts # {}
  PROVE  Last(parts) \in parts /\ \A other \in parts : Last(parts) >= other
<1>1. Depth \in Nat
  BY HaltAssumption
<1>2. \A k \in parts : k \in Nat /\ k <= Depth
  BY <1>1 DEF Parts
<1>3. PICK left : left = {Depth - k : k \in parts}
  OBVIOUS
<1>4. left \in SUBSET Nat /\ left # {}
  BY <1>1, <1>2, <1>3
<1>5. First(left) \in left /\ \A other \in left : First(left) <= other
  BY <1>4, FirstIs
<1>6. PICK k \in parts : First(left) = Depth - k
  BY <1>3, <1>5
<1>7. \A other \in parts : k >= other
  <2> TAKE other \in parts
  <2>1. Depth - other \in left
    BY <1>3
  <2>2. Depth - k <= Depth - other
    BY <1>5, <1>6, <2>1
  <2>3. QED
    BY <1>1, <1>2, <2>2
<1>8. QED
  BY <1>7 DEF Last

(* A walk that pauses: it is over where nothing is left to pause, and      *)
(* otherwise the next part is paused and waited for.                       *)
LEMMA PauseStep ==
  ASSUME Rest, NEW p \in Procs, NEW for \in {"quiesce", "cycle", "cancel"}, NEW from \in Nat \ {0},
         NEW others \in SUBSET Walks, Pause(p, for, from, others)
  PROVE  /\ stopped' \in [Procs -> SUBSET Parts] /\ walks' \in [Procs -> SUBSET Walks]
         /\ \A q \in Procs \ {p} : stopped'[q] = stopped[q] /\ walks'[q] = walks[q]
         /\ Unhalted(p, from) = {} => walks'[p] = others
         /\ Unhalted(p, from) # {} => \E at \in Parts : walks'[p] = others \cup {[for |-> for, at |-> at]}
<1>1. Depth \in Nat /\ stopped \in [Procs -> SUBSET Parts] /\ walks \in [Procs -> SUBSET Walks]
  BY HaltAssumption DEF Rest
<1>2. Unhalted(p, from) \subseteq Parts /\ Unhalted(p, from) \subseteq Nat
  BY <1>1 DEF Unhalted, Parts
<1>3. CASE Unhalted(p, from) = {}
  <2>1. walks' = [walks EXCEPT ![p] = others] /\ stopped' = stopped
    BY <1>3 DEF Pause
  <2>2. QED
    BY <1>1, <1>3, <2>1
<1>4. CASE Unhalted(p, from) # {}
  <2>1. PICK at : at = First(Unhalted(p, from))
    OBVIOUS
  <2>2. at \in Parts
    BY <1>2, <1>4, <2>1, FirstIs
  <2>3. PICK w : w = [for |-> for, at |-> at]
    OBVIOUS
  <2>4. w \in Walks
    BY <2>2, <2>3 DEF Walks
  <2>5. walks' = [walks EXCEPT ![p] = others \cup {w}] /\ stopped' = [stopped EXCEPT ![p] = @ \cup {at}]
    BY <1>4, <2>1, <2>3 DEF Pause
  <2>6. walks'[p] = others \cup {[for |-> for, at |-> at]}
    BY <1>1, <2>3, <2>5
  <2>7. QED
    BY <1>1, <1>4, <2>2, <2>4, <2>5, <2>6
<1>5. QED
  BY <1>3, <1>4

(* A walk that starts parts again: it is over where none is left, and      *)
(* otherwise the last of them is started and waited for.                   *)
LEMMA UnpauseStep ==
  ASSUME Rest, NEW p \in Procs, NEW from \in 0 .. Depth, NEW others \in SUBSET Walks,
         Unpause(p, from, others)
  PROVE  /\ stopped' \in [Procs -> SUBSET Parts] /\ walks' \in [Procs -> SUBSET Walks]
         /\ \A q \in Procs \ {p} : stopped'[q] = stopped[q] /\ walks'[q] = walks[q]
         /\ \/ /\ (1 .. from) \cap stopped[p] = {}
               /\ stopped'[p] = stopped[p]
               /\ walks'[p] = others
            \/ \E at \in Parts : /\ \A other \in (1 .. from) \cap stopped[p] : other <= at
                                 /\ stopped'[p] = stopped[p] \ {at}
                                 /\ walks'[p] = others \cup {[for |-> "cancel", at |-> at]}
<1>1. Depth \in Nat /\ stopped \in [Procs -> SUBSET Parts] /\ walks \in [Procs -> SUBSET Walks]
  BY HaltAssumption DEF Rest
<1>2. PICK left : left = (1 .. from) \cap stopped[p]
  OBVIOUS
<1>3. left \in SUBSET Parts
  BY <1>1, <1>2
<1>4. CASE left = {}
  <2>1. walks' = [walks EXCEPT ![p] = others] /\ stopped' = stopped
    BY <1>2, <1>4 DEF Unpause
  <2>2. QED
    BY <1>1, <1>2, <1>4, <2>1
<1>5. CASE left # {}
  <2>1. PICK at : at = Last(left)
    OBVIOUS
  <2>2. at \in left /\ \A other \in left : at >= other
    BY <1>3, <1>5, <2>1, LastIs
  <2>3. PICK w : w = [for |-> "cancel", at |-> at]
    OBVIOUS
  <2>4. at \in Parts /\ w \in Walks
    BY <1>3, <2>2, <2>3 DEF Walks
  <2>5. walks' = [walks EXCEPT ![p] = others \cup {w}] /\ stopped' = [stopped EXCEPT ![p] = @ \ {at}]
    BY <1>2, <1>5, <2>1, <2>3 DEF Unpause
  <2>6. /\ stopped' \in [Procs -> SUBSET Parts] /\ walks' \in [Procs -> SUBSET Walks]
        /\ \A q \in Procs \ {p} : stopped'[q] = stopped[q] /\ walks'[q] = walks[q]
    BY <1>1, <2>4, <2>5
  <2>7. stopped'[p] = stopped[p] \ {at} /\ walks'[p] = others \cup {[for |-> "cancel", at |-> at]}
    BY <1>1, <2>3, <2>5
  <2>8. \A other \in left : other <= at
    BY <1>3, <2>2, <2>4 DEF Parts
  <2>9. QED
    BY <1>2, <2>4, <2>6, <2>7, <2>8
<1>6. QED
  BY <1>4, <1>5

(* A process that is not told to shut down, and whose timer is its own. *)
Whole(p) == p \notin stray /\ ~leaving[p]

Of(p, for) == {w \in walks[p] : w.for = for}

(* The timer is set, and a decision is made, for the halt that is pending, *)
(* one of them at a time: in a process that works or is being built again. *)
Decisive(p) ==
  Whole(p) /\ (~halting[p] \/ "building" \in cycle[p])
    => /\ pending[p] = None => timer[p] = "none"
       /\ deciding[p].awaits # "none" => pending[p] = deciding[p].halt /\ timer[p] = "none"

(* While a quiesce walks, its halt is pending and the window is yet to     *)
(* begin, so that nothing calls it off.                                    *)
Quiescing(p) ==
  Whole(p) /\ ~halting[p] /\ Of(p, "quiesce") # {}
    => /\ quiesced[p] /\ pending[p] # None /\ timer[p] = "none" /\ deciding[p].awaits = "none"
       /\ \A v, w \in Of(p, "quiesce") : v = w

(* What is paused in a process that works is ahead of a walk that starts   *)
(* parts again.                                                            *)
Covered(p) ==
  Whole(p) /\ ~halting[p] /\ ~quiesced[p] => \A s \in stopped[p] : \E w \in Of(p, "cancel") : s < w.at

(* Nothing of an instance that is gone is left in the one built after it.  *)
Fresh(p) ==
  /\ "down" \in cycle[p] => timer[p] = "none" /\ pending[p] = None /\ walks[p] = {}
  /\ "building" \in cycle[p] => walks[p] = {} /\ stopped[p] = {}

Orderly(p) == Decisive(p) /\ Quiescing(p) /\ Covered(p) /\ Fresh(p)

(* The inductive invariant for what is paused, relative to the first. *)
PausesInv == Rest /\ \A p \in Procs : Orderly(p)

(* What is orderly in a process is about its own state. *)
Same(p) ==
  /\ pending'[p] = pending[p] /\ timer'[p] = timer[p] /\ deciding'[p] = deciding[p]
  /\ quiesced'[p] = quiesced[p] /\ halting'[p] = halting[p] /\ cycle'[p] = cycle[p]
  /\ stopped'[p] = stopped[p] /\ walks'[p] = walks[p] /\ leaving'[p] = leaving[p]
  /\ p \in stray' <=> p \in stray

(* A process nothing changes in stays in order. *)
LEMMA SameOrderly == ASSUME NEW p \in Procs, Orderly(p), Same(p) PROVE Orderly(p)'
<1>1. Whole(p)' <=> Whole(p)
  BY DEF Same, Whole
<1>2. Of(p, "quiesce")' = Of(p, "quiesce") /\ Of(p, "cancel")' = Of(p, "cancel")
  BY DEF Same, Of
<1>3. Decisive(p)'
  BY <1>1 DEF Orderly, Decisive, Same
<1>4. Quiescing(p)'
  BY <1>1, <1>2 DEF Orderly, Quiescing, Same
<1>5. Covered(p)'
  BY <1>1, <1>2 DEF Orderly, Covered, Same
<1>6. Fresh(p)'
  BY DEF Orderly, Fresh, Same
<1>7. QED
  BY <1>3, <1>4, <1>5, <1>6 DEF Orderly

(* A step of one process. *)
LEMMA OneStep ==
  ASSUME PausesInv, NEW p \in Procs, Rest', Orderly(p)', \A q \in Procs \ {p} : Same(q)
  PROVE  PausesInv'
BY SameOrderly DEF PausesInv

(* Nothing is under way at the start. *)
LEMMA PausesInitially == HaltInit => PausesInv
<1> SUFFICES ASSUME HaltInit PROVE PausesInv
  OBVIOUS
<1>1. Rest
  BY DEF HaltInit, Rest
<1>2. ASSUME NEW p \in Procs PROVE Orderly(p)
  BY DEF HaltInit, Orderly, Decisive, Quiescing, Covered, Fresh, Of, Idle
<1>3. QED
  BY <1>1, <1>2 DEF PausesInv

(* A step that changes nothing in any process. *)
LEMMA ElsewhereStep ==
  ASSUME PausesInv, UNCHANGED <<halt, workload, leaving, stray>>, Rest'
  PROVE  PausesInv'
<1>1. \A q \in Procs : Same(q)
  BY DEF halt, workload, Same
<1>2. QED
  BY <1>1, SameOrderly DEF PausesInv

(* A halt is posted. *)
LEMMA PostPauses == ASSUME PausesInv, NEW h \in Halts, Post(h) PROVE PausesInv'
<1>1. UNCHANGED <<halt, workload, leaving, stray>>
  BY DEF Post
<1>2. Rest'
  BY <1>1 DEF Post, PausesInv, Rest, halt, workload
<1>3. QED
  BY <1>1, <1>2, ElsewhereStep

(* A stop nobody waits for is written. *)
LEMMA LandsPauses == ASSUME PausesInv, NEW h \in Halts, Lands(h) PROVE PausesInv'
<1>1. UNCHANGED <<halt, workload, leaving, stray>>
  BY DEF Lands
<1>2. Rest'
  BY <1>1 DEF Lands, Written, PausesInv, Rest, halt, workload
<1>3. QED
  BY <1>1, <1>2, ElsewhereStep

(* What a process has been delivered again is one that may be.             *)
LEMMA DeliveredTypes ==
  ASSUME PausesInv, NEW p \in Procs, NEW s, Delivered(p, s)
  PROVE  redelivered' \subseteq Again
BY DEF Delivered, PausesInv, Rest

(* A halt is heard. *)
LEMMA BeginPauses ==
  ASSUME IInv, PausesInv, NEW p \in Procs, NEW h \in Halts, Begin(p, h) PROVE PausesInv'
<1>1. redelivered' \subseteq Again
  BY DeliveredTypes DEF Begin
<1>2. UNCHANGED <<posted, stops, landing, deciding, halting, cycle, leaving, gone, stray>>
  BY DEF Begin
<1>3. Rest /\ Orderly(p) /\ "down" \notin cycle[p]
  BY DEF PausesInv, Begin, Delivered, Listening
<1>4. CASE pending[p] # None
  <2>1. UNCHANGED <<pending, timer, quiesced, stopped, walks>>
    BY <1>4 DEF Begin
  <2>2. Rest'
    BY <1>1, <1>2, <1>3, <2>1 DEF Rest
  <2>3. QED
    BY <1>2, <2>1, <2>2, ElsewhereStep DEF halt, workload
<1>5. CASE pending[p] = None
  <2>1. pending' = [pending EXCEPT ![p] = h] /\ Quiesce(p)
    BY <1>5 DEF Begin
  <2>2. pending'[p] = h /\ h # None /\ \A q \in Procs \ {p} : pending'[q] = pending[q]
    BY <2>1, HaltAssumption DEF IInv, Shape
  <2>3. timer \in [Procs -> {"none", "decide", "give"}] /\ quiesced \in [Procs -> BOOLEAN]
    BY <1>3 DEF Rest
  <2>4. Whole(p) /\ (~halting[p] \/ "building" \in cycle[p]) => timer[p] = "none" /\ deciding[p].awaits = "none"
    BY <1>3, <1>5, HaltAssumption DEF Orderly, Decisive, IInv, Acknowledged
  <2>5. Whole(p) /\ ~halting[p] => Of(p, "quiesce") = {}
    BY <1>3, <1>5 DEF Orderly, Quiescing
  <2>6. CASE halting[p] \/ quiesced[p] \/ leaving[p]
    <3>1. timer' = [timer EXCEPT ![p] = "decide"] /\ UNCHANGED <<quiesced, stopped, walks>>
      BY <2>1, <2>6 DEF Quiesce
    <3>2. Rest'
      BY <1>1, <1>2, <1>3, <3>1 DEF Rest
    <3>3. \A q \in Procs \ {p} : Same(q)
      BY <1>2, <2>2, <2>3, <3>1 DEF Same
    <3>4. Decisive(p)'
      BY <1>2, <2>2, <2>4 DEF Decisive, Whole
    <3>5. Quiescing(p)'
      BY <1>2, <2>5, <3>1 DEF Quiescing, Whole, Of
    <3>6. Covered(p)'
      BY <1>2, <1>3, <3>1 DEF Orderly, Covered, Whole, Of
    <3>7. Fresh(p)'
      BY <1>2, <1>3, <3>1 DEF Orderly, Fresh
    <3>8. QED
      BY <3>2, <3>3, <3>4, <3>5, <3>6, <3>7, OneStep DEF Orderly
  <2>7. CASE ~(halting[p] \/ quiesced[p] \/ leaving[p])
    <3>1. /\ quiesced' = [quiesced EXCEPT ![p] = TRUE] /\ Pause(p, "quiesce", 1, walks[p])
          /\ Window(p, 1)
      BY <2>1, <2>7 DEF Quiesce
    <3>2. walks[p] \in SUBSET Walks /\ 1 \in Nat \ {0}
      BY <1>3 DEF Rest
    <3>3. /\ stopped' \in [Procs -> SUBSET Parts] /\ walks' \in [Procs -> SUBSET Walks]
          /\ \A q \in Procs \ {p} : stopped'[q] = stopped[q] /\ walks'[q] = walks[q]
          /\ Unhalted(p, 1) = {} => walks'[p] = walks[p]
          /\ Unhalted(p, 1) # {} => \E at \in Parts : walks'[p] = walks[p] \cup {[for |-> "quiesce", at |-> at]}
      BY <1>3, <3>1, <3>2, PauseStep
    <3>4. /\ timer' \in [Procs -> {"none", "decide", "give"}]
          /\ timer'[p] = IF Unhalted(p, 1) = {} THEN "decide" ELSE timer[p]
          /\ \A q \in Procs \ {p} : timer'[q] = timer[q]
      BY <2>3, <3>1 DEF Window
    <3>5. /\ quiesced' \in [Procs -> BOOLEAN] /\ quiesced'[p]
          /\ \A q \in Procs \ {p} : quiesced'[q] = quiesced[q]
      BY <2>3, <3>1
    <3>6. Rest'
      BY <1>1, <1>2, <1>3, <3>3, <3>4, <3>5 DEF Rest
    <3>7. \A q \in Procs \ {p} : Same(q)
      BY <1>2, <2>2, <3>3, <3>4, <3>5 DEF Same
    <3>8. Decisive(p)'
      BY <1>2, <2>2, <2>4 DEF Decisive, Whole
    <3>9. Quiescing(p)'
      <4>1. CASE Unhalted(p, 1) = {}
        BY <1>2, <2>5, <3>3, <4>1 DEF Quiescing, Whole, Of
      <4>2. CASE Unhalted(p, 1) # {}
        <5>1. PICK at \in Parts : walks'[p] = walks[p] \cup {[for |-> "quiesce", at |-> at]}
          BY <3>3, <4>2
        <5>2. Whole(p) => \A v \in Of(p, "quiesce")' : v = [for |-> "quiesce", at |-> at]
          BY <2>5, <2>7, <5>1 DEF Of
        <5>3. QED
          BY <1>2, <2>2, <2>4, <2>7, <3>4, <3>5, <4>2, <5>2 DEF Quiescing, Whole
      <4>3. QED
        BY <4>1, <4>2
    <3>10. Covered(p)'
      BY <3>5 DEF Covered
    <3>11. Fresh(p)'
      BY <1>2, <2>7 DEF Fresh, IInv, Single
    <3>12. QED
      BY <3>6, <3>7, <3>8, <3>9, <3>10, <3>11, OneStep DEF Orderly
  <2>8. QED
    BY <2>6, <2>7
<1>6. QED
  BY <1>4, <1>5

(* A process that goes down, or is on its way already. *)
LEMMA DownPauses ==
  ASSUME IInv, PausesInv, NEW p \in Procs, NEW h, Down(p, h), Rest',
         \A q \in Procs \ {p} : deciding'[q] = deciding[q] /\ (q \in stray' <=> q \in stray),
         p \notin stray' /\ "building" \in cycle[p] => deciding'[p].awaits = "none",
         UNCHANGED <<quiesced, stopped, walks, leaving>>
  PROVE  PausesInv'
<1>1. Rest /\ Orderly(p)
  BY DEF PausesInv
<1>2. /\ pending'[p] = None /\ timer'[p] = "none"
      /\ \A q \in Procs \ {p} : pending'[q] = pending[q] /\ timer'[q] = timer[q]
  BY <1>1 DEF Down, IInv, Shape, Rest
<1>3. /\ halting'[p] \/ leaving'[p]
      /\ \A q \in Procs \ {p} : halting'[q] = halting[q] /\ cycle'[q] = cycle[q]
      /\ cycle'[p] \in {cycle[p], cycle[p] \cup {"queued"}}
  BY DEF Down, Stop, IInv, Shape
<1>4. "building" \in cycle'[p] <=> "building" \in cycle[p]
  BY <1>3
<1>5. \A q \in Procs \ {p} : Same(q)
  BY <1>2, <1>3 DEF Same
<1>6. Decisive(p)'
  BY <1>2, <1>3, <1>4 DEF Decisive, Whole
<1>7. Quiescing(p)' /\ Covered(p)'
  BY <1>3 DEF Quiescing, Covered, Whole
<1>8. Fresh(p)'
  BY <1>1, <1>2, <1>3 DEF Orderly, Fresh
<1>9. QED
  BY <1>5, <1>6, <1>7, <1>8, OneStep DEF Orderly

(* A stop is heard. *)
LEMMA ObeyPauses ==
  ASSUME IInv, PausesInv, NEW p \in Procs, NEW h \in Halts, Obey(p, h) PROVE PausesInv'
<1>1. redelivered' \subseteq Again
  BY DeliveredTypes DEF Obey
<1>2. UNCHANGED <<posted, stops, landing, deciding, quiesced, stopped, walks, leaving, gone>>
  BY DEF Obey
<1>3. stray' \in {stray, stray \cup {p}} /\ Rest
  BY DEF Obey, PausesInv
<1>4. CASE pending[p] = h
  <2>1. Down(p, h)
    BY <1>4 DEF Obey
  <2>2. timer' \in [Procs -> {"none", "decide", "give"}]
    BY <1>3, <2>1 DEF Down, Rest
  <2>3. Rest'
    BY <1>1, <1>2, <1>3, <2>2 DEF Rest
  <2>4. \A q \in Procs \ {p} : deciding'[q] = deciding[q] /\ (q \in stray' <=> q \in stray)
    BY <1>2, <1>3
  <2>5. ASSUME p \notin stray', "building" \in cycle[p] PROVE deciding'[p].awaits = "none"
    <3>1. deciding[p] = Idle
      BY <1>4, <2>5 DEF Obey
    <3>2. QED
      BY <1>2, <3>1 DEF Idle
  <2>6. QED
    BY <1>2, <2>1, <2>3, <2>4, <2>5, DownPauses
<1>5. CASE pending[p] # h
  <2>1. UNCHANGED <<pending, timer, halting, cycle, stray>>
    BY <1>5 DEF Obey
  <2>2. Rest'
    BY <1>1, <1>2, <1>3, <2>1 DEF Rest
  <2>3. QED
    BY <1>2, <2>1, <2>2, ElsewhereStep DEF halt, workload
<1>6. QED
  BY <1>4, <1>5

(* The write of a stop is acknowledged. *)
LEMMA CalledPauses == ASSUME IInv, PausesInv, NEW p \in Procs, Called(p) PROVE PausesInv'
<1>1. Down(p, deciding[p].halt) /\ deciding' = [deciding EXCEPT ![p] = Idle]
  BY DEF Called, Decided
<1>2. UNCHANGED <<posted, stops, landing, redelivered, quiesced, stopped, walks, leaving, gone, stray>>
  BY DEF Called, signalling
<1>3. Rest'
  BY <1>1, <1>2 DEF Down, PausesInv, Rest
<1>4. deciding'[p] = Idle /\ \A q \in Procs \ {p} : deciding'[q] = deciding[q]
  BY <1>1 DEF IInv, Shape
<1>5. PICK h : Down(p, h)
  BY <1>1
<1>6. QED
  BY <1>2, <1>3, <1>4, <1>5, IdleType, DownPauses

(* A step of the decision of a process, or of its timer. *)
LEMMA DecisionStep ==
  ASSUME IInv, PausesInv, NEW p \in Procs, timer' \in [Procs -> {"none", "decide", "give"}],
         \A q \in Procs \ {p} : deciding'[q] = deciding[q] /\ timer'[q] = timer[q],
         landing' \subseteq Halts, stops' \subseteq Halts,
         UNCHANGED <<posted, redelivered, pending, workload, leaving, gone, stray>>,
         deciding[p].awaits # "none" \/ timer[p] # "none",
         "down" \in cycle[p] => timer'[p] = "none",
         Decisive(p)'
  PROVE  PausesInv'
<1>1. Rest /\ Orderly(p)
  BY DEF PausesInv
<1>2. Rest'
  BY <1>1 DEF Rest, workload
<1>3. \A q \in Procs \ {p} : Same(q)
  BY DEF Same, workload
<1>4. Quiescing(p)'
  BY <1>1 DEF Orderly, Quiescing, Whole, Of, workload
<1>5. Covered(p)'
  BY <1>1 DEF Orderly, Covered, Whole, Of, workload
<1>6. Fresh(p)'
  BY <1>1 DEF Orderly, Fresh, workload
<1>7. QED
  BY <1>2, <1>3, <1>4, <1>5, <1>6, OneStep DEF Orderly

(* The window is over. *)
LEMMA DecidePauses == ASSUME IInv, PausesInv, NEW p \in Procs, Decide(p) PROVE PausesInv'
<1>1. /\ timer' = [timer EXCEPT ![p] = "none"] /\ timer[p] = "decide"
      /\ UNCHANGED <<posted, stops, landing, redelivered, pending, workload, leaving, gone, stray>>
  BY DEF Decide, signalling
<1>2. timer \in [Procs -> {"none", "decide", "give"}] /\ landing \subseteq Halts /\ stops \subseteq Halts
  BY DEF PausesInv, Rest
<1>3. /\ timer' \in [Procs -> {"none", "decide", "give"}] /\ timer'[p] = "none"
      /\ \A q \in Procs \ {p} : timer'[q] = timer[q]
  BY <1>1, <1>2
<1>4. /\ \A q \in Procs \ {p} : deciding'[q] = deciding[q]
      /\ deciding'[p] = IF pending[p] = None THEN Idle ELSE [halt |-> pending[p], awaits |-> "map"]
  BY DEF Decide, IInv, Shape
<1>5. deciding'[p].awaits # "none" => deciding'[p].halt = pending[p]
  BY <1>4, IdleType
<1>6. Decisive(p)'
  BY <1>1, <1>3, <1>5 DEF Decisive
<1>7. QED
  BY <1>1, <1>2, <1>3, <1>4, <1>6, DecisionStep

(* What is decided on is a halt. *)
LEMMA DecidesOn ==
  ASSUME IInv, NEW p \in Procs, deciding[p].awaits # "none"
  PROVE  deciding[p].halt \in Halts /\ deciding[p].halt # None
BY HaltAssumption DEF IInv, Acknowledged

(* The map says that something was called. *)
LEMMA BusyPauses == ASSUME IInv, PausesInv, NEW p \in Procs, Busy(p) PROVE PausesInv'
<1>1. /\ deciding[p].awaits = "map" /\ deciding' = [deciding EXCEPT ![p] = Idle] /\ ~gone[p]
      /\ UNCHANGED <<posted, stops, landing, redelivered, pending, workload, leaving, gone, stray>>
  BY DEF Busy, Decided, signalling
<1>2. timer \in [Procs -> {"none", "decide", "give"}] /\ landing \subseteq Halts /\ stops \subseteq Halts
  BY DEF PausesInv, Rest
<1>3. deciding'[p].awaits = "none" /\ \A q \in Procs \ {p} : deciding'[q] = deciding[q]
  BY <1>1, IdleType DEF IInv, Shape
<1>4. /\ timer' \in [Procs -> {"none", "decide", "give"}]
      /\ \A q \in Procs \ {p} : timer'[q] = timer[q]
      /\ timer'[p] # timer[p] => pending[p] = deciding[p].halt /\ "down" \notin cycle[p]
  BY <1>2 DEF Busy, Waits, Listening
<1>5. Orderly(p)
  BY DEF PausesInv
<1>6. deciding[p].halt # None
  BY <1>1, DecidesOn
<1>7. Decisive(p)'
  BY <1>1, <1>3, <1>4, <1>5, <1>6 DEF Orderly, Decisive, Whole, workload
<1>8. "down" \in cycle[p] => timer'[p] = "none"
  BY <1>4, <1>5 DEF Orderly, Fresh
<1>9. QED
  BY <1>1, <1>2, <1>3, <1>4, <1>7, <1>8, DecisionStep

(* The map says that nothing was. *)
LEMMA StillPauses == ASSUME IInv, PausesInv, NEW p \in Procs, Still(p) PROVE PausesInv'
<1>1. /\ deciding[p].awaits = "map"
      /\ UNCHANGED <<posted, stops, landing, redelivered, pending, timer, workload, leaving, gone, stray>>
  BY DEF Still, signalling
<1>2. timer \in [Procs -> {"none", "decide", "give"}] /\ landing \subseteq Halts /\ stops \subseteq Halts
  BY DEF PausesInv, Rest
<1>3. \A q \in Procs \ {p} : deciding'[q] = deciding[q]
  BY DEF Still, IInv, Shape
<1>4. deciding'[p].awaits # "none" => deciding'[p].halt = pending[p]
  <2>1. deciding \in [Procs -> Decisions]
    BY DEF IInv, Shape
  <2>2. CASE pending[p] # deciding[p].halt
    BY <2>1, <2>2, IdleType DEF Still
  <2>3. CASE pending[p] = deciding[p].halt
    <3>1. deciding'[p] = [deciding[p] EXCEPT !.awaits = "write"]
      BY <2>1, <2>3 DEF Still
    <3>2. deciding'[p].halt = deciding[p].halt
      BY <2>1, <3>1 DEF Decisions
    <3>3. QED
      BY <2>3, <3>2
  <2>4. QED
    BY <2>2, <2>3
<1>5. Orderly(p)
  BY DEF PausesInv
<1>6. Decisive(p)'
  BY <1>1, <1>4, <1>5 DEF Orderly, Decisive, Whole, workload
<1>7. "down" \in cycle[p] => timer'[p] = "none"
  BY <1>1, <1>5 DEF Orderly, Fresh
<1>8. QED
  BY <1>1, <1>2, <1>3, <1>6, <1>7, DecisionStep

(* The stop is written. *)
LEMMA WritePauses == ASSUME IInv, PausesInv, NEW p \in Procs, Write(p) PROVE PausesInv'
<1>1. /\ deciding[p].awaits = "write"
      /\ deciding' = [deciding EXCEPT ![p].awaits = "reply"]
      /\ UNCHANGED <<posted, landing, redelivered, pending, timer, workload, leaving, gone, stray>>
  BY DEF Write
<1>2. timer \in [Procs -> {"none", "decide", "give"}] /\ landing \subseteq Halts /\ stops \subseteq Halts
  BY DEF PausesInv, Rest
<1>3. deciding[p].halt \in Halts
  BY <1>1, DecidesOn
<1>4. stops' \subseteq Halts
  BY <1>2, <1>3 DEF Write, Written
<1>5. deciding'[p].halt = deciding[p].halt /\ \A q \in Procs \ {p} : deciding'[q] = deciding[q]
  BY <1>1 DEF IInv, Shape, Decisions
<1>6. Orderly(p)
  BY DEF PausesInv
<1>7. Decisive(p)'
  BY <1>1, <1>5, <1>6 DEF Orderly, Decisive, Whole, workload
<1>8. "down" \in cycle[p] => timer'[p] = "none"
  BY <1>1, <1>6 DEF Orderly, Fresh
<1>9. QED
  BY <1>1, <1>2, <1>4, <1>5, <1>7, <1>8, DecisionStep

(* It is refused, or not answered in time. *)
LEMMA UnansweredPauses == ASSUME IInv, PausesInv, NEW p \in Procs, Unanswered(p) PROVE PausesInv'
<1>1. /\ deciding[p].awaits \in {"write", "reply"} /\ deciding' = [deciding EXCEPT ![p] = Idle]
      /\ UNCHANGED <<posted, stops, redelivered, pending, workload, leaving, gone, stray>>
  BY DEF Unanswered, Decided
<1>2. timer \in [Procs -> {"none", "decide", "give"}] /\ landing \subseteq Halts /\ stops \subseteq Halts
  BY DEF PausesInv, Rest
<1>3. deciding[p].halt \in Halts /\ deciding[p].halt # None
  BY <1>1, DecidesOn
<1>4. landing' \subseteq Halts
  BY <1>2, <1>3 DEF Unanswered
<1>5. deciding'[p].awaits = "none" /\ \A q \in Procs \ {p} : deciding'[q] = deciding[q]
  BY <1>1, IdleType DEF IInv, Shape
<1>6. /\ timer' \in [Procs -> {"none", "decide", "give"}]
      /\ \A q \in Procs \ {p} : timer'[q] = timer[q]
      /\ timer'[p] # timer[p] => "down" \notin cycle[p]
  BY <1>2 DEF Unanswered, Waits, Listening
<1>7. Orderly(p)
  BY DEF PausesInv
<1>8. Decisive(p)'
  BY <1>1, <1>3, <1>5, <1>7 DEF Orderly, Decisive, Whole, workload
<1>9. "down" \in cycle[p] => timer'[p] = "none"
  BY <1>6, <1>7 DEF Orderly, Fresh
<1>10. QED
  BY <1>1, <1>2, <1>4, <1>5, <1>6, <1>8, <1>9, DecisionStep

(* A halt is called off. *)
LEMMA GivePauses == ASSUME IInv, PausesInv, NEW p \in Procs, Give(p) PROVE PausesInv'
<1>1. /\ timer[p] = "give" /\ timer' = [timer EXCEPT ![p] = "none"]
      /\ pending' = [pending EXCEPT ![p] = None]
      /\ UNCHANGED <<posted, stops, landing, redelivered, deciding, halting, cycle, leaving, gone, stray>>
  BY DEF Give, signalling
<1>2. Rest /\ Orderly(p)
  BY DEF PausesInv
<1>3. /\ timer' \in [Procs -> {"none", "decide", "give"}]
      /\ timer'[p] = "none" /\ pending'[p] = None
      /\ \A q \in Procs \ {p} : timer'[q] = timer[q] /\ pending'[q] = pending[q]
  BY <1>1, <1>2 DEF Rest, IInv, Shape
<1>4. Decisive(p)'
  BY <1>1, <1>2, <1>3 DEF Orderly, Decisive, Whole
<1>5. Whole(p) /\ ~halting[p] => Of(p, "quiesce") = {}
  BY <1>1, <1>2 DEF Orderly, Quiescing
<1>6. CASE pending[p] = None \/ halting[p] \/ ~quiesced[p]
  <2>1. UNCHANGED <<quiesced, stopped, walks>>
    BY <1>6 DEF Give
  <2>2. Rest'
    BY <1>1, <1>2, <1>3, <2>1 DEF Rest
  <2>3. \A q \in Procs \ {p} : Same(q)
    BY <1>1, <1>3, <2>1 DEF Same
  <2>4. Quiescing(p)'
    BY <1>1, <1>5, <2>1 DEF Quiescing, Whole, Of
  <2>5. Covered(p)' /\ Fresh(p)'
    BY <1>1, <1>2, <1>3, <2>1 DEF Orderly, Covered, Fresh, Whole, Of
  <2>6. QED
    BY <1>4, <2>2, <2>3, <2>4, <2>5, OneStep DEF Orderly
<1>7. CASE ~(pending[p] = None \/ halting[p] \/ ~quiesced[p])
  <2>1. quiesced' = [quiesced EXCEPT ![p] = FALSE] /\ Unpause(p, Depth, walks[p])
    BY <1>7 DEF Give
  <2>2. walks[p] \in SUBSET Walks /\ Depth \in 0 .. Depth /\ stopped[p] \subseteq 1 .. Depth
    BY <1>2, HaltAssumption DEF Rest, Parts
  <2>3. /\ stopped' \in [Procs -> SUBSET Parts] /\ walks' \in [Procs -> SUBSET Walks]
        /\ \A q \in Procs \ {p} : stopped'[q] = stopped[q] /\ walks'[q] = walks[q]
        /\ \/ /\ (1 .. Depth) \cap stopped[p] = {}
              /\ stopped'[p] = stopped[p]
              /\ walks'[p] = walks[p]
           \/ \E at \in Parts : /\ \A other \in (1 .. Depth) \cap stopped[p] : other <= at
                                /\ stopped'[p] = stopped[p] \ {at}
                                /\ walks'[p] = walks[p] \cup {[for |-> "cancel", at |-> at]}
    BY <1>2, <2>1, <2>2, UnpauseStep
  <2>4. quiesced' \in [Procs -> BOOLEAN] /\ \A q \in Procs \ {p} : quiesced'[q] = quiesced[q]
    BY <1>2, <2>1 DEF Rest
  <2>5. Rest'
    BY <1>1, <1>2, <1>3, <2>3, <2>4 DEF Rest
  <2>6. \A q \in Procs \ {p} : Same(q)
    BY <1>1, <1>3, <2>3, <2>4 DEF Same
  <2>7. Of(p, "quiesce")' = Of(p, "quiesce")
    BY <2>3 DEF Of
  <2>8. Quiescing(p)'
    BY <1>1, <1>5, <2>7 DEF Quiescing, Whole
  <2>9. Covered(p)'
    <3>1. CASE stopped'[p] = {}
      BY <3>1 DEF Covered
    <3>2. CASE stopped'[p] # {}
      <4>1. PICK at \in Parts : /\ \A other \in stopped[p] : other <= at
                                /\ stopped'[p] = stopped[p] \ {at}
                                /\ walks'[p] = walks[p] \cup {[for |-> "cancel", at |-> at]}
        BY <2>2, <2>3, <3>2
      <4>2. [for |-> "cancel", at |-> at] \in Of(p, "cancel")'
        BY <4>1 DEF Of
      <4>3. \A s \in stopped'[p] : s < at
        BY <2>2, <4>1, HaltAssumption DEF Parts
      <4>4. QED
        BY <4>2, <4>3 DEF Covered
    <3>3. QED
      BY <3>1, <3>2
  <2>10. Fresh(p)'
    BY <1>1, <1>7 DEF Fresh, IInv, Single
  <2>11. QED
    BY <1>4, <2>5, <2>6, <2>8, <2>9, <2>10, OneStep DEF Orderly
<1>8. QED
  BY <1>6, <1>7

(* The walk of a quiesce goes on. *)
LEMMA PausedPauses ==
  ASSUME IInv, PausesInv, NEW p \in Procs, NEW walk \in walks[p], Paused(p, walk) PROVE PausesInv'
<1>1. /\ walk.for = "quiesce" /\ Pause(p, "quiesce", walk.at + 1, walks[p] \ {walk})
      /\ Window(p, walk.at + 1)
      /\ UNCHANGED <<posted, stops, landing, redelivered, pending, deciding, quiesced, halting, cycle,
                     leaving, gone, stray>>
  BY DEF Paused, signalling
<1>2. Rest /\ Orderly(p)
  BY DEF PausesInv
<1>3. PICK from \in Nat \ {0} : from = walk.at + 1
  BY <1>2, HaltAssumption DEF Rest, Walks, Parts
<1>4. PICK others \in SUBSET Walks : others = walks[p] \ {walk}
  BY <1>2 DEF Rest
<1>5. /\ stopped' \in [Procs -> SUBSET Parts] /\ walks' \in [Procs -> SUBSET Walks]
      /\ \A q \in Procs \ {p} : stopped'[q] = stopped[q] /\ walks'[q] = walks[q]
      /\ Unhalted(p, from) = {} => walks'[p] = others
      /\ Unhalted(p, from) # {} => \E at \in Parts : walks'[p] = others \cup {[for |-> "quiesce", at |-> at]}
  BY <1>1, <1>2, <1>3, <1>4, PauseStep
<1>6. /\ timer' \in [Procs -> {"none", "decide", "give"}]
      /\ timer'[p] = IF Unhalted(p, from) = {} THEN "decide" ELSE timer[p]
      /\ \A q \in Procs \ {p} : timer'[q] = timer[q]
  BY <1>1, <1>2, <1>3 DEF Window, Rest
<1>7. Rest'
  BY <1>1, <1>2, <1>5, <1>6 DEF Rest
<1>8. \A q \in Procs \ {p} : Same(q)
  BY <1>1, <1>5, <1>6 DEF Same
<1>9. walk \in Of(p, "quiesce")
  BY <1>1 DEF Of
<1>10. "building" \notin cycle[p] /\ "down" \notin cycle[p]
  BY <1>2 DEF Orderly, Fresh
<1>11. Whole(p) /\ ~halting[p]
         => /\ quiesced[p] /\ pending[p] # None /\ timer[p] = "none" /\ deciding[p].awaits = "none"
            /\ \A v \in Of(p, "quiesce") : v = walk
  BY <1>2, <1>9 DEF Orderly, Quiescing
<1>12. Decisive(p)'
  BY <1>1, <1>10, <1>11 DEF Decisive, Whole
<1>13. Quiescing(p)'
  <2>1. CASE ~(Whole(p) /\ ~halting[p])
    BY <1>1, <2>1 DEF Quiescing, Whole
  <2>2. CASE Whole(p) /\ ~halting[p] /\ Unhalted(p, from) = {}
    <3>1. Of(p, "quiesce")' = {}
      BY <1>4, <1>5, <1>11, <2>2 DEF Of
    <3>2. QED
      BY <3>1 DEF Quiescing
  <2>3. CASE Whole(p) /\ ~halting[p] /\ Unhalted(p, from) # {}
    <3>1. PICK at \in Parts : walks'[p] = others \cup {[for |-> "quiesce", at |-> at]}
      BY <1>5, <2>3
    <3>2. \A v \in Of(p, "quiesce")' : v = [for |-> "quiesce", at |-> at]
      BY <1>4, <1>11, <2>3, <3>1 DEF Of
    <3>3. QED
      BY <1>1, <1>6, <1>11, <2>3, <3>2 DEF Quiescing
  <2>4. QED
    BY <2>1, <2>2, <2>3
<1>14. Covered(p)'
  BY <1>1, <1>11 DEF Covered, Whole
<1>15. Fresh(p)'
  BY <1>1, <1>10 DEF Fresh
<1>16. QED
  BY <1>7, <1>8, <1>12, <1>13, <1>14, <1>15, OneStep DEF Orderly

(* The walk of a cancel goes on. *)
LEMMA UnpausedPauses ==
  ASSUME IInv, PausesInv, NEW p \in Procs, NEW walk \in walks[p], Unpaused(p, walk) PROVE PausesInv'
<1>1. /\ walk.for = "cancel" /\ Unpause(p, walk.at - 1, walks[p] \ {walk})
      /\ UNCHANGED <<posted, stops, landing, redelivered, pending, timer, deciding, quiesced, halting,
                     cycle, leaving, gone, stray>>
  BY DEF Unpaused, signalling, halt
<1>2. Rest /\ Orderly(p)
  BY DEF PausesInv
<1>3. walk.at \in Parts
  BY <1>2 DEF Rest, Walks
<1>4. PICK from \in 0 .. Depth : from = walk.at - 1
  BY <1>3, HaltAssumption DEF Parts
<1>5. PICK others \in SUBSET Walks : others = walks[p] \ {walk}
  BY <1>2 DEF Rest
<1>6. /\ stopped' \in [Procs -> SUBSET Parts] /\ walks' \in [Procs -> SUBSET Walks]
      /\ \A q \in Procs \ {p} : stopped'[q] = stopped[q] /\ walks'[q] = walks[q]
      /\ \/ /\ (1 .. from) \cap stopped[p] = {}
            /\ stopped'[p] = stopped[p]
            /\ walks'[p] = others
         \/ \E at \in Parts : /\ \A other \in (1 .. from) \cap stopped[p] : other <= at
                              /\ stopped'[p] = stopped[p] \ {at}
                              /\ walks'[p] = others \cup {[for |-> "cancel", at |-> at]}
  BY <1>1, <1>2, <1>4, <1>5, UnpauseStep
<1>7. Rest'
  BY <1>1, <1>2, <1>6 DEF Rest
<1>8. \A q \in Procs \ {p} : Same(q)
  BY <1>1, <1>6 DEF Same
<1>9. Decisive(p)'
  BY <1>1, <1>2 DEF Orderly, Decisive, Whole
<1>10. Of(p, "quiesce")' = Of(p, "quiesce")
  BY <1>1, <1>5, <1>6 DEF Of
<1>11. Quiescing(p)'
  BY <1>1, <1>2, <1>10 DEF Orderly, Quiescing, Whole
<1>12. Covered(p)'
  <2> SUFFICES ASSUME Whole(p), ~halting[p], ~quiesced[p], NEW s \in stopped'[p]
               PROVE  \E w \in Of(p, "cancel")' : s < w.at
    BY <1>1 DEF Covered, Whole
  <2>1. s \in stopped[p] /\ s \in Parts
    BY <1>2, <1>6 DEF Rest
  <2>2. PICK w \in Of(p, "cancel") : s < w.at
    BY <1>2, <2>1 DEF Orderly, Covered
  <2>3. CASE w # walk
    <3>1. w \in Of(p, "cancel")'
      BY <1>5, <1>6, <2>3 DEF Of
    <3>2. QED
      BY <2>2, <3>1
  <2>4. CASE w = walk
    <3>1. s \in (1 .. from) \cap stopped[p]
      BY <1>3, <1>4, <2>1, <2>2, <2>4, HaltAssumption DEF Parts
    <3>2. PICK at \in Parts : /\ s <= at /\ s # at
                              /\ [for |-> "cancel", at |-> at] \in walks'[p]
      BY <1>6, <3>1
    <3>3. s < at
      BY <2>1, <3>2, HaltAssumption DEF Parts
    <3>4. [for |-> "cancel", at |-> at] \in Of(p, "cancel")'
      BY <3>2 DEF Of
    <3>5. QED
      BY <3>3, <3>4
  <2>5. QED
    BY <2>3, <2>4
<1>13. Fresh(p)'
  BY <1>1, <1>2 DEF Orderly, Fresh
<1>14. QED
  BY <1>7, <1>8, <1>9, <1>11, <1>12, <1>13, OneStep DEF Orderly

(* A cycle begins, or its walk goes on. *)
LEMMA QuietensPauses ==
  ASSUME IInv, PausesInv, NEW p \in Procs, NEW stage \in {"queued", "walking"}, stage \in cycle[p],
         NEW from \in Nat \ {0}, NEW others \in SUBSET Walks, Quietens(p, stage, from, others),
         quiesced' \in [Procs -> BOOLEAN], \A q \in Procs \ {p} : quiesced'[q] = quiesced[q],
         UNCHANGED <<signalling, halt, halting, leaving, gone, stray>>
  PROVE  PausesInv'
<1>1. Rest /\ halting[p] /\ cycle[p] = {stage}
  BY DEF PausesInv, IInv, Single
<1>2. /\ stopped' \in [Procs -> SUBSET Parts] /\ walks' \in [Procs -> SUBSET Walks]
      /\ \A q \in Procs \ {p} : stopped'[q] = stopped[q] /\ walks'[q] = walks[q]
  BY <1>1, PauseStep DEF Quietens
<1>3. "building" \notin cycle'[p] /\ "down" \notin cycle'[p] /\ \A q \in Procs \ {p} : cycle'[q] = cycle[q]
  BY <1>1 DEF Quietens, Enters, IInv, Shape
<1>4. Rest'
  BY <1>1, <1>2 DEF Rest, signalling, halt
<1>5. \A q \in Procs \ {p} : Same(q)
  BY <1>2, <1>3 DEF Same, halt
<1>6. Orderly(p)'
  BY <1>1, <1>3 DEF Orderly, Decisive, Quiescing, Covered, Fresh
<1>7. QED
  BY <1>4, <1>5, <1>6, OneStep

(* A cycle begins. *)
LEMMA CyclePauses == ASSUME IInv, PausesInv, NEW p \in Procs, Cycle(p) PROVE PausesInv'
<1>1. /\ "queued" \in cycle[p] /\ quiesced' = [quiesced EXCEPT ![p] = TRUE]
      /\ Quietens(p, "queued", 1, walks[p])
      /\ UNCHANGED <<signalling, halt, halting, leaving, gone, stray>>
  BY DEF Cycle, At
<1>2. quiesced \in [Procs -> BOOLEAN] /\ walks[p] \in SUBSET Walks /\ 1 \in Nat \ {0}
  BY DEF PausesInv, Rest
<1>3. quiesced' \in [Procs -> BOOLEAN] /\ \A q \in Procs \ {p} : quiesced'[q] = quiesced[q]
  BY <1>1, <1>2
<1>4. QED
  BY <1>1, <1>2, <1>3, QuietensPauses

(* The walk of a cycle goes on. *)
LEMMA CyclePausedPauses ==
  ASSUME IInv, PausesInv, NEW p \in Procs, NEW walk \in walks[p], CyclePaused(p, walk) PROVE PausesInv'
<1>1. /\ walk.for = "cycle" /\ Quietens(p, "walking", walk.at + 1, walks[p] \ {walk})
      /\ UNCHANGED <<signalling, halt, quiesced, halting, leaving, gone, stray>>
  BY DEF CyclePaused
<1>2. "walking" \in cycle[p]
  BY <1>1 DEF IInv, Single
<1>3. Rest
  BY DEF PausesInv
<1>4. walk.at + 1 \in Nat \ {0} /\ walks[p] \ {walk} \in SUBSET Walks /\ quiesced \in [Procs -> BOOLEAN]
  BY <1>3, HaltAssumption DEF Rest, Walks, Parts
<1>5. QED
  BY <1>1, <1>2, <1>4, QuietensPauses

(* The process is down. *)
LEMMA DrainedPauses == ASSUME IInv, PausesInv, NEW p \in Procs, Drained(p) PROVE PausesInv'
<1>1. /\ "draining" \in cycle[p]
      /\ cycle' = [cycle EXCEPT ![p] = (@ \ {"draining"}) \cup {"down"}]
      /\ timer' = [timer EXCEPT ![p] = "none"] /\ pending' = [pending EXCEPT ![p] = None]
      /\ walks' = [walks EXCEPT ![p] = {}] /\ stray' = stray \ {p}
      /\ UNCHANGED <<posted, stops, landing, redelivered, deciding, quiesced, halting, stopped, leaving, gone>>
  BY DEF Drained, At, Enters
<1>2. Rest /\ halting[p] /\ cycle[p] = {"draining"}
  BY <1>1 DEF PausesInv, IInv, Single
<1>3. /\ cycle'[p] = {"down"} /\ timer'[p] = "none" /\ pending'[p] = None /\ walks'[p] = {}
      /\ \A q \in Procs \ {p} : /\ cycle'[q] = cycle[q] /\ timer'[q] = timer[q]
                                 /\ pending'[q] = pending[q] /\ walks'[q] = walks[q]
  BY <1>1, <1>2 DEF Rest, IInv, Shape
<1>4. Rest'
  BY <1>1, <1>2 DEF Rest
<1>5. \A q \in Procs \ {p} : Same(q)
  BY <1>1, <1>3 DEF Same
<1>6. Orderly(p)'
  BY <1>1, <1>2, <1>3 DEF Orderly, Decisive, Quiescing, Covered, Fresh
<1>7. QED
  BY <1>4, <1>5, <1>6, OneStep

(* It is built again. *)
LEMMA ResumePauses == ASSUME IInv, PausesInv, NEW p \in Procs, Resume(p) PROVE PausesInv'
<1>1. /\ "down" \in cycle[p] /\ deciding[p] = Idle
      /\ cycle' = [cycle EXCEPT ![p] = (@ \ {"down"}) \cup {"building"}]
      /\ stopped' = [stopped EXCEPT ![p] = {}]
      /\ UNCHANGED <<posted, stops, landing, redelivered, pending, timer, deciding, quiesced, halting,
                     walks, leaving, gone, stray>>
  BY DEF Resume, At, Enters, signalling, halt
<1>2. Rest /\ halting[p] /\ cycle[p] = {"down"} /\ Orderly(p)
  BY <1>1 DEF PausesInv, IInv, Single
<1>3. /\ cycle'[p] = {"building"} /\ stopped'[p] = {}
      /\ \A q \in Procs \ {p} : cycle'[q] = cycle[q] /\ stopped'[q] = stopped[q]
  BY <1>1, <1>2 DEF Rest, IInv, Shape
<1>4. timer[p] = "none" /\ walks[p] = {} /\ deciding[p].awaits = "none"
  BY <1>1, <1>2, IdleType DEF Orderly, Fresh
<1>5. Rest'
  BY <1>1, <1>2 DEF Rest
<1>6. \A q \in Procs \ {p} : Same(q)
  BY <1>1, <1>3 DEF Same
<1>7. Orderly(p)'
  BY <1>1, <1>2, <1>3, <1>4 DEF Orderly, Decisive, Quiescing, Covered, Fresh
<1>8. QED
  BY <1>5, <1>6, <1>7, OneStep

(* It works again. *)
LEMMA ResumedPauses == ASSUME IInv, PausesInv, NEW p \in Procs, Resumed(p) PROVE PausesInv'
<1>1. /\ "building" \in cycle[p] /\ cycle' = [cycle EXCEPT ![p] = (@ \ {"building"}) \cup {}]
      /\ quiesced' = [quiesced EXCEPT ![p] = FALSE] /\ halting' = [halting EXCEPT ![p] = FALSE]
      /\ UNCHANGED <<posted, stops, landing, redelivered, pending, timer, deciding, stopped,
                     walks, leaving, gone, stray>>
  BY DEF Resumed, At, Enters, signalling, halt
<1>2. Rest /\ cycle[p] = {"building"} /\ Orderly(p)
  BY <1>1 DEF PausesInv, IInv, Single
<1>3. /\ cycle'[p] = {}
      /\ \A q \in Procs \ {p} : /\ cycle'[q] = cycle[q] /\ quiesced'[q] = quiesced[q]
                                 /\ halting'[q] = halting[q]
  BY <1>1, <1>2 DEF Rest, IInv, Shape
<1>4. walks'[p] = {} /\ stopped'[p] = {}
  BY <1>1, <1>2 DEF Orderly, Fresh
<1>5. Rest'
  BY <1>1, <1>2 DEF Rest
<1>6. \A q \in Procs \ {p} : Same(q)
  BY <1>1, <1>3 DEF Same
<1>7. Decisive(p)'
  BY <1>1, <1>2 DEF Orderly, Decisive, Whole
<1>8. Quiescing(p)' /\ Covered(p)' /\ Fresh(p)'
  BY <1>3, <1>4 DEF Quiescing, Covered, Fresh, Of
<1>9. QED
  BY <1>5, <1>6, <1>7, <1>8, OneStep DEF Orderly

(* A shutdown begins. *)
LEMMA ShutdownPauses == ASSUME IInv, PausesInv, NEW p \in Procs, Shutdown(p) PROVE PausesInv'
<1>1. /\ leaving' = [leaving EXCEPT ![p] = TRUE]
      /\ cycle' = [cycle EXCEPT ![p] = (@ \ {"down"}) \cup {}]
      /\ UNCHANGED <<posted, stops, landing, redelivered, pending, timer, deciding, quiesced, halting,
                     stopped, walks, gone, stray>>
  BY DEF Shutdown, Enters, signalling, halt
<1>2. Rest /\ Orderly(p)
  BY DEF PausesInv
<1>3. /\ cycle'[p] = cycle[p] \ {"down"} /\ leaving'[p]
      /\ \A q \in Procs \ {p} : cycle'[q] = cycle[q] /\ leaving'[q] = leaving[q]
  BY <1>1, <1>2 DEF Rest, IInv, Shape
<1>4. Rest'
  BY <1>1, <1>2 DEF Rest
<1>5. \A q \in Procs \ {p} : Same(q)
  BY <1>1, <1>3 DEF Same
<1>6. Decisive(p)' /\ Quiescing(p)' /\ Covered(p)'
  BY <1>3 DEF Decisive, Quiescing, Covered, Whole
<1>7. Fresh(p)'
  BY <1>1, <1>2, <1>3 DEF Orderly, Fresh
<1>8. QED
  BY <1>4, <1>5, <1>6, <1>7, OneStep DEF Orderly

(* A process exits. *)
LEMMA ExitPauses == ASSUME IInv, PausesInv, NEW p \in Procs, Exit(p) PROVE PausesInv'
<1>1. Rest /\ Shape
  BY DEF PausesInv, IInv
<1>2. /\ landing' \subseteq Halts
      /\ timer' \in [Procs -> {"none", "decide", "give"}] /\ quiesced' \in [Procs -> BOOLEAN]
      /\ stopped' \in [Procs -> SUBSET Parts] /\ walks' \in [Procs -> SUBSET Walks]
      /\ gone' \in [Procs -> BOOLEAN]
      /\ UNCHANGED <<posted, stops, redelivered, leaving, stray>>
  BY <1>1 DEF Exit, Rest
<1>3. Rest'
  BY <1>1, <1>2 DEF Rest
<1>4. \A q \in Procs \ {p} : Same(q)
  BY <1>1 DEF Exit, Rest, Shape, Same
<1>5. /\ timer'[p] = "none" /\ deciding'[p] = Idle /\ cycle'[p] = {} /\ stopped'[p] = {} /\ walks'[p] = {}
  BY <1>1 DEF Exit, Rest, Shape
<1>6. Orderly(p)'
  BY <1>5, IdleType DEF Orderly, Decisive, Quiescing, Covered, Fresh, Of
<1>7. QED
  BY <1>3, <1>4, <1>6, OneStep

(* The second invariant, for any processes, halts and depth. *)
THEOREM PausesInvariance == HaltSpec => []PausesInv
<1>1. IInv /\ PausesInv /\ [HaltNext]_haltVars => PausesInv'
  <2> SUFFICES ASSUME IInv, PausesInv, [HaltNext]_haltVars PROVE PausesInv'
    OBVIOUS
  <2>1. CASE \E h \in Halts : Post(h) \/ Lands(h)
    BY <2>1, PostPauses, LandsPauses
  <2>2. ASSUME NEW p \in Procs, Hears(p) PROVE PausesInv'
    BY <2>2, BeginPauses, ObeyPauses DEF Hears
  <2>3. ASSUME NEW p \in Procs, Walking(p) PROVE PausesInv'
    BY <2>3, PausedPauses, UnpausedPauses, CyclePausedPauses DEF Walking
  <2>4. ASSUME NEW p \in Procs, Deciding(p) \/ Give(p) PROVE PausesInv'
    BY <2>4, DecidePauses, BusyPauses, StillPauses, WritePauses, CalledPauses, UnansweredPauses, GivePauses
       DEF Deciding
  <2>5. ASSUME NEW p \in Procs, Cycling(p) PROVE PausesInv'
    BY <2>5, CyclePauses, DrainedPauses, ResumePauses, ResumedPauses DEF Cycling
  <2>6. ASSUME NEW p \in Procs, Shutdown(p) \/ Exit(p) PROVE PausesInv'
    BY <2>6, ShutdownPauses, ExitPauses
  <2>7. Mortal \subseteq Procs
    BY HaltAssumption
  <2>8. CASE UNCHANGED haltVars
    <3>1. Rest'
      BY <2>8 DEF haltVars, signalling, workload, halt, PausesInv, Rest
    <3>2. QED
      BY <2>8, <3>1, ElsewhereStep DEF haltVars
  <2>9. QED
    BY <2>1, <2>2, <2>3, <2>4, <2>5, <2>6, <2>7, <2>8 DEF HaltNext
<1>2. QED
  BY <1>1, PausesInitially, Invariance, PTL DEF HaltSpec

(* The state keeps its types: Halt.ts, workload.js. *)
THEOREM HaltTyped == HaltSpec => []HaltOK
<1>1. IInv /\ PausesInv => HaltOK
  BY DEF IInv, Shape, Decisions, PausesInv, Rest, HaltOK
<1>2. QED
  BY <1>1, Invariance, PausesInvariance, PTL

(* Nothing is left paused in a process that works, however the walks of    *)
(* quiesce, cycle and cancel interleave over a tree of any depth, unless   *)
(* the process obeyed a stop under a decision of its own while it was      *)
(* being built again: cancel and #resume of workload.js, halt and restore  *)
(* of connector.ts.                                                        *)
THEOREM AllStarted == HaltSpec => []NothingLeftPaused
<1>1. PausesInv => NothingLeftPaused
  <2> SUFFICES ASSUME PausesInv, NEW p \in Procs \ stray, LeftPaused(p) PROVE FALSE
    BY DEF NothingLeftPaused
  <2>1. Covered(p) /\ Whole(p) /\ Of(p, "cancel") = {}
    BY DEF PausesInv, Orderly, LeftPaused, Whole, Of
  <2>2. QED
    BY <2>1 DEF Covered, LeftPaused
<1>2. QED
  BY <1>1, PausesInvariance, PTL

-----------------------------------------------------------------------------
(* Connectors: the types.                                                  *)

OpeningStages == {"none", "deps", "open", "up", "failed"}

(* The number of the next one is a number, and is the first where there    *)
(* was none.                                                               *)
LEMMA NumberIs ==
  ASSUME NEW N \in Nat, NEW S, NEW past \in [1 .. N -> S]
  PROVE  /\ Number(past) \in Nat \ {0}
         /\ Number(past) = 1 => \A k \in 1 .. N : past[k] = "none"
<1>1. PICK some : some = {k \in 1 .. N : past[k] # "none"}
  OBVIOUS
<1>2. IsFiniteSet(1 .. N)
  BY FS_Interval
<1>3. IsFiniteSet(some)
  BY <1>1, <1>2, FS_Subset
<1>4. Cardinality(some) \in Nat
  BY <1>3, FS_CardinalityType
<1>5. Number(past) = Cardinality(some) + 1
  BY <1>1 DEF Number
<1>6. Number(past) = 1 => some = {}
  BY <1>3, <1>4, <1>5, FS_EmptySet
<1>7. QED
  BY <1>1, <1>4, <1>5, <1>6

(* What a connect() starts was not connecting, but for the first, and what *)
(* each of them depends on is started with it or connects already.         *)
LEMMA ReachedIs ==
  ASSUME dependencies \in [Nodes -> SUBSET Nodes], NEW n \in Nodes, NEW x \in Reached(n)
  PROVE  /\ x \in Nodes
         /\ x = n \/ connecting[x] = 0
         /\ \A d \in dependencies[x] : connecting[d] = 0 => d \in Reached(n)
<1>1. x \in Nodes /\ \A S \in SUBSET Nodes :
        (n \in S /\ \A y \in S : {d \in dependencies[y] : connecting[d] = 0} \subseteq S) => x \in S
  BY DEF Reached
<1>2. x = n \/ connecting[x] = 0
  <2>1. PICK S : S = {n} \cup {d \in Nodes : connecting[d] = 0}
    OBVIOUS
  <2>2. S \in SUBSET Nodes /\ n \in S
    BY <2>1
  <2>3. \A y \in S : {d \in dependencies[y] : connecting[d] = 0} \subseteq S
    BY <2>1, <2>2
  <2>4. x \in S
    BY <1>1, <2>2, <2>3
  <2>5. QED
    BY <2>1, <2>4
<1>3. ASSUME NEW d \in dependencies[x], connecting[d] = 0 PROVE d \in Reached(n)
  <2>1. d \in Nodes
    BY <1>1
  <2>2. ASSUME NEW S \in SUBSET Nodes, n \in S,
               \A y \in S : {e \in dependencies[y] : connecting[e] = 0} \subseteq S
        PROVE  d \in S
    BY <1>1, <1>3, <2>2
  <2>3. QED
    BY <2>1, <2>2 DEF Reached
<1>4. QED
  BY <1>1, <1>2, <1>3

(* The types of the parts of a state that Connect and Starts change.       *)
UpsTyped ==
  /\ opening \in [Nodes -> [Connections -> OpeningStages]]
  /\ needs \in [Nodes -> [Connections -> SUBSET (Nodes \X Connections)]]
  /\ connecting \in [Nodes -> {0} \cup Connections]

DownsTyped ==
  /\ closing \in [Nodes -> [Disconnections -> DisconnectionStages]]
  /\ disconnecting \in [Nodes -> {0} \cup Disconnections]

GoneTyped ==
  /\ connected \in [Nodes -> BOOLEAN]
  /\ connecting \in [Nodes -> {0} \cup Connections]

Awaited == awaited \in [Nodes -> [Disconnections -> SUBSET (Nodes \X Disconnections)]]

Asks == asked \subseteq ((Nodes \X Disconnections) \cup {Nobody}) \X Nodes

OthersTyped ==
  /\ dependencies \in [Nodes -> SUBSET Nodes]
  /\ discarded \in [Nodes -> BOOLEAN]
  /\ sought \subseteq Late
  /\ shutdown \in BOOLEAN

(* Together they are the type invariant. *)
LEMMA TypedParts ==
  ConnectorOK <=> UpsTyped /\ DownsTyped /\ GoneTyped /\ Awaited /\ Asks /\ OthersTyped
BY DEF ConnectorOK, UpsTyped, DownsTyped, GoneTyped, Awaited, Asks, OthersTyped, OpeningStages

(* Connections and disconnections are numbered from one. *)
LEMMA Numbers ==
  /\ Connects \in Nat /\ Connections = 1 .. Connects /\ Disconnections = 1 .. Connects + 1
  /\ Connects + 1 \in Nat /\ 0 \notin Connections /\ 0 \notin Disconnections /\ 1 \in Connections
BY ConnectorAssumption DEF Connections, Disconnections

(* What Connect does, by the connectors it starts. *)
LEMMA ConnectIs ==
  ASSUME ConnectorOK, NEW n \in Nodes, Connect(n)
  PROVE  \E start \in SUBSET Nodes :
           /\ \A x \in start : connecting[x] = 0 /\ Number(opening[x]) \in Connections
           /\ \A x \in start : \A d \in dependencies[x] : d \in start \/ connecting[d] # 0
           /\ opening' = [x \in Nodes |->
                            IF x \in start THEN [opening[x] EXCEPT ![Number(opening[x])] = "deps"]
                            ELSE opening[x]]
           /\ needs' = [x \in Nodes |->
                          IF x \in start
                            THEN [needs[x] EXCEPT ![Number(opening[x])] =
                                    {<<d, IF d \in start THEN Number(opening[d]) ELSE connecting[d]>> :
                                       d \in dependencies[x]}]
                          ELSE needs[x]]
           /\ connecting' = [x \in Nodes |-> IF x \in start THEN Number(opening[x]) ELSE connecting[x]]
           /\ disconnecting' = [x \in Nodes |-> IF x \in start THEN 0 ELSE disconnecting[x]]
<1>0. dependencies \in [Nodes -> SUBSET Nodes] /\ UpsTyped
  BY TypedParts DEF OthersTyped
<1>1. PICK start : start = IF connecting[n] = 0 THEN Reached(n) ELSE {}
  OBVIOUS
<1>2. \A x \in start : /\ x \in Nodes /\ connecting[x] = 0
                       /\ \A d \in dependencies[x] : d \in start \/ connecting[d] # 0
  BY <1>0, <1>1, ReachedIs
<1>3. \A x \in start : Number(opening[x]) <= Connects
  BY <1>1 DEF Connect
<1>4. ASSUME NEW x \in start PROVE Number(opening[x]) \in Connections
  <2>1. opening[x] \in [1 .. Connects -> OpeningStages]
    BY <1>0, <1>2, Numbers DEF UpsTyped
  <2>2. Number(opening[x]) \in Nat \ {0}
    BY <2>1, NumberIs, Numbers
  <2>3. QED
    BY <1>3, <2>2, Numbers
<1>5. /\ opening' = [x \in Nodes |->
                       IF x \in start THEN [opening[x] EXCEPT ![Number(opening[x])] = "deps"]
                       ELSE opening[x]]
      /\ connecting' = [x \in Nodes |-> IF x \in start THEN Number(opening[x]) ELSE connecting[x]]
      /\ disconnecting' = [x \in Nodes |-> IF x \in start THEN 0 ELSE disconnecting[x]]
  BY <1>1 DEF Connect
<1>6. needs' = [x \in Nodes |->
                  IF x \in start
                    THEN [needs[x] EXCEPT ![Number(opening[x])] =
                            {<<d, IF d \in start THEN Number(opening[d]) ELSE connecting[d]>> :
                               d \in dependencies[x]}]
                  ELSE needs[x]]
  BY <1>1, Zenon DEF Connect
<1>7. start \in SUBSET Nodes
  BY <1>2
<1>8. QED
  BY <1>2, <1>4, <1>5, <1>6, <1>7

(* It leaves connections and disconnections in their types. *)
LEMMA ConnectTyped ==
  ASSUME ConnectorOK, NEW n \in Nodes, Connect(n), UNCHANGED connected
  PROVE  UpsTyped' /\ DownsTyped' /\ GoneTyped' /\ Awaited'
<1>0. UpsTyped /\ DownsTyped /\ GoneTyped /\ Awaited /\ OthersTyped
  BY TypedParts
<1>1. PICK start \in SUBSET Nodes :
           /\ \A x \in start : connecting[x] = 0 /\ Number(opening[x]) \in Connections
           /\ \A x \in start : \A d \in dependencies[x] : d \in start \/ connecting[d] # 0
           /\ opening' = [x \in Nodes |->
                            IF x \in start THEN [opening[x] EXCEPT ![Number(opening[x])] = "deps"]
                            ELSE opening[x]]
           /\ needs' = [x \in Nodes |->
                          IF x \in start
                            THEN [needs[x] EXCEPT ![Number(opening[x])] =
                                    {<<d, IF d \in start THEN Number(opening[d]) ELSE connecting[d]>> :
                                       d \in dependencies[x]}]
                          ELSE needs[x]]
           /\ connecting' = [x \in Nodes |-> IF x \in start THEN Number(opening[x]) ELSE connecting[x]]
           /\ disconnecting' = [x \in Nodes |-> IF x \in start THEN 0 ELSE disconnecting[x]]
  BY ConnectIs
<1>2. closing' = closing /\ awaited' = awaited
  BY DEF Connect
<1>3. opening' \in [Nodes -> [Connections -> OpeningStages]]
  BY <1>0, <1>1 DEF UpsTyped, OpeningStages
<1>4. connecting' \in [Nodes -> {0} \cup Connections]
  BY <1>0, <1>1 DEF UpsTyped
<1>5. disconnecting' \in [Nodes -> {0} \cup Disconnections]
  BY <1>0, <1>1 DEF DownsTyped
<1>6. ASSUME NEW x \in start
      PROVE  {<<d, IF d \in start THEN Number(opening[d]) ELSE connecting[d]>> : d \in dependencies[x]}
               \in SUBSET (Nodes \X Connections)
  <2>1. ASSUME NEW d \in dependencies[x]
        PROVE  d \in Nodes /\ (IF d \in start THEN Number(opening[d]) ELSE connecting[d]) \in Connections
    BY <1>0, <1>1, <1>6, <2>1 DEF UpsTyped, OthersTyped
  <2>2. QED
    BY <2>1
<1>7. needs' \in [Nodes -> [Connections -> SUBSET (Nodes \X Connections)]]
  BY <1>0, <1>1, <1>6 DEF UpsTyped
<1>8. QED
  BY <1>0, <1>2, <1>3, <1>4, <1>5, <1>7 DEF UpsTyped, DownsTyped, GoneTyped, Awaited

(* The number a disconnection begins under, and what beginning changes. *)
LEMMA StartsIs ==
  ASSUME DownsTyped, NEW ns \in SUBSET Nodes, NEW stage \in {"walking", "closing"}, Starts(ns, stage)
  PROVE  /\ DownsTyped'
         /\ \A x \in Nodes : /\ x \in ns => /\ disconnecting'[x] \in Disconnections
                                            /\ disconnecting'[x] = Number(closing[x])
                                            /\ closing'[x] = [closing[x] EXCEPT ![disconnecting'[x]] = stage]
                             /\ x \notin ns => /\ disconnecting'[x] = disconnecting[x]
                                               /\ closing'[x] = closing[x]
<1>1. /\ \A x \in ns : Number(closing[x]) \in Disconnections
      /\ closing' = [x \in Nodes |-> IF x \in ns THEN [closing[x] EXCEPT ![Number(closing[x])] = stage]
                                                 ELSE closing[x]]
      /\ disconnecting' = [x \in Nodes |-> IF x \in ns THEN Number(closing[x]) ELSE disconnecting[x]]
  BY DEF Starts
<1>2. DownsTyped'
  BY <1>1 DEF DownsTyped, DisconnectionStages
<1>3. QED
  BY <1>1, <1>2

(* Those that are gone are neither connected nor connecting. *)
LEMMA GoneIs ==
  ASSUME GoneTyped, NEW ns \in SUBSET Nodes, Gone(ns)
  PROVE  /\ GoneTyped'
         /\ \A x \in Nodes : /\ x \in ns => ~connected'[x] /\ connecting'[x] = 0
                             /\ x \notin ns => connected'[x] = connected[x] /\ connecting'[x] = connecting[x]
<1>1. GoneTyped'
  BY DEF Gone, GoneTyped
<1>2. QED
  BY <1>1 DEF Gone, GoneTyped

(* A disconnect() that nothing waits for. *)
LEMMA DisconnectIs ==
  ASSUME ConnectorOK, NEW n \in Nodes, Disconnect(n)
  PROVE  /\ DownsTyped' /\ GoneTyped' /\ Asks'
         /\ connected[n] => /\ asked' = asked \cup {<<Nobody, n>>}
                            /\ UNCHANGED <<connected, connecting, closing, disconnecting>>
         /\ ~connected[n] => /\ asked' = asked
                             /\ \E begins \in SUBSET {n} :
                                  /\ Starts(begins, "walking") /\ Gone(begins)
                                  /\ \A x \in begins : ~Leaving(x) /\ ~Linked(x)
<1>0. DownsTyped /\ GoneTyped /\ Asks
  BY TypedParts
<1>1. CASE connected[n]
  BY <1>0, <1>1 DEF Disconnect, Asks, DownsTyped, GoneTyped
<1>2. CASE ~connected[n]
  <2>1. PICK begins : begins = IF Leaving(n) \/ Linked(n) THEN {} ELSE {n}
    OBVIOUS
  <2>2. begins \in SUBSET {n} /\ begins \in SUBSET Nodes /\ \A x \in begins : ~Leaving(x) /\ ~Linked(x)
    BY <2>1
  <2>3. Starts(begins, "walking") /\ Gone(begins) /\ asked' = asked
    BY <1>2, <2>1 DEF Disconnect
  <2>4. DownsTyped' /\ GoneTyped'
    BY <1>0, <2>2, <2>3, StartsIs, GoneIs
  <2>5. QED
    BY <1>0, <1>2, <2>2, <2>3, <2>4 DEF Asks
<1>3. QED
  BY <1>1, <1>2

-----------------------------------------------------------------------------
(* What is closed last.                                                    *)

(* No connector is connected again: "What is disposed of is never          *)
(* connected again" (connector.ts).                                        *)
ConnectedOnce == \A n \in Nodes, k \in Connections : k > 1 => opening[n][k] = "none"

(* A connector that closes is connected until close() is done, and one     *)
(* that was asked to disconnect is connected until it begins to.           *)
Standing(n) ==
  /\ connected[n] => opening[n][1] # "none"
  /\ \A j \in Disconnections : closing[n][j] = "closing" => connected[n] /\ disconnecting[n] = j
  /\ \A one \in asked : one[2] = n => (connected[n] \/ Leaving(n)) /\ opening[n][1] # "none"

AllStanding == ConnectedOnce => \A n \in Nodes : Standing(n)

(* No connection is unmade. *)
Goes == \A n \in Nodes, k \in Connections : opening'[n][k] = "none" => opening[n][k] = "none"

(* What a step may do to a connector that stays as it is: disconnections   *)
(* end, and it is asked only while it is connected.                        *)
Rests(n) ==
  /\ connected'[n] = connected[n] /\ disconnecting'[n] = disconnecting[n]
  /\ \A j \in Disconnections : closing'[n][j] = "closing" => closing[n][j] = "closing"
  /\ \A one \in asked' : one[2] = n => one \in asked \/ connected[n]

(* And to one that begins to disconnect with nothing to close. *)
Leaves(n) ==
  /\ ~Leaving(n)
  /\ ~connected'[n]
  /\ disconnecting'[n] # 0
  /\ \A j \in Disconnections : closing'[n][j] = "closing" => closing[n][j] = "closing"
  /\ \A one \in asked' : one[2] = n => one \in asked

(* Neither makes it close what is not connected. *)
LEMMA StillStanding ==
  ASSUME NEW n \in Nodes, Standing(n), Goes, Rests(n) \/ Leaves(n)
  PROVE  Standing(n)'
<1>0. opening[n][1] # "none" => opening'[n][1] # "none"
  BY Numbers DEF Goes
<1>1. CASE Rests(n)
  BY <1>0, <1>1 DEF Standing, Rests, Leaving
<1>2. CASE Leaves(n)
  <2>1. \A j \in Disconnections : closing'[n][j] # "closing"
    BY <1>2, Numbers DEF Standing, Leaves, Leaving
  <2>2. QED
    BY <1>0, <1>2, <2>1 DEF Standing, Leaves, Leaving
<1>3. QED
  BY <1>1, <1>2

(* Every connector that stands before a step stands after it. *)
Stand == ConnectedOnce /\ ConnectedOnce' => \A n \in Nodes : Standing(n) => Standing(n)'

(* close() of no connector begins. *)
NoneCloses ==
  \A n \in Nodes, j \in Disconnections : closing'[n][j] = "closing" => closing[n][j] = "closing"

(* A step that lets every connector rest or leave. *)
LEMMA Quiet ==
  ASSUME Goes, \A n \in Nodes : Rests(n) \/ Leaves(n)
  PROVE  Stand /\ NoneCloses
<1>1. Stand
  BY StillStanding DEF Stand
<1>2. NoneCloses
  BY DEF NoneCloses, Rests, Leaves
<1>3. QED
  BY <1>1, <1>2

(* What was connected once by the end of a step was so before it. *)
LEMMA StandStep ==
  ASSUME AllStanding, Goes, Stand
  PROVE  AllStanding'
<1>1. ConnectedOnce' => ConnectedOnce
  BY DEF Goes, ConnectedOnce
<1>2. QED
  BY <1>1 DEF AllStanding, Stand

(* The same for Connect, which starts none that stands under a first       *)
(* connection.                                                             *)
LEMMA ConnectStands ==
  ASSUME ConnectorOK, NEW n \in Nodes, Connect(n), UNCHANGED <<connected, asked>>
  PROVE  Goes /\ Stand /\ NoneCloses
<1>0. UpsTyped /\ DownsTyped /\ Asks
  BY TypedParts
<1>1. PICK start \in SUBSET Nodes :
           /\ \A x \in start : connecting[x] = 0 /\ Number(opening[x]) \in Connections
           /\ opening' = [x \in Nodes |->
                            IF x \in start THEN [opening[x] EXCEPT ![Number(opening[x])] = "deps"]
                            ELSE opening[x]]
           /\ disconnecting' = [x \in Nodes |-> IF x \in start THEN 0 ELSE disconnecting[x]]
  BY ConnectIs
<1>2. closing' = closing
  BY DEF Connect
<1>3. Goes
  BY <1>0, <1>1 DEF Goes, UpsTyped
<1>4. ASSUME ConnectedOnce', NEW x \in Nodes, Standing(x) PROVE Standing(x)'
  <2>1. CASE x \in start
    <3>1. PICK p \in Connections : p = Number(opening[x])
      BY <1>1, <2>1
    <3>2. opening'[x][p] = "deps"
      BY <1>0, <1>1, <2>1, <3>1 DEF UpsTyped
    <3>3. p = 1
      BY <1>4, <3>1, <3>2, Numbers DEF ConnectedOnce
    <3>4. opening[x] \in [1 .. Connects -> OpeningStages]
      BY <1>0, Numbers DEF UpsTyped
    <3>5. opening[x][1] = "none"
      BY <3>1, <3>3, <3>4, NumberIs, Numbers
    <3>6. QED
      BY <1>2, <1>4, <3>5 DEF Standing
  <2>2. CASE x \notin start
    <3>1. Rests(x)
      BY <1>1, <1>2, <2>2 DEF Rests
    <3>2. QED
      BY <1>3, <1>4, <3>1, StillStanding
  <2>3. QED
    BY <2>1, <2>2
<1>5. Stand
  BY <1>4 DEF Stand
<1>6. QED
  BY <1>2, <1>3, <1>5 DEF NoneCloses

(* Those that begin with nothing to close leave, and the others rest. *)
LEMMA StartedLeave ==
  ASSUME DownsTyped, GoneTyped, NEW ns \in SUBSET Nodes, Starts(ns, "walking"), Gone(ns),
         \A x \in ns : ~Leaving(x), UNCHANGED asked
  PROVE  \A x \in Nodes : Rests(x) \/ Leaves(x)
<1>1. ASSUME NEW x \in Nodes PROVE Rests(x) \/ Leaves(x)
  <2>1. CASE x \in ns
    <3>1. PICK p \in Disconnections : p = disconnecting'[x] /\ closing'[x] = [closing[x] EXCEPT ![p] = "walking"]
      BY <2>1, StartsIs
    <3>2. \A j \in Disconnections : closing'[x][j] = "closing" => closing[x][j] = "closing"
      BY <3>1 DEF DownsTyped
    <3>3. ~connected'[x]
      BY <2>1, GoneIs
    <3>4. QED
      BY <2>1, <3>1, <3>2, <3>3, Numbers DEF Leaves
  <2>2. CASE x \notin ns
    <3>1. disconnecting'[x] = disconnecting[x] /\ closing'[x] = closing[x]
      BY <2>2, StartsIs
    <3>2. connected'[x] = connected[x]
      BY <2>2, GoneIs
    <3>3. QED
      BY <3>1, <3>2 DEF Rests
  <2>3. QED
    BY <2>1, <2>2
<1>2. QED
  BY <1>1

(* A disconnect() that nothing waits for lets every connector rest or      *)
(* leave.                                                                  *)
LEMMA DisconnectQuiet ==
  ASSUME ConnectorOK, NEW n \in Nodes, Disconnect(n)
  PROVE  \A x \in Nodes : Rests(x) \/ Leaves(x)
<1>0. DownsTyped /\ GoneTyped /\ Asks
  BY TypedParts
<1>1. CASE connected[n]
  BY <1>0, <1>1, DisconnectIs DEF Rests
<1>2. CASE ~connected[n]
  <2>1. PICK begins \in SUBSET {n} :
          /\ Starts(begins, "walking") /\ Gone(begins)
          /\ \A x \in begins : ~Leaving(x) /\ ~Linked(x)
    BY <1>2, DisconnectIs
  <2>2. asked' = asked /\ begins \in SUBSET Nodes
    BY <1>2, DisconnectIs
  <2>3. QED
    BY <1>0, <2>1, <2>2, StartedLeave
<1>3. QED
  BY <1>1, <1>2

-----------------------------------------------------------------------------
(* Each action, for the types and for what stands.                         *)

(* What an action other than Consider does. *)
Good == ConnectorOK' /\ Goes /\ Stand /\ NoneCloses

(* An action that connects. *)
LEMMA Connecting ==
  ASSUME ConnectorOK, NEW n \in Nodes, Connect(n), UNCHANGED <<connected, asked>>, OthersTyped'
  PROVE  Good
<1>1. Asks'
  BY TypedParts DEF Asks
<1>2. UpsTyped' /\ DownsTyped' /\ GoneTyped' /\ Awaited'
  BY ConnectTyped
<1>3. ConnectorOK'
  BY <1>1, <1>2, TypedParts, PTL
<1>4. QED
  BY <1>3, ConnectStands DEF Good

(* An action that lets every connector rest or leave. *)
LEMMA Resting ==
  ASSUME UpsTyped', DownsTyped', GoneTyped', Awaited', Asks', OthersTyped', Goes,
         \A n \in Nodes : Rests(n) \/ Leaves(n)
  PROVE  Good
<1>1. ConnectorOK'
  BY TypedParts, PTL
<1>2. QED
  BY <1>1, Quiet DEF Good

(* A connection moves on. *)
LEMMA Opens ==
  ASSUME UpsTyped, NEW n \in Nodes, NEW k \in Connections, NEW stage \in OpeningStages \ {"none"},
         opening' = [opening EXCEPT ![n][k] = stage], UNCHANGED needs,
         connecting' \in [Nodes -> {0} \cup Connections]
  PROVE  UpsTyped' /\ Goes /\ opening'[n][k] = stage
<1>1. opening' \in [Nodes -> [Connections -> OpeningStages]]
  BY DEF UpsTyped
<1>2. opening'[n][k] = stage
  BY DEF UpsTyped
<1>3. Goes
  BY DEF Goes, UpsTyped
<1>4. QED
  BY <1>1, <1>2, <1>3 DEF UpsTyped

(* A disconnection moves on, past its close(). *)
LEMMA Closes ==
  ASSUME DownsTyped, NEW n \in Nodes, NEW j \in Disconnections,
         NEW stage \in DisconnectionStages \ {"closing"},
         closing' = [closing EXCEPT ![n][j] = stage], UNCHANGED disconnecting
  PROVE  DownsTyped' /\ NoneCloses /\ closing'[n][j] = stage
<1>1. closing' \in [Nodes -> [Disconnections -> DisconnectionStages]]
  BY DEF DownsTyped
<1>2. closing'[n][j] = stage
  BY DEF DownsTyped
<1>3. NoneCloses
  BY DEF NoneCloses, DownsTyped
<1>4. QED
  BY <1>1, <1>2, <1>3 DEF DownsTyped

(* The same connections are as good as before. *)
LEMMA OpeningSame ==
  ASSUME opening' = opening
  PROVE  Goes
BY DEF Goes

(* The process comes up. *)
LEMMA BootGood == ASSUME ConnectorOK, Boot PROVE Good
<1>1. Root \in Nodes
  BY ConnectorAssumption
<1>2. OthersTyped'
  BY TypedParts DEF Boot, OthersTyped
<1>3. Connect(Root) /\ UNCHANGED <<connected, asked>>
  BY DEF Boot
<1>4. QED
  BY <1>1, <1>2, <1>3, Connecting

(* It is told to shut down. *)
LEMMA ShutDownGood == ASSUME ConnectorOK, ShutDown PROVE Good
<1>0. UpsTyped /\ Awaited /\ OthersTyped
  BY TypedParts
<1>1. Root \in Nodes
  BY ConnectorAssumption
<1>2. /\ Disconnect(Root) /\ opening' = opening /\ needs' = needs /\ awaited' = awaited
      /\ dependencies' = dependencies /\ discarded' = discarded /\ sought' = sought /\ shutdown' = TRUE
  BY DEF ShutDown
<1>3. OthersTyped' /\ Awaited'
  BY <1>0, <1>2 DEF OthersTyped, Awaited
<1>4. DownsTyped' /\ GoneTyped' /\ Asks'
  BY <1>1, <1>2, DisconnectIs
<1>5. UpsTyped'
  BY <1>0, <1>2, <1>4 DEF UpsTyped, GoneTyped
<1>6. \A x \in Nodes : Rests(x) \/ Leaves(x)
  BY <1>1, <1>2, DisconnectQuiet
<1>7. QED
  BY <1>2, <1>3, <1>4, <1>5, <1>6, OpeningSame, Resting

(* What a connector depends on is up. *)
LEMMA DependableGood ==
  ASSUME ConnectorOK, NEW n \in Nodes, NEW k \in Connections, Dependable(n, k)
  PROVE  Good
<1>0. UpsTyped /\ DownsTyped /\ GoneTyped /\ Awaited /\ Asks /\ OthersTyped
  BY TypedParts
<1>1. /\ opening' = [opening EXCEPT ![n][k] = "open"] /\ needs' = needs /\ connecting' = connecting
      /\ connected' = connected /\ closing' = closing /\ awaited' = awaited
      /\ disconnecting' = disconnecting /\ asked' = asked /\ dependencies' = dependencies
      /\ discarded' = discarded /\ sought' = sought /\ shutdown' = shutdown
  BY DEF Dependable, downs
<1>2. DownsTyped' /\ GoneTyped' /\ Awaited' /\ Asks' /\ OthersTyped'
  BY <1>0, <1>1 DEF DownsTyped, GoneTyped, Awaited, Asks, OthersTyped
<1>3. UpsTyped' /\ Goes
  <2>1. connecting' \in [Nodes -> {0} \cup Connections] /\ "open" \in OpeningStages \ {"none"}
    BY <1>0, <1>1 DEF UpsTyped, OpeningStages
  <2>2. QED
    BY <1>0, <1>1, <2>1, Opens
<1>4. \A x \in Nodes : Rests(x)
  BY <1>1 DEF Rests
<1>5. QED
  BY <1>2, <1>3, <1>4, Resting

(* open() of a connector is done. *)
LEMMA OpenedGood ==
  ASSUME ConnectorOK, NEW n \in Nodes, NEW k \in Connections, Opened(n, k)
  PROVE  Good
<1>0. UpsTyped /\ DownsTyped /\ GoneTyped /\ Awaited /\ Asks /\ OthersTyped
  BY TypedParts
<1>1. /\ opening[n][k] = "open" /\ opening' = [opening EXCEPT ![n][k] = "up"] /\ needs' = needs
      /\ discarded' = [discarded EXCEPT ![n] = FALSE] /\ awaited' = awaited
      /\ dependencies' = dependencies /\ sought' = sought /\ shutdown' = shutdown
  BY DEF Opened
<1>2. Awaited' /\ OthersTyped'
  BY <1>0, <1>1 DEF Awaited, OthersTyped
<1>3. "up" \in OpeningStages \ {"none"}
  BY DEF OpeningStages
<1>4. CASE discarded[n] /\ ~(connected[n] \/ connecting[n] = k)
  <2>1. Disconnect(n)
    BY <1>4 DEF Opened
  <2>2. DownsTyped' /\ GoneTyped' /\ Asks'
    BY <2>1, DisconnectIs
  <2>3. UpsTyped' /\ Goes
    BY <1>0, <1>1, <1>3, <2>2, Opens DEF GoneTyped
  <2>4. \A x \in Nodes : Rests(x) \/ Leaves(x)
    BY <2>1, DisconnectQuiet
  <2>5. QED
    BY <1>2, <2>2, <2>3, <2>4, Resting
<1>5. CASE ~(discarded[n] /\ ~(connected[n] \/ connecting[n] = k))
  <2>1. /\ connected' = [connected EXCEPT ![n] = connected[n] \/ connecting[n] = k]
        /\ asked' = IF discarded[n] THEN asked \cup {<<Nobody, n>>} ELSE asked
        /\ connecting' = connecting /\ closing' = closing /\ disconnecting' = disconnecting
    BY <1>5 DEF Opened
  <2>2. DownsTyped' /\ GoneTyped'
    BY <1>0, <2>1 DEF DownsTyped, GoneTyped
  <2>3. Asks'
    BY <1>0, <2>1 DEF Asks
  <2>4. UpsTyped' /\ Goes /\ opening'[n][k] = "up"
    BY <1>0, <1>1, <1>3, <2>2, Opens DEF GoneTyped
  <2>5. NoneCloses
    BY <2>1 DEF NoneCloses
  <2>6. ASSUME ConnectedOnce, NEW x \in Nodes, Standing(x) PROVE Standing(x)'
    <3>1. k = 1
      BY <1>1, <2>6, Numbers DEF ConnectedOnce
    <3>2. CASE x = n /\ connected'[n]
      BY <2>1, <2>4, <2>6, <3>1, <3>2 DEF Standing
    <3>3. CASE x # n \/ ~connected'[n]
      <4>1. connected'[x] = connected[x]
        BY <1>0, <2>1, <3>3 DEF GoneTyped
      <4>2. \A one \in asked' : one[2] = x => one \in asked
        <5>1. x = n => asked' = asked
          BY <1>0, <1>5, <2>1, <3>3 DEF GoneTyped
        <5>2. QED
          BY <2>1, <5>1
      <4>3. Rests(x)
        BY <2>1, <4>1, <4>2 DEF Rests
      <4>4. QED
        BY <2>4, <2>6, <4>3, StillStanding
    <3>4. QED
      BY <3>2, <3>3
  <2>7. Stand
    BY <2>6 DEF Stand
  <2>8. ConnectorOK'
    BY <1>2, <2>2, <2>3, <2>4, TypedParts, PTL
  <2>9. QED
    BY <2>4, <2>5, <2>7, <2>8 DEF Good
<1>6. QED
  BY <1>4, <1>5

(* open() raised, or what it depends on did not come up. *)
LEMMA OpenFailedGood ==
  ASSUME ConnectorOK, NEW n \in Nodes, NEW k \in Connections, OpenFailed(n, k)
  PROVE  Good
<1>0. UpsTyped /\ DownsTyped /\ GoneTyped /\ Awaited /\ Asks /\ OthersTyped
  BY TypedParts
<1>1. PICK begins : begins = IF Leaving(n) THEN {} ELSE {n}
  OBVIOUS
<1>2. /\ opening' = [opening EXCEPT ![n][k] = "failed"] /\ needs' = needs
      /\ Starts(begins, "walking") /\ Gone(begins)
      /\ dependencies' = dependencies /\ awaited' = awaited /\ asked' = asked
      /\ discarded' = discarded /\ sought' = sought /\ shutdown' = shutdown
  BY <1>1 DEF OpenFailed
<1>3. begins \in SUBSET Nodes /\ \A x \in begins : ~Leaving(x)
  BY <1>1
<1>4. Awaited' /\ Asks' /\ OthersTyped'
  BY <1>0, <1>2 DEF Awaited, Asks, OthersTyped
<1>5. DownsTyped' /\ GoneTyped'
  BY <1>0, <1>2, <1>3, StartsIs, GoneIs
<1>6. "failed" \in OpeningStages \ {"none"}
  BY DEF OpeningStages
<1>7. UpsTyped' /\ Goes
  BY <1>0, <1>2, <1>5, <1>6, Opens DEF GoneTyped
<1>8. \A x \in Nodes : Rests(x) \/ Leaves(x)
  BY <1>0, <1>2, <1>3, StartedLeave
<1>9. QED
  BY <1>4, <1>5, <1>7, <1>8, Resting

(* An action that only moves a disconnection on, past its close(). *)
LEMMA OnlyCloses ==
  ASSUME ConnectorOK, NEW n \in Nodes, NEW j \in Disconnections,
         NEW stage \in DisconnectionStages \ {"closing"},
         closing' = [closing EXCEPT ![n][j] = stage],
         UNCHANGED <<dependencies, ups, connected, awaited, disconnecting, asked, discarded, sought,
                     shutdown>>
  PROVE  Good
<1>0. UpsTyped /\ DownsTyped /\ GoneTyped /\ Awaited /\ Asks /\ OthersTyped
  BY TypedParts
<1>1. /\ opening' = opening /\ needs' = needs /\ connecting' = connecting
      /\ connected' = connected /\ awaited' = awaited
      /\ disconnecting' = disconnecting /\ asked' = asked /\ dependencies' = dependencies
      /\ discarded' = discarded /\ sought' = sought /\ shutdown' = shutdown
  BY DEF ups
<1>2. UpsTyped' /\ GoneTyped' /\ Awaited' /\ Asks' /\ OthersTyped'
  BY <1>0, <1>1 DEF UpsTyped, GoneTyped, Awaited, Asks, OthersTyped
<1>3. DownsTyped' /\ NoneCloses
  BY <1>0, <1>1, Closes
<1>4. \A x \in Nodes : Rests(x)
  BY <1>1, <1>3 DEF Rests, NoneCloses
<1>5. QED
  BY <1>1, <1>2, <1>3, <1>4, OpeningSame, Resting

(* close() raised. *)
LEMMA CloseFailedGood ==
  ASSUME ConnectorOK, NEW n \in Nodes, NEW j \in Disconnections, CloseFailed(n, j)
  PROVE  Good
BY OnlyCloses DEF CloseFailed, DisconnectionStages

(* A connector is disposed of. *)
LEMMA DisposeGood ==
  ASSUME ConnectorOK, NEW n \in Nodes, NEW j \in Disconnections, Dispose(n, j)
  PROVE  Good
BY OnlyCloses DEF Dispose, DisconnectionStages

(* What it depends on failed to disconnect. *)
LEMMA WaitFailedGood ==
  ASSUME ConnectorOK, NEW n \in Nodes, NEW j \in Disconnections, WaitFailed(n, j)
  PROVE  Good
BY OnlyCloses DEF WaitFailed, DisconnectionStages

(* close() is done. *)
LEMMA ClosedGood ==
  ASSUME ConnectorOK, NEW n \in Nodes, NEW j \in Disconnections, Closed(n, j)
  PROVE  Good
<1>0. UpsTyped /\ DownsTyped /\ GoneTyped /\ Awaited /\ Asks /\ OthersTyped
  BY TypedParts
<1>1. /\ opening' = opening /\ needs' = needs /\ Gone({n}) /\ awaited' = awaited
      /\ disconnecting' = disconnecting /\ asked' = asked /\ dependencies' = dependencies
      /\ discarded' = discarded /\ sought' = sought /\ shutdown' = shutdown
      /\ closing[n][j] = "closing" /\ closing' = [closing EXCEPT ![n][j] = "walking"]
  BY DEF Closed
<1>2. /\ GoneTyped' /\ ~connected'[n]
      /\ \A x \in Nodes : x # n => connected'[x] = connected[x]
  BY <1>0, <1>1, GoneIs
<1>3. UpsTyped' /\ Awaited' /\ Asks' /\ OthersTyped'
  BY <1>0, <1>1, <1>2 DEF UpsTyped, GoneTyped, Awaited, Asks, OthersTyped
<1>4. DownsTyped' /\ NoneCloses /\ closing'[n][j] = "walking"
  BY <1>0, <1>1, Closes DEF DisconnectionStages
<1>5. Goes
  BY <1>1, OpeningSame
<1>6. ASSUME NEW x \in Nodes, Standing(x) PROVE Standing(x)'
  <2>1. CASE x = n
    <3>1. disconnecting[n] = j /\ \A i \in Disconnections : closing'[n][i] # "closing"
      BY <1>1, <1>4, <1>6, <2>1 DEF Standing, NoneCloses
    <3>2. QED
      BY <1>1, <1>2, <1>6, <2>1, <3>1, Numbers DEF Standing, Leaving
  <2>2. CASE x # n
    <3>1. Rests(x)
      BY <1>1, <1>2, <1>4, <2>2 DEF Rests, NoneCloses
    <3>2. QED
      BY <1>5, <1>6, <3>1, StillStanding
  <2>3. QED
    BY <2>1, <2>2
<1>7. Stand
  BY <1>6 DEF Stand
<1>8. ConnectorOK'
  BY <1>2, <1>3, <1>4, TypedParts, PTL
<1>9. QED
  BY <1>4, <1>5, <1>7, <1>8 DEF Good

(* All it depends on is asked to disconnect. *)
LEMMA WalkGood ==
  ASSUME ConnectorOK, NEW n \in Nodes, NEW j \in Disconnections, Walk(n, j)
  PROVE  Good
<1>0. UpsTyped /\ DownsTyped /\ GoneTyped /\ Awaited /\ Asks /\ OthersTyped
  BY TypedParts
<1>1. PICK up : up = {d \in dependencies[n] : connected[d]}
  OBVIOUS
<1>2. PICK begins : begins = {d \in dependencies[n] \ up : ~Leaving(d) /\ ~Linked(d)}
  OBVIOUS
<1>3. PICK joins : joins = {d \in dependencies[n] \ up : Leaving(d)}
  OBVIOUS
<1>4. /\ asked' = asked \cup {<<<<n, j>>, d>> : d \in up}
      /\ \A x \in begins : Number(closing[x]) \in Disconnections
      /\ closing' = [x \in Nodes |-> IF x = n THEN [closing[n] EXCEPT ![j] = "waiting"]
                                     ELSE IF x \in begins
                                            THEN [closing[x] EXCEPT ![Number(closing[x])] = "walking"]
                                     ELSE closing[x]]
      /\ disconnecting' = [x \in Nodes |-> IF x \in begins THEN Number(closing[x]) ELSE disconnecting[x]]
      /\ awaited' = [awaited EXCEPT ![n][j] = {<<d, Number(closing[d])>> : d \in begins}
                                                \cup {<<d, disconnecting[d]>> : d \in joins}]
      /\ Gone(begins)
  BY <1>1, <1>2, <1>3 DEF Walk
<1>5. /\ opening' = opening /\ needs' = needs /\ dependencies' = dependencies
      /\ discarded' = discarded /\ sought' = sought /\ shutdown' = shutdown
  BY DEF Walk
<1>6. up \in SUBSET Nodes /\ begins \in SUBSET Nodes /\ joins \in SUBSET Nodes
  BY <1>0, <1>1, <1>2, <1>3 DEF OthersTyped
<1>7. /\ \A d \in up : connected[d]
      /\ \A d \in begins : ~Leaving(d)
      /\ \A d \in joins : disconnecting[d] \in Disconnections
  <2>1. \A d \in joins : Leaving(d)
    BY <1>3
  <2>2. QED
    BY <1>0, <1>1, <1>2, <1>6, <2>1 DEF DownsTyped, Leaving
<1>8. /\ GoneTyped'
      /\ \A x \in Nodes : /\ x \in begins => ~connected'[x]
                          /\ x \notin begins => connected'[x] = connected[x]
  BY <1>0, <1>4, <1>6, GoneIs
<1>9. UpsTyped' /\ OthersTyped'
  BY <1>0, <1>5, <1>8 DEF UpsTyped, GoneTyped, OthersTyped
<1>10. Asks'
  BY <1>0, <1>4, <1>6 DEF Asks
<1>11. Awaited'
  <2>1. PICK ones : ones = {<<d, Number(closing[d])>> : d \in begins} \cup {<<d, disconnecting[d]>> : d \in joins}
    OBVIOUS
  <2>2. ones \in SUBSET (Nodes \X Disconnections)
    BY <1>4, <1>6, <1>7, <2>1
  <2>3. awaited' = [awaited EXCEPT ![n][j] = ones]
    BY <1>4, <2>1
  <2>4. QED
    BY <1>0, <2>2, <2>3 DEF Awaited
<1>12. DownsTyped'
  <2>1. closing' \in [Nodes -> [Disconnections -> DisconnectionStages]]
    BY <1>0, <1>4 DEF DownsTyped, DisconnectionStages
  <2>2. disconnecting' \in [Nodes -> {0} \cup Disconnections]
    BY <1>0, <1>4 DEF DownsTyped
  <2>3. QED
    BY <2>1, <2>2 DEF DownsTyped
<1>13. NoneCloses
  BY <1>0, <1>4 DEF NoneCloses, DownsTyped
<1>14. ASSUME NEW x \in Nodes PROVE Rests(x) \/ Leaves(x)
  <2>1. \A one \in asked' : one[2] = x => one \in asked \/ x \in up
    BY <1>4
  <2>2. CASE x \in begins
    <3>1. x \notin up
      BY <1>2, <2>2
    <3>2. disconnecting'[x] # 0
      BY <1>4, <2>2, Numbers
    <3>3. QED
      BY <1>7, <1>8, <1>13, <2>1, <2>2, <3>1, <3>2 DEF Leaves, NoneCloses
  <2>3. CASE x \notin begins
    <3>1. disconnecting'[x] = disconnecting[x]
      BY <1>4, <2>3
    <3>2. QED
      BY <1>7, <1>8, <1>13, <2>1, <2>3, <3>1 DEF Rests, NoneCloses
  <2>4. QED
    BY <2>2, <2>3
<1>15. QED
  BY <1>5, <1>8, <1>9, <1>10, <1>11, <1>12, <1>14, OpeningSame, Resting

(* One is taken on, and connected. *)
LEMMA TakeOnGood == ASSUME ConnectorOK, NEW n \in Nodes, NEW m \in Nodes, TakeOn(n, m) PROVE Good
<1>0. OthersTyped /\ DownsTyped
  BY TypedParts
<1>1. /\ dependencies' = [dependencies EXCEPT ![n] = @ \cup {m}]
      /\ discarded' = [discarded EXCEPT ![m] = Leaving(n)]
      /\ Connect(m) /\ UNCHANGED <<connected, asked>> /\ sought' = sought /\ shutdown' = shutdown
  BY DEF TakeOn
<1>2. dependencies' \in [Nodes -> SUBSET Nodes]
  BY <1>0, <1>1 DEF OthersTyped
<1>3. discarded' \in [Nodes -> BOOLEAN]
  BY <1>0, <1>1 DEF OthersTyped, Leaving
<1>4. OthersTyped'
  BY <1>0, <1>1, <1>2, <1>3 DEF OthersTyped
<1>5. QED
  BY <1>1, <1>4, Connecting

(* One is connected, to be taken on. *)
LEMMA SeekGood == ASSUME ConnectorOK, NEW n \in Nodes, NEW m \in Nodes, Seek(n, m) PROVE Good
<1>0. OthersTyped
  BY TypedParts
<1>1. /\ Connect(m) /\ UNCHANGED <<connected, asked>> /\ dependencies' = dependencies
      /\ discarded' = discarded /\ sought' = sought \cup {<<n, m>>} /\ shutdown' = shutdown
      /\ <<n, m>> \in Late
  BY DEF Seek, Finds
<1>2. OthersTyped'
  BY <1>0, <1>1 DEF OthersTyped
<1>3. QED
  BY <1>1, <1>2, Connecting

(* It is taken on. *)
LEMMA HoldGood == ASSUME ConnectorOK, NEW n \in Nodes, NEW m \in Nodes, Hold(n, m) PROVE Good
<1>0. UpsTyped /\ DownsTyped /\ GoneTyped /\ Awaited /\ Asks /\ OthersTyped
  BY TypedParts
<1>1. /\ dependencies' = [dependencies EXCEPT ![n] = @ \cup {m}] /\ Discard(n, m)
      /\ opening' = opening /\ needs' = needs /\ awaited' = awaited
      /\ sought' = sought /\ shutdown' = shutdown
  BY DEF Hold
<1>2. dependencies' \in [Nodes -> SUBSET Nodes]
  BY <1>0, <1>1 DEF OthersTyped
<1>3. Awaited' /\ Goes
  BY <1>0, <1>1, OpeningSame DEF Awaited
<1>4. CASE Leaving(n) /\ connecting[m] # 0
  <2>1. Disconnect(m) /\ discarded' = discarded
    BY <1>1, <1>4 DEF Discard
  <2>2. DownsTyped' /\ GoneTyped' /\ Asks'
    BY <2>1, DisconnectIs
  <2>3. UpsTyped' /\ OthersTyped'
    BY <1>0, <1>1, <1>2, <2>1, <2>2 DEF UpsTyped, GoneTyped, OthersTyped
  <2>4. \A x \in Nodes : Rests(x) \/ Leaves(x)
    BY <2>1, DisconnectQuiet
  <2>5. QED
    BY <1>3, <2>2, <2>3, <2>4, Resting
<1>5. CASE ~(Leaving(n) /\ connecting[m] # 0)
  <2>1. /\ discarded' = [discarded EXCEPT ![m] = @ \/ Leaving(n)]
        /\ asked' = asked /\ connected' = connected /\ connecting' = connecting
        /\ closing' = closing /\ disconnecting' = disconnecting
    BY <1>1, <1>5 DEF Discard
  <2>2. discarded' \in [Nodes -> BOOLEAN]
    BY <1>0, <2>1 DEF OthersTyped, Leaving
  <2>3. UpsTyped' /\ DownsTyped' /\ GoneTyped' /\ Asks' /\ OthersTyped'
    BY <1>0, <1>1, <1>2, <2>1, <2>2 DEF UpsTyped, DownsTyped, GoneTyped, Asks, OthersTyped
  <2>4. \A x \in Nodes : Rests(x)
    BY <2>1 DEF Rests
  <2>5. QED
    BY <1>3, <2>3, <2>4, Resting
<1>6. QED
  BY <1>4, <1>5

(* Nothing that depends on a connector whose close() begins is in use. *)
LastOne ==
  \A n \in Nodes, j \in Disconnections : closing[n][j] # "closing" /\ closing'[n][j] = "closing"
    => \A c \in Dependants(n) : ~InUse(c)

(* Consider is the action that begins a close(), of a connector that none  *)
(* connected depends on; what closes is connected, so none of them closes. *)
LEMMA ConsiderGood ==
  ASSUME ConnectorOK, NEW c, NEW n \in Nodes, Consider(c, n)
  PROVE  ConnectorOK' /\ Goes /\ Stand /\ (ConnectedOnce /\ AllStanding => LastOne)
<1>0. UpsTyped /\ DownsTyped /\ GoneTyped /\ Awaited /\ Asks /\ OthersTyped
  BY TypedParts
<1>1. /\ opening' = opening /\ needs' = needs /\ connecting' = connecting
      /\ connected' = connected /\ dependencies' = dependencies /\ discarded' = discarded
      /\ sought' = sought /\ shutdown' = shutdown
      /\ <<c, n>> \in asked /\ asked' = asked \ {<<c, n>>}
  BY DEF Consider, ups
<1>2. UpsTyped' /\ GoneTyped' /\ Asks' /\ OthersTyped'
  BY <1>0, <1>1 DEF UpsTyped, GoneTyped, Asks, OthersTyped
<1>3. Goes
  BY <1>1, OpeningSame
<1>4. CASE ~Leaving(n) /\ Linked(n)
  <2>1. closing' = closing /\ awaited' = awaited /\ disconnecting' = disconnecting
    BY <1>4 DEF Consider, downs
  <2>2. DownsTyped' /\ Awaited'
    BY <1>0, <2>1 DEF DownsTyped, Awaited
  <2>3. \A x \in Nodes : Rests(x)
    BY <1>1, <2>1 DEF Rests
  <2>4. QED
    BY <1>2, <1>3, <2>1, <2>2, <2>3, Resting DEF Good, LastOne
<1>5. CASE Leaving(n) \/ ~Linked(n)
  <2>1. PICK ns : ns = IF Leaving(n) THEN {} ELSE {n}
    OBVIOUS
  <2>2. PICK i : i = IF Leaving(n) THEN disconnecting[n] ELSE Number(closing[n])
    OBVIOUS
  <2>3. Starts(ns, "closing") /\ Awaits(c, n, i)
    BY <1>5, <2>1, <2>2 DEF Consider
  <2>4. ns \in SUBSET Nodes
    BY <2>1
  <2>5. /\ DownsTyped'
        /\ \A x \in Nodes : /\ x \in ns => /\ disconnecting'[x] \in Disconnections
                                           /\ disconnecting'[x] = Number(closing[x])
                                           /\ closing'[x] = [closing[x] EXCEPT ![disconnecting'[x]] = "closing"]
                            /\ x \notin ns => /\ disconnecting'[x] = disconnecting[x]
                                              /\ closing'[x] = closing[x]
    BY <1>0, <2>3, <2>4, StartsIs
  <2>6. i \in Disconnections
    BY <1>0, <2>1, <2>2, <2>5 DEF DownsTyped, Leaving
  <2>7. Awaited'
    <3>1. CASE c = Nobody
      BY <1>0, <2>3, <3>1 DEF Awaits, Awaited
    <3>2. CASE c # Nobody
      <4>1. c \in Nodes \X Disconnections
        BY <1>0, <1>1, <3>2 DEF Asks
      <4>2. PICK e \in Nodes, f \in Disconnections : e = c[1] /\ f = c[2]
        BY <4>1
      <4>3. awaited' = [awaited EXCEPT ![e][f] = @ \cup {<<n, i>>}]
        BY <2>3, <3>2, <4>2 DEF Awaits
      <4>4. QED
        BY <1>0, <2>6, <4>3 DEF Awaited
    <3>3. QED
      BY <3>1, <3>2
  <2>8. ASSUME NEW x \in Nodes, Standing(x) PROVE Standing(x)'
    <3>1. CASE x \in ns
      <4>1. x = n /\ ~Leaving(n)
        BY <2>1, <3>1
      <4>2. connected[n] /\ opening[n][1] # "none"
        BY <1>1, <2>8, <4>1 DEF Standing
      <4>3. \A j \in Disconnections : closing[n][j] # "closing"
        BY <2>8, <4>1, Numbers DEF Standing, Leaving
      <4>4. \A j \in Disconnections : closing'[n][j] = "closing" => disconnecting'[n] = j
        BY <1>0, <2>5, <3>1, <4>1, <4>3 DEF DownsTyped
      <4>5. QED
        BY <1>1, <4>1, <4>2, <4>4 DEF Standing
    <3>2. CASE x \notin ns
      <4>1. Rests(x)
        BY <1>1, <2>5, <3>2 DEF Rests
      <4>2. QED
        BY <1>3, <2>8, <4>1, StillStanding
    <3>3. QED
      BY <3>1, <3>2
  <2>9. Stand
    BY <2>8 DEF Stand
  <2>10. ASSUME ConnectedOnce, AllStanding,
                NEW x \in Nodes, NEW j \in Disconnections,
                closing[x][j] # "closing", closing'[x][j] = "closing",
                NEW d \in Dependants(x)
         PROVE  ~InUse(d)
    <3>1. x \in ns
      BY <2>5, <2>10
    <3>2. ~Linked(x)
      BY <1>5, <2>1, <3>1
    <3>3. d \in Nodes /\ ~connected[d]
      BY <2>10, <3>2 DEF Linked, Dependants
    <3>4. Standing(d)
      BY <2>10, <3>3 DEF AllStanding
    <3>5. QED
      BY <3>3, <3>4 DEF Standing, InUse
  <2>11. ConnectorOK'
    BY <1>2, <2>5, <2>7, TypedParts, PTL
  <2>12. QED
    BY <1>3, <2>9, <2>10, <2>11 DEF LastOne
<1>6. QED
  BY <1>4, <1>5

(* One step, of any action. *)
LEMMA ConnectorStep ==
  ASSUME ConnectorOK, [ConnectorNext]_connectorVars
  PROVE  ConnectorOK' /\ Goes /\ Stand /\ (ConnectedOnce /\ AllStanding => LastOne)
<1>0. Good => Goes /\ Stand /\ LastOne /\ ConnectorOK'
  BY DEF Good, NoneCloses, LastOne
<1>1. CASE Boot
  BY <1>0, <1>1, BootGood
<1>2. CASE ShutDown
  BY <1>0, <1>2, ShutDownGood
<1>3. ASSUME NEW n \in Nodes, Step(n)
      PROVE  ConnectorOK' /\ Goes /\ Stand /\ (ConnectedOnce /\ AllStanding => LastOne)
  <2>1. ASSUME NEW k \in Connections, Dependable(n, k) \/ Opened(n, k) \/ OpenFailed(n, k)
        PROVE  Good
    BY <2>1, DependableGood, OpenedGood, OpenFailedGood
  <2>2. ASSUME NEW j \in Disconnections,
               Closed(n, j) \/ CloseFailed(n, j) \/ Walk(n, j) \/ Dispose(n, j) \/ WaitFailed(n, j)
        PROVE  Good
    BY <2>2, ClosedGood, CloseFailedGood, WalkGood, DisposeGood, WaitFailedGood
  <2>3. CASE \E one \in asked : one[2] = n /\ Consider(one[1], n)
    BY <2>3, ConsiderGood
  <2>4. QED
    BY <1>0, <1>3, <2>1, <2>2, <2>3 DEF Step
<1>4. ASSUME NEW pair \in Late,
             TakeOn(pair[1], pair[2]) \/ Seek(pair[1], pair[2]) \/ Hold(pair[1], pair[2])
      PROVE  Good
  <2>1. pair[1] \in Nodes /\ pair[2] \in Nodes
    BY ConnectorAssumption
  <2>2. QED
    BY <1>4, <2>1, TakeOnGood, SeekGood, HoldGood
<1>5. CASE UNCHANGED connectorVars
  <2>1. /\ opening' = opening /\ needs' = needs /\ connecting' = connecting
        /\ connected' = connected /\ closing' = closing /\ awaited' = awaited
        /\ disconnecting' = disconnecting /\ asked' = asked /\ dependencies' = dependencies
        /\ discarded' = discarded /\ sought' = sought /\ shutdown' = shutdown
    BY <1>5 DEF connectorVars, ups, downs
  <2>2. ConnectorOK'
    BY <2>1 DEF ConnectorOK
  <2>3. \A x \in Nodes : Rests(x)
    BY <2>1 DEF Rests
  <2>4. QED
    BY <2>1, <2>2, <2>3, OpeningSame, Quiet DEF LastOne
<1>6. QED
  BY <1>0, <1>1, <1>2, <1>3, <1>4, <1>5 DEF ConnectorNext

(* The types, of which nothing is connected, asked or closed at first. *)
LEMMA ConnectorInitially == ConnectorInit => ConnectorOK /\ AllStanding
<1>1. ConnectorInit => ConnectorOK
  <2>1. ConnectorInit => UpsTyped
    BY DEF ConnectorInit, UpsTyped, OpeningStages
  <2>2. ConnectorInit => DownsTyped /\ GoneTyped
    BY DEF ConnectorInit, DownsTyped, GoneTyped, DisconnectionStages
  <2>3. ConnectorInit => Awaited /\ Asks
    BY DEF ConnectorInit, Awaited, Asks
  <2>4. ConnectorInit => OthersTyped
    BY DEF ConnectorInit, OthersTyped
  <2>5. QED
    BY <2>1, <2>2, <2>3, <2>4, TypedParts
<1>2. ConnectorInit => AllStanding
  BY DEF ConnectorInit, AllStanding, Standing
<1>3. QED
  BY <1>1, <1>2

(* In every reachable state the state of the connectors has its types, in  *)
(* particular no connection and no disconnection waits for one that does   *)
(* not exist (connector.ts).                                               *)
THEOREM ConnectorTyped == ConnectorSpec => []ConnectorOK
<1>1. ConnectorInit => ConnectorOK
  BY ConnectorInitially
<1>2. ConnectorOK /\ [ConnectorNext]_connectorVars => ConnectorOK'
  BY ConnectorStep
<1>3. QED
  BY <1>1, <1>2, PTL DEF ConnectorSpec

(* For every tree, whatever is looked up, fails or sticks: as long as no   *)
(* connector is connected again, close() of one begins only once nothing   *)
(* that depends on it is in use, whichever of several dependants closes    *)
(* first and however many disconnects are under way (disconnect of         *)
(* connector.ts, which takes `connected` back after close()).              *)
THEOREM LastToLeave == ConnectorSpec /\ []ConnectedOnce => LastOut
<1>1. ConnectorInit => ConnectorOK /\ AllStanding
  BY ConnectorInitially
<1>2. ConnectorOK /\ AllStanding /\ [ConnectorNext]_connectorVars => (ConnectorOK /\ AllStanding)'
  BY ConnectorStep, StandStep
<1>3. ConnectorOK /\ AllStanding /\ ConnectedOnce /\ [ConnectorNext]_connectorVars => LastOne
  BY ConnectorStep
<1>4. QED
  BY <1>1, <1>2, <1>3, PTL DEF ConnectorSpec, LastOut, LastOne

-----------------------------------------------------------------------------
(* Both together. *)

(* The two run as each does alone: a step of the one is none of the other. *)
LEMMA EachAlone == ProcessSpec => ConnectorSpec /\ HaltSpec
<1>1. ProcessInit => ConnectorInit /\ HaltInit
  BY DEF ProcessInit
<1>2. [ProcessNext]_processVars => [ConnectorNext]_connectorVars /\ [HaltNext]_haltVars
  BY DEF ProcessNext, processVars
<1>3. QED
  BY <1>1, <1>2, PTL DEF ProcessSpec, ConnectorSpec, HaltSpec

(* The state of a process that comes up, halts and goes down keeps its     *)
(* types (connector.ts, Halt.ts, workload.js).                             *)
THEOREM ProcessTyped == ProcessSpec => []ProcessOK
BY EachAlone, ConnectorTyped, HaltTyped, PTL DEF ProcessOK
==============================================================================
