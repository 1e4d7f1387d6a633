-------------------------------- MODULE Halt --------------------------------
(***************************************************************************)
(* The halt of a deployment: extensions/introspection/source/Halt.ts, which*)
(* hears signals and decides, and runtime/boot/src/workload.js, which takes*)
(* the process quiet, takes it down and builds it again, walking the tree  *)
(* of connectors (halt and restore of connector.ts, gate.ts).              *)
(*                                                                         *)
(* Everything between two awaits of a process is one action.  Timers go off*)
(* at any time after they are set: the window, the grace and the time a    *)
(* process stays down are not counted.  The one bound on them the model    *)
(* keeps is that a call a process made has ended when it is built again    *)
(* (CHECK_TIMEOUT is less than the least DURATION).  A decision that is    *)
(* taken up late in a teardown that outran its window, after which the     *)
(* process is built again at once, is left out by it.  So is a signal      *)
(* heard at boot, before the workload is connected.                        *)
(***************************************************************************)
EXTENDS Naturals, FiniteSets

CONSTANTS Procs,       \* the processes of the deployment
          Halts,       \* the halts posted to it
          Depth,       \* parts of a process on a path from its root, the source first
          Mortal,      \* the processes that may shut down or exit
          Again,       \* the processes the broker delivers a signal again to, once each
          None

ASSUME HaltAssumption ==
         /\ Depth \in Nat \ {0}
         /\ Mortal \subseteq Procs
         /\ Again \subseteq Procs
         /\ None \notin Halts

Parts == 1 .. Depth

Signals == {"halt", "stop"} \X Halts

\* A walk along a path of the tree: what it is for, and the part the pause() or
\* unpause() of which it waits for.
Walks == [for : {"quiesce", "cycle", "cancel"}, at : Parts]

VARIABLES
  posted,     \* the halts written
  stops,      \* the halts a stop has been written for
  landing,    \* the halts a stop may still be written for, by a call given up on
  queue,      \* queue[p]: the signals to be delivered to p
  redelivered, \* the processes that have had a delivery again
  pending,    \* pending[p]: the halt p is quiesced for, or None
  timer,      \* timer[p]: what the timer of Halt does when it goes off
  deciding,   \* deciding[p]: the halt decide() is about, and what it awaits
  quiesced,   \* quiesced[p]: `#quiesced`
  halting,    \* halting[p]: `#halting`
  cycle,      \* cycle[p]: where the cycles of p are, a set of stages
  stopped,    \* stopped[p]: the parts of p that are halted
  walks,      \* walks[p]: the walks under way
  leaving,    \* leaving[p]: whether p is told to shut down
  gone,       \* gone[p]: whether p has exited
  obeyed,     \* obeyed[p]: the halt p last went down for
  stray       \* history: the processes that obeyed a stop while they were being built
              \* again and had a decision of their own under way

signalling == <<posted, stops, landing, queue, redelivered>>
halt == <<pending, timer, deciding>>
workload == <<quiesced, halting, cycle, stopped, walks>>
haltVars == <<signalling, halt, workload, leaving, gone, obeyed, stray>>

Idle == [halt |-> None, awaits |-> "none"]

Stages == {"queued", "walking", "draining", "down", "building"}

\* The subscription to signals is behind the gate that goes down last and up first.
Listening(p) == ~gone[p] /\ "down" \notin cycle[p]

-----------------------------------------------------------------------------
(* Signals *)

\* A record is written, and its event is published to the queue of every process
\* that is there to hear it.
Published(s) == queue' = [p \in Procs |-> IF Listening(p) THEN queue[p] \cup {s} ELSE queue[p]]

Post(h) ==
  /\ h \notin posted
  /\ posted' = posted \cup {h}
  /\ Published(<<"halt", h>>)
  /\ UNCHANGED <<stops, landing, redelivered, halt, workload, leaving, gone, obeyed, stray>>

\* A delivery is settled when its handler returns; one that is not settled in time
\* comes again.
Delivered(p, s) ==
  /\ s \in queue[p]
  /\ Listening(p)
  /\ \/ /\ queue' = [queue EXCEPT ![p] = @ \ {s}]
        /\ UNCHANGED redelivered
     \/ /\ p \in Again \ redelivered
        /\ redelivered' = redelivered \cup {p}
        /\ UNCHANGED queue

\* halt() of connector.ts, for a quiesce or a cycle: from the source down.  The parts
\* from the one given on that a walk has yet to pause: one that is halted is passed,
\* without waiting for the pause() another walk has begun.
Unhalted(p, from) == (from .. Depth) \ stopped[p]

First(parts) == CHOOSE k \in parts : \A other \in parts : k <= other
Last(parts) == CHOOSE k \in parts : \A other \in parts : k >= other

\* The walk goes on from the part given, `others` being the other walks.
Pause(p, for, from, others) ==
  LET next == First(Unhalted(p, from))
  IN  IF Unhalted(p, from) = {}
        THEN /\ walks' = [walks EXCEPT ![p] = others]
             /\ UNCHANGED stopped
        ELSE /\ walks' = [walks EXCEPT ![p] = others \cup {[for |-> for, at |-> next]}]
             /\ stopped' = [stopped EXCEPT ![p] = @ \cup {next}]

\* Once a quiesce is over the window begins.
Window(p, from) == timer' = [timer EXCEPT ![p] = IF Unhalted(p, from) = {} THEN "decide" ELSE @]

\* quiesce() of the workload, which returns at once where there is nothing to do;
\* the decision is owed whatever it did.
Quiesce(p) ==
  IF halting[p] \/ quiesced[p] \/ leaving[p]
    THEN /\ timer' = [timer EXCEPT ![p] = "decide"]
         /\ UNCHANGED <<quiesced, stopped, walks>>
    ELSE /\ quiesced' = [quiesced EXCEPT ![p] = TRUE]
         /\ Pause(p, "quiesce", 1, walks[p])
         /\ Window(p, 1)

\* begin: one at a time, a process quiesced for a halt is deaf to another.
Begin(p, h) ==
  /\ Delivered(p, <<"halt", h>>)
  /\ IF pending[p] # None
       THEN UNCHANGED <<pending, timer, quiesced, stopped, walks>>
       ELSE /\ pending' = [pending EXCEPT ![p] = h]
            /\ Quiesce(p)
  /\ UNCHANGED <<posted, stops, landing, deciding, halting, cycle, leaving, gone, obeyed, stray>>

\* Mutant: stop() does not see that a cycle is under way.
StopAgain(p) ==
  IF leaving[p]
    THEN UNCHANGED <<halting, cycle>>
    ELSE /\ halting' = [halting EXCEPT ![p] = TRUE]
         /\ cycle' = [cycle EXCEPT ![p] = @ \cup {"queued"}]

\* stop() of the workload: the cycle begins on the next tick.
Stop(p) ==
  IF halting[p] \/ leaving[p]
    THEN UNCHANGED <<halting, cycle>>
    ELSE /\ halting' = [halting EXCEPT ![p] = TRUE]
         /\ cycle' = [cycle EXCEPT ![p] = @ \cup {"queued"}]

\* down: the timer is disarmed, nothing is pending, and the workload is stopped.
Down(p, h) ==
  /\ timer' = [timer EXCEPT ![p] = "none"]
  /\ pending' = [pending EXCEPT ![p] = None]
  /\ obeyed' = [obeyed EXCEPT ![p] = IF halting[p] \/ leaving[p] THEN @ ELSE h]
  /\ Stop(p)

\* obey: a stop counts only while this process is quiesced for the halt it answers.
Obey(p, h) ==
  /\ Delivered(p, <<"stop", h>>)
  /\ IF pending[p] = h
       THEN Down(p, h)
       ELSE UNCHANGED <<pending, timer, halting, cycle, obeyed>>
  /\ stray' = IF pending[p] = h /\ "building" \in cycle[p] /\ deciding[p] # Idle
                THEN stray \cup {p}
                ELSE stray
  /\ UNCHANGED <<posted, stops, landing, deciding, quiesced, stopped, walks, leaving, gone>>

-----------------------------------------------------------------------------
(* The decision *)

\* decide: the window is over, and the map is read.
Decide(p) ==
  /\ ~gone[p]
  /\ timer[p] = "decide"
  /\ deciding[p] = Idle
  /\ timer' = [timer EXCEPT ![p] = "none"]
  /\ deciding' = [deciding EXCEPT ![p] = IF pending[p] = None THEN Idle
                                         ELSE [halt |-> pending[p], awaits |-> "map"]]
  /\ UNCHANGED <<signalling, pending, workload, leaving, gone, obeyed, stray>>

Decided(p) == deciding' = [deciding EXCEPT ![p] = Idle]

\* It waits for someone else's conclusion.  The timer of a process that is down is
\* one of an instance that is gone.
Waits(p) == timer' = [timer EXCEPT ![p] = IF Listening(p) THEN "give" ELSE @]

\* The map says that something was called, or nothing that can be read.
Busy(p) ==
  /\ ~gone[p]
  /\ deciding[p].awaits = "map"
  /\ Decided(p)
  /\ IF pending[p] = deciding[p].halt THEN Waits(p) ELSE UNCHANGED timer
  /\ UNCHANGED <<signalling, pending, workload, leaving, gone, obeyed, stray>>

\* The map says that nothing was called since: the stop is written, unless another
\* one landed meanwhile.
Still(p) ==
  /\ ~gone[p]
  /\ deciding[p].awaits = "map"
  /\ deciding' = [deciding EXCEPT ![p] = IF pending[p] # deciding[p].halt THEN Idle
                                         ELSE [@ EXCEPT !.awaits = "write"]]
  /\ UNCHANGED <<signalling, pending, timer, workload, leaving, gone, obeyed, stray>>

\* The stop is a record, and reaches every process as the halt did.
Written(h) ==
  /\ stops' = stops \cup {h}
  /\ Published(<<"stop", h>>)

Write(p) ==
  /\ ~gone[p]
  /\ deciding[p].awaits = "write"
  /\ Written(deciding[p].halt)
  /\ deciding' = [deciding EXCEPT ![p].awaits = "reply"]
  /\ UNCHANGED <<posted, landing, redelivered, pending, timer, workload, leaving, gone, obeyed, stray>>

\* The write is acknowledged, and the process goes down.
Called(p) ==
  /\ ~gone[p]
  /\ deciding[p].awaits = "reply"
  /\ Down(p, deciding[p].halt)
  /\ Decided(p)
  /\ UNCHANGED <<signalling, quiesced, stopped, walks, leaving, gone, stray>>

\* Mutant: what is not answered in time is taken for written.
UnansweredIsDone(p) ==
  /\ ~gone[p]
  /\ deciding[p].awaits \in {"write", "reply"}
  /\ landing' = landing
  /\ Down(p, deciding[p].halt)
  /\ Decided(p)
  /\ UNCHANGED <<posted, stops, queue, redelivered, quiesced, stopped, walks, leaving, gone, stray>>

\* It is refused, or not answered in time: written before, never, or yet to be.
Unanswered(p) ==
  /\ ~gone[p]
  /\ deciding[p].awaits \in {"write", "reply"}
  /\ \/ UNCHANGED landing
     \/ deciding[p].awaits = "write" /\ landing' = landing \cup {deciding[p].halt}
  /\ Waits(p)
  /\ Decided(p)
  /\ UNCHANGED <<posted, stops, queue, redelivered, pending, workload, leaving, gone, obeyed, stray>>

\* A stop nobody waits for an answer to is written after all.
Lands(h) ==
  /\ h \in landing
  /\ landing' = landing \ {h}
  /\ Written(h)
  /\ UNCHANGED <<posted, redelivered, halt, workload, leaving, gone, obeyed, stray>>

\* Mutant: restoring passes a part without starting it again.
UnpauseNothing(p, from, others) ==
  LET next == Last((1 .. from) \cap stopped[p])
  IN  /\ UNCHANGED stopped
      /\ walks' = [walks EXCEPT ![p] = IF (1 .. from) \cap stopped[p] = {} THEN others
                                       ELSE others \cup {[for |-> "cancel", at |-> next]}]

\* restore() of connector.ts, from what is fed up to the source: the next part that
\* is halted, from the one given up, is started.
Unpause(p, from, others) ==
  LET left == (1 .. from) \cap stopped[p]
  IN  IF left = {}
        THEN /\ walks' = [walks EXCEPT ![p] = others]
             /\ UNCHANGED stopped
        ELSE /\ walks' = [walks EXCEPT ![p] = others \cup {[for |-> "cancel", at |-> Last(left)]}]
             /\ stopped' = [stopped EXCEPT ![p] = @ \ {Last(left)}]

\* Mutant: leaving a halt forgets the workload.
GiveOnly(p) ==
  /\ ~gone[p]
  /\ timer[p] = "give"
  /\ timer' = [timer EXCEPT ![p] = "none"]
  /\ pending' = [pending EXCEPT ![p] = None]
  /\ UNCHANGED <<signalling, deciding, workload, leaving, gone, obeyed, stray>>

\* give: no stop came.  cancel() of the workload undoes the quiesce, unless the
\* process is going down.
Give(p) ==
  /\ ~gone[p]
  /\ timer[p] = "give"
  /\ timer' = [timer EXCEPT ![p] = "none"]
  /\ pending' = [pending EXCEPT ![p] = None]
  /\ IF pending[p] = None \/ halting[p] \/ ~quiesced[p]
       THEN UNCHANGED <<quiesced, stopped, walks>>
       ELSE /\ quiesced' = [quiesced EXCEPT ![p] = FALSE]
            /\ Unpause(p, Depth, walks[p])
  /\ UNCHANGED <<signalling, deciding, halting, cycle, leaving, gone, obeyed, stray>>

-----------------------------------------------------------------------------
(* Walking the tree *)

\* pause() ended, well or not, and the walk of a quiesce goes on.
Paused(p, walk) ==
  /\ walk.for = "quiesce"
  /\ Pause(p, "quiesce", walk.at + 1, walks[p] \ {walk})
  /\ Window(p, walk.at + 1)
  /\ UNCHANGED <<signalling, pending, deciding, quiesced, halting, cycle, leaving, gone, obeyed, stray>>

\* unpause() ended, and the walk of a cancel goes on.
Unpaused(p, walk) ==
  /\ walk.for = "cancel"
  /\ Unpause(p, walk.at - 1, walks[p] \ {walk})
  /\ UNCHANGED <<signalling, halt, quiesced, halting, cycle, leaving, gone, obeyed, stray>>

-----------------------------------------------------------------------------
(* Down and up again: #cycle and #resume *)

At(p, stage) == ~gone[p] /\ stage \in cycle[p]

Enters(p, stage, next) == cycle' = [cycle EXCEPT ![p] = (@ \ {stage}) \cup next]

\* Quiet first, then down: once nothing is left to pause, the gate of what the command
\* runs begins to disconnect.
Quietens(p, stage, from, others) ==
  /\ Pause(p, "cycle", from, others)
  /\ Enters(p, stage, IF Unhalted(p, from) = {} THEN {"draining"} ELSE {"walking"})

Cycle(p) ==
  /\ At(p, "queued")
  /\ quiesced' = [quiesced EXCEPT ![p] = TRUE]
  /\ Quietens(p, "queued", 1, walks[p])
  /\ UNCHANGED <<signalling, halt, halting, leaving, gone, obeyed, stray>>

\* pause() ended, and the walk of a cycle goes on.
CyclePaused(p, walk) ==
  /\ walk.for = "cycle"
  /\ Quietens(p, "walking", walk.at + 1, walks[p] \ {walk})
  /\ UNCHANGED <<signalling, halt, quiesced, halting, leaving, gone, obeyed, stray>>

\* It has, and the gate of Halt follows: close() disarms it, and what is left to be
\* heard goes with its queue.  A walk that is not over goes on in a tree that is gone.
Drained(p) ==
  /\ At(p, "draining")
  /\ Enters(p, "draining", {"down"})
  /\ timer' = [timer EXCEPT ![p] = "none"]
  /\ pending' = [pending EXCEPT ![p] = None]
  /\ queue' = [queue EXCEPT ![p] = {}]
  /\ walks' = [walks EXCEPT ![p] = {}]
  /\ stray' = stray \ {p}
  /\ UNCHANGED <<posted, stops, landing, redelivered, deciding, quiesced, halting, stopped, leaving,
                 gone, obeyed>>

\* The time is up: the gates are built again, the one of Halt first.
Resume(p) ==
  /\ At(p, "down")
  /\ deciding[p] = Idle
  /\ Enters(p, "down", {"building"})
  /\ stopped' = [stopped EXCEPT ![p] = {}]
  /\ UNCHANGED <<signalling, halt, quiesced, halting, walks, leaving, gone, obeyed, stray>>

\* They are up, nothing in them is halted, and the process works again.
Resumed(p) ==
  /\ At(p, "building")
  /\ Enters(p, "building", {})
  /\ quiesced' = [quiesced EXCEPT ![p] = FALSE]
  /\ halting' = [halting EXCEPT ![p] = FALSE]
  /\ UNCHANGED <<signalling, halt, stopped, walks, leaving, gone, obeyed, stray>>

\* A shutdown begins: the timer that would bring the process back is cleared, if it
\* is set.
Shutdown(p) ==
  /\ ~gone[p]
  /\ ~leaving[p]
  /\ leaving' = [leaving EXCEPT ![p] = TRUE]
  /\ Enters(p, "down", {})
  /\ UNCHANGED <<signalling, halt, quiesced, halting, stopped, walks, gone, obeyed, stray>>

\* The process exits: the shutdown is over, building it again failed, or it crashed.
\* What it was writing may still be written.
Exit(p) ==
  /\ ~gone[p]
  /\ gone' = [gone EXCEPT ![p] = TRUE]
  /\ landing' = landing \cup {h \in Halts : deciding[p] = [halt |-> h, awaits |-> "write"]}
  /\ queue' = [queue EXCEPT ![p] = {}]
  /\ pending' = [pending EXCEPT ![p] = None]
  /\ timer' = [timer EXCEPT ![p] = "none"]
  /\ deciding' = [deciding EXCEPT ![p] = Idle]
  /\ quiesced' = [quiesced EXCEPT ![p] = FALSE]
  /\ halting' = [halting EXCEPT ![p] = FALSE]
  /\ cycle' = [cycle EXCEPT ![p] = {}]
  /\ stopped' = [stopped EXCEPT ![p] = {}]
  /\ walks' = [walks EXCEPT ![p] = {}]
  /\ UNCHANGED <<posted, stops, redelivered, leaving, obeyed, stray>>

-----------------------------------------------------------------------------
HaltInit ==
  /\ posted = {}
  /\ stops = {}
  /\ landing = {}
  /\ queue = [p \in Procs |-> {}]
  /\ redelivered = {}
  /\ pending = [p \in Procs |-> None]
  /\ timer = [p \in Procs |-> "none"]
  /\ deciding = [p \in Procs |-> Idle]
  /\ quiesced = [p \in Procs |-> FALSE]
  /\ halting = [p \in Procs |-> FALSE]
  /\ cycle = [p \in Procs |-> {}]
  /\ stopped = [p \in Procs |-> {}]
  /\ walks = [p \in Procs |-> {}]
  /\ leaving = [p \in Procs |-> FALSE]
  /\ gone = [p \in Procs |-> FALSE]
  /\ obeyed = [p \in Procs |-> None]
  /\ stray = {}

Hears(p) == \E h \in Halts : Begin(p, h) \/ Obey(p, h)

Walking(p) == \E walk \in walks[p] : \/ Paused(p, walk)
                                     \/ Unpaused(p, walk)
                                     \/ CyclePaused(p, walk)

Deciding(p) == \/ Decide(p)
               \/ Busy(p)
               \/ Still(p)
               \/ Write(p)
               \/ Called(p)
               \/ Unanswered(p)

Cycling(p) == Cycle(p) \/ Drained(p) \/ Resume(p) \/ Resumed(p)

HaltNext ==
  \/ \E h \in Halts : Post(h) \/ Lands(h)
  \/ \E p \in Procs : \/ Hears(p)
                      \/ Walking(p)
                      \/ Deciding(p)
                      \/ Give(p)
                      \/ Cycling(p)
  \/ \E p \in Mortal : Shutdown(p) \/ Exit(p)

HaltSpec == HaltInit /\ [][HaltNext]_haltVars

\* Timers go off, calls are answered or given up on, pause() and unpause() end, and
\* so does a teardown.  Nothing says that a signal is delivered or a stop written.
HaltFairness ==
  \A p \in Procs : /\ WF_haltVars(Walking(p))
                   /\ WF_haltVars(Deciding(p) \/ Give(p))
                   /\ WF_haltVars(Cycling(p))
                   /\ WF_haltVars(leaving[p] /\ Exit(p))

HaltFairSpec == HaltSpec /\ HaltFairness

-----------------------------------------------------------------------------
(* What is checked *)

\* The types of the state: Halt.ts, workload.js.
HaltOK ==
  /\ posted \subseteq Halts
  /\ stops \subseteq Halts
  /\ landing \subseteq Halts
  /\ queue \in [Procs -> SUBSET Signals]
  /\ redelivered \subseteq Again
  /\ pending \in [Procs -> Halts \cup {None}]
  /\ timer \in [Procs -> {"none", "decide", "give"}]
  /\ deciding \in [Procs -> [halt : Halts \cup {None}, awaits : {"none", "map", "write", "reply"}]]
  /\ quiesced \in [Procs -> BOOLEAN]
  /\ halting \in [Procs -> BOOLEAN]
  /\ cycle \in [Procs -> SUBSET Stages]
  /\ stopped \in [Procs -> SUBSET Parts]
  /\ walks \in [Procs -> SUBSET Walks]
  /\ leaving \in [Procs -> BOOLEAN]
  /\ gone \in [Procs -> BOOLEAN]
  /\ obeyed \in [Procs -> Halts \cup {None}]
  /\ stray \subseteq Procs

\* No process goes down alone: one that goes down, or is down, does so for a halt
\* the stop of which is written, so that every other one can hear it (decide and race:
\* a write that is not acknowledged is not taken for one).
NotAlone == \A p \in Procs : cycle[p] # {} => obeyed[p] \in stops

\* A process goes down and comes up once for however many stops it hears, its own
\* included: there is one cycle at a time, and it works again only when that is over
\* (stop() of workload.js, and down() called by decide after obey).
OneCycle == \A p \in Procs : /\ Cardinality(cycle[p]) <= 1
                             /\ cycle[p] # {} => halting[p]

\* A process that works, and no walk over it, with something in it paused.
LeftPaused(p) ==
  ~leaving[p] /\ ~quiesced[p] /\ ~halting[p] /\ walks[p] = {} /\ stopped[p] # {}

\* Nothing is left paused in a process that works: not by a halt that was called off,
\* however the walks that pause and start its parts interleave, nor by one that was
\* carried out (cancel, #resume, halt and restore of connector.ts).  That leaves out a
\* process that obeyed a stop while it was being built again, under a decision of its
\* own: the timer that one sets is of no halt, and may go off in the next.
NothingLeftPaused == \A p \in Procs \ stray : ~LeftPaused(p)

\* workload.js says that cancel undoes a quiesce: nothing is ever left paused.
CancelUndoes == \A p \in Procs : ~LeftPaused(p)

\* A process that went quiet works again, or has exited: a halt ends by itself,
\* whatever became of its stop, of the map and of the other processes.
ComesBack == \A p \in Procs : quiesced[p] ~> ~quiesced[p]
=============================================================================
