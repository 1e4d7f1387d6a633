----------------------------- MODULE Deliveries -----------------------------
(***************************************************************************)
(* How a process stops serving: the consumers of connectors/bindings.amqp  *)
(* (Producer, Receiver, Consumer, Communication, stopping), the loop       *)
(* binding they stand beside, and the count of core/source/deliveries.ts.  *)
(*                                                                         *)
(* A delivery that runs here may wait for a call to a component of this    *)
(* very process.  While the loop serves the component the call is handed   *)
(* to it; once it does not, the call is put on the queue of the component, *)
(* which this process may have stopped consuming.                          *)
(***************************************************************************)
EXTENDS Naturals, FiniteSets

CONSTANTS Comps,       \* the components this process serves
          Receiving,   \* the ones of them that have receivers
          Elsewhere,   \* the ones another process serves as well
          Operations,
          Served,      \* Served[c]: the operations of c this process serves
          Theirs,      \* Theirs[c]: the operations of c the other process serves
          RESENDS,     \* how many times a call is sent again
          TRIES,       \* bound: how many times the broker brings a message back
          Messages,    \* bound: messages are 1 .. Messages
          Rounds       \* bound: how many times the process is taken down and built again

Ids == 1 .. Messages

ASSUME DeliveriesAssumption ==
         /\ Comps # {}
         /\ Operations # {}
         /\ Receiving \subseteq Comps
         /\ Elsewhere \subseteq Comps
         /\ Served \in [Comps -> SUBSET Operations]
         /\ Theirs \in [Comps -> SUBSET Operations]
         /\ {RESENDS, TRIES, Messages, Rounds} \subseteq Nat

VARIABLES
  message,    \* message[m]: what m is, where it is, and how many times it was sent again
  consumer,   \* consumer[c]: how far the consumers of c are in closing
  comm,       \* comm[c]: the communication of c, which its producer and receivers share
  stopping,   \* whether `stopping` is aborted
  round,      \* how many times the process has been built again
  late        \* history: whether a delivery was taken after the teardown saw none

deliveryVars == <<message, consumer, comm, stopping, round, late>>

Unsent == [at |-> "unsent", kind |-> "request", to |-> CHOOSE c \in Comps : TRUE,
           op |-> CHOOSE o \in Operations : TRUE, from |-> 0, again |-> 0]

\* A message nobody has a use for any more.
Spent == [Unsent EXCEPT !.at = "over"]

Serving == [phase |-> "serving", step |-> "none"]

Here == {m \in Ids : message[m].at = "here"}

\* What is handled in this process, by a delivery or by the loop.
Inside == {m \in Ids : message[m].at \in {"here", "loop"}}

\* Where a call made in handling m has not been answered.
Outstanding(m) ==
  {n \in Ids : message[n].from = m /\ message[n].at \in {"queued", "here", "loop", "there", "unserved"}}

Handled(m) == message[m].at \in {"here", "loop", "there"} /\ Outstanding(m) = {}

\* A consumer of this process takes from the queues of c.
Consumes(c) == consumer[c].phase \notin {"closed", "opening"} /\ comm[c] # "sealed"

\* The loop producer of c is gone as soon as the producers of c begin to close.
Looped(c) == consumer[c].phase \in {"serving", "receiver"}

\* The teardown has seen a process that handles nothing.
Seen == \E c \in Comps : /\ consumer[c].phase \in {"receiver", "producer", "closed"}
                         /\ consumer[c].step # "settling"

Tearing == \E c \in Comps : consumer[c].phase \in {"receiver", "producer"}

AllClosed == \A c \in Comps : consumer[c].phase = "closed"

\* The first message that was not sent.
Next1(m) == message[m].at = "unsent" /\ \A n \in 1 .. m - 1 : message[n].at # "unsent"

-----------------------------------------------------------------------------
\* Mutant: a consumer waits for nothing but its own deliveries.
AwaitNothing(phase, n) == [phase |-> phase, step |-> "settled"]

\* deliveries.settled: resolved at once where nothing is handled.
Await(phase, n) == [phase |-> phase, step |-> IF n = 0 THEN "settled" ELSE "settling"]

\* deliveries.done: the last delivery resolves everyone who waits.
Done(m) ==
  consumer' = IF Here = {m} THEN [c \in Comps |-> IF consumer[c].step = "settling"
                                                    THEN [consumer[c] EXCEPT !.step = "settled"]
                                                    ELSE consumer[c]]
                            ELSE consumer

\* A message is sent to c by somebody outside this process.
Arrives(m, c, kind, op) ==
  /\ Next1(m)
  /\ kind = "event" => c \in Receiving /\ op = Unsent.op
  /\ message' = [message EXCEPT ![m] = [at |-> "queued", kind |-> kind, to |-> c, op |-> op,
                                        from |-> 0, again |-> 0]]
  /\ UNCHANGED <<consumer, comm, stopping, round, late>>

\* What a process that takes m and serves these operations makes of it.
Taken(m, operations, where) ==
  IF message[m].kind = "event" \/ message[m].op \in operations THEN where
  ELSE IF message[m].kind = "task" THEN "parked" ELSE "unserved"

\* A consumer of this process is handed a message; what is invoked is counted in.
Take(m) ==
  LET at == Taken(m, Served[message[m].to], "here")
  IN  /\ message[m].at = "queued"
      /\ Consumes(message[m].to)
      /\ message' = [message EXCEPT ![m].at = at]
      /\ late' = (late \/ (at = "here" /\ Seen))
      /\ UNCHANGED <<consumer, comm, stopping, round>>

\* The other process takes it.
TakeThere(m) ==
  /\ message[m].at = "queued"
  /\ message[m].to \in Elsewhere
  /\ message' = [message EXCEPT ![m].at = Taken(m, Theirs[message[m].to], "there")]
  /\ UNCHANGED <<consumer, comm, stopping, round, late>>

\* In handling m another component is called: Transmission asks the loop first.
Calls(m, n, c, op) ==
  /\ Handled(m)
  /\ Next1(n)
  /\ message' = [message EXCEPT ![n] =
                   [at |-> IF m \in Inside /\ Looped(c) /\ op \in Served[c] THEN "loop" ELSE "queued",
                    kind |-> "request", to |-> c, op |-> op, from |-> m, again |-> 0]]
  /\ UNCHANGED <<consumer, comm, stopping, round, late>>

\* A handler ends.  A request is answered whatever it ends with; a task or an event is
\* acknowledged, parked where the exception is permanent, or brought back.
Ends(m, at) ==
  /\ Handled(m)
  /\ message[m].kind = "request" => at = "over"
  /\ at = "queued" => message[m].again < TRIES
  /\ message' = [message EXCEPT ![m] = CASE at = "over"   -> Spent
                                         [] at = "parked" -> [@ EXCEPT !.at = at]
                                         [] at = "queued" -> [@ EXCEPT !.at = at, !.again = message[m].again + 1]]
  /\ IF message[m].at = "here" THEN Done(m) ELSE UNCHANGED consumer
  /\ UNCHANGED <<comm, stopping, round, late>>

\* Whether the one that made call n is to stop.
Aborted(n) == message[n].from \in Inside /\ stopping

\* Mutant: a call is sent again as often as it is not served.
SendAgainAlways(n) ==
  /\ message[n].at = "unserved"
  /\ message' = [message EXCEPT ![n] = IF Aborted(n) THEN Spent
                                       ELSE [@ EXCEPT !.at = "queued", !.again = message[n].again + 1]]
  /\ UNCHANGED <<consumer, comm, stopping, round, late>>

\* Consumer.#ordinary: an unserved call is sent again after a pause, or its caller is told.
SendAgain(n) ==
  /\ message[n].at = "unserved"
  /\ message' = [message EXCEPT ![n] = IF Aborted(n) \/ @.again >= RESENDS
                                         THEN Spent
                                         ELSE [@ EXCEPT !.at = "queued", !.again = message[n].again + 1]]
  /\ UNCHANGED <<consumer, comm, stopping, round, late>>

-----------------------------------------------------------------------------
\* The composition is disconnected.  The producers of a component wait for its receivers
\* to close; a producer that closes says that the process stops, and a receiver does not.
Teardown ==
  /\ \A c \in Comps : consumer[c] = Serving
  /\ consumer' = [c \in Comps |-> Await(IF c \in Receiving THEN "receiver" ELSE "producer",
                                        Cardinality(Here))]
  /\ stopping' = (stopping \/ Receiving # Comps)
  /\ UNCHANGED <<message, comm, round, late>>

\* Communication.seal is called; until the broker confirms, a message may still be handed over.
Seals(c) ==
  /\ consumer[c].step = "settled"
  /\ consumer' = [consumer EXCEPT ![c].step = "sealing"]
  /\ comm' = [comm EXCEPT ![c] = IF @ = "sealed" THEN @ ELSE "sealing"]
  /\ UNCHANGED <<message, stopping, round, late>>

\* It has: every consumer of the communication has stopped.
Sealed(c) ==
  /\ consumer[c].step = "sealing"
  /\ consumer' = [consumer EXCEPT ![c].step = "sealed"]
  /\ comm' = [comm EXCEPT ![c] = "sealed"]
  /\ UNCHANGED <<message, stopping, round, late>>

\* What the consumers that close have in hand.
Pending(c) ==
  {m \in Here : /\ message[m].to = c
                /\ message[m].kind = "event" <=> consumer[c].phase = "receiver"}

\* What they had in hand is done with.  After the receivers the producers of c close.
Drains(c) ==
  /\ consumer[c].step = "sealed"
  /\ Pending(c) = {}
  /\ \/ /\ consumer[c].phase = "receiver"
        /\ consumer' = [consumer EXCEPT ![c] = Await("producer", Cardinality(Here))]
        /\ stopping' = TRUE
     \/ /\ consumer[c].phase = "producer"
        /\ consumer' = [consumer EXCEPT ![c] = [phase |-> "closed", step |-> "none"]]
        /\ UNCHANGED stopping
  /\ UNCHANGED <<message, comm, round, late>>

\* A halt that is called off builds what it took down again.
Rebuild ==
  /\ AllClosed
  /\ round < Rounds
  /\ round' = round + 1
  /\ consumer' = [c \in Comps |-> [phase |-> "opening", step |-> "none"]]
  /\ late' = FALSE
  /\ UNCHANGED <<message, comm, stopping>>

\* Mutant: the communication of before is handed out again.
ReopensSealed(c) ==
  /\ consumer[c].phase = "opening"
  /\ consumer' = [consumer EXCEPT ![c] = Serving]
  /\ stopping' = FALSE
  /\ UNCHANGED <<message, comm, round, late>>

\* Producer.open over a communication of its own: a sealed one is never handed out.
Reopens(c) ==
  /\ consumer[c].phase = "opening"
  /\ consumer' = [consumer EXCEPT ![c] = Serving]
  /\ comm' = [comm EXCEPT ![c] = "open"]
  /\ stopping' = FALSE
  /\ UNCHANGED <<message, round, late>>

DeliveriesInit ==
  /\ message = [m \in Ids |-> Unsent]
  /\ consumer = [c \in Comps |-> Serving]
  /\ comm = [c \in Comps |-> "open"]
  /\ stopping = FALSE
  /\ round = 0
  /\ late = FALSE

Handles(m) == \E at \in {"over", "parked", "queued"} : Ends(m, at)

CloseStep(c) == Seals(c) \/ Sealed(c) \/ Drains(c)

DeliveriesNext ==
  \/ \E m \in Ids, c \in Comps, op \in Operations :
       \/ \E kind \in {"request", "task", "event"} : Arrives(m, c, kind, op)
       \/ \E n \in Ids : Calls(n, m, c, op)
  \/ \E m \in Ids : Take(m) \/ TakeThere(m) \/ Handles(m) \/ SendAgain(m)
  \/ \E c \in Comps : CloseStep(c) \/ Reopens(c)
  \/ Teardown
  \/ Rebuild

DeliveriesSpec == DeliveriesInit /\ [][DeliveriesNext]_deliveryVars

\* What this process consumes is handed to it, handlers end, pauses pass, and so does every
\* step of a teardown.  Nothing says that another process takes anything.
DeliveriesFairness ==
  /\ \A m \in Ids : /\ WF_deliveryVars(Handles(m))
                    /\ WF_deliveryVars(Take(m) \/ SendAgain(m))
  /\ \A c \in Comps : WF_deliveryVars(CloseStep(c) \/ Reopens(c))

DeliveriesFairSpec == DeliveriesSpec /\ DeliveriesFairness

-----------------------------------------------------------------------------
\* The types of the state: producer.js, communication.js, deliveries.ts.
DeliveriesOK ==
  /\ message \in [Ids -> [at : {"unsent", "queued", "here", "loop", "there", "unserved", "parked", "over"},
                          kind : {"request", "task", "event"}, to : Comps, op : Operations,
                          from : {0} \cup Ids, again : 0 .. RESENDS + TRIES]]
  /\ consumer \in [Comps -> [phase : {"serving", "receiver", "producer", "closed", "opening"},
                             step : {"none", "settling", "settled", "sealing", "sealed"}]]
  /\ comm \in [Comps -> {"open", "sealing", "sealed"}]
  /\ stopping \in BOOLEAN
  /\ round \in 0 .. Rounds
  /\ late \in BOOLEAN

\* A component does not stop taking calls under a delivery of its own process that waits for
\* one: while no delivery was taken after the count was seen at zero, no call made in this
\* process is left on a queue this process has stopped consuming (Producer.close).
NotWaitingOnSealed ==
  ~late => \A m \in Inside : \A n \in Outstanding(m) :
             message[n].at = "queued" => \/ Consumes(message[n].to)
                                           \/ consumer[message[n].to].phase = "opening"

\* A teardown ends: every consumer closes, whatever its deliveries call and however often
\* the calls are sent again, unless a delivery was taken after the count was seen at zero.
TeardownEnds == Tearing ~> (AllClosed \/ late)

\* What is queued for a component is taken up once it serves again (Producer.open).
TakenUp == \A m \in Ids : message[m].at = "queued" ~> (message[m].at # "queued" \/ Tearing \/ AllClosed)
==============================================================================
