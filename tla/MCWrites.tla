------------------------------ MODULE MCWrites -------------------------------
(***************************************************************************)
(* A write, and what becomes of the row that was committed with it: the    *)
(* handlers of one record, and the outbox of a component.  Here they share *)
(* no state, so which of them takes its steps is chosen at the start and   *)
(* the other stands still.                                                 *)
(***************************************************************************)
EXTENDS MCTransition, MCOutbox

CONSTANTS h1, h2,   \* handlers
          p         \* a replica

VARIABLE part   \* the part that takes its steps

writesVars == <<part, transitionVars, vars>>

WritesInit == part \in {"record", "outbox"} /\ TransitionInit /\ Init

WritesNext ==
  /\ \/ part = "record" /\ TransitionNext /\ UNCHANGED vars
     \/ part = "outbox" /\ Next /\ UNCHANGED transitionVars
  /\ UNCHANGED part

\* TransitionFairness, and Fairness of Outbox for its one replica and row: as one part
\* runs from the start on, weak fairness of a step of the one or a step of the other is
\* weak fairness of the one that runs.
moving == IF part = "record" THEN transitionVars ELSE vars

Either(writes, publishes) ==
  /\ \/ part = "record" /\ writes
     \/ part = "outbox" /\ publishes
  /\ UNCHANGED part

WritesFairness ==
  /\ WF_moving(Either(Step(h1), Tick(p)))
  /\ WF_moving(Either(Step(h2), Exhausted(p)))
  /\ WF_moving(Either(FALSE, Recover(p)))
  /\ WF_moving(Either(FALSE, Awaited(p)))
  /\ WF_moving(Either(FALSE, \E i \in Rows : Elapse(i)))
  /\ SF_moving(Either(FALSE, Read(p)))
  /\ SF_moving(Either(FALSE, \E g \in Groups(cycle[p].marks) : Settle(p, g)))
  /\ SF_moving(Either(FALSE, \E i \in Rows, d \in Reliable : Land(p, i, d)))
  /\ SF_moving(Either(FALSE, \E i \in Rows, d \in Reliable : Confirm(p, i, d)))

WritesSpec == WritesInit /\ [][WritesNext]_writesVars /\ WritesFairness
==============================================================================
