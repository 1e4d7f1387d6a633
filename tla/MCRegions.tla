----------------------------- MODULE MCRegions ------------------------------
(***************************************************************************)
(* What becomes of a write: its records reach the other regions, and its   *)
(* events the readers of their keys.  The two share no state, so which of  *)
(* them takes its steps is chosen at the start and the other stands still. *)
(***************************************************************************)
EXTENDS MCConvergence, Realtime

CONSTANTS g1, c1, c2   \* a gateway, and clients of it

VARIABLE part   \* the part that takes its steps

regionsVars == <<part, vars, realtimeVars>>

RegionsInit == part \in {"records", "events"} /\ Init /\ RealtimeInit

RegionsNext ==
  /\ \/ part = "records" /\ Next /\ UNCHANGED realtimeVars
     \/ part = "events" /\ RealtimeNext /\ UNCHANGED vars
  /\ UNCHANGED part

\* The fairness of FairSpec of Convergence and of RealtimeFairness, a step of each at a
\* time: as one part runs from the start on, weak fairness of a step of the one or a step
\* of the other is weak fairness of the one that runs.
moving == IF part = "records" THEN vars ELSE realtimeVars

Either(records, events) ==
  /\ \/ part = "records" /\ records
     \/ part = "events" /\ events
  /\ UNCHANGED part

RegionsFairness ==
  /\ WF_moving(Either(\E m \in rows[0] : Send(0, m, TRUE), Opening(c1)))
  /\ WF_moving(Either(\E m \in rows[1] : Send(1, m, TRUE), Opening(c2)))
  /\ WF_moving(Either(Deliver(0), Carrying(g1)))
  /\ WF_moving(Either(Deliver(1), FALSE))

RegionsSpec == RegionsInit /\ [][RegionsNext]_regionsVars /\ RegionsFairness
=============================================================================
