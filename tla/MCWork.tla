------------------------------- MODULE MCWork --------------------------------
(* What a process does with the work it is given: the deliveries it takes and     *)
(* hands back, the migrations its storage applies first, and a run that is made    *)
(* again until it ends.  They share no state, so which of them takes its steps is  *)
(* chosen at the start and the others stand still.                                *)
EXTENDS MCDeliveries, Migrations, Journal

CONSTANTS orders, stock,   \* components
          r1, r2           \* replicas

\* What a run asks: the time, a call made with it, and one made with what that answered.
Onboard == << [kind |-> "value", member |-> "now", uses |-> 0],
              [kind |-> "step", member |-> "issue", uses |-> 1],
              [kind |-> "step", member |-> "mail", uses |-> 2] >>

\* The order of ids is none of the order they were written in.
KeyOrder == [k \in Keys |-> [mail |-> 0, issue |-> 9, now |-> 18][k[1]] + 3 * k[2] + k[3]]

VARIABLE part   \* the part that takes its steps

workVars == <<part, deliveryVars, migrationVars, journalVars>>

WorkInit ==
  /\ part \in {"deliveries", "migrations", "journal"}
  /\ DeliveriesInit
  /\ MigrationsInit
  /\ JournalInit

WorkNext ==
  /\ \/ part = "deliveries" /\ DeliveriesNext /\ UNCHANGED <<migrationVars, journalVars>>
     \/ part = "migrations" /\ MigrationsNext /\ UNCHANGED <<deliveryVars, journalVars>>
     \/ part = "journal" /\ JournalNext /\ UNCHANGED <<deliveryVars, migrationVars>>
  /\ UNCHANGED part

\* The fairness of the two that have one, DeliveriesFairness and MigrationsFairness, a step
\* of each at a time: as one part runs from the start on, weak fairness of a step of the
\* one or a step of the other is weak fairness of the one that runs.
moving == IF part = "migrations" THEN migrationVars ELSE deliveryVars

Either(deliveries, migrations) ==
  /\ \/ part = "deliveries" /\ deliveries
     \/ part = "migrations" /\ migrations
  /\ UNCHANGED part

WorkFairness ==
  /\ WF_moving(Either(Handles(1), Applies(r1)))
  /\ WF_moving(Either(Handles(2), Applies(r2)))
  /\ WF_moving(Either(Take(1) \/ SendAgain(1), Tick))
  /\ WF_moving(Either(Take(2) \/ SendAgain(2), FALSE))
  /\ WF_moving(Either(CloseStep(orders) \/ Reopens(orders), FALSE))
  /\ WF_moving(Either(CloseStep(stock) \/ Reopens(stock), FALSE))

\* The types of the state of all three.
WorkOK == DeliveriesOK /\ MigrationsOK /\ JournalOK

WorkSpec == WorkInit /\ [][WorkNext]_workVars /\ WorkFairness
==============================================================================
