---------------------------- MODULE MCDeliveries -----------------------------
(* A release under way, as the processes of a component are replaced one by one.  *)
EXTENDS Deliveries

\* This process is of the release before, and the other of the one that adds an operation.
Before == [c \in Comps |-> {"read"}]
After == [c \in Comps |-> {"read", "add"}]

==============================================================================
