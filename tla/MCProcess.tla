------------------------------ MODULE MCProcess ------------------------------
(* How a process comes up and goes down: its connectors, and the halt of a        *)
(* deployment.  They share no state, so which of them takes its steps is chosen   *)
(* at the start and the other stands still.                                      *)
EXTENDS Connector, Halt

CONSTANTS root, a, b, shared, remote,   \* connectors
          p1, p2, h1                    \* processes, and a halt

\* A workload over two components that share a connection, and a remote one of them
\* looks up, over the same connection.
Tree == {<<root, a>>, <<root, b>>, <<a, shared>>, <<b, shared>>, <<remote, shared>>}
Lookup == {<<a, remote>>}

VARIABLE part   \* the part that takes its steps

processVars == <<part, connectorVars, haltVars>>

ProcessInit ==
  /\ part \in {"connector", "halt"}
  /\ ConnectorInit
  /\ HaltInit

ProcessNext ==
  /\ \/ part = "connector" /\ ConnectorNext /\ UNCHANGED haltVars
     \/ part = "halt" /\ HaltNext /\ UNCHANGED connectorVars
  /\ UNCHANGED part

\* The fairness of both, ConnectorFairness and HaltFairness, a step of each at a time: as
\* one part runs from the start on, weak fairness of a step of the one or a step of the
\* other is weak fairness of the one that runs.
moving == IF part = "halt" THEN haltVars ELSE connectorVars

Either(connector, halts) ==
  /\ \/ part = "connector" /\ connector
     \/ part = "halt" /\ halts
  /\ UNCHANGED part

ProcessFairness ==
  /\ WF_moving(Either(Settling(root), Walking(p1)))
  /\ WF_moving(Either(Settling(a), Walking(p2)))
  /\ WF_moving(Either(Settling(b), Deciding(p1) \/ Give(p1)))
  /\ WF_moving(Either(Settling(shared), Deciding(p2) \/ Give(p2)))
  /\ WF_moving(Either(Settling(remote), Cycling(p1)))
  /\ WF_moving(Either(Hold(a, remote), Cycling(p2)))
  /\ WF_moving(Either(FALSE, leaving[p1] /\ Exit(p1)))
  /\ WF_moving(Either(FALSE, leaving[p2] /\ Exit(p2)))

\* The types of the state of both.
ProcessOK == ConnectorOK /\ HaltOK

ProcessSpec == ProcessInit /\ [][ProcessNext]_processVars /\ ProcessFairness
==============================================================================
