---------------------------- MODULE MCTransition ----------------------------
(***************************************************************************)
(* An instance of Transition: `charge` is a transition, `terminate` the    *)
(* assignment that removes, `undelete` a transition over a tombstone that  *)
(* names the version it is to find.                                        *)
(***************************************************************************)
EXTENDS Transition

Versions == [c \in Calls |-> IF c = "undelete" THEN 2 ELSE Unconditional]

\* A call of an operation declared `once` arrives again.
Twice == [c \in Calls |-> IF c \in Once THEN 2 ELSE 1]
=============================================================================
