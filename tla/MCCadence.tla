------------------------------ MODULE MCCadence ------------------------------
(* Small instances of Cadence: ids are numbers, so that what each row allows can *)
(* be given as a sequence.                                                      *)
EXTENDS Cadence, TLC

CONSTANTS p1, p2, h1, h2, l1, l2

OneOff == {}
Owned == {{}, Lanes}
Steady == {Lanes}
Split == {{}, {l1}, {l2}, Lanes}
Bounded == [i \in Ids |-> 1]
Unbounded == [i \in Ids |-> Absent]
Ends == [i \in Ids |-> Horizon]
Alike == Permutations(Replicas)
Daily == 1 .. Horizon
==============================================================================
