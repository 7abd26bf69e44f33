--------------------------- MODULE MCDriverSharing ---------------------------
(* Constants of DriverSharing for model checking. *)
EXTENDS DriverSharing, TLC
CONSTANTS i1, i2, i3, nA, nB, mA, mB

PrioMixed   == (i1 :> 255) @@ (i2 :> 255) @@ (i3 :> 100)
PrioAllTop  == [i \in Instances |-> 255]
OneModule   == [n \in Names |-> mA]
TwoModules  == (nA :> mA) @@ (nB :> mB)

\* Driver objects and readers are interchangeable.
DriverReaderSymmetry == Permutations(Drivers) \cup Permutations(Readers)
=============================================================================
