-------------------------- MODULE MCDriverPriority --------------------------
(* Constants of DriverPriority for model checking. *)
EXTENDS DriverPriority, TLC
CONSTANTS i1, i2, i3, i4, nA, mA
PrioAllTop == [i \in Instances |-> 255]
OneModule  == [n \in Names |-> mA]
=============================================================================
