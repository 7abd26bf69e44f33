--------------------------- MODULE MCSplitterTuner ---------------------------
EXTENDS SplitterTuner, TLC

CONSTANTS cA1, cA2, cB1

\* Two channels of one tuner and one of another, whose number is that of the
\* first; two of them select a service.
BonNoOfThree == cA1 :> 0 @@ cA2 :> 0 @@ cB1 :> 1
TargetOfThree == cA1 :> 1 @@ cA2 :> 2 @@ cB1 :> 1
ServiceOfThree == cA1 :> 101 @@ cA2 :> None @@ cB1 :> 201
=============================================================================
