---------------------------- MODULE MCTsSplitter ----------------------------
EXTENDS TsSplitter, TLC

\* Services 1 and 2 share a transport stream, service 3 is in another whose PMT
\* has the PID of service 1 and is split over three packets.
TransportOfThree == 1 :> 101 @@ 2 :> 101 @@ 3 :> 102
PmtPidOfThree == 1 :> 11 @@ 2 :> 12 @@ 3 :> 11
EsOfThree == 1 :> (0 :> {21} @@ 1 :> {22}) @@ 2 :> (0 :> {23}) @@ 3 :> (0 :> {24})
PartsOfThree == 1 :> (0 :> 1 @@ 1 :> 1) @@ 2 :> (0 :> 1) @@ 3 :> (0 :> 3)
EmmOfTwo == 101 :> 31 @@ 102 :> 32
=============================================================================
