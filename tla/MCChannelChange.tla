--------------------------- MODULE MCChannelChange ---------------------------
(* Constants of ChannelChange for model checking. *)
EXTENDS ChannelChange, TLC
CONSTANTS c1, c2
ThreeAndOne == (c1 :> 3) @@ (c2 :> 1)

\* No guard and no property but TypeOK looks at m_bWaitCNR.
ButWaitCNR == <<serverVars, request, down, process, hand, result, m_fifoTS, m_fSignalLevel,
                m_bTuner, app, calls, epoch>>
=============================================================================
