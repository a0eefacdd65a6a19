----------------------------- MODULE MCGdbCapture -----------------------------
EXTENDS GdbCapture

\* 100 seconds for a hundred iterations, a little more than the stall time, or more than
\* the 300 seconds after which a churn below the gate is given up.
MCBeatTimes == {5, 7, 16}

\* Every hundred iterations take 100 seconds: no heartbeat is late.
MCNominalBeat == {5}
=============================================================================
