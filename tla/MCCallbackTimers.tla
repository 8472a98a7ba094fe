-------------------------- MODULE MCCallbackTimers --------------------------
\* Two callback timers that share a short event queue with other processes.
EXTENDS CallbackTimers

CONSTANTS t1, t2
MCTimers == {t1, t2}
MCIntervals == {0, 1, 3}
=============================================================================
