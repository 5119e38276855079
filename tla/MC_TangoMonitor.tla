-------------------------- MODULE MC_TangoMonitor ---------------------------
EXTENDS TangoMonitor

CONSTANTS t1, t2, t3, m1, m2

(* Three threads, so that a woken thread and a late arrival compete while a *)
(* third sleeps; two monitors, so that two threads can wait in a circle.    *)
MCThreads == {t1, t2, t3}
MCMonitors == {m1, m2}

=============================================================================
