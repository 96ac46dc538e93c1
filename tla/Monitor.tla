------------------------------ MODULE Monitor ------------------------------
(***************************************************************************)
(* The class Lock of utils/thread.h: a mutex and a condition variable.     *)
(* The modules of the objects that are guarded by one extend this module.  *)
(***************************************************************************)

CONSTANTS
  Threads,  \* the threads that use the object
  Nobody    \* no thread, and no value

VARIABLES
  owner,    \* the thread that holds the mutex, or Nobody
  asleep    \* the threads blocked in wait() that were not woken up

monitorVars == <<owner, asleep>>

MonitorInit == owner = Nobody /\ asleep = {}

\* lock(), and the way out of wait(), which takes the mutex again.
Lock(t) ==
  /\ owner = Nobody
  /\ t \notin asleep
  /\ owner' = t
  /\ UNCHANGED asleep

Unlock(t) ==
  /\ owner = t
  /\ owner' = Nobody
  /\ UNCHANGED asleep

Wait(t) ==
  /\ owner = t
  /\ owner' = Nobody
  /\ asleep' = asleep \cup {t}

NotifyAll(t) ==
  /\ owner = t
  /\ asleep' = {}
  /\ UNCHANGED owner

\* A condition variable may wake up a thread that nobody notified.
WakeUp(t) ==
  /\ t \in asleep
  /\ asleep' = asleep \ {t}
  /\ UNCHANGED owner

=============================================================================
