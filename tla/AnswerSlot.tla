----------------------------- MODULE AnswerSlot -----------------------------
(***************************************************************************)
(* The slot cur_value_ of a servicer and its lock (store/kvstore.h): the   *)
(* application waits in next_value() for the answer that the servicer puts *)
(* there in handle_reply().  NodeThreads says when the servicer has one.   *)
(***************************************************************************)
EXTENDS Monitor, Naturals, Sequences

CONSTANTS
  App, Servicer,   \* the two threads
  Questions        \* bound: how many questions the application asks

VARIABLES
  pc,         \* thread |-> where it is
  asked,      \* how many Gets were sent
  replied,    \* how many Replies the servicer has taken up
  cur_value,  \* the number of the answer in the slot, or Nobody
  taken       \* what next_value() has returned, oldest first

slotVars == <<asked, replied, cur_value, taken>>
vars == <<monitorVars, pc, slotVars>>

Init ==
  /\ MonitorInit
  /\ pc = [t \in {App, Servicer} |-> "out"]
  /\ asked = 0
  /\ replied = 0
  /\ cur_value = Nobody
  /\ taken = <<>>

GoTo(t, label) == pc' = [pc EXCEPT ![t] = label]

-----------------------------------------------------------------------------
\* The application: send a Get, then next_value().

Ask ==
  /\ pc[App] = "out"
  /\ asked < Questions
  /\ asked' = asked + 1
  /\ GoTo(App, "lock")
  /\ UNCHANGED <<monitorVars, replied, cur_value, taken>>

NextLock ==
  /\ pc[App] = "lock"
  /\ Lock(App)
  /\ GoTo(App, "test")
  /\ UNCHANGED slotVars

\* while (cur_value_ == nullptr) wait();
NextWait ==
  /\ pc[App] = "test"
  /\ cur_value = Nobody
  /\ Wait(App)
  /\ GoTo(App, "wait")
  /\ UNCHANGED slotVars

\* Mutation: the slot is not tested again after wait().
NextWakesToTake ==
  /\ pc[App] = "wait"
  /\ Lock(App)
  /\ GoTo(App, "take")
  /\ UNCHANGED slotVars

NextWakes ==
  /\ pc[App] = "wait"
  /\ Lock(App)
  /\ GoTo(App, "test")
  /\ UNCHANGED slotVars

NextFound ==
  /\ pc[App] = "test"
  /\ cur_value # Nobody
  /\ GoTo(App, "take")
  /\ UNCHANGED <<monitorVars, slotVars>>

Take ==
  /\ pc[App] = "take"
  /\ taken' = Append(taken, cur_value)
  /\ cur_value' = Nobody
  /\ GoTo(App, "unlock")
  /\ UNCHANGED <<monitorVars, asked, replied>>

-----------------------------------------------------------------------------
\* The servicer: handle_reply().

ReplyLock ==
  /\ pc[Servicer] = "out"
  /\ Lock(Servicer)
  /\ GoTo(Servicer, "fill")
  /\ UNCHANGED slotVars

\* Mutation: the waiting application is not notified.
FillInSilence ==
  /\ pc[Servicer] = "fill"
  /\ replied' = replied + 1
  /\ cur_value' = replied + 1
  /\ GoTo(Servicer, "unlock")
  /\ UNCHANGED <<monitorVars, asked, taken>>

Fill ==
  /\ pc[Servicer] = "fill"
  /\ replied' = replied + 1
  /\ cur_value' = replied + 1
  /\ NotifyAll(Servicer)
  /\ GoTo(Servicer, "unlock")
  /\ UNCHANGED <<asked, taken>>

Leave(t) ==
  /\ pc[t] = "unlock"
  /\ Unlock(t)
  /\ GoTo(t, "out")
  /\ UNCHANGED slotVars

SpuriousWakeUp == WakeUp(App) /\ UNCHANGED <<pc, slotVars>>

-----------------------------------------------------------------------------
NextValue == NextLock \/ NextWait \/ NextWakes \/ NextFound \/ Take \/ Leave(App)
Filling == Fill \/ Leave(Servicer)

-----------------------------------------------------------------------------
\* next_value() never returns nullptr and gives each question its own answer.
AnswersInOrder ==
  /\ \A i \in 1 .. Len(taken) : taken[i] = i
  /\ Len(taken) = asked \/ (Len(taken) + 1 = asked /\ pc[App] \notin {"out", "unlock"})

\* Every next_value() returns: neither the answer nor the wake-up is lost when the
\* Reply is handled before, while or after the application goes to sleep.
EveryQuestionReturns == \A k \in 1 .. Questions : (asked >= k) ~> (Len(taken) >= k)

=============================================================================
