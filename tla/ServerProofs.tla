---------------------------- MODULE ServerProofs ----------------------------
(***************************************************************************)
(* Nothing of the background outlives the wait of Run: the pool of a round *)
(* is gone before the round is over, and once all loops have ended none of *)
(* them, and no round, begins again.                                       *)
(***************************************************************************)
EXTENDS Server, TLAPS

\* RunOnce waits for its goroutines: between two rounds there are none.
NoPoolOutside == round \in {"off", "select", "stopped"} => pool = {}

\* Run is behind its wait.
Behind == main \in {"shutdown", "returned"}

Inv == NoPoolOutside /\ (Behind => TasksEnded)

LEMMA InvImplies == Inv => BackgroundIsOver
  BY DEF Inv, NoPoolOutside, Behind, TasksEnded, Ended, BackgroundIsOver

LEMMA InvInit == Init => Inv
<1> SUFFICES ASSUME Init PROVE Inv
  OBVIOUS
<1>1. pool = {}
  BY DEF Init, SchedulerInit
<1>2. main = "select"
  BY DEF Init
<1> QED
  BY <1>1, <1>2 DEF Inv, NoPoolOutside, Behind

\* What Inv is about, where a step does not touch it.
Same == UNCHANGED <<main, round, pool, ai, worker, dispatcher>>

LEMMA SameKeepsInv == Inv /\ Same => Inv'
  BY DEF Inv, NoPoolOutside, Behind, TasksEnded, Ended, Same

\* A round has its pool while it feeds and waits; when it ends the pool is gone.
LEMMA SchedulerKeepsInv == Inv /\ SchedulerStep => Inv'
<1> SUFFICES ASSUME Inv, SchedulerStep PROVE Inv'
  OBVIOUS
<1>1. UNCHANGED <<main, ai, worker, dispatcher>>
  BY DEF SchedulerStep, loops
<1>2. CASE StartRound
  <2>1. round = "select" /\ round' = "feed"
    BY <1>2 DEF StartRound
  <2> QED
    BY <1>1, <2>1 DEF Inv, NoPoolOutside, Behind, TasksEnded, Ended
<1>3. CASE CloseJobs
  <2>1. round = "feed" /\ round' = "wait"
    BY <1>3 DEF CloseJobs
  <2> QED
    BY <1>1, <2>1 DEF Inv, NoPoolOutside, Behind, TasksEnded, Ended
<1>4. CASE EndRound
  <2>1. round = "wait" /\ pool = {} /\ pool' = pool
    BY <1>4 DEF EndRound, Returns
  <2> QED
    BY <1>1, <2>1 DEF Inv, NoPoolOutside, Behind, TasksEnded, Ended
<1>5. CASE StopScheduler
  <2>1. round = "select" /\ round' = "stopped" /\ pool' = pool
    BY <1>5 DEF StopScheduler
  <2> QED
    BY <1>1, <2>1 DEF Inv, NoPoolOutside, Behind, TasksEnded, Ended
<1>6. ASSUME NEW g \in Goroutines, Feed(g) PROVE Inv'
  <2>1. UNCHANGED <<round, pool>>
    BY <1>6 DEF Feed
  <2> QED
    BY <1>1, <2>1, SameKeepsInv DEF Same
<1>7. ASSUME NEW g \in Goroutines, Goroutine(g) PROVE Inv'
  <2>1. round' = round /\ pool' \subseteq pool
    BY <1>7 DEF Goroutine, Collected, NotCollected, EndGoroutine
  <2> QED
    BY <1>1, <2>1 DEF Inv, NoPoolOutside, Behind, TasksEnded, Ended
<1>8. ASSUME NEW s \in SourceIds, Settle(s) PROVE Inv'
  <2>1. UNCHANGED <<round, pool>>
    BY <1>8 DEF Settle, poolVars
  <2> QED
    BY <1>1, <2>1, SameKeepsInv DEF Same
<1>9. ASSUME NEW s \in Pausable, ToggleActive(s) PROVE Inv'
  <2>1. UNCHANGED <<round, pool>>
    BY <1>9 DEF ToggleActive, poolVars
  <2> QED
    BY <1>1, <2>1, SameKeepsInv DEF Same
<1> QED
  BY <1>2, <1>3, <1>4, <1>5, <1>6, <1>7, <1>8, <1>9
     DEF SchedulerStep, SchedulerNext

\* A loop that takes a step has not ended, so that Run still waits.
LEMMA LoopsKeepInv ==
  ASSUME Inv,
         \/ Claim \/ Summarize \/ AiSelect
         \/ Dispatch \/ DispatcherSelect
         \/ Read \/ HandleMessage \/ Commit
  PROVE  Inv'
<1>1. UNCHANGED <<main, round, pool>>
  BY DEF Claim, Summarize, AiSelect, Dispatch, DispatcherSelect, Read,
         HandleMessage, Commit, schedulerVars, poolVars
<1>2. ~TasksEnded
  BY DEF Claim, Summarize, AiSelect, Dispatch, DispatcherSelect, Read,
         HandleMessage, Commit, TasksEnded, Ended
<1> QED
  BY <1>1, <1>2 DEF Inv, NoPoolOutside, Behind

LEMMA MainKeepsInv == Inv /\ Main => Inv'
<1> SUFFICES ASSUME Inv, Main PROVE Inv'
  OBVIOUS
<1>1. UNCHANGED <<round, pool, ai, worker, dispatcher>>
  BY DEF Main, Stop, CloseWriter, Shutdown, Continue, poolVars, loops
<1>2. NoPoolOutside'
  BY <1>1 DEF Inv, NoPoolOutside
<1>3. Behind' => TasksEnded
  BY DEF Main, Stop, CloseWriter, Shutdown, Continue, Inv, Behind
<1>4. Behind' => TasksEnded'
  BY <1>1, <1>3 DEF TasksEnded, Ended
<1> QED
  BY <1>2, <1>4 DEF Inv

LEMMA StepKeepsInv == Inv /\ [Next]_vars => Inv'
<1> SUFFICES ASSUME Inv, [Next]_vars PROVE Inv'
  OBVIOUS
<1>1. CASE Background
  BY <1>1, SchedulerKeepsInv, LoopsKeepInv DEF Background
<1>2. CASE ListenFails
  <2>1. Same
    BY <1>2 DEF ListenFails, Same, schedulerVars, poolVars, loops
  <2> QED
    BY <2>1, SameKeepsInv
<1>3. CASE Main
  BY <1>3, MainKeepsInv
<1>4. CASE UNCHANGED vars
  <2>1. Same
    BY <1>4 DEF vars, Same, schedulerVars, poolVars, loops
  <2> QED
    BY <2>1, SameKeepsInv
<1> QED
  BY <1>1, <1>2, <1>3, <1>4 DEF Next

\* Nothing of the background is at work once Run goes on to close the writer,
\* for every mode, batch size and number of goroutines.
THEOREM BackgroundIsOverHolds == Spec => []BackgroundIsOver
<1>1. Init => Inv
  BY InvInit
<1>2. Inv /\ [Next]_vars => Inv'
  BY StepKeepsInv
<1>3. Inv => BackgroundIsOver
  BY InvImplies
<1> QED
  BY <1>1, <1>2, <1>3, PTL DEF Spec
=============================================================================
