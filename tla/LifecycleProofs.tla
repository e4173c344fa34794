--------------------------- MODULE LifecycleProofs ---------------------------
(***************************************************************************)
(* Proofs about Lifecycle, for every set of peers and of quits.            *)
(*                                                                         *)
(* The argument: as long as no quit has reached the slot of a task, the    *)
(* handle that start-up stored is still in it (HandleKept); so a quit      *)
(* without a rival finds each handle and, when no deadline passes, goes    *)
(* past it only when the task has ended (PastIsGone); a task that has      *)
(* ended has no work left (GoneIsIdle) and is not spawned again, because   *)
(* start-up is over (BegunInTime).  What may still reach the cleared       *)
(* registry are the dials that nothing waits for, and these are on record  *)
(* from the clear on (AdriftKept).                                         *)
(***************************************************************************)
EXTENDS Lifecycle, TLAPS

\* A quit that is not in hasty began after start-up.
BegunInTime ==
    \A q \in Quits : quit[q] # "unused" /\ q \notin hasty => boot = "done"

Stored(t) ==
    CASE t = "watcher" -> boot # "watcher"
      [] t = "server"  -> boot \in {"beat", "ready", "done"}
      [] t = "beat"    -> boot \in {"ready", "done"}

\* Where a quit is before it takes the handle of t, and after it has waited for t.
ToLeave == {"unused", "passed", "marked", "leave", "leaving"}

Before(t) ==
    CASE t = "watcher" -> ToLeave \cup {"beat", "beating", "watch"}
      [] t = "server"  -> ToLeave \cup {"beat", "beating", "watch", "watching", "tx", "task"}
      [] t = "beat"    -> ToLeave \cup {"beat"}

After(t) ==
    CASE t = "watcher" -> {"tx", "task", "serving", "clear", "last", "returned"}
      [] t = "server"  -> {"clear", "last", "returned"}
      [] t = "beat"    -> {"watch", "watching", "tx", "task", "serving", "clear",
                           "last", "returned"}

HandleKept ==
    \A t \in Tasks :
        Stored(t) /\ boot # "failed" /\ (\A q \in Quits : quit[q] \in Before(t)) => t \in held

PastIsGone ==
    \A q \in Quits, t \in Tasks : Orderly(q) /\ quit[q] \in After(t) => run[t] = "gone"

GoneIsIdle == \A t \in Tasks : run[t] = "gone" => Idle(t)

\* Once a registry was cleared, every dial that nothing waits for is on record.
AdriftKept == \A q \in Quits : Past(q) => loose \cup stubs \subseteq adrift

\* The peers a leave is owed to are known until they are sent one.
OwedKnown ==
    \A q \in Quits : Solo(q) =>
        /\ quit[q] \in {"marked", "leave"} => owed \subseteq peers
        /\ quit[q] \notin {"unused", "passed", "marked", "leave"} => owed = {}

PhaseFits ==
    /\ (\A q \in Quits : quit[q] = "unused") =>
         phase = CASE boot = "done" -> "Running" [] boot = "failed" -> "Dead" [] OTHER -> "Booting"
    /\ \A q \in Quits : Orderly(q) /\ quit[q] # "unused" =>
         phase = CASE quit[q] = "passed" -> "Running" [] quit[q] = "returned" -> "Dead"
                   [] OTHER -> "Shutting"

StopInv == BegunInTime /\ HandleKept /\ PastIsGone /\ GoneIsIdle /\ AdriftKept

-----------------------------------------------------------------------------
(* Type correctness. *)

LEMMA TypeInit == Init => TypeOK
<1> SUFFICES ASSUME Init PROVE TypeOK
  OBVIOUS
<1> USE DEF Init
<1>1. run \in [Tasks -> {"off", "on", "gone"}]
  OBVIOUS
<1>2. quit \in [Quits -> Steps]
  BY DEF Steps
<1>3. phase \in Phases /\ boot \in Boots /\ events \in 0..MaxEvents
  BY MaxEventsIsNat DEF Phases, Boots
<1>4. QED
  BY <1>1, <1>2, <1>3 DEF TypeOK

LEMMA TypeExit == Exit => TypeOK'
BY MaxEventsIsNat DEF Exit, TypeOK, Phases, Boots, Steps, Waiting, Tasks

LEMMA TypeBoot == TypeOK /\ Boot => TypeOK'
<1> SUFFICES ASSUME TypeOK, Boot PROVE TypeOK'
  OBVIOUS
<1> USE DEF TypeOK, tasks, work, flights, ghost, Phases, Boots, Tasks
<1>1. CASE BootWatcher
  BY <1>1 DEF BootWatcher
<1>2. CASE BootBind
  BY <1>2 DEF BootBind
<1>3. CASE BootTx
  BY <1>3 DEF BootTx
<1>4. CASE BootServe
  BY <1>4 DEF BootServe
<1>5. CASE BootBeat
  BY <1>5 DEF BootBeat
<1>6. CASE BootReady
  BY <1>6 DEF BootReady
<1>7. CASE BootExit
  BY <1>7, TypeExit DEF BootExit
<1>8. QED
  BY <1>1, <1>2, <1>3, <1>4, <1>5, <1>6, <1>7 DEF Boot

LEMMA BegunType == TypeOK /\ Begun => events' \in 0..MaxEvents
BY MaxEventsIsNat DEF TypeOK, Begun

LEMMA TypeQuit ==
  ASSUME TypeOK, NEW q \in Quits, QuitCheck(q) \/ QuitStep(q)
  PROVE  TypeOK'
<1> USE DEF TypeOK, tasks, work, flights, ghost, GoTo, Phases, Steps, Waiting, Tasks
<1>1. CASE QuitCheck(q)
  BY <1>1, BegunType DEF QuitCheck
<1>2. CASE QuitMark(q)
  BY <1>2 DEF QuitMark
<1>3. CASE QuitCancel(q)
  BY <1>3 DEF QuitCancel
<1>4. CASE QuitLeave(q)
  BY <1>4 DEF QuitLeave
<1>5. CASE QuitLeft(q)
  BY <1>5 DEF QuitLeft
<1>6. CASE TakeBeat(q)
  BY <1>6 DEF TakeBeat, Take
<1>7. CASE TakeWatcher(q)
  BY <1>7 DEF TakeWatcher, Take
<1>8. CASE QuitSignal(q)
  BY <1>8 DEF QuitSignal
<1>9. CASE TakeServer(q)
  BY <1>9 DEF TakeServer, Take
<1>10. CASE QuitJoined(q)
  BY <1>10 DEF QuitJoined, Joined
<1>11. CASE QuitLate(q)
  BY <1>11 DEF QuitLate
<1>12. CASE QuitClear(q)
  BY <1>12 DEF QuitClear
<1>13. CASE QuitDead(q)
  BY <1>13 DEF QuitDead
<1>14. QED
  BY <1>1, <1>2, <1>3, <1>4, <1>5, <1>6, <1>7, <1>8, <1>9, <1>10, <1>11, <1>12, <1>13 DEF QuitStep

LEMMA TypeWork ==
  ASSUME TypeOK,
         (\E t \in Tasks : TaskEnds(t)) \/ (\E p \in Peers : PeerStep(p)) \/ Tick
  PROVE  TypeOK'
<1> USE DEF TypeOK, tasks, work, flights, ghost, Tasks
<1>1. ASSUME NEW t \in Tasks, TaskEnds(t) PROVE TypeOK'
  BY <1>1 DEF TaskEnds
<1>2. ASSUME NEW p \in Peers, PeerStep(p) PROVE TypeOK'
  <2>1. CASE HandshakeArrives(p) \/ HandshakeHandled(p)
    BY <2>1, BegunType DEF HandshakeArrives, HandshakeHandled
  <2>2. CASE LeaveHandled(p) \/ Reject(p)
    BY <2>2 DEF LeaveHandled, Reject, Forget
  <2>3. CASE AnnounceHandled(p) \/ JoinGroup(p)
    BY <2>3, BegunType DEF AnnounceHandled, JoinGroup, Drift
  <2>4. CASE PingReported(p) \/ DialFailed(p) \/ DialReported(p) \/ StubReported(p)
    BY <2>4 DEF PingReported, DialEnds, DialFailed, DialReported, StubReported, Drift
  <2>5. QED
    BY <1>2, <2>1, <2>2, <2>3, <2>4 DEF PeerStep
<1>3. CASE Tick
  BY <1>3, BegunType DEF Tick
<1>4. QED
  BY <1>1, <1>2, <1>3

LEMMA TypeStep == TypeOK /\ [Next]_vars => TypeOK'
<1> SUFFICES ASSUME TypeOK, [Next]_vars PROVE TypeOK'
  OBVIOUS
<1>1. CASE UNCHANGED vars
  BY <1>1 DEF vars, TypeOK, tasks, work, flights, ghost
<1>2. CASE Next
  BY <1>2, TypeBoot, TypeQuit, TypeExit, TypeWork DEF Next, Step, TrayQuit
<1>3. QED
  BY <1>1, <1>2

\* Every variable keeps its type in every run of the program.
THEOREM TypeCorrect == Spec => []TypeOK
BY TypeInit, TypeStep, PTL DEF Spec

-----------------------------------------------------------------------------
(* How a quit moves. *)

Quitting(q) == QuitCheck(q) \/ QuitStep(q)
Work == (\E t \in Tasks : TaskEnds(t)) \/ (\E p \in Peers : PeerStep(p)) \/ Tick

\* A step of a quit moves that quit only, and forwards.
LEMMA QuitForward ==
  ASSUME TypeOK, NEW q \in Quits, Quitting(q)
  PROVE  /\ \A r \in Quits \ {q} : quit'[r] = quit[r]
         /\ quit'[q] # "unused"
         /\ hasty \subseteq hasty'
         /\ \A t \in Tasks : quit'[q] \in Before(t) => quit[q] \in Before(t)
         /\ UNCHANGED <<boot, run, flights, ended>>
<1> USE DEF TypeOK, tasks, work, flights, ghost, GoTo, Tasks, Before, ToLeave
<1>1. CASE QuitCheck(q) \/ QuitMark(q) \/ QuitCancel(q)
  BY <1>1 DEF QuitCheck, QuitMark, QuitCancel
<1>2. CASE QuitLeave(q) \/ QuitLeft(q)
  BY <1>2 DEF QuitLeave, QuitLeft
<1>3. CASE TakeBeat(q)
  BY <1>3 DEF TakeBeat, Take
<1>4. CASE TakeWatcher(q)
  BY <1>4 DEF TakeWatcher, Take
<1>5. CASE TakeServer(q)
  BY <1>5 DEF TakeServer, Take
<1>6. CASE QuitSignal(q)
  BY <1>6 DEF QuitSignal
<1>7. CASE QuitJoined(q)
  BY <1>7 DEF QuitJoined, Joined
<1>8. CASE QuitLate(q)
  BY <1>8 DEF QuitLate, Waiting
<1>9. CASE QuitClear(q) \/ QuitDead(q)
  BY <1>9 DEF QuitClear, QuitDead
<1>10. QED
  BY <1>1, <1>2, <1>3, <1>4, <1>5, <1>6, <1>7, <1>8, <1>9 DEF Quitting, QuitStep

\* A quit gets past a task because the task has ended, because a deadline
\* passed, or because it found no handle.
LEMMA QuitPasses ==
  ASSUME TypeOK, NEW q \in Quits, Quitting(q), NEW t \in Tasks,
         quit'[q] \in After(t), quit[q] \notin After(t)
  PROVE  \/ run[t] = "gone"
         \/ q \in hasty'
         \/ t \notin held /\ quit[q] \in Before(t) /\ quit[q] # "unused"
<1> USE DEF TypeOK, GoTo, Tasks, Before, After, ToLeave
<1>1. CASE QuitCheck(q) \/ QuitMark(q) \/ QuitCancel(q)
  BY <1>1 DEF QuitCheck, QuitMark, QuitCancel
<1>2. CASE QuitLeave(q) \/ QuitLeft(q)
  BY <1>2 DEF QuitLeave, QuitLeft
<1>3. CASE TakeBeat(q)
  BY <1>3 DEF TakeBeat, Take
<1>4. CASE TakeWatcher(q)
  BY <1>4 DEF TakeWatcher, Take
<1>5. CASE TakeServer(q)
  BY <1>5 DEF TakeServer, Take
<1>6. CASE QuitSignal(q)
  BY <1>6 DEF QuitSignal
<1>7. CASE QuitJoined(q)
  BY <1>7 DEF QuitJoined, Joined
<1>8. CASE QuitLate(q)
  BY <1>8 DEF QuitLate
<1>9. CASE QuitClear(q) \/ QuitDead(q)
  BY <1>9 DEF QuitClear, QuitDead
<1>10. QED
  BY <1>1, <1>2, <1>3, <1>4, <1>5, <1>6, <1>7, <1>8, <1>9 DEF Quitting, QuitStep

\* A quit that is alone, or orderly, after a step of some quit was so before.
LEMMA OrderlyBack ==
  ASSUME TypeOK, NEW q \in Quits, Quitting(q), NEW r \in Quits
  PROVE  /\ Solo(r)' => Solo(r) /\ r = q
         /\ Orderly(r)' => Orderly(r)
BY QuitForward DEF Solo, Orderly

LEMMA StepCases ==
  ASSUME Next
  PROVE  Exit \/ (Boot /\ boot # "failed") \/ (\E q \in Quits : Quitting(q)) \/ Work
BY DEF Next, Step, TrayQuit, Boot, BootExit, Quitting, Work, BootWatcher, BootBind, BootTx,
       BootServe, BootBeat, BootReady

\* Start-up and the tasks leave the quits alone.
LEMMA OthersKeep ==
  ASSUME (Boot /\ boot # "failed") \/ Work
  PROVE  UNCHANGED <<quit, hasty>>
<1>1. CASE Boot /\ boot # "failed"
  BY <1>1 DEF Boot, BootExit, BootWatcher, BootBind, BootTx, BootServe, BootBeat, BootReady, ghost
<1>2. CASE Work
  BY <1>2 DEF Work, TaskEnds, PeerStep, HandshakeArrives, HandshakeHandled, LeaveHandled,
     Reject, Forget, AnnounceHandled, JoinGroup, PingReported, DialEnds, DialFailed, DialReported,
     StubReported, Tick, ghost
<1>3. QED
  BY <1>1, <1>2

LEMMA WorkKeeps ==
  ASSUME Work
  PROVE  UNCHANGED <<phase, boot, held, stops>>
BY DEF Work, TaskEnds, PeerStep, HandshakeArrives, HandshakeHandled, LeaveHandled,
       Reject, Forget, AnnounceHandled, JoinGroup, PingReported, DialEnds, DialFailed,
       DialReported, StubReported, Tick, tasks

-----------------------------------------------------------------------------
(* Nothing of an orderly quit is left over. *)

LEMMA BegunStep == TypeOK /\ BegunInTime /\ Next => BegunInTime'
<1> SUFFICES ASSUME TypeOK, BegunInTime, Next PROVE BegunInTime'
  OBVIOUS
<1> USE DEF BegunInTime
<1>1. CASE Exit
  BY <1>1 DEF Exit
<1>2. CASE Boot /\ boot # "failed"
  <2>1. boot # "done"
    BY <1>2 DEF Boot, BootWatcher, BootBind, BootTx, BootServe, BootBeat, BootReady, BootExit
  <2>2. QED
    BY <1>2, <2>1, OthersKeep
<1>3. ASSUME NEW q \in Quits, Quitting(q) PROVE BegunInTime'
  <2>1. CASE QuitCheck(q)
    BY <2>1 DEF QuitCheck, GoTo, TypeOK
  <2>2. CASE QuitStep(q)
    <3>1. quit[q] # "unused"
      BY <2>2 DEF QuitStep, QuitMark, QuitCancel, QuitLeave, QuitLeft, TakeBeat, TakeWatcher,
         TakeServer, Take, QuitSignal, QuitJoined, Joined, QuitLate, Waiting, QuitClear, QuitDead
    <3>2. QED
      BY <1>3, <3>1, QuitForward DEF TypeOK
  <2>3. QED
    BY <1>3, <2>1, <2>2 DEF Quitting
<1>4. CASE Work
  BY <1>4, OthersKeep, WorkKeeps
<1>5. QED
  BY <1>1, <1>2, <1>3, <1>4, StepCases

LEMMA HandleStep == TypeOK /\ HandleKept /\ Next => HandleKept'
<1> SUFFICES ASSUME TypeOK, HandleKept, Next,
                    NEW t \in Tasks, Stored(t)', boot' # "failed",
                    \A q \in Quits : quit'[q] \in Before(t)
             PROVE  t \in held'
  BY DEF HandleKept, Before, ToLeave
<1>1. CASE Exit
  BY <1>1 DEF Exit, Stored, Tasks
<1>2. CASE Boot /\ boot # "failed"
  <2>1. \A q \in Quits : quit[q] \in Before(t)
    BY <1>2, OthersKeep
  <2>2. QED
    BY <1>2, <2>1 DEF HandleKept, Stored, Tasks, Boot, BootWatcher, BootBind, BootTx, BootServe,
       BootBeat, BootReady, BootExit, tasks
<1>3. ASSUME NEW q \in Quits, Quitting(q) PROVE t \in held'
  <2>1. \A r \in Quits : quit[r] \in Before(t)
    BY <1>3, QuitForward
  <2>2. t \in held
    BY <1>3, <2>1, QuitForward DEF HandleKept, Stored
  <2> USE DEF TypeOK, tasks, GoTo, Tasks, Before, ToLeave
  <2>3. CASE QuitCheck(q) \/ QuitMark(q) \/ QuitCancel(q) \/ QuitLeave(q) \/ QuitLeft(q)
    BY <2>2, <2>3 DEF QuitCheck, QuitMark, QuitCancel, QuitLeave, QuitLeft
  <2>4. CASE TakeBeat(q) \/ TakeWatcher(q) \/ TakeServer(q)
    BY <1>3, <2>2, <2>4 DEF TakeBeat, TakeWatcher, TakeServer, Take
  <2>5. CASE QuitSignal(q) \/ QuitJoined(q) \/ QuitLate(q) \/ QuitClear(q) \/ QuitDead(q)
    BY <2>2, <2>5 DEF QuitSignal, QuitJoined, Joined, QuitLate, QuitClear, QuitDead
  <2>6. QED
    BY <1>3, <2>3, <2>4, <2>5 DEF Quitting, QuitStep
<1>4. CASE Work
  BY <1>4, OthersKeep, WorkKeeps DEF HandleKept, Stored
<1>5. QED
  BY <1>1, <1>2, <1>3, <1>4, StepCases

LEMMA GoneStep == TypeOK /\ GoneIsIdle /\ Next => GoneIsIdle'
<1> SUFFICES ASSUME TypeOK, GoneIsIdle, Next PROVE GoneIsIdle'
  OBVIOUS
<1> USE DEF GoneIsIdle, Idle, Tasks, TypeOK
<1>1. CASE Exit
  BY <1>1 DEF Exit
<1>2. CASE Boot /\ boot # "failed"
  BY <1>2 DEF Boot, BootExit, BootWatcher, BootBind, BootTx, BootServe, BootBeat, BootReady,
     tasks, work, flights
<1>3. ASSUME NEW q \in Quits, Quitting(q) PROVE GoneIsIdle'
  BY <1>3, QuitForward DEF flights
<1>4. ASSUME NEW t \in Tasks, TaskEnds(t) PROVE GoneIsIdle'
  BY <1>4 DEF TaskEnds, work, flights
<1>5. ASSUME NEW p \in Peers, PeerStep(p) PROVE GoneIsIdle'
  BY <1>5 DEF PeerStep, HandshakeArrives, HandshakeHandled, LeaveHandled, Reject, Forget,
     AnnounceHandled, JoinGroup,
     PingReported, DialEnds, DialFailed, DialReported, StubReported, tasks, work, flights
<1>6. CASE Tick
  BY <1>6 DEF Tick, tasks
<1>7. QED
  BY <1>1, <1>2, <1>3, <1>4, <1>5, <1>6, StepCases DEF Work

LEMMA AdriftStep == TypeOK /\ AdriftKept /\ Next => AdriftKept'
<1> SUFFICES ASSUME TypeOK, AdriftKept, Next, NEW r \in Quits, Past(r)'
             PROVE  loose' \cup stubs' \subseteq adrift'
  BY DEF AdriftKept
<1> USE DEF Past
<1>1. CASE Exit
  BY <1>1 DEF Exit
<1>2. CASE Boot /\ boot # "failed"
  <2>1. UNCHANGED <<loose, stubs, adrift>>
    BY <1>2 DEF Boot, BootExit, BootWatcher, BootBind, BootTx, BootServe, BootBeat, BootReady,
       work, flights, ghost
  <2>2. QED
    BY <1>2, <2>1, OthersKeep DEF AdriftKept
<1>3. ASSUME NEW q \in Quits, Quitting(q) PROVE loose' \cup stubs' \subseteq adrift'
  <2>1. UNCHANGED <<loose, stubs>>
    BY <1>3, QuitForward DEF flights
  <2>2. CASE QuitClear(q)
    BY <2>1, <2>2 DEF QuitClear
  <2>3. CASE ~QuitClear(q)
    <3>1. adrift' = adrift /\ (Past(q)' => Past(q))
      BY <1>3, <2>3 DEF TypeOK, GoTo, ghost, Quitting, QuitStep, QuitCheck, QuitMark, QuitCancel,
         QuitLeave, QuitLeft, TakeBeat, TakeWatcher, TakeServer, Take, QuitSignal, QuitJoined,
         Joined, QuitLate, Waiting, QuitDead
    <3>2. Past(r)
      BY <1>3, <3>1, QuitForward
    <3>3. QED
      BY <2>1, <3>1, <3>2 DEF AdriftKept
  <2>4. QED
    BY <2>2, <2>3
<1>4. CASE Work
  <2>1. Past(r)
    BY <1>4, OthersKeep
  <2>2. loose \cup stubs \subseteq adrift /\ \E q \in Quits : Past(q)
    BY <2>1 DEF AdriftKept
  <2>3. CASE \E t \in Tasks : TaskEnds(t)
    BY <2>2, <2>3 DEF TaskEnds, work, flights, ghost
  <2>4. CASE Tick
    BY <2>2, <2>4 DEF Tick, ghost
  <2>5. ASSUME NEW p \in Peers, PeerStep(p) PROVE loose' \cup stubs' \subseteq adrift'
    <3>1. CASE HandshakeArrives(p) \/ HandshakeHandled(p) \/ LeaveHandled(p) \/ Reject(p)
      BY <2>2, <3>1 DEF HandshakeArrives, HandshakeHandled, LeaveHandled, Reject, Forget, work,
         flights, ghost
    <3>2. CASE AnnounceHandled(p) \/ JoinGroup(p)
      BY <2>2, <3>2 DEF AnnounceHandled, JoinGroup, Drift
    <3>3. CASE PingReported(p) \/ DialFailed(p) \/ StubReported(p)
      BY <2>2, <3>3 DEF PingReported, DialFailed, DialEnds, StubReported, ghost
    <3>4. CASE DialReported(p)
      <4>1. PICK S \in SUBSET Peers : stubs' = stubs \cup S /\ Drift(S)
        BY <3>4 DEF DialReported
      <4>2. adrift' = adrift \cup S
        BY <2>2, <4>1 DEF Drift
      <4>3. loose' \subseteq loose
        BY <3>4 DEF DialReported, DialEnds
      <4>4. QED
        BY <2>2, <4>1, <4>2, <4>3
    <3>5. QED
      BY <2>5, <3>1, <3>2, <3>3, <3>4 DEF PeerStep
  <2>6. QED
    BY <1>4, <2>3, <2>4, <2>5 DEF Work
<1>5. QED
  BY <1>1, <1>2, <1>3, <1>4, StepCases

LEMMA PastStep ==
  TypeOK /\ BegunInTime /\ HandleKept /\ PastIsGone /\ Next => PastIsGone'
<1> SUFFICES ASSUME TypeOK, BegunInTime, HandleKept, PastIsGone, Next,
                    NEW r \in Quits, NEW t \in Tasks, Orderly(r)', quit'[r] \in After(t)
             PROVE  run'[t] = "gone"
  BY DEF PastIsGone, After
<1>1. CASE Exit
  BY <1>1 DEF Exit, After, Tasks
<1>2. ASSUME Orderly(r), quit[r] \in After(t), boot = "done" => run'[t] = run[t]
      PROVE  run'[t] = "gone"
  BY <1>2 DEF PastIsGone, BegunInTime, Orderly, After, Tasks
<1>3. CASE Boot /\ boot # "failed"
  <2>1. Orderly(r) /\ quit[r] \in After(t)
    BY <1>3, OthersKeep DEF Orderly, Solo
  <2>2. boot # "done"
    BY <1>3 DEF Boot, BootWatcher, BootBind, BootTx, BootServe, BootBeat, BootReady, BootExit
  <2>3. QED
    BY <1>2, <2>1, <2>2
<1>4. ASSUME NEW q \in Quits, Quitting(q) PROVE run'[t] = "gone"
  <2>1. r = q /\ Orderly(q) /\ run' = run
    BY <1>4, OrderlyBack, QuitForward DEF Orderly
  <2>2. CASE quit[q] \in After(t)
    BY <1>2, <2>1, <2>2
  <2>3. CASE quit[q] \notin After(t)
    <3>1. q \notin hasty'
      BY <2>1 DEF Orderly
    <3>2. CASE t \notin held /\ quit[q] \in Before(t) /\ quit[q] # "unused"
      <4>1. boot = "done"
        BY <2>1, <3>2 DEF BegunInTime, Orderly
      <4>2. \A s \in Quits : quit[s] \in Before(t)
        BY <2>1, <3>2 DEF Orderly, Solo, Before, ToLeave, Tasks
      <4>3. Stored(t)
        BY <4>1 DEF Stored, Tasks
      <4>4. QED
        BY <3>2, <4>1, <4>2, <4>3 DEF HandleKept
    <3>3. QED
      BY <1>4, <2>1, <2>3, <3>1, <3>2, QuitPasses
  <2>4. QED
    BY <2>2, <2>3
<1>5. CASE Work
  <2>1. Orderly(r) /\ quit[r] \in After(t)
    BY <1>5, OthersKeep DEF Orderly, Solo
  <2>2. run[t] = "gone"
    BY <2>1 DEF PastIsGone
  <2>3. QED
    BY <1>5, <2>2 DEF Work, TaskEnds, PeerStep, HandshakeArrives, HandshakeHandled,
       LeaveHandled, Reject, Forget, AnnounceHandled, JoinGroup, PingReported, DialEnds,
       DialFailed, DialReported, StubReported, Tick, tasks, TypeOK
<1>6. QED
  BY <1>1, <1>3, <1>4, <1>5, StepCases

LEMMA StopStep == TypeOK /\ StopInv /\ [Next]_vars => StopInv'
<1>1. ASSUME TypeOK, StopInv, UNCHANGED vars PROVE StopInv'
  BY <1>1 DEF vars, tasks, work, flights, ghost, StopInv, BegunInTime, HandleKept, Stored,
     PastIsGone, Orderly,
     Solo, GoneIsIdle, Idle, AdriftKept, Past, Before, After
<1>2. QED
  BY <1>1, BegunStep, HandleStep, PastStep, GoneStep, AdriftStep DEF StopInv

LEMMA StopInit == Init => StopInv
BY DEF Init, StopInv, BegunInTime, HandleKept, Stored, PastIsGone, After, GoneIsIdle, Idle,
       AdriftKept, Past, Tasks

LEMMA StopSuffices == StopInv => OrderlyStopsAll
<1> SUFFICES ASSUME StopInv, NEW q \in Quits, Orderly(q), Past(q)
             PROVE  (\A t \in Tasks : run[t] = "gone") /\ reqs \cup pings \cup redials = {}
  BY DEF OrderlyStopsAll
<1>1. ASSUME NEW t \in Tasks PROVE quit[q] \in After(t)
  BY <1>1 DEF Past, After, Tasks
<1>2. \A t \in Tasks : run[t] = "gone"
  BY <1>1 DEF StopInv, PastIsGone
<1>3. Idle("server") /\ Idle("beat")
  BY <1>2 DEF StopInv, GoneIsIdle, Tasks
<1>4. QED
  BY <1>2, <1>3 DEF Idle

\* After an orderly quit nothing of the program runs.
THEOREM OrderlyStops == Spec => []OrderlyStopsAll
<1>1. Init => TypeOK /\ StopInv
  BY TypeInit, StopInit
<1>2. TypeOK /\ StopInv /\ [Next]_vars => (TypeOK /\ StopInv)'
  BY TypeStep, StopStep
<1>3. QED
  BY <1>1, <1>2, StopSuffices, PTL DEF Spec

-----------------------------------------------------------------------------
(* The cleared registry. *)

LEMMA ClearStep == TypeOK /\ StopInv /\ OrderlyStaysClear /\ [Next]_vars => OrderlyStaysClear'
<1> SUFFICES ASSUME TypeOK, StopInv, OrderlyStaysClear, [Next]_vars,
                    NEW r \in Quits, Orderly(r)', Past(r)'
             PROVE  peers' \subseteq adrift'
  BY DEF OrderlyStaysClear
<1> USE DEF Past
<1>1. CASE UNCHANGED vars
  BY <1>1 DEF OrderlyStaysClear, vars, ghost, Orderly, Solo
<1>2. CASE Next /\ Exit
  BY <1>2 DEF Exit
<1>3. CASE Next /\ Boot /\ boot # "failed"
  <2>1. UNCHANGED <<peers, adrift>>
    BY <1>3 DEF Boot, BootExit, BootWatcher, BootBind, BootTx, BootServe, BootBeat, BootReady, ghost
  <2>2. QED
    BY <1>3, <2>1, OthersKeep DEF OrderlyStaysClear, Orderly, Solo
<1>4. CASE Next /\ Work
  <2>1. Orderly(r) /\ Past(r)
    BY <1>4, OthersKeep DEF Orderly, Solo
  <2>2. peers \subseteq adrift /\ loose \cup stubs \subseteq adrift /\ \E q \in Quits : Past(q)
    BY <2>1 DEF OrderlyStaysClear, StopInv, AdriftKept
  <2>3. reqs = {} /\ redials = {}
    BY <2>1, StopSuffices DEF OrderlyStopsAll
  <2>4. CASE \E t \in Tasks : TaskEnds(t)
    BY <2>2, <2>4 DEF TaskEnds, ghost
  <2>5. CASE Tick
    BY <2>2, <2>5 DEF Tick, ghost
  <2>6. ASSUME NEW p \in Peers, PeerStep(p) PROVE peers' \subseteq adrift'
    <3>1. CASE HandshakeArrives(p) \/ HandshakeHandled(p) \/ LeaveHandled(p) \/ Reject(p)
      BY <2>2, <2>3, <3>1 DEF HandshakeArrives, HandshakeHandled, LeaveHandled, Reject, Forget, ghost
    <3>2. CASE AnnounceHandled(p) \/ JoinGroup(p)
      BY <2>2, <3>2 DEF AnnounceHandled, JoinGroup, Drift
    <3>3. CASE PingReported(p) \/ DialFailed(p) \/ StubReported(p)
      BY <2>2, <3>3 DEF PingReported, DialFailed, StubReported, ghost
    <3>4. CASE DialReported(p)
      <4>1. p \in adrift /\ peers' = peers \cup {p}
        BY <2>2, <2>3, <3>4 DEF DialReported, DialEnds
      <4>2. adrift \subseteq adrift'
        BY <3>4 DEF DialReported, Drift
      <4>3. QED
        BY <2>2, <4>1, <4>2
    <3>5. QED
      BY <2>6, <3>1, <3>2, <3>3, <3>4 DEF PeerStep
  <2>7. QED
    BY <1>4, <2>4, <2>5, <2>6 DEF Work
<1>5. ASSUME NEW q \in Quits, Quitting(q) PROVE peers' \subseteq adrift'
  <2>1. r = q /\ Orderly(q)
    BY <1>5, OrderlyBack DEF Orderly
  <2>2. CASE QuitClear(q)
    BY <2>2 DEF QuitClear
  <2>3. CASE QuitDead(q)
    BY <2>1, <2>3 DEF QuitDead, OrderlyStaysClear, ghost
  <2>4. quit'[q] \in {"last", "returned"} => QuitClear(q) \/ QuitDead(q)
    BY <1>5 DEF TypeOK, GoTo, Quitting, QuitStep, QuitCheck, QuitMark, QuitCancel, QuitLeave, QuitLeft,
       TakeBeat, TakeWatcher, TakeServer, Take, QuitSignal, QuitJoined, Joined, QuitLate, Waiting
  <2>5. QED
    BY <2>1, <2>2, <2>3, <2>4
<1>6. QED
  BY <1>1, <1>2, <1>3, <1>4, <1>5, StepCases

\* After an orderly quit only a dial that nothing waits for refills the registry.
THEOREM OrderlyClears == Spec => []OrderlyStaysClear
<1>1. Init => TypeOK /\ StopInv /\ OrderlyStaysClear
  BY TypeInit, StopInit DEF Init, OrderlyStaysClear, Past
<1>2. TypeOK /\ StopInv /\ OrderlyStaysClear /\ [Next]_vars
        => (TypeOK /\ StopInv /\ OrderlyStaysClear)'
  BY TypeStep, StopStep, ClearStep
<1>3. QED
  BY <1>1, <1>2, PTL DEF Spec

-----------------------------------------------------------------------------
(* The leaves. *)

LEMMA OwedStep == TypeOK /\ OwedKnown /\ [Next]_vars => OwedKnown'
<1> SUFFICES ASSUME TypeOK, OwedKnown, [Next]_vars, NEW r \in Quits, Solo(r)'
             PROVE  /\ quit'[r] \in {"marked", "leave"} => owed' \subseteq peers'
                    /\ quit'[r] \notin {"unused", "passed", "marked", "leave"} => owed' = {}
  BY DEF OwedKnown
<1>1. CASE UNCHANGED vars
  BY <1>1 DEF OwedKnown, vars, ghost, Solo
<1>2. CASE Next /\ Exit
  BY <1>2 DEF Exit
<1>3. CASE Boot /\ boot # "failed"
  BY <1>3, OthersKeep DEF OwedKnown, Solo, Boot, BootExit, BootWatcher, BootBind, BootTx, BootServe,
     BootBeat, BootReady, ghost
<1>4. CASE Work
  <2>1. Solo(r) /\ quit' = quit
    BY <1>4, OthersKeep DEF Solo
  <2>2. owed' \subseteq owed /\ (owed \subseteq peers => owed' \subseteq peers')
    BY <1>4 DEF TypeOK, Work, TaskEnds, PeerStep, HandshakeArrives, HandshakeHandled,
       LeaveHandled, Reject, Forget,
       AnnounceHandled, JoinGroup, PingReported, DialEnds, DialFailed, DialReported, StubReported,
       Tick, ghost
  <2>3. QED
    BY <2>1, <2>2 DEF OwedKnown
<1>5. ASSUME NEW q \in Quits, Quitting(q)
      PROVE  /\ quit'[r] \in {"marked", "leave"} => owed' \subseteq peers'
             /\ quit'[r] \notin {"unused", "passed", "marked", "leave"} => owed' = {}
  <2>1. r = q /\ Solo(q)
    BY <1>5, OrderlyBack
  <2> USE DEF OwedKnown, TypeOK, GoTo, ghost
  <2>2. CASE QuitCheck(q) \/ QuitMark(q) \/ QuitCancel(q)
    BY <2>1, <2>2 DEF QuitCheck, QuitMark, QuitCancel
  <2>3. CASE QuitLeave(q) \/ QuitLeft(q)
    BY <2>1, <2>3 DEF QuitLeave, QuitLeft
  <2>4. CASE TakeBeat(q) \/ TakeWatcher(q) \/ TakeServer(q)
    BY <2>1, <2>4 DEF TakeBeat, TakeWatcher, TakeServer, Take
  <2>5. CASE QuitSignal(q) \/ QuitJoined(q) \/ QuitLate(q) \/ QuitClear(q) \/ QuitDead(q)
    BY <2>1, <2>5 DEF QuitSignal, QuitJoined, Joined, QuitLate, Waiting, QuitClear, QuitDead
  <2>6. QED
    BY <1>5, <2>2, <2>3, <2>4, <2>5 DEF Quitting, QuitStep
<1>6. QED
  BY <1>1, <1>2, <1>3, <1>4, <1>5, StepCases

\* A quit without a rival forgets nobody it owed a leave to.
THEOREM LeaveBeforeClear == Spec => []ForgottenWereTold
<1>1. Init => TypeOK /\ OwedKnown
  BY TypeInit DEF Init, OwedKnown
<1>2. TypeOK /\ OwedKnown /\ [Next]_vars => (TypeOK /\ OwedKnown)'
  BY TypeStep, OwedStep
<1>3. OwedKnown => ForgottenWereTold
  BY DEF OwedKnown, ForgottenWereTold, Past
<1>4. QED
  BY <1>1, <1>2, <1>3, PTL DEF Spec

-----------------------------------------------------------------------------
(* The phase. *)

LEMMA PhaseStep == TypeOK /\ BegunInTime /\ PhaseFits /\ [Next]_vars => PhaseFits'
<1> SUFFICES ASSUME TypeOK, BegunInTime, PhaseFits, [Next]_vars PROVE PhaseFits'
  OBVIOUS
<1> USE DEF PhaseFits
<1>1. CASE UNCHANGED vars
  BY <1>1 DEF vars, ghost, Orderly, Solo
<1>2. CASE Next /\ Exit
  BY <1>2 DEF Exit
<1>3. CASE Boot /\ boot # "failed"
  <2>1. boot # "done" /\ quit' = quit /\ hasty' = hasty
    BY <1>3, OthersKeep DEF Boot, BootExit, BootWatcher, BootBind, BootTx, BootServe, BootBeat, BootReady
  <2>2. \A r \in Quits : ~(Orderly(r)' /\ quit'[r] # "unused")
    BY <2>1 DEF Orderly, BegunInTime
  <2>3. QED
    BY <1>3, <2>1, <2>2 DEF Boot, BootExit, BootWatcher, BootBind, BootTx, BootServe, BootBeat, BootReady
<1>4. CASE Work
  BY <1>4, OthersKeep, WorkKeeps DEF Orderly, Solo
<1>5. ASSUME NEW q \in Quits, Quitting(q) PROVE PhaseFits'
  <2>1. ~(\A r \in Quits : quit'[r] = "unused")
    BY <1>5, QuitForward
  <2>2. SUFFICES ASSUME Orderly(q)'
                 PROVE  phase' = CASE quit'[q] = "passed" -> "Running" [] quit'[q] = "returned" -> "Dead"
                                   [] OTHER -> "Shutting"
    BY <1>5, <2>1, OrderlyBack DEF Orderly
  <2>3. Orderly(q) /\ Solo(q)
    BY <1>5, <2>2, OrderlyBack DEF Orderly
  <2> USE DEF TypeOK, GoTo, ghost
  <2>4. CASE QuitCheck(q)
    <3>1. boot = "done" /\ \A r \in Quits : quit[r] = "unused"
      BY <2>2, <2>3, <2>4 DEF QuitCheck, Orderly, Solo
    <3>2. QED
      BY <2>4, <3>1 DEF QuitCheck
  <2>5. CASE QuitMark(q) \/ QuitCancel(q) \/ QuitLeave(q) \/ QuitLeft(q)
    BY <2>3, <2>5 DEF QuitMark, QuitCancel, QuitLeave, QuitLeft
  <2>6. CASE TakeBeat(q) \/ TakeWatcher(q) \/ TakeServer(q)
    BY <2>3, <2>6 DEF TakeBeat, TakeWatcher, TakeServer, Take
  <2>7. CASE QuitSignal(q) \/ QuitJoined(q) \/ QuitLate(q)
    BY <2>3, <2>7 DEF QuitSignal, QuitJoined, Joined, QuitLate, Waiting
  <2>8. CASE QuitClear(q) \/ QuitDead(q)
    BY <2>3, <2>8 DEF QuitClear, QuitDead
  <2>9. QED
    BY <1>5, <2>4, <2>5, <2>6, <2>7, <2>8 DEF Quitting, QuitStep
<1>6. QED
  BY <1>1, <1>2, <1>3, <1>4, <1>5, StepCases

Calm == hasty = {} /\ \A q, r \in Quits : q # r => Solo(q) \/ Solo(r)

LEMMA ForwardStep ==
  TypeOK /\ BegunInTime /\ PhaseFits /\ Next
    => (Calm => ended' \/ PhaseRank[phase'] >= PhaseRank[phase])
<1> SUFFICES ASSUME TypeOK, BegunInTime, PhaseFits, Next, Calm
             PROVE  ended' \/ PhaseRank[phase'] >= PhaseRank[phase]
  OBVIOUS
<1> USE DEF PhaseRank, Phases, TypeOK
<1>1. CASE Exit
  BY <1>1 DEF Exit
<1>2. CASE Boot /\ boot # "failed"
  <2>1. boot # "done"
    BY <1>2 DEF Boot, BootExit, BootWatcher, BootBind, BootTx, BootServe, BootBeat, BootReady
  <2>2. phase = "Booting"
    BY <1>2, <2>1 DEF PhaseFits, BegunInTime, Calm
  <2>3. QED
    BY <2>2, <1>2 DEF Boot, BootExit, BootWatcher, BootBind, BootTx, BootServe, BootBeat, BootReady
<1>3. CASE Work
  BY <1>3, WorkKeeps
<1>4. ASSUME NEW q \in Quits, Quitting(q) PROVE PhaseRank[phase'] >= PhaseRank[phase]
  <2>1. CASE QuitMark(q)
    <3>1. Orderly(q)
      BY <2>1 DEF QuitMark, Calm, Orderly, Solo
    <3>2. phase = "Running" /\ phase' = "Shutting"
      BY <2>1, <3>1 DEF PhaseFits, QuitMark
    <3>3. QED
      BY <3>2
  <2>2. CASE QuitDead(q)
    BY <2>2 DEF QuitDead
  <2>3. ~QuitMark(q) /\ ~QuitDead(q) => phase' = phase
    BY <1>4 DEF Quitting, QuitStep, QuitCheck, QuitCancel, QuitLeave, QuitLeft, TakeBeat, TakeWatcher,
       TakeServer, Take, QuitSignal, QuitJoined, Joined, QuitLate, QuitClear
  <2>4. QED
    BY <2>1, <2>2, <2>3
<1>5. QED
  BY <1>1, <1>2, <1>3, <1>4, StepCases

\* The phase moves forward, unless a quit is hasty or has a rival.
THEOREM PhaseMovesForward == Spec => ForwardUnlessHasty
<1>1. Init => TypeOK /\ BegunInTime /\ PhaseFits
  BY TypeInit, StopInit DEF Init, StopInv, PhaseFits
<1>2. TypeOK /\ BegunInTime /\ PhaseFits /\ [Next]_vars => (TypeOK /\ BegunInTime /\ PhaseFits)'
  <2>1. BegunInTime /\ UNCHANGED vars => BegunInTime'
    BY DEF BegunInTime, vars, ghost
  <2>2. QED
    BY <2>1, TypeStep, BegunStep, PhaseStep
<1>3. TypeOK /\ BegunInTime /\ PhaseFits /\ [Next]_vars
        => [(hasty = {} /\ \A q, r \in Quits : q # r => Solo(q) \/ Solo(r))
              => ended' \/ PhaseRank[phase'] >= PhaseRank[phase]]_vars
  BY ForwardStep DEF Calm
<1>4. QED
  BY <1>1, <1>2, <1>3, PTL DEF Spec, ForwardUnlessHasty

=============================================================================
