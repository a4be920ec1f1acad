------------------------- MODULE CmdRegistryProofs -------------------------
(***************************************************************************)
(* Proofs about CmdRegistry, for every set of streams, ids, Cmds and        *)
(* handlers.  The order is: types, then the invariants that say what the    *)
(* map and the threads may hold, then the properties that rest on them.     *)
(***************************************************************************)
EXTENDS CmdRegistry, TLAPS

(* Types.                                                                   *)

\* The initial state, an empty map and idle threads, has the right types.
LEMMA InitTypeOK == Init => TypeOK
  BY RegistryConstants
  DEF Init, TypeOK, Threads, Phases, RunSteps, ThreadSteps, HoldingSteps

\* A step of the goroutine of a Cmd, or the end of its process, keeps types.
LEMMA RunTypeOK ==
  ASSUME TypeOK, NEW c \in Cmds, RunNext(c) \/ ProcessExits(c)
  PROVE  TypeOK'
  <1> USE DEF TypeOK, RunSteps, AfterPass, threadVars
  <1>1. CASE StartProcess(c)
    BY <1>1 DEF StartProcess
  <1>2. CASE StartFails(c)
    BY <1>2 DEF StartFails
  <1>3. CASE RecordProcess(c)
    BY <1>3 DEF RecordProcess
  <1>4. CASE SelectDone(c)
    BY <1>4 DEF SelectDone
  <1>5. CASE SelectTerminate(c)
    BY <1>5 DEF SelectTerminate
  <1>6. CASE Reap(c)
    BY <1>6 DEF Reap
  <1>7. CASE PauseElapsed(c)
    BY <1>7 DEF PauseElapsed
  <1>8. CASE PauseTerminate(c)
    BY <1>8 DEF PauseTerminate
  <1>9. CASE ProcessExits(c)
    BY <1>9 DEF ProcessExits
  <1>10. QED BY <1>1, <1>2, <1>3, <1>4, <1>5, <1>6, <1>7, <1>8, <1>9 DEF RunNext

\* A step of a request handler keeps types.
LEMMA HandlerTypeOK ==
  ASSUME TypeOK, NEW t \in Handlers, HandlerNext(t)
  PROVE  TypeOK'
  <1> USE RegistryConstants DEF TypeOK, Threads, ThreadSteps, HoldingSteps,
          RunSteps, cmdVars, Goto, Finish, Killed
  <1>1. CASE \E c \in Cmds : Launch(t, c)
    BY <1>1 DEF Launch
  <1>2. CASE Register(t)
    BY <1>2 DEF Register
  <1>3. CASE InsertLive(t)
    BY <1>3 DEF InsertLive
  <1>4. CASE StopLookup(t)
    BY <1>4 DEF StopLookup
  <1>5. CASE StopKill(t)
    BY <1>5 DEF StopKill
  <1>6. CASE Delete(t)
    BY <1>6 DEF Delete
  <1>7. CASE StopRemoveDir(t)
    BY <1>7 DEF StopRemoveDir
  <1>8. CASE StopClose(t)
    BY <1>8 DEF StopClose
  <1>9. QED BY <1>1, <1>2, <1>3, <1>4, <1>5, <1>6, <1>7, <1>8 DEF HandlerNext

\* A step of the consumer keeps types.
LEMMA ConsumerTypeOK ==
  ASSUME TypeOK, ConsumerNext
  PROVE  TypeOK'
  <1> USE RegistryConstants DEF TypeOK, Threads, ThreadSteps, HoldingSteps,
          RunSteps, Phases, cmdVars, threadVars, Goto, Finish, Killed, Crash
  <1>1. CASE \E c \in Cmds : Launch(Consumer, c)
    BY <1>1 DEF Launch
  <1>2. CASE Register(Consumer)
    BY <1>2 DEF Register
  <1>3. CASE VodWait
    BY <1>3 DEF VodWait
  <1>4. CASE VodLookup
    BY <1>4 DEF VodLookup
  <1>5. CASE VodKill
    BY <1>5 DEF VodKill
  <1>6. CASE Delete(Consumer)
    BY <1>6 DEF Delete
  <1>7. CASE VodClose
    BY <1>7 DEF VodClose
  <1>8. CASE VodPanics
    BY <1>8 DEF VodPanics
  <1>9. QED BY <1>1, <1>2, <1>3, <1>4, <1>5, <1>6, <1>7, <1>8 DEF ConsumerNext

\* The arrival of a request, a job or a signal, the shutdown loop and a fault
\* of the runtime keep types.
LEMMA OutsideTypeOK ==
  ASSUME TypeOK,
         \/ \E t \in Handlers, s \in LiveStreams : StartRequest(t, s) \/ StopRequest(t, s)
         \/ \E s \in VodStreams : VodBegin(s)
         \/ Signal \/ ShutdownNext \/ MapFault
  PROVE  TypeOK'
  <1> USE RegistryConstants DEF TypeOK, Threads, ThreadSteps, HoldingSteps,
          Phases, cmdVars, threadVars, Goto, Killed, Crash
  <1>1. CASE \E t \in Handlers, s \in LiveStreams : StartRequest(t, s)
    BY <1>1 DEF StartRequest
  <1>2. CASE \E t \in Handlers, s \in LiveStreams : StopRequest(t, s)
    BY <1>2 DEF StopRequest
  <1>3. CASE \E s \in VodStreams : VodBegin(s)
    BY <1>3 DEF VodBegin
  <1>4. CASE Signal
    BY <1>4 DEF Signal
  <1>5. CASE \E i \in Ids : ShutdownVisit(i)
    BY <1>5 DEF ShutdownVisit
  <1>6. CASE \E i \in Ids : ShutdownPanics(i)
    BY <1>6 DEF ShutdownPanics
  <1>7. CASE ShutdownExit
    BY <1>7 DEF ShutdownExit
  <1>8. CASE MapFault
    BY <1>8 DEF MapFault
  <1>9. QED BY <1>1, <1>2, <1>3, <1>4, <1>5, <1>6, <1>7, <1>8 DEF ShutdownNext

\* Every reachable state of the backend's registry is well typed; in
\* particular a handler past its lookup holds a Cmd, and the shutdown loop
\* never meets a deleted entry.
THEOREM TypeCorrect == Spec => []TypeOK
  <1>1. Init => TypeOK
    BY InitTypeOK
  <1>2. TypeOK /\ [Next]_vars => TypeOK'
    <2>1. TypeOK /\ Next => TypeOK'
      BY RunTypeOK, HandlerTypeOK, ConsumerTypeOK, OutsideTypeOK DEF Next
    <2>2. TypeOK /\ UNCHANGED vars => TypeOK'
      BY DEF TypeOK, vars, cmdVars, threadVars
    <2>3. QED BY <2>1, <2>2
  <1>3. QED BY <1>1, <1>2, PTL DEF Spec
-----------------------------------------------------------------------------
(* Supervision of processes.  The invariant is inductive as it stands: only *)
(* cmd.Start makes a process run, and only a receive from cmdDone lets the  *)
(* goroutine leave the steps at which it watches it.                        *)

\* The steps of threads, clients and signals leave Cmd.run where it is,
\* except that NewCmd starts the goroutine of a new Cmd; none starts a process.
LEMMA OthersLeaveRun ==
  ASSUME TypeOK,
         \/ \E t \in Handlers : HandlerNext(t)
         \/ \E t \in Handlers, s \in LiveStreams : StartRequest(t, s) \/ StopRequest(t, s)
         \/ \E s \in VodStreams : VodBegin(s)
         \/ ConsumerNext
         \/ Signal \/ ShutdownNext \/ MapFault
  PROVE  \A d \in Cmds : /\ os'[d] = "running" => os[d] = "running"
                         /\ run'[d] = run[d] \/ (run[d] = "free" /\ run'[d] = "start")
  <1> USE DEF TypeOK, cmdVars, Threads
  <1>1. ASSUME NEW t \in Threads, NEW c \in Cmds, Launch(t, c)
        PROVE  \A d \in Cmds : /\ os'[d] = "running" => os[d] = "running"
                               /\ run'[d] = run[d] \/ (run[d] = "free" /\ run'[d] = "start")
    BY <1>1 DEF Launch, Allocated
  <1>2. ASSUME NEW t \in Threads, Register(t) \/ Delete(t)
        PROVE  os' = os /\ run' = run
    BY <1>2 DEF Register, Delete
  <1>3. ASSUME NEW t \in Handlers,
               \/ InsertLive(t) \/ StopLookup(t) \/ StopKill(t)
               \/ StopRemoveDir(t) \/ StopClose(t)
        PROVE  /\ run' = run
               /\ \A d \in Cmds : os'[d] = "running" => os[d] = "running"
    BY <1>3 DEF InsertLive, StopLookup, StopKill, StopRemoveDir, StopClose, Killed
  <1>4. ASSUME VodWait \/ VodLookup \/ VodKill \/ VodClose \/ VodPanics
        PROVE  /\ run' = run
               /\ \A d \in Cmds : os'[d] = "running" => os[d] = "running"
    BY <1>4 DEF VodWait, VodLookup, VodKill, VodClose, VodPanics, Crash, Killed
  <1>5. ASSUME \/ \E t \in Handlers, s \in LiveStreams :
                    StartRequest(t, s) \/ StopRequest(t, s)
               \/ \E s \in VodStreams : VodBegin(s)
               \/ Signal \/ ShutdownNext \/ MapFault
        PROVE  /\ run' = run
               /\ \A d \in Cmds : os'[d] = "running" => os[d] = "running"
    BY <1>5 DEF StartRequest, StopRequest, VodBegin, Signal, ShutdownNext,
                ShutdownVisit, ShutdownPanics, ShutdownExit, MapFault, Crash, Killed
  <1>6. QED BY <1>1, <1>2, <1>3, <1>4, <1>5 DEF HandlerNext, ConsumerNext

\* A step of Cmd.run leaves the watching steps only over an ended process.
LEMMA RunSupervised ==
  ASSUME TypeOK, SupervisedProcesses, NEW c \in Cmds, RunNext(c) \/ ProcessExits(c)
  PROVE  SupervisedProcesses'
  <1> USE DEF TypeOK, SupervisedProcesses, AfterPass
  <1>1. CASE StartProcess(c)
    BY <1>1 DEF StartProcess
  <1>2. CASE StartFails(c)
    BY <1>2 DEF StartFails
  <1>3. CASE RecordProcess(c)
    BY <1>3 DEF RecordProcess
  <1>4. CASE SelectDone(c)
    BY <1>4 DEF SelectDone
  <1>5. CASE SelectTerminate(c)
    BY <1>5 DEF SelectTerminate
  <1>6. CASE Reap(c)
    BY <1>6 DEF Reap
  <1>7. CASE PauseElapsed(c)
    BY <1>7 DEF PauseElapsed
  <1>8. CASE PauseTerminate(c)
    BY <1>8 DEF PauseTerminate
  <1>9. CASE ProcessExits(c)
    BY <1>9 DEF ProcessExits
  <1>10. QED BY <1>1, <1>2, <1>3, <1>4, <1>5, <1>6, <1>7, <1>8, <1>9 DEF RunNext

\* No ffmpeg process of the backend ever runs without the goroutine of its
\* Cmd watching it, whatever handlers, jobs and signals do to the Cmd.
THEOREM ProcessesSupervised == Spec => []SupervisedProcesses
  <1>1. Init => SupervisedProcesses
    BY DEF Init, SupervisedProcesses
  <1>2. TypeOK /\ SupervisedProcesses /\ [Next]_vars => SupervisedProcesses'
    <2>1. ASSUME TypeOK, SupervisedProcesses, Next PROVE SupervisedProcesses'
      <3>1. CASE \E c \in Cmds : RunNext(c) \/ ProcessExits(c)
        BY <2>1, <3>1, RunSupervised
      <3>2. CASE ~(\E c \in Cmds : RunNext(c) \/ ProcessExits(c))
        <4>1. \A d \in Cmds : /\ os'[d] = "running" => os[d] = "running"
                              /\ run'[d] = run[d] \/ (run[d] = "free" /\ run'[d] = "start")
          BY <2>1, <3>2, OthersLeaveRun DEF Next
        <4>2. QED BY <2>1, <4>1 DEF SupervisedProcesses
      <3>3. QED BY <3>1, <3>2
    <2>2. SupervisedProcesses /\ UNCHANGED vars => SupervisedProcesses'
      BY DEF SupervisedProcesses, vars, cmdVars
    <2>3. QED BY <2>1, <2>2
  <1>3. QED BY <1>1, <1>2, TypeCorrect, PTL DEF Spec

-----------------------------------------------------------------------------
(* The map, its holders and the Cmds agree on ids.                          *)

\* The initial map is empty.
LEMMA InitConsistent == Init => RegistryConsistent
  BY RegistryConstants DEF Init, RegistryConsistent, Allocated, HoldingSteps, Threads

\* Steps of Cmd.run and of processes change neither ids nor holders.
LEMMA RunConsistent ==
  ASSUME TypeOK, RegistryConsistent, NEW c \in Cmds, RunNext(c) \/ ProcessExits(c)
  PROVE  RegistryConsistent'
  <1> USE DEF TypeOK, RegistryConsistent, AfterPass, threadVars, Allocated, KeyOf
  <1>1. CASE StartProcess(c)
    BY <1>1 DEF StartProcess
  <1>2. CASE StartFails(c)
    BY <1>2 DEF StartFails
  <1>3. CASE RecordProcess(c)
    BY <1>3 DEF RecordProcess
  <1>4. CASE SelectDone(c)
    BY <1>4 DEF SelectDone
  <1>5. CASE SelectTerminate(c)
    BY <1>5 DEF SelectTerminate
  <1>6. CASE Reap(c)
    BY <1>6 DEF Reap
  <1>7. CASE PauseElapsed(c)
    BY <1>7 DEF PauseElapsed
  <1>8. CASE PauseTerminate(c)
    BY <1>8 DEF PauseTerminate
  <1>9. CASE ProcessExits(c)
    BY <1>9 DEF ProcessExits
  <1>10. QED BY <1>1, <1>2, <1>3, <1>4, <1>5, <1>6, <1>7, <1>8, <1>9 DEF RunNext

\* NewCmd enters a Cmd under the id it was made for, and the lookups of the
\* stop handler hold what the map has under the id of their request.
LEMMA HandlerConsistent ==
  ASSUME TypeOK, RegistryConsistent, NEW t \in Handlers, HandlerNext(t)
  PROVE  RegistryConsistent'
  <1> USE RegistryConstants DEF TypeOK, RegistryConsistent, Threads, HoldingSteps,
          cmdVars, Goto, Finish, Killed, Allocated, KeyOf
  <1>1. CASE \E c \in Cmds : Launch(t, c)
    BY <1>1 DEF Launch
  <1>2. CASE Register(t)
    BY <1>2 DEF Register
  <1>3. CASE InsertLive(t)
    BY <1>3 DEF InsertLive
  <1>4. CASE StopLookup(t)
    BY <1>4 DEF StopLookup
  <1>5. CASE StopKill(t)
    BY <1>5 DEF StopKill
  <1>6. CASE Delete(t)
    BY <1>6 DEF Delete
  <1>7. CASE StopRemoveDir(t)
    BY <1>7 DEF StopRemoveDir
  <1>8. CASE StopClose(t)
    BY <1>8 DEF StopClose
  <1>9. QED BY <1>1, <1>2, <1>3, <1>4, <1>5, <1>6, <1>7, <1>8 DEF HandlerNext

\* The same for the steps of a VOD job.
LEMMA ConsumerConsistent ==
  ASSUME TypeOK, RegistryConsistent, ConsumerNext
  PROVE  RegistryConsistent'
  <1> USE RegistryConstants DEF TypeOK, RegistryConsistent, Threads, HoldingSteps,
          cmdVars, threadVars, Goto, Finish, Killed, Crash, Allocated, KeyOf
  <1>1. CASE \E c \in Cmds : Launch(Consumer, c)
    BY <1>1 DEF Launch
  <1>2. CASE Register(Consumer)
    BY <1>2 DEF Register
  <1>3. CASE VodWait
    BY <1>3 DEF VodWait
  <1>4. CASE VodLookup
    <2> DEFINE i == IdOf[job[Consumer]]
    <2>1. i \in Ids /\ registry[i] \in Cmds
      BY <1>4 DEF VodLookup
    <2>2. Allocated(registry[i]) /\ KeyOf(registry[i]) = i
      BY <1>4, <2>1
    <2>3. /\ act' = [act EXCEPT ![Consumer] = registry[i]]
          /\ pc' = [pc EXCEPT ![Consumer] = "kill"]
          /\ UNCHANGED <<registry, stream, run, terminate, job>>
      BY <1>4 DEF VodLookup
    <2>4. ASSUME NEW t \in Threads, pc'[t] \in HoldingSteps
          PROVE  (Allocated(act[t]) /\ KeyOf(act[t]) = IdOf[job[t]])'
      BY <2>1, <2>2, <2>3, <2>4
    <2>5. QED BY <2>3, <2>4
  <1>5. CASE VodKill
    BY <1>5 DEF VodKill
  <1>6. CASE Delete(Consumer)
    BY <1>6 DEF Delete
  <1>7. CASE VodClose
    BY <1>7 DEF VodClose
  <1>8. CASE VodPanics
    BY <1>8 DEF VodPanics
  <1>9. QED BY <1>1, <1>2, <1>3, <1>4, <1>5, <1>6, <1>7, <1>8 DEF ConsumerNext

\* Requests, jobs, signals and the shutdown loop close no Cmd but those the
\* map holds.
LEMMA OutsideConsistent ==
  ASSUME TypeOK, RegistryConsistent,
         \/ \E t \in Handlers, s \in LiveStreams : StartRequest(t, s) \/ StopRequest(t, s)
         \/ \E s \in VodStreams : VodBegin(s)
         \/ Signal \/ ShutdownNext \/ MapFault
  PROVE  RegistryConsistent'
  <1> USE RegistryConstants DEF TypeOK, RegistryConsistent, Threads, HoldingSteps,
          cmdVars, threadVars, Goto, Killed, Crash, Allocated, KeyOf
  <1>1. CASE \E t \in Handlers, s \in LiveStreams : StartRequest(t, s)
    BY <1>1 DEF StartRequest
  <1>2. CASE \E t \in Handlers, s \in LiveStreams : StopRequest(t, s)
    BY <1>2 DEF StopRequest
  <1>3. CASE \E s \in VodStreams : VodBegin(s)
    BY <1>3 DEF VodBegin
  <1>4. CASE Signal
    BY <1>4 DEF Signal
  <1>5. CASE \E i \in Ids : ShutdownVisit(i)
    BY <1>5 DEF ShutdownVisit
  <1>6. CASE \E i \in Ids : ShutdownPanics(i)
    BY <1>6 DEF ShutdownPanics
  <1>7. CASE ShutdownExit
    BY <1>7 DEF ShutdownExit
  <1>8. CASE MapFault
    BY <1>8 DEF MapFault
  <1>9. QED BY <1>1, <1>2, <1>3, <1>4, <1>5, <1>6, <1>7, <1>8 DEF ShutdownNext

\* In every reachable state the map and the threads use a Cmd only under the
\* id it was made for.
THEOREM MapConsistent == Spec => []RegistryConsistent
  <1>1. Init => RegistryConsistent
    BY InitConsistent
  <1>2. TypeOK /\ RegistryConsistent /\ [Next]_vars => RegistryConsistent'
    <2>1. TypeOK /\ RegistryConsistent /\ Next => RegistryConsistent'
      BY RunConsistent, HandlerConsistent, ConsumerConsistent, OutsideConsistent DEF Next
    <2>2. RegistryConsistent /\ UNCHANGED vars => RegistryConsistent'
      BY DEF RegistryConsistent, vars, cmdVars, threadVars, Allocated, KeyOf
    <2>3. QED BY <2>1, <2>2
  <1>3. QED BY <1>1, <1>2, TypeCorrect, PTL DEF Spec

-----------------------------------------------------------------------------
(* Orphans.  A step can take the last way to stop a Cmd away only by writing *)
(* or deleting the map entry of its id on behalf of another Cmd; that other  *)
(* Cmd is the twin, and it exists for good.                                  *)

\* A Cmd keeps its stream, and a closed one stays closed.
LEMMA CmdsPersist ==
  ASSUME TypeOK, Next, NEW d \in Cmds, Allocated(d)
  PROVE  Allocated(d)' /\ stream'[d] = stream[d] /\ (terminate[d] => terminate'[d])
  <1> USE DEF TypeOK, Allocated, cmdVars
  <1>1. ASSUME NEW c \in Cmds, RunNext(c) \/ ProcessExits(c) PROVE
          Allocated(d)' /\ stream'[d] = stream[d] /\ terminate' = terminate
    BY <1>1 DEF RunNext, StartProcess, StartFails, RecordProcess, SelectDone,
       SelectTerminate, Reap, PauseElapsed, PauseTerminate, ProcessExits, AfterPass
  <1>2. ASSUME NEW t \in Threads, NEW c \in Cmds, Launch(t, c) PROVE
          Allocated(d)' /\ stream'[d] = stream[d] /\ terminate' = terminate
    BY <1>2 DEF Launch
  <1>3. ASSUME NEW t \in Threads, Register(t) \/ Delete(t) PROVE UNCHANGED cmdVars
    BY <1>3 DEF Register, Delete
  <1>4. ASSUME NEW t \in Handlers,
               \/ InsertLive(t) \/ StopLookup(t) \/ StopKill(t)
               \/ StopRemoveDir(t) \/ StopClose(t)
        PROVE  UNCHANGED <<stream, run>> /\ (terminate[d] => terminate'[d])
    BY <1>4 DEF InsertLive, StopLookup, StopKill, StopRemoveDir, StopClose
  <1>5. ASSUME VodWait \/ VodLookup \/ VodKill \/ VodClose \/ VodPanics
        PROVE  UNCHANGED <<stream, run>> /\ (terminate[d] => terminate'[d])
    BY <1>5 DEF VodWait, VodLookup, VodKill, VodClose, VodPanics, Crash
  <1>6. ASSUME \/ \E t \in Handlers, s \in LiveStreams :
                    StartRequest(t, s) \/ StopRequest(t, s)
               \/ \E s \in VodStreams : VodBegin(s)
               \/ Signal \/ ShutdownNext \/ MapFault
        PROVE  UNCHANGED <<stream, run>> /\ (terminate[d] => terminate'[d])
    BY <1>6 DEF StartRequest, StopRequest, VodBegin, Signal, ShutdownNext,
                ShutdownVisit, ShutdownPanics, ShutdownExit, MapFault, Crash
  <1>7. QED BY <1>1, <1>2, <1>3, <1>4, <1>5, <1>6
            DEF Next, HandlerNext, ConsumerNext, Threads

\* Does a thread hold a Cmd other than c under the key of c?
TwinHeld(c) == \E t \in Threads :
    act[t] \in Cmds \ {c} /\ Allocated(act[t]) /\ KeyOf(act[t]) = KeyOf(c)

\* A step after which nobody can stop c is the work of a thread that holds
\* another Cmd with the id of c.
LEMMA LosingNeedsTwin ==
  ASSUME TypeOK, RegistryConsistent, Next,
         NEW c \in Cmds, Allocated(c), Reachable(c), ~Reachable(c)'
  PROVE  TwinHeld(c)
  <1> USE RegistryConstants DEF TypeOK, RegistryConsistent, Reachable, KeyOf,
          HoldingSteps, Threads, cmdVars, threadVars, Goto, Finish
  <1>a. stream'[c] = stream[c] /\ ~terminate[c] /\ ~terminate'[c]
    BY CmdsPersist
  <1>1. CASE \E d \in Cmds : RunNext(d) \/ ProcessExits(d)
    BY <1>a, <1>1 DEF RunNext, StartProcess, StartFails, RecordProcess, SelectDone,
       SelectTerminate, Reap, PauseElapsed, PauseTerminate, ProcessExits
  <1>2. ASSUME NEW t \in Threads, NEW d \in Cmds, Launch(t, d) PROVE FALSE
    BY <1>a, <1>2 DEF Launch
  <1>3. ASSUME NEW t \in Threads, Register(t) PROVE TwinHeld(c)
    <2>1. act[t] \in Cmds /\ Allocated(act[t]) /\ KeyOf(act[t]) = IdOf[job[t]]
      BY <1>3 DEF Register
    <2>2. act[t] # c
      BY <1>a, <1>3, <2>1 DEF Register
    <2>3. registry[KeyOf(c)] = c /\ IdOf[job[t]] = KeyOf(c)
      BY <1>a, <1>3, <2>2 DEF Register
    <2>4. QED BY <2>1, <2>2, <2>3 DEF TwinHeld
  <1>4. ASSUME NEW t \in Threads, Delete(t) PROVE TwinHeld(c)
    <2>1. act[t] \in Cmds /\ Allocated(act[t]) /\ KeyOf(act[t]) = IdOf[job[t]]
      BY <1>4 DEF Delete
    <2>2. act[t] # c
      BY <1>a, <1>4 DEF Delete
    <2>3. registry[KeyOf(c)] = c /\ IdOf[job[t]] = KeyOf(c)
      BY <1>a, <1>4, <2>2 DEF Delete
    <2>4. QED BY <2>1, <2>2, <2>3 DEF TwinHeld
  <1>5. ASSUME NEW t \in Handlers, InsertLive(t) \/ StopLookup(t) PROVE FALSE
    BY <1>a, <1>5 DEF InsertLive, StopLookup
  <1>6. ASSUME NEW t \in Handlers, StopKill(t) \/ StopRemoveDir(t) PROVE FALSE
    BY <1>a, <1>6 DEF StopKill, StopRemoveDir
  <1>7. ASSUME NEW t \in Handlers, StopClose(t) PROVE FALSE
    BY <1>a, <1>7 DEF StopClose
  <1>8. ASSUME VodWait \/ VodLookup \/ VodKill PROVE FALSE
    BY <1>a, <1>8 DEF VodWait, VodLookup, VodKill
  <1>9. ASSUME VodClose \/ VodPanics PROVE FALSE
    BY <1>a, <1>9 DEF VodClose, VodPanics, Crash
  <1>10. ASSUME \/ \E t \in Handlers, s \in LiveStreams :
                     StartRequest(t, s) \/ StopRequest(t, s)
                \/ \E s \in VodStreams : VodBegin(s)
         PROVE  FALSE
    BY <1>a, <1>10 DEF StartRequest, StopRequest, VodBegin
  <1>11. ASSUME Signal \/ ShutdownNext \/ MapFault PROVE FALSE
    BY <1>a, <1>11 DEF Signal, ShutdownNext, ShutdownVisit, ShutdownPanics,
                       ShutdownExit, MapFault, Crash
  <1>12. QED BY <1>1, <1>2, <1>3, <1>4, <1>5, <1>6, <1>7, <1>8, <1>9, <1>10, <1>11
             DEF Next, HandlerNext, ConsumerNext

\* A new Cmd is in the hands of the thread that made it.
LEMMA NewIsReachable ==
  ASSUME TypeOK, Next, NEW c \in Cmds, ~Allocated(c), Allocated(c)'
  PROVE  Reachable(c)'
  <1> USE DEF TypeOK, Allocated, Threads, cmdVars, Goto, Finish
  <1>1. ASSUME NEW t \in Threads, NEW d \in Cmds, Launch(t, d) PROVE Reachable(c)'
    BY <1>1 DEF Launch, Reachable
  <1>2. ASSUME NEW d \in Cmds, RunNext(d) \/ ProcessExits(d) PROVE FALSE
    BY <1>2 DEF RunNext, StartProcess, StartFails, RecordProcess, SelectDone,
       SelectTerminate, Reap, PauseElapsed, PauseTerminate, ProcessExits
  <1>3. ASSUME NEW t \in Threads, Register(t) \/ Delete(t) PROVE FALSE
    BY <1>3 DEF Register, Delete
  <1>4. ASSUME NEW t \in Handlers,
               \/ InsertLive(t) \/ StopLookup(t) \/ StopKill(t)
               \/ StopRemoveDir(t) \/ StopClose(t)
        PROVE  FALSE
    BY <1>4 DEF InsertLive, StopLookup, StopKill, StopRemoveDir, StopClose
  <1>5. ASSUME VodWait \/ VodLookup \/ VodKill \/ VodClose \/ VodPanics
        PROVE  FALSE
    BY <1>5 DEF VodWait, VodLookup, VodKill, VodClose, VodPanics, Crash
  <1>6. ASSUME \/ \E t \in Handlers, s \in LiveStreams :
                    StartRequest(t, s) \/ StopRequest(t, s)
               \/ \E s \in VodStreams : VodBegin(s)
               \/ Signal \/ ShutdownNext \/ MapFault
        PROVE  FALSE
    BY <1>6 DEF StartRequest, StopRequest, VodBegin, Signal, ShutdownNext,
                ShutdownVisit, ShutdownPanics, ShutdownExit, MapFault, Crash
  <1>7. QED BY <1>1, <1>2, <1>3, <1>4, <1>5, <1>6
            DEF Next, HandlerNext, ConsumerNext

\* A transcoder the backend can no longer stop always has a second Cmd with
\* its id to blame: with one start per id nothing is ever lost.
THEOREM OrphansHaveTwins == Spec => []OrphanNeedsTwin
  <1>1. Init => OrphanNeedsTwin
    BY DEF Init, OrphanNeedsTwin, Allocated
  <1>2. TypeOK /\ RegistryConsistent /\ OrphanNeedsTwin /\ [Next]_vars => OrphanNeedsTwin'
    <2>1. ASSUME TypeOK, RegistryConsistent, OrphanNeedsTwin, Next,
                 NEW c \in Cmds, Allocated(c)', ~Reachable(c)'
          PROVE  (\E d \in Cmds \ {c} : Allocated(d) /\ KeyOf(d) = KeyOf(c))'
      <3>1. Allocated(c)
        BY <2>1, NewIsReachable
      <3>2. \E d \in Cmds \ {c} : Allocated(d) /\ KeyOf(d) = KeyOf(c)
        <4>1. CASE Reachable(c)
          BY <2>1, <3>1, <4>1, LosingNeedsTwin DEF TwinHeld
        <4>2. CASE ~Reachable(c)
          BY <2>1, <3>1, <4>2 DEF OrphanNeedsTwin
        <4>3. QED BY <4>1, <4>2
      <3>3. PICK d \in Cmds \ {c} : Allocated(d) /\ KeyOf(d) = KeyOf(c)
        BY <3>2
      <3>4. Allocated(d)' /\ stream'[d] = stream[d] /\ stream'[c] = stream[c]
        BY <2>1, <3>1, <3>3, CmdsPersist
      <3>5. QED BY <3>3, <3>4 DEF KeyOf
    <2>2. OrphanNeedsTwin /\ UNCHANGED vars => OrphanNeedsTwin'
      BY DEF OrphanNeedsTwin, Reachable, Allocated, KeyOf, vars, cmdVars, threadVars
    <2>3. QED BY <2>1, <2>2 DEF OrphanNeedsTwin
  <1>3. QED BY <1>1, <1>2, TypeCorrect, MapConsistent, PTL DEF Spec

-----------------------------------------------------------------------------
(* What a thread finds again.  The consumer looks its Cmd up by id after it  *)
(* has waited for it, and a live transcode writes into a directory that some *)
(* other request may remove.  Both are safe because of who may touch an id:  *)
(* handlers serve live streams only, and clients that wait for the answer    *)
(* have one request per id under way.                                        *)

\* Handlers serve live streams; between the two halves of NewCmd the Cmd is
\* the one made for the request, and it restarts exactly if a handler made it.
JobsKnown ==
    /\ \A t \in Handlers : pc[t] # "idle" => job[t] \in LiveStreams
    /\ \A t \in Threads : pc[t] = "register" =>
         /\ stream[act[t]] = job[t]
         /\ restart[act[t]] <=> t # Consumer

\* Clients that wait have one request per id under way.
OnePerId ==
    Serial => \A t, u \in Handlers :
        pc[t] # "idle" /\ pc[u] # "idle" /\ IdOf[job[t]] = IdOf[job[u]] => t = u

\* From the start of a VOD job's process until it is looked up again, the map
\* has its Cmd, if no live stream has the id.
ConsumerOwnsEntry ==
    (/\ pc[Consumer] \in {"wait", "lookup"}
     /\ \A l \in LiveStreams : IdOf[l] # IdOf[job[Consumer]])
    => registry[IdOf[job[Consumer]]] = act[Consumer]

\* While a stop removes a directory, the map has no live transcode with its
\* id; while a start makes its Cmd, and while the map has it, the directory
\* is there.
DirsKept ==
    Alive /\ Serial =>
        /\ \A t \in Handlers : pc[t] = "remove" =>
             \A c \in Cmds : registry[IdOf[job[t]]] = c => ~restart[c]
        /\ \A t \in Handlers : pc[t] \in {"launch", "register"} => job[t] \in dirs
        /\ \A c \in Cmds :
             Allocated(c) /\ restart[c] /\ registry[KeyOf(c)] = c => stream[c] \in dirs

\* The inductive invariant of this section.
FoundAgain == JobsKnown /\ OnePerId /\ ConsumerOwnsEntry /\ DirsKept

\* Nothing is under way in the initial state.
LEMMA InitFoundAgain == Init => FoundAgain
  BY RegistryConstants DEF Init, FoundAgain, JobsKnown, OnePerId, ConsumerOwnsEntry,
     DirsKept, Threads, Allocated

\* Steps of Cmd.run and of processes touch neither threads, map nor directories.
LEMMA RunFoundAgain ==
  ASSUME TypeOK, RegistryConsistent, FoundAgain,
         NEW c \in Cmds, RunNext(c) \/ ProcessExits(c)
  PROVE  FoundAgain'
  <1>1. /\ UNCHANGED <<phase, registry, stream, restart, pc, job, act, dirs>>
        /\ \A d \in Cmds : Allocated(d)' => Allocated(d)
    BY DEF TypeOK, Allocated, threadVars, RunNext, StartProcess, StartFails,
       RecordProcess, SelectDone, SelectTerminate, Reap, PauseElapsed, PauseTerminate,
       ProcessExits
  <1>2. QED BY <1>1 DEF FoundAgain, JobsKnown, OnePerId, ConsumerOwnsEntry, DirsKept,
               Alive, KeyOf

\* The first half of NewCmd: the new Cmd is in nobody's hands but its maker's.
LEMMA LaunchFoundAgain ==
  ASSUME TypeOK, RegistryConsistent, FoundAgain,
         NEW t \in Threads, NEW c \in Cmds, Launch(t, c)
  PROVE  FoundAgain'
  <1> USE RegistryConstants DEF TypeOK, Threads, FoundAgain, Goto
  <1>1. /\ pc[t] = "launch" /\ pc' = [pc EXCEPT ![t] = "register"]
        /\ act' = [act EXCEPT ![t] = c]
        /\ stream' = [stream EXCEPT ![c] = job[t]]
        /\ restart' = [restart EXCEPT ![c] = t # Consumer]
        /\ UNCHANGED <<phase, registry, job, dirs>>
        /\ ~Allocated(c) /\ \A d \in Cmds \ {c} : Allocated(d)' <=> Allocated(d)
    BY DEF Launch, Allocated
  <1>2. /\ \A i \in Ids : registry[i] # c
        /\ \A u \in Threads : pc[u] = "register" => act[u] # c
    BY <1>1 DEF RegistryConsistent, HoldingSteps
  <1>3. JobsKnown'
    BY <1>1, <1>2 DEF JobsKnown, HoldingSteps
  <1>4. OnePerId'
    BY <1>1 DEF OnePerId
  <1>5. ConsumerOwnsEntry'
    BY <1>1 DEF ConsumerOwnsEntry
  <1>6. DirsKept'
    <2> SUFFICES ASSUME Alive, Serial PROVE DirsKept'
      BY <1>1 DEF DirsKept, Alive
    <2>1. \A u \in Handlers : pc'[u] = "remove" =>
            \A d \in Cmds : registry'[IdOf[job'[u]]] = d => ~restart'[d]
      BY <1>1, <1>2 DEF DirsKept
    <2>2. \A u \in Handlers : pc'[u] \in {"launch", "register"} => job'[u] \in dirs'
      BY <1>1 DEF DirsKept
    <2>3. ASSUME NEW d \in Cmds, (Allocated(d) /\ restart[d] /\ registry[KeyOf(d)] = d)'
          PROVE  stream'[d] \in dirs'
      <3>1. CASE d = c
        <4>1. stream'[c] = job[t] /\ job[t] \in Streams
          BY <1>1
        <4>2. registry[IdOf[job[t]]] = c /\ IdOf[job[t]] \in Ids
          BY <1>1, <2>3, <3>1, <4>1 DEF KeyOf
        <4>3. QED BY <1>2, <4>2
      <3>2. CASE d # c
        BY <1>1, <2>3, <3>2 DEF DirsKept, KeyOf
      <3>3. QED BY <3>1, <3>2
    <2>4. QED BY <2>1, <2>2, <2>3 DEF DirsKept
  <1>7. QED BY <1>3, <1>4, <1>5, <1>6

\* The second half of NewCmd writes the entry of an id that no other request
\* of a waiting client is at work on.
LEMMA RegisterFoundAgain ==
  ASSUME TypeOK, RegistryConsistent, FoundAgain, NEW t \in Threads, Register(t)
  PROVE  FoundAgain'
  <1> USE RegistryConstants DEF TypeOK, Threads, FoundAgain, Goto
  <1>1. /\ Alive /\ pc[t] = "register"
        /\ registry' = [registry EXCEPT ![IdOf[job[t]]] = act[t]]
        /\ pc' = [pc EXCEPT ![t] = IF t = Consumer THEN "wait" ELSE "insert"]
        /\ UNCHANGED <<phase, stream, restart, run, job, act, dirs>>
    BY DEF Register, cmdVars
  <1>2. /\ act[t] \in Cmds /\ job[t] \in Streams /\ IdOf[job[t]] \in Ids
        /\ stream[act[t]] = job[t] /\ (restart[act[t]] <=> t # Consumer)
    BY <1>1 DEF JobsKnown, HoldingSteps
  <1>3. JobsKnown'
    BY <1>1 DEF JobsKnown
  <1>4. OnePerId'
    BY <1>1 DEF OnePerId
  <1>5. ConsumerOwnsEntry'
    <2>1. CASE t = Consumer
      BY <1>1, <1>2, <2>1 DEF ConsumerOwnsEntry
    <2>2. CASE t # Consumer
      <3>1. t \in Handlers /\ job[t] \in LiveStreams
        BY <1>1, <2>2 DEF JobsKnown
      <3>2. QED BY <1>1, <1>2, <2>2, <3>1 DEF ConsumerOwnsEntry
    <2>3. QED BY <2>1, <2>2
  <1>6. DirsKept'
    <2> SUFFICES ASSUME Serial PROVE DirsKept'
      BY DEF DirsKept
    <2>1. ASSUME NEW u \in Handlers, pc'[u] = "remove",
                 NEW d \in Cmds, registry'[IdOf[job'[u]]] = d
          PROVE  ~restart'[d]
      <3>1. u # t /\ pc[u] = "remove" /\ job[u] \in Streams /\ IdOf[job[u]] \in Ids
        BY <1>1, <2>1
      <3>2. CASE IdOf[job[u]] = IdOf[job[t]]
        <4>1. t = Consumer
          BY <1>1, <3>1, <3>2 DEF OnePerId
        <4>2. d = act[t]
          BY <1>1, <1>2, <2>1, <3>2
        <4>3. QED BY <1>1, <1>2, <4>1, <4>2
      <3>3. CASE IdOf[job[u]] # IdOf[job[t]]
        BY <1>1, <1>2, <2>1, <3>1, <3>3 DEF DirsKept
      <3>4. QED BY <3>2, <3>3
    <2>2. \A u \in Handlers : pc'[u] \in {"launch", "register"} => job'[u] \in dirs'
      BY <1>1 DEF DirsKept
    <2>3. ASSUME NEW d \in Cmds, (Allocated(d) /\ restart[d] /\ registry[KeyOf(d)] = d)'
          PROVE  stream'[d] \in dirs'
      <3>1. CASE d = act[t]
        <4>1. t \in Handlers
          BY <1>1, <1>2, <2>3, <3>1
        <4>2. QED BY <1>1, <1>2, <3>1, <4>1 DEF DirsKept
      <3>2. CASE d # act[t]
        <4>1. Allocated(d) /\ restart[d] /\ stream[d] \in Streams /\ KeyOf(d) \in Ids
          BY <1>1, <2>3 DEF Allocated, KeyOf, RegistryConsistent
        <4>2. registry[KeyOf(d)] = d
          BY <1>1, <1>2, <2>3, <3>2, <4>1 DEF KeyOf
        <4>3. QED BY <1>1, <4>1, <4>2 DEF DirsKept
      <3>3. QED BY <3>1, <3>2
    <2>4. QED BY <2>1, <2>2, <2>3 DEF DirsKept
  <1>7. QED BY <1>3, <1>4, <1>5, <1>6

\* delete(GloblaActiveCmds, id) of a handler meets no VOD job of that id, and
\* from here on the map has no live transcode of the id.
LEMMA DeleteFoundAgain ==
  ASSUME TypeOK, RegistryConsistent, FoundAgain, NEW t \in Threads, Delete(t)
  PROVE  FoundAgain'
  <1> USE RegistryConstants DEF TypeOK, Threads, FoundAgain, Goto
  <1>1. /\ Alive /\ pc[t] = "delete"
        /\ registry' = [registry EXCEPT ![IdOf[job[t]]] = NoCmd]
        /\ pc' = [pc EXCEPT ![t] = IF t = Consumer THEN "close" ELSE "remove"]
        /\ UNCHANGED <<phase, stream, restart, run, job, act, dirs>>
        /\ job[t] \in Streams /\ IdOf[job[t]] \in Ids
    BY DEF Delete, cmdVars
  <1>2. JobsKnown' /\ OnePerId'
    BY <1>1 DEF JobsKnown, OnePerId
  <1>3. ConsumerOwnsEntry'
    <2>1. CASE t = Consumer
      BY <1>1, <2>1 DEF ConsumerOwnsEntry
    <2>2. CASE t # Consumer
      <3>1. t \in Handlers /\ job[t] \in LiveStreams
        BY <1>1, <2>2 DEF JobsKnown
      <3>2. QED BY <1>1, <2>2, <3>1 DEF ConsumerOwnsEntry
    <2>3. QED BY <2>1, <2>2
  <1>4. DirsKept'
    <2> SUFFICES ASSUME Serial PROVE DirsKept'
      BY DEF DirsKept
    <2>1. ASSUME NEW u \in Handlers, pc'[u] = "remove",
                 NEW d \in Cmds, registry'[IdOf[job'[u]]] = d
          PROVE  ~restart'[d]
      <3>1. job[u] \in Streams /\ IdOf[job[u]] \in Ids /\ IdOf[job[u]] # IdOf[job[t]]
        BY <1>1, <2>1
      <3>2. QED BY <1>1, <2>1, <3>1 DEF DirsKept
    <2>2. \A u \in Handlers : pc'[u] \in {"launch", "register"} => job'[u] \in dirs'
      BY <1>1 DEF DirsKept
    <2>3. ASSUME NEW d \in Cmds, (Allocated(d) /\ restart[d] /\ registry[KeyOf(d)] = d)'
          PROVE  stream'[d] \in dirs'
      <3>1. Allocated(d) /\ restart[d] /\ KeyOf(d) \in Ids
        BY <1>1, <2>3 DEF Allocated, KeyOf, RegistryConsistent
      <3>2. registry[KeyOf(d)] = d
        BY <1>1, <2>3, <3>1 DEF KeyOf
      <3>3. QED BY <1>1, <3>1, <3>2 DEF DirsKept
    <2>4. QED BY <2>1, <2>2, <2>3 DEF DirsKept
  <1>5. QED BY <1>2, <1>3, <1>4

\* os.RemoveAll takes the directory of no live transcode that the map has or
\* that a start is about to enter.
LEMMA RemoveFoundAgain ==
  ASSUME TypeOK, RegistryConsistent, FoundAgain, NEW t \in Handlers, StopRemoveDir(t)
  PROVE  FoundAgain'
  <1> USE RegistryConstants DEF TypeOK, Threads, FoundAgain, Goto
  <1>1. /\ Alive /\ pc[t] = "remove" /\ pc' = [pc EXCEPT ![t] = "close"]
        /\ dirs' = dirs \ {job[t]}
        /\ UNCHANGED <<phase, registry, stream, restart, run, job, act>>
        /\ job[t] \in Streams /\ IdOf[job[t]] \in Ids
    BY DEF StopRemoveDir, cmdVars
  <1>2. JobsKnown' /\ OnePerId' /\ ConsumerOwnsEntry'
    BY <1>1 DEF JobsKnown, OnePerId, ConsumerOwnsEntry
  <1>3. DirsKept'
    <2> SUFFICES ASSUME Serial PROVE DirsKept'
      BY DEF DirsKept
    <2>1. \A u \in Handlers : pc'[u] = "remove" =>
            \A d \in Cmds : registry'[IdOf[job'[u]]] = d => ~restart'[d]
      BY <1>1 DEF DirsKept
    <2>2. ASSUME NEW u \in Handlers, pc'[u] \in {"launch", "register"}
          PROVE  job'[u] \in dirs'
      <3>1. u # t /\ pc[u] \in {"launch", "register"}
        BY <1>1, <2>2
      <3>2. job[u] # job[t]
        BY <1>1, <3>1 DEF OnePerId
      <3>3. QED BY <1>1, <3>1, <3>2 DEF DirsKept
    <2>3. ASSUME NEW d \in Cmds, (Allocated(d) /\ restart[d] /\ registry[KeyOf(d)] = d)'
          PROVE  stream'[d] \in dirs'
      <3>1. Allocated(d) /\ restart[d] /\ registry[KeyOf(d)] = d
        BY <1>1, <2>3 DEF Allocated, KeyOf
      <3>2. stream[d] # job[t]
        BY <1>1, <3>1 DEF DirsKept, KeyOf
      <3>3. QED BY <1>1, <3>1, <3>2 DEF DirsKept
    <2>4. QED BY <2>1, <2>2, <2>3 DEF DirsKept
  <1>4. QED BY <1>2, <1>3

\* The steps that write neither the map, nor directories, nor the fields of a
\* Cmd that this section is about, and that only let a thread proceed or end.
QuietStep(t) ==
    /\ UNCHANGED <<registry, stream, restart, run, dirs>>
    /\ Alive' => Alive
    /\ \A u \in Threads \ {t} : pc'[u] = pc[u] /\ job'[u] = job[u] /\ act'[u] = act[u]
    /\ \/ pc'[t] = "idle"
       \/ /\ pc[t] # "idle" /\ job'[t] = job[t]
          /\ \/ pc'[t] \in {"kill", "delete", "close"}
             \/ /\ pc'[t] = pc[t] \/ (pc[t] = "wait" /\ pc'[t] = "lookup")
                /\ act'[t] = act[t]

\* Such a step takes nothing away from what the threads look up again.
LEMMA QuietFoundAgain ==
  ASSUME TypeOK, FoundAgain, NEW t \in Threads, QuietStep(t)
  PROVE  FoundAgain'
  <1> USE RegistryConstants DEF TypeOK, Threads, FoundAgain, QuietStep
  <1>1. JobsKnown'
    BY DEF JobsKnown
  <1>2. OnePerId'
    BY DEF OnePerId
  <1>3. ConsumerOwnsEntry'
    BY DEF ConsumerOwnsEntry
  <1>4. DirsKept'
    BY DEF DirsKept, Alive, Allocated, KeyOf
  <1>5. QED BY <1>1, <1>2, <1>3, <1>4

\* The steps of handlers and of the consumer that are left are such steps.
LEMMA OthersAreQuiet ==
  ASSUME TypeOK
  PROVE  /\ \A t \in Handlers :
              InsertLive(t) \/ StopLookup(t) \/ StopKill(t) \/ StopClose(t) => QuietStep(t)
         /\ VodWait \/ VodLookup \/ VodKill \/ VodClose \/ VodPanics => QuietStep(Consumer)
         /\ Signal \/ ShutdownNext \/ MapFault => QuietStep(Consumer) \/ ShutdownExit
  <1> USE RegistryConstants DEF TypeOK, Threads, Goto, Finish, cmdVars, threadVars, QuietStep,
          Alive
  <1>1. ASSUME NEW t \in Handlers,
               InsertLive(t) \/ StopLookup(t) \/ StopKill(t) \/ StopClose(t)
        PROVE  QuietStep(t)
    <2>1. CASE InsertLive(t)
      BY <2>1 DEF InsertLive
    <2>2. CASE StopLookup(t)
      <3>1. PICK a : /\ \/ pc' = [pc EXCEPT ![t] = "idle"]
                        \/ pc' = [pc EXCEPT ![t] = "kill"] /\ job' = job
                     /\ act' = [act EXCEPT ![t] = a]
        BY <2>2, Zenon DEF StopLookup
      <3>2. \A u \in Threads \ {t} : job'[u] = job[u]
        BY <2>2 DEF StopLookup
      <3>3. UNCHANGED <<phase, registry, stream, restart, run, dirs>> /\ pc[t] # "idle"
        BY <2>2 DEF StopLookup
      <3>4. \A u \in Threads \ {t} : pc'[u] = pc[u] /\ act'[u] = act[u]
        BY <3>1
      <3>5. pc'[t] = "idle" \/ (job' = job /\ pc'[t] = "kill")
        BY <3>1
      <3>6. QED BY <3>2, <3>3, <3>4, <3>5
    <2>3. CASE StopKill(t)
      BY <2>3 DEF StopKill
    <2>4. CASE StopClose(t)
      BY <2>4 DEF StopClose
    <2>5. QED BY <1>1, <2>1, <2>2, <2>3, <2>4
  <1>2. ASSUME VodWait \/ VodLookup \/ VodKill \/ VodClose \/ VodPanics
        PROVE  QuietStep(Consumer)
    <2>1. CASE VodWait
      BY <2>1 DEF VodWait
    <2>2. CASE VodLookup
      <3>1. PICK a : act' = [act EXCEPT ![Consumer] = a]
        BY <2>2, Zenon DEF VodLookup
      <3>2. /\ UNCHANGED <<phase, registry, stream, restart, run, dirs, job>>
            /\ pc[Consumer] # "idle" /\ pc' = [pc EXCEPT ![Consumer] = "kill"]
        BY <2>2 DEF VodLookup
      <3>3. QED BY <3>1, <3>2
    <2>3. CASE VodKill
      BY <2>3 DEF VodKill
    <2>4. CASE VodClose
      BY <2>4 DEF VodClose
    <2>5. CASE VodPanics
      BY <2>5 DEF VodPanics, Crash
    <2>6. QED BY <1>2, <2>1, <2>2, <2>3, <2>4, <2>5
  <1>3. ASSUME Signal \/ ShutdownNext \/ MapFault
        PROVE  QuietStep(Consumer) \/ ShutdownExit
    BY <1>3 DEF Signal, ShutdownNext, ShutdownVisit, ShutdownPanics, MapFault, Crash
  <1>4. QED BY <1>1, <1>2, <1>3

\* Requests of waiting clients come one per id, and make their directory;
\* jobs make theirs; the exit ends the program.
LEMMA ArrivalFoundAgain ==
  ASSUME TypeOK, RegistryConsistent, FoundAgain,
         \/ \E t \in Handlers, s \in LiveStreams : StartRequest(t, s) \/ StopRequest(t, s)
         \/ \E s \in VodStreams : VodBegin(s)
         \/ ShutdownExit
  PROVE  FoundAgain'
  <1> USE RegistryConstants DEF TypeOK, Threads, FoundAgain, Goto, cmdVars, threadVars
  <1>1. ASSUME NEW t \in Handlers, NEW s \in LiveStreams,
               StartRequest(t, s) \/ StopRequest(t, s)
        PROVE  FoundAgain'
    <2>1. /\ pc[t] = "idle" /\ (Serial => ~Busy(s))
          /\ job' = [job EXCEPT ![t] = s] /\ s \in Streams
          /\ \/ pc' = [pc EXCEPT ![t] = "launch"] /\ dirs' = dirs \cup {s}
             \/ pc' = [pc EXCEPT ![t] = "lookup"] /\ dirs' = dirs
          /\ UNCHANGED <<phase, registry, stream, restart, run, act>>
      BY <1>1 DEF StartRequest, StopRequest
    <2>2. JobsKnown' /\ ConsumerOwnsEntry'
      BY <2>1 DEF JobsKnown, ConsumerOwnsEntry
    <2>3. OnePerId'
      BY <2>1 DEF OnePerId, Busy
    <2>4. DirsKept'
      BY <2>1 DEF DirsKept, Alive, Allocated, KeyOf
    <2>5. QED BY <2>2, <2>3, <2>4
  <1>2. ASSUME NEW s \in VodStreams, VodBegin(s)
        PROVE  FoundAgain'
    <2>1. /\ dirs' = dirs \cup {s}
          /\ UNCHANGED <<phase, registry, stream, restart, run, act>>
          /\ \A u \in Handlers : pc'[u] = pc[u] /\ job'[u] = job[u]
          /\ pc'[Consumer] \in {"idle", "launch"}
      BY <1>2 DEF VodBegin
    <2>2. JobsKnown' /\ OnePerId' /\ ConsumerOwnsEntry'
      BY <2>1 DEF JobsKnown, OnePerId, ConsumerOwnsEntry
    <2>3. DirsKept'
      BY <2>1 DEF DirsKept, Alive, Allocated, KeyOf
    <2>4. QED BY <2>2, <2>3
  <1>3. ASSUME ShutdownExit PROVE FoundAgain'
    BY <1>3 DEF ShutdownExit, JobsKnown, OnePerId, ConsumerOwnsEntry, DirsKept, Alive
  <1>4. QED BY <1>1, <1>2, <1>3

\* The invariant of this section holds of every reachable state.
THEOREM ThreadsFindAgain == Spec => []FoundAgain
  <1>1. Init => FoundAgain
    BY InitFoundAgain
  <1>2. TypeOK /\ RegistryConsistent /\ FoundAgain /\ [Next]_vars => FoundAgain'
    <2>1. ASSUME TypeOK, RegistryConsistent, FoundAgain, Next PROVE FoundAgain'
      <3>1. CASE \E c \in Cmds : RunNext(c) \/ ProcessExits(c)
        BY <2>1, <3>1, RunFoundAgain
      <3>2. ASSUME NEW t \in Handlers, HandlerNext(t) PROVE FoundAgain'
        <4>1. t \in Threads
          BY DEF Threads
        <4>2. CASE InsertLive(t) \/ StopLookup(t) \/ StopKill(t) \/ StopClose(t)
          BY <2>1, <4>1, <4>2, OthersAreQuiet, QuietFoundAgain
        <4>3. QED BY <2>1, <3>2, <4>1, <4>2, LaunchFoundAgain, RegisterFoundAgain,
                     DeleteFoundAgain, RemoveFoundAgain DEF HandlerNext
      <3>3. CASE ConsumerNext
        <4>1. Consumer \in Threads
          BY DEF Threads
        <4>2. CASE VodWait \/ VodLookup \/ VodKill \/ VodClose \/ VodPanics
          BY <2>1, <4>1, <4>2, OthersAreQuiet, QuietFoundAgain
        <4>3. QED BY <2>1, <3>3, <4>1, <4>2, LaunchFoundAgain, RegisterFoundAgain,
                     DeleteFoundAgain DEF ConsumerNext
      <3>4. CASE \/ \E t \in Handlers, s \in LiveStreams :
                      StartRequest(t, s) \/ StopRequest(t, s)
                 \/ \E s \in VodStreams : VodBegin(s)
        BY <2>1, <3>4, ArrivalFoundAgain
      <3>5. CASE Signal \/ ShutdownNext \/ MapFault
        <4>1. Consumer \in Threads
          BY DEF Threads
        <4>2. QED BY <2>1, <3>5, <4>1, OthersAreQuiet, QuietFoundAgain, ArrivalFoundAgain
      <3>6. QED BY <2>1, <3>1, <3>2, <3>3, <3>4, <3>5 DEF Next
    <2>2. FoundAgain /\ UNCHANGED vars => FoundAgain'
      BY DEF FoundAgain, JobsKnown, OnePerId, ConsumerOwnsEntry, DirsKept, vars, cmdVars,
         threadVars, Alive, Allocated, KeyOf
    <2>3. QED BY <2>1, <2>2
  <1>3. QED BY <1>1, <1>2, TypeCorrect, MapConsistent, PTL DEF Spec

\* When no live stream has the id of a VOD job, onCompleteTranscode finds the
\* Cmd of that job in the map, whatever handlers do meanwhile.
THEOREM ConsumerFinds == Spec => []ConsumerFindsItsCmd
  <1>1. FoundAgain => ConsumerFindsItsCmd
    BY DEF FoundAgain, ConsumerOwnsEntry, ConsumerFindsItsCmd
  <1>2. QED BY <1>1, ThreadsFindAgain, PTL

\* The directory of a live transcode that the map has is never removed under
\* it, if clients wait for the answer to one request before the next.
THEOREM DirsPresent == Spec => []OutputDirPresent
  <1>1. FoundAgain => OutputDirPresent
    BY DEF FoundAgain, DirsKept, OutputDirPresent
  <1>2. QED BY <1>1, ThreadsFindAgain, PTL
=============================================================================
