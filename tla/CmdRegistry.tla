---------------------------- MODULE CmdRegistry ----------------------------
(***************************************************************************)
(* The transcoding commands of the backend: the Cmd objects that supervise  *)
(* ffmpeg processes (backend/internal/externalcmd), the process-wide map    *)
(* GloblaActiveCmds that finds them again, and everybody who uses the map:  *)
(* the HTTP handlers of a live stream (StartHlsTranscode,                   *)
(* StopHlsTranscode), the consumer goroutine that runs one VOD job at a     *)
(* time (VodTranscoder.Run) and the goroutine of the signal handler         *)
(* (EnableGrafullyShutdown).                                                *)
(*                                                                          *)
(* One step of a goroutine is one access to state another goroutine can    *)
(* see.  A panic of a handler is caught by gin's Recovery middleware; one   *)
(* of the consumer or of the shutdown goroutine ends the program.           *)
(*                                                                          *)
(* A stream is a (namespace, id) pair of a request.  Only its id, IdOf, is  *)
(* the key of the map; the output directory is named by both.               *)
(***************************************************************************)
EXTENDS Naturals

CONSTANTS
    Streams,        \* the (namespace, id) pairs requests name
    Ids,            \* the keys of GloblaActiveCmds
    IdOf,           \* the id of a stream
    LiveStreams,    \* the streams clients start and stop
    VodStreams,     \* the streams VOD jobs name
    Cmds,           \* the Cmd objects one life of the program may allocate
    NoCmd,          \* the nil *Cmd
    NoStream,       \* the stream of a Cmd that is not allocated yet
    Handlers,       \* the goroutines that serve HTTP requests
    Consumer,       \* the goroutine that serves VOD deliveries
    Serial          \* do clients wait for the answer before the next request
                    \* on the same id (mediamtx does, unless a call times out)

Threads == Handlers \cup {Consumer}

ASSUME RegistryConstants ==
    /\ IdOf \in [Streams -> Ids]
    /\ LiveStreams \subseteq Streams
    /\ VodStreams \subseteq Streams
    /\ NoCmd \notin Cmds
    /\ NoStream \notin Streams
    /\ Consumer \notin Handlers
    /\ Serial \in BOOLEAN

VARIABLES
    phase,      \* the program: running, walking the map to exit, gone
    owed,       \* the keys the shutdown loop may still visit
    registry,   \* GloblaActiveCmds
    stream,     \* the stream a Cmd was allocated for
    restart,    \* Cmd.restart
    run,        \* where the goroutine Cmd.run of a Cmd is
    os,         \* the last process this Cmd started
    process,    \* Cmd.Process: nil, the last process, or the one before it
    terminate,  \* is the channel Cmd.terminate closed
    pc, job, act, \* a thread's step, its stream, and its *Cmd
    dirs        \* the output/<namespace>/<id> directories that exist

cmdVars    == <<stream, restart, run, os, process, terminate>>
threadVars == <<pc, job, act>>
vars == <<phase, owed, registry, cmdVars, threadVars, dirs>>

Phases    == {"up", "signalled", "exited", "crashed"}
RunSteps  == {"free", "start", "record", "select", "reap", "pause", "returned"}
ThreadSteps == {"idle", "launch", "register", "insert", "wait",
                "lookup", "kill", "delete", "remove", "close"}

Init ==
    /\ phase = "up"
    /\ owed = {}
    /\ registry = [i \in Ids |-> NoCmd]
    /\ stream = [c \in Cmds |-> NoStream]
    /\ restart = [c \in Cmds |-> FALSE]
    /\ run = [c \in Cmds |-> "free"]
    /\ os = [c \in Cmds |-> "none"]
    /\ process = [c \in Cmds |-> "nil"]
    /\ terminate = [c \in Cmds |-> FALSE]
    /\ pc = [t \in Threads |-> "idle"]
    /\ job = [t \in Threads |-> NoStream]
    /\ act = [t \in Threads |-> NoCmd]
    /\ dirs = {}

Alive == phase \in {"up", "signalled"}
Allocated(c) == run[c] # "free"
KeyOf(c) == IdOf[stream[c]]

-----------------------------------------------------------------------------
(* Cmd.run and runOSSpecific: the goroutine that supervises a process.      *)

\* What a pass of the loop in run does with a result other than
\* errTerminated: return, or enter the pause before the next start.
AfterPass(c) == IF restart[c] THEN "pause" ELSE "returned"

\* cmd.Start succeeds.  Cmd.Process still holds the previous process.
StartProcess(c) ==
    /\ Alive /\ run[c] = "start"
    /\ run' = [run EXCEPT ![c] = "record"]
    /\ os' = [os EXCEPT ![c] = "running"]
    /\ process' = [process EXCEPT ![c] = IF @ = "nil" THEN "nil" ELSE "stale"]
    /\ UNCHANGED <<phase, owed, registry, stream, restart, terminate,
                   threadVars, dirs>>

\* The command line does not split, or cmd.Start fails: no process.
StartFails(c) ==
    /\ Alive /\ run[c] = "start"
    /\ run' = [run EXCEPT ![c] = AfterPass(c)]
    /\ UNCHANGED <<phase, owed, registry, stream, restart, os, process,
                   terminate, threadVars, dirs>>

\* e.Process = cmd.Process, and the waiter goroutine is started.
RecordProcess(c) ==
    /\ Alive /\ run[c] = "record"
    /\ run' = [run EXCEPT ![c] = "select"]
    /\ process' = [process EXCEPT ![c] = "current"]
    /\ UNCHANGED <<phase, owed, registry, stream, restart, os, terminate,
                   threadVars, dirs>>

\* External: ffmpeg ends, by itself or because of the SIGINT of
\* SelectTerminate.  It runs in a process group of its own, so it outlives
\* the program.
ProcessExits(c) ==
    /\ os[c] = "running"
    /\ os' = [os EXCEPT ![c] = "exited"]
    /\ UNCHANGED <<phase, owed, registry, stream, restart, run, process,
                   terminate, threadVars, dirs>>

\* select receives from cmdDone: the waiter has seen the process end.  The
\* exit code is dropped, so the result is nil.
SelectDone(c) ==
    /\ Alive /\ run[c] = "select" /\ os[c] = "exited"
    /\ run' = [run EXCEPT ![c] = AfterPass(c)]
    /\ UNCHANGED <<phase, owed, registry, stream, restart, os, process,
                   terminate, threadVars, dirs>>

\* Mutant: run returns after the SIGINT without waiting for cmdDone.
SelectTerminateNoWait(c) ==
    /\ Alive /\ run[c] = "select" /\ terminate[c]
    /\ run' = [run EXCEPT ![c] = "returned"]
    /\ UNCHANGED <<phase, owed, registry, stream, restart, os, process,
                   terminate, threadVars, dirs>>

\* select receives from terminate: SIGINT to the group.
SelectTerminate(c) ==
    /\ Alive /\ run[c] = "select" /\ terminate[c]
    /\ run' = [run EXCEPT ![c] = "reap"]
    /\ UNCHANGED <<phase, owed, registry, stream, restart, os, process,
                   terminate, threadVars, dirs>>

\* <-e.cmdDone, then errTerminated: run returns.
Reap(c) ==
    /\ Alive /\ run[c] = "reap" /\ os[c] = "exited"
    /\ run' = [run EXCEPT ![c] = "returned"]
    /\ UNCHANGED <<phase, owed, registry, stream, restart, os, process,
                   terminate, threadVars, dirs>>

\* The restart pause ends by its timer.  The goroutine is parked in the
\* select, so the first of the two events decides: once terminate is closed
\* the timer comes too late.
PauseElapsed(c) ==
    /\ Alive /\ run[c] = "pause" /\ ~terminate[c]
    /\ run' = [run EXCEPT ![c] = "start"]
    /\ UNCHANGED <<phase, owed, registry, stream, restart, os, process,
                   terminate, threadVars, dirs>>

\* The restart pause ends by terminate: run returns.
PauseTerminate(c) ==
    /\ Alive /\ run[c] = "pause" /\ terminate[c]
    /\ run' = [run EXCEPT ![c] = "returned"]
    /\ UNCHANGED <<phase, owed, registry, stream, restart, os, process,
                   terminate, threadVars, dirs>>

RunNext(c) ==
    \/ StartProcess(c) \/ StartFails(c) \/ RecordProcess(c)
    \/ SelectDone(c) \/ SelectTerminate(c) \/ Reap(c)
    \/ PauseElapsed(c) \/ PauseTerminate(c)

-----------------------------------------------------------------------------
(* Steps the request handlers and the consumer share.                       *)

Goto(t, step) == pc' = [pc EXCEPT ![t] = step]

\* The thread is done with its request: its local variables are gone.
Finish(t) ==
    /\ pc' = [pc EXCEPT ![t] = "idle"]
    /\ job' = [job EXCEPT ![t] = NoStream]
    /\ act' = [act EXCEPT ![t] = NoCmd]

\* A panic or a fault that nothing recovers.
Crash ==
    /\ phase' = "crashed"
    /\ UNCHANGED <<owed, registry, cmdVars, threadVars, dirs>>

\* Is another request on the id of stream s being served?
Busy(s) == \E t \in Handlers :
    pc[t] # "idle" /\ IdOf[job[t]] = IdOf[s]

\* Mutant: Cmds are pooled, and one whose goroutine returned is used again.
LaunchPooled(t, c) ==
    /\ Alive /\ pc[t] = "launch" /\ run[c] \in {"free", "returned"}
    /\ stream' = [stream EXCEPT ![c] = job[t]]
    /\ restart' = [restart EXCEPT ![c] = t # Consumer]
    /\ run' = [run EXCEPT ![c] = "start"]
    /\ act' = [act EXCEPT ![t] = c]
    /\ Goto(t, "register")
    /\ UNCHANGED <<phase, owed, registry, os, process, terminate, job, dirs>>

\* The first half of NewCmd: the object exists and its goroutine runs,
\* while the map does not know it yet.
Launch(t, c) ==
    /\ Alive /\ pc[t] = "launch" /\ ~Allocated(c)
    /\ stream' = [stream EXCEPT ![c] = job[t]]
    /\ restart' = [restart EXCEPT ![c] = t # Consumer]
    /\ run' = [run EXCEPT ![c] = "start"]
    /\ act' = [act EXCEPT ![t] = c]
    /\ Goto(t, "register")
    /\ UNCHANGED <<phase, owed, registry, os, process, terminate, job, dirs>>

\* Mutant: only commands that restart are entered in the map.
RegisterLiveOnly(t) ==
    /\ Alive /\ pc[t] = "register"
    /\ registry' = IF t = Consumer THEN registry
                   ELSE [registry EXCEPT ![IdOf[job[t]]] = act[t]]
    /\ Goto(t, IF t = Consumer THEN "wait" ELSE "insert")
    /\ UNCHANGED <<phase, owed, cmdVars, job, act, dirs>>

\* The second half of NewCmd: the map entry is written over whatever was
\* there.  A running shutdown loop may or may not come to the new entry.
Register(t) ==
    /\ Alive /\ pc[t] = "register"
    /\ registry' = [registry EXCEPT ![IdOf[job[t]]] = act[t]]
    /\ \/ owed' = owed
       \/ phase = "signalled" /\ owed' = owed \cup {IdOf[job[t]]}
    /\ Goto(t, IF t = Consumer THEN "wait" ELSE "insert")
    /\ UNCHANGED <<phase, cmdVars, job, act, dirs>>

\* Mutant: the entry of a stopped Cmd stays in the map.
DeleteForgotten(t) ==
    /\ Alive /\ pc[t] = "delete"
    /\ Goto(t, IF t = Consumer THEN "close" ELSE "remove")
    /\ UNCHANGED <<phase, owed, registry, cmdVars, job, act, dirs>>

\* delete(GloblaActiveCmds, id), whichever Cmd is there by now.
Delete(t) ==
    /\ Alive /\ pc[t] = "delete"
    /\ registry' = [registry EXCEPT ![IdOf[job[t]]] = NoCmd]
    /\ owed' = owed \ {IdOf[job[t]]}
    /\ Goto(t, IF t = Consumer THEN "close" ELSE "remove")
    /\ UNCHANGED <<phase, cmdVars, job, act, dirs>>

\* SIGINT to the group and SIGKILL to the process that Cmd.Process names.
Killed(c) == [os EXCEPT ![c] =
                IF process[c] = "current" /\ @ = "running" THEN "exited" ELSE @]

-----------------------------------------------------------------------------
(* StartHlsTranscode and StopHlsTranscode.                                  *)

\* A start request arrives and its output directories are made.
StartRequest(t, s) ==
    /\ Alive /\ t \in Handlers /\ pc[t] = "idle"
    /\ Serial => ~Busy(s)
    /\ Goto(t, "launch")
    /\ job' = [job EXCEPT ![t] = s]
    /\ dirs' = dirs \cup {s}
    /\ UNCHANGED <<phase, owed, registry, cmdVars, act>>

\* addLiveToDatabase, then the answer: 200, or 500 when the insert failed.
\* The transcoder is left running in both cases, and no operation of this
\* module reads the document.
InsertLive(t) ==
    /\ Alive /\ pc[t] = "insert"
    /\ Finish(t)
    /\ UNCHANGED <<phase, owed, registry, cmdVars, dirs>>

\* A stop request with an id and a namespace arrives.
StopRequest(t, s) ==
    /\ Alive /\ t \in Handlers /\ pc[t] = "idle"
    /\ Serial => ~Busy(s)
    /\ Goto(t, "lookup")
    /\ job' = [job EXCEPT ![t] = s]
    /\ UNCHANGED <<phase, owed, registry, cmdVars, act, dirs>>

\* Mutant: the handler does not look whether it found a Cmd.
StopLookupUnchecked(t) ==
    /\ Alive /\ t \in Handlers /\ pc[t] = "lookup"
    /\ act' = [act EXCEPT ![t] = registry[IdOf[job[t]]]]
    /\ Goto(t, "kill")
    /\ UNCHANGED <<phase, owed, registry, cmdVars, job, dirs>>

\* The handler reads the map; an unknown id is answered with 400.
StopLookup(t) ==
    /\ Alive /\ t \in Handlers /\ pc[t] = "lookup"
    /\ \/ /\ registry[IdOf[job[t]]] = NoCmd
          /\ Finish(t)
       \/ /\ registry[IdOf[job[t]]] # NoCmd
          /\ act' = [act EXCEPT ![t] = registry[IdOf[job[t]]]]
          /\ Goto(t, "kill")
          /\ UNCHANGED job
    /\ UNCHANGED <<phase, owed, registry, cmdVars, dirs>>

\* Mutant: Close is a last statement instead of a deferred call, so that the
\* panic skips it.
StopKillNoDefer(t) ==
    /\ Alive /\ t \in Handlers /\ pc[t] = "kill"
    /\ os' = Killed(act[t])
    /\ IF process[act[t]] = "nil" THEN Finish(t)
       ELSE Goto(t, "delete") /\ UNCHANGED <<job, act>>
    /\ UNCHANGED <<phase, owed, registry, stream, restart, run, process,
                   terminate, dirs>>

\* The process is killed; a nil Cmd.Process panics, which skips everything
\* but the deferred Close.
StopKill(t) ==
    /\ Alive /\ t \in Handlers /\ pc[t] = "kill"
    /\ os' = Killed(act[t])
    /\ Goto(t, IF process[act[t]] = "nil" THEN "close" ELSE "delete")
    /\ UNCHANGED <<phase, owed, registry, stream, restart, run, process,
                   terminate, job, act, dirs>>

\* os.RemoveAll of the directory the request names.
StopRemoveDir(t) ==
    /\ Alive /\ pc[t] = "remove"
    /\ dirs' = dirs \ {job[t]}
    /\ Goto(t, "close")
    /\ UNCHANGED <<phase, owed, registry, cmdVars, job, act>>

\* Mutant: the handler kills the process and never closes the Cmd.
StopWithoutClose(t) ==
    /\ Alive /\ t \in Handlers /\ pc[t] = "close"
    /\ Finish(t)
    /\ UNCHANGED <<phase, owed, registry, cmdVars, dirs>>

\* The deferred Close.  Closing the channel a second time panics, which
\* Recovery turns into a 500.
StopClose(t) ==
    /\ Alive /\ t \in Handlers /\ pc[t] = "close"
    /\ terminate' = [terminate EXCEPT ![act[t]] = TRUE]
    /\ Finish(t)
    /\ UNCHANGED <<phase, owed, registry, stream, restart, run, os, process,
                   dirs>>

HandlerNext(t) ==
    \/ \E c \in Cmds : Launch(t, c)
    \/ Register(t) \/ InsertLive(t)
    \/ StopLookup(t) \/ StopKill(t) \/ Delete(t) \/ StopRemoveDir(t)
    \/ StopClose(t)

-----------------------------------------------------------------------------
(* VodTranscoder.Run and onCompleteTranscode, on the consumer goroutine.    *)

\* A delivery arrives: the output directories are made, then the key files;
\* if those cannot be written the job ends with an error.
VodBegin(s) ==
    /\ Alive /\ pc[Consumer] = "idle"
    /\ dirs' = dirs \cup {s}
    /\ \/ Goto(Consumer, "launch") /\ job' = [job EXCEPT ![Consumer] = s]
       \/ UNCHANGED <<pc, job>>
    /\ UNCHANGED <<phase, owed, registry, cmdVars, act>>

\* cmdrunnerpool.Close: the pool holds this one Cmd.
VodWait ==
    /\ Alive /\ pc[Consumer] = "wait" /\ run[act[Consumer]] = "returned"
    /\ Goto(Consumer, "lookup")
    /\ UNCHANGED <<phase, owed, registry, cmdVars, job, act, dirs>>

\* onCompleteTranscode finds the Cmd by id again.
VodLookup ==
    /\ Alive /\ pc[Consumer] = "lookup"
    /\ registry[IdOf[job[Consumer]]] # NoCmd
    /\ act' = [act EXCEPT ![Consumer] = registry[IdOf[job[Consumer]]]]
    /\ Goto(Consumer, "kill")
    /\ UNCHANGED <<phase, owed, registry, cmdVars, job, dirs>>

VodKill ==
    /\ Alive /\ pc[Consumer] = "kill" /\ process[act[Consumer]] # "nil"
    /\ os' = Killed(act[Consumer])
    /\ Goto(Consumer, "delete")
    /\ UNCHANGED <<phase, owed, registry, stream, restart, run, process,
                   terminate, job, act, dirs>>

VodClose ==
    /\ Alive /\ pc[Consumer] = "close" /\ ~terminate[act[Consumer]]
    /\ terminate' = [terminate EXCEPT ![act[Consumer]] = TRUE]
    /\ Finish(Consumer)
    /\ UNCHANGED <<phase, owed, registry, stream, restart, run, os, process,
                   dirs>>

\* The consumer panics: no entry for the id, a Cmd without a process, or a
\* second Close.
VodPanics ==
    /\ Alive
    /\ \/ pc[Consumer] = "lookup" /\ registry[IdOf[job[Consumer]]] = NoCmd
       \/ pc[Consumer] = "kill" /\ process[act[Consumer]] = "nil"
       \/ pc[Consumer] = "close" /\ terminate[act[Consumer]]
    /\ Crash

ConsumerNext ==
    \/ \E c \in Cmds : Launch(Consumer, c)
    \/ Register(Consumer) \/ VodWait \/ VodLookup \/ VodKill
    \/ Delete(Consumer) \/ VodClose \/ VodPanics

-----------------------------------------------------------------------------
(* EnableGrafullyShutdown, and the runtime's check of map accesses.         *)

\* SIGINT or SIGTERM: the loop over the map begins.
Signal ==
    /\ phase = "up"
    /\ phase' = "signalled"
    /\ owed' = {i \in Ids : registry[i] # NoCmd}
    /\ UNCHANGED <<registry, cmdVars, threadVars, dirs>>

\* One round of the loop: Close, then the two kills.
ShutdownVisit(i) ==
    /\ phase = "signalled" /\ i \in owed
    /\ LET c == registry[i] IN
         /\ ~terminate[c] /\ process[c] # "nil"
         /\ terminate' = [terminate EXCEPT ![c] = TRUE]
         /\ os' = Killed(c)
    /\ owed' = owed \ {i}
    /\ UNCHANGED <<phase, registry, stream, restart, run, process,
                   threadVars, dirs>>

\* A round panics on a Cmd that is closed already or has no process yet.
ShutdownPanics(i) ==
    /\ phase = "signalled" /\ i \in owed
    /\ terminate[registry[i]] \/ process[registry[i]] = "nil"
    /\ Crash

\* os.RemoveAll("output") and os.Exit(0): every goroutine is gone.
ShutdownExit ==
    /\ phase = "signalled" /\ owed = {}
    /\ phase' = "exited"
    /\ dirs' = {}
    /\ UNCHANGED <<owed, registry, cmdVars, threadVars>>

Writing(t) == pc[t] \in {"register", "delete"}
Reading(t) == pc[t] = "lookup"

\* The map has no lock: a write next to another access may be caught by the
\* runtime, which then stops the program.
MapFault ==
    /\ Alive
    /\ \E t \in Threads :
         /\ Writing(t)
         /\ \/ phase = "signalled"
            \/ \E u \in Threads \ {t} : Writing(u) \/ Reading(u)
    /\ Crash

ShutdownNext ==
    \/ \E i \in Ids : ShutdownVisit(i) \/ ShutdownPanics(i)
    \/ ShutdownExit

-----------------------------------------------------------------------------
Next ==
    \/ \E c \in Cmds : RunNext(c) \/ ProcessExits(c)
    \/ \E t \in Handlers : HandlerNext(t)
    \/ \E t \in Handlers, s \in LiveStreams : StartRequest(t, s) \/ StopRequest(t, s)
    \/ \E s \in VodStreams : VodBegin(s)
    \/ ConsumerNext
    \/ Signal \/ ShutdownNext \/ MapFault

Spec == Init /\ [][Next]_vars

(***************************************************************************)
(* The goroutines of a live program, those of the Cmds and of the handlers, *)
(* are scheduled, and ffmpeg ends after the SIGINT of SelectTerminate.      *)
(* Nothing is assumed of the arrival of requests, jobs and signals, of the  *)
(* consumer and the shutdown loop, nor of an ffmpeg that nobody signalled.  *)
(***************************************************************************)
Fairness ==
    /\ \A c \in Cmds : WF_vars(RunNext(c))
    /\ \A c \in Cmds : WF_vars(run[c] = "reap" /\ ProcessExits(c))
    /\ \A t \in Handlers : WF_vars(HandlerNext(t))

FairSpec == Spec /\ Fairness

-----------------------------------------------------------------------------
(* Properties.                                                              *)

\* The steps at which a thread holds a Cmd.
HoldingSteps == {"register", "insert", "wait", "kill", "delete", "remove", "close"}

\* The type of every variable, of a thread's locals at each of its steps and
\* of the entries the shutdown loop is about to dereference.
TypeOK ==
    /\ phase \in Phases
    /\ owed \subseteq Ids
    /\ registry \in [Ids -> Cmds \cup {NoCmd}]
    /\ stream \in [Cmds -> Streams \cup {NoStream}]
    /\ restart \in [Cmds -> BOOLEAN]
    /\ run \in [Cmds -> RunSteps]
    /\ os \in [Cmds -> {"none", "running", "exited"}]
    /\ process \in [Cmds -> {"nil", "current", "stale"}]
    /\ terminate \in [Cmds -> BOOLEAN]
    /\ pc \in [Threads -> ThreadSteps]
    /\ job \in [Threads -> Streams \cup {NoStream}]
    /\ act \in [Threads -> Cmds \cup {NoCmd}]
    /\ dirs \subseteq Streams
    /\ \A t \in Threads : pc[t] # "idle" => job[t] \in Streams
    /\ \A t \in Threads : pc[t] \in HoldingSteps => act[t] \in Cmds
    /\ \A i \in owed : registry[i] # NoCmd

\* No ffmpeg runs unattended: while a process runs, the goroutine of its Cmd
\* is between the cmd.Start that made it and the receive from cmdDone that
\* ends its pass; run never returns or restarts over a live process.
SupervisedProcesses ==
    \A c \in Cmds : os[c] = "running" => run[c] \in {"record", "select", "reap"}

\* The map, the threads and the Cmds agree on ids: an entry of the map, and
\* the Cmd a thread holds, was made for a stream with the id it is used
\* under, and only Cmds that exist are closed.
RegistryConsistent ==
    /\ \A c \in Cmds : Allocated(c) => stream[c] \in Streams
    /\ \A c \in Cmds : terminate[c] => Allocated(c)
    /\ \A i \in Ids : registry[i] # NoCmd =>
         Allocated(registry[i]) /\ KeyOf(registry[i]) = i
    /\ \A t \in Threads : pc[t] \in HoldingSteps =>
         Allocated(act[t]) /\ KeyOf(act[t]) = IdOf[job[t]]

\* Can anybody still stop Cmd c?  It was told to stop, or the map or a
\* thread that will register or close it still holds it.
Reachable(c) ==
    \/ terminate[c]
    \/ registry[KeyOf(c)] = c
    \/ \E t \in Threads :
         /\ act[t] = c
         /\ pc[t] \in {"register", "kill", "delete", "remove", "close"}

\* The map forgets a Cmd that nobody closed only when two Cmds were made
\* with one id: the second overwrote the first, or the stop of the first
\* deleted the second.
OrphanNeedsTwin ==
    \A c \in Cmds : Allocated(c) /\ ~Reachable(c) =>
        \E d \in Cmds \ {c} : Allocated(d) /\ KeyOf(d) = KeyOf(c)

\* When VOD ids and live ids do not meet, the consumer finds its own Cmd when
\* onCompleteTranscode looks the id up again after the wait.
ConsumerFindsItsCmd ==
    \A s \in VodStreams :
        /\ \A l \in LiveStreams : IdOf[l] # IdOf[s]
        /\ pc[Consumer] = "lookup" /\ job[Consumer] = s
        => registry[IdOf[s]] = act[Consumer]

\* With clients that wait for the answer, the output directory of a
\* registered live transcode is there whenever no request on its id is
\* being served.
OutputDirPresent ==
    \A c \in Cmds :
        (/\ Alive /\ Serial
         /\ Allocated(c) /\ restart[c] /\ registry[KeyOf(c)] = c
         /\ ~Busy(stream[c]))
        => stream[c] \in dirs

\* A stop request that found its Cmd ends it: the goroutine of that Cmd
\* returns, with no process left, unless the program itself goes away.
StopEndsCmd ==
    \A c \in Cmds :
        (\E t \in Handlers : pc[t] = "kill" /\ act[t] = c)
        ~> ((run[c] = "returned" /\ os[c] # "running") \/ ~Alive)

\* The comment in EnableGrafullyShutdown says its loop kills all running
\* processes, in order to avoid ghost processes.  After the exit no process
\* is left running, those set aside that a request overtaken by the signal
\* had just made: their Cmd is in the map or in the hands of that request.
ShutdownLeavesNoGhost ==
    phase = "exited" =>
        \A c \in Cmds : os[c] = "running" =>
            \/ registry[KeyOf(c)] = c
            \/ \E t \in Threads : act[t] = c
=============================================================================
