------------------------------ MODULE CoreConf ------------------------------
(***************************************************************************)
(* The two copies of mediamtx's configuration: the one Core applies        *)
(* (core.go, run) and the one the API edits (internal/api/api.go), kept    *)
(* equal by three kinds of message: the file watcher's signal              *)
(* (internal/confwatcher), Core's call of api.ReloadConf, which takes the  *)
(* API's mutex, and the API's call of Parent.APIConfigSet, which waits for *)
(* Core's loop: with the mutex held in the handlers of path and path       *)
(* default changes, in a goroutine of its own after a global change.       *)
(*                                                                         *)
(* A configuration is the version of the file it started from and the set  *)
(* of API requests whose edits it contains.  A global edit, and another    *)
(* file, may change an option that makes Core close the API and create a   *)
(* new one; requests in progress then go on with the old one (httpServer's *)
(* Close does not wait for them).                                          *)
(***************************************************************************)
EXTENDS Naturals

CONSTANTS GlobalPatches,  \* requests to onConfigGlobalPatch
          PathPatches,    \* requests to the handlers of path changes
          MaxWrites,      \* bound on the writes to the configuration file
          MaxApis         \* bound on how often Core creates the API

ASSUME CcBounds == MaxWrites \in Nat /\ MaxApis \in Nat \ {0}

VARIABLES ccFile,     \* version of the configuration file
          ccEvent,    \* a notification of the file system waits for the watcher
          ccRecent,   \* the watcher's last signal is less than minInterval old
          ccWatch,    \* the watcher: "idle", "signalling" or "closed"
          ccCore,     \* Core's loop: "select", "mutex" or "done"
          ccNew,      \* the configuration Core is giving to the API
          ccConf,     \* p.conf
          ccApi,      \* API instance |-> its Conf
          ccOwner,    \* API instance |-> the request holding its mutex, or NoOwner
          ccGen,      \* the current API instance
          ccReq,      \* request |-> where it stands
          ccRaced     \* history: a change began while another was on its way

ccVars == <<ccFile, ccEvent, ccRecent, ccWatch, ccCore, ccNew, ccConf, ccApi,
            ccOwner, ccGen, ccReq, ccRaced>>

Requests == GlobalPatches \cup PathPatches
NoOwner == "none"
Confs == [file : 0 .. MaxWrites, edits : SUBSET Requests]
FileConf == [file |-> ccFile, edits |-> {}]

ConfInit ==
    /\ ccFile = 0 /\ ccEvent = FALSE /\ ccRecent = FALSE /\ ccWatch = "idle"
    /\ ccCore = "select" /\ ccGen = 1 /\ ccRaced = FALSE
    /\ ccConf = FileConf /\ ccNew = FileConf
    /\ ccApi = [g \in 1 .. MaxApis |-> FileConf]
    /\ ccOwner = [g \in 1 .. MaxApis |-> NoOwner]
    /\ ccReq = [r \in Requests |-> [pc |-> "idle", gen |-> 0, conf |-> FileConf]]

Sending == {r \in Requests : ccReq[r].pc = "sending"}
InFlight == Sending # {} \/ ccWatch = "signalling" \/ ccCore = "mutex"

-----------------------------------------------------------------------------
\* The configuration file and its watcher.

WriteFile ==
    /\ ccFile < MaxWrites
    /\ ccFile' = ccFile + 1 /\ ccEvent' = TRUE
    /\ UNCHANGED <<ccRecent, ccWatch, ccCore, ccNew, ccConf, ccApi, ccOwner, ccGen,
                   ccReq, ccRaced>>

\* ConfWatcher.run: an event too close to the last signal is thrown away.
WatchEvent ==
    /\ ccWatch = "idle" /\ ccEvent
    /\ ccEvent' = FALSE
    /\ IF ccRecent THEN UNCHANGED <<ccWatch, ccRecent, ccRaced>>
       ELSE /\ ccWatch' = "signalling" /\ ccRecent' = TRUE
            /\ ccRaced' = (ccRaced \/ InFlight)
    /\ UNCHANGED <<ccFile, ccCore, ccNew, ccConf, ccApi, ccOwner, ccGen, ccReq>>

\* minInterval has passed since the last signal was given.
WatchInterval ==
    /\ ccRecent
    /\ ccRecent' = FALSE
    /\ UNCHANGED <<ccFile, ccEvent, ccWatch, ccCore, ccNew, ccConf, ccApi, ccOwner,
                   ccGen, ccReq, ccRaced>>

\* An error of the notifier ends the watcher, and its closed channel is always
\* ready: Core's loop loads the file whenever it chooses that case.
WatchError ==
    /\ ccWatch = "idle"
    /\ ccWatch' = "closed"
    /\ UNCHANGED <<ccFile, ccEvent, ccRecent, ccCore, ccNew, ccConf, ccApi, ccOwner,
                   ccGen, ccReq, ccRaced>>

-----------------------------------------------------------------------------
\* Core's loop.

\* Whether going from one configuration to another can make closeAPI true.
MayRecreate(from, to) ==
    \/ from.file # to.file
    \/ ((from.edits \ to.edits) \cup (to.edits \ from.edits)) \cap GlobalPatches # {}

\* Mutant: the API is created from the configuration that is being replaced.
RecreateApiFromOld(new) ==
    /\ ccGen < MaxApis /\ MayRecreate(ccConf, new)
    /\ ccGen' = ccGen + 1
    /\ ccApi' = [ccApi EXCEPT ![ccGen + 1] = ccConf]
    /\ ccCore' = "select" /\ ccConf' = new /\ UNCHANGED ccNew

\* reloadConf closes the API and creates it with the new configuration.
RecreateApi(new) ==
    /\ ccGen < MaxApis /\ MayRecreate(ccConf, new)
    /\ ccGen' = ccGen + 1
    /\ ccApi' = [ccApi EXCEPT ![ccGen + 1] = new]
    /\ ccCore' = "select" /\ ccConf' = new /\ UNCHANGED ccNew

\* The file changed: it is loaded, and an API that stays is given the result.
FileReload ==
    /\ ccCore = "select" /\ ccWatch \in {"signalling", "closed"}
    /\ ccWatch' = IF ccWatch = "signalling" THEN "idle" ELSE ccWatch
    /\ ccRaced' = (ccRaced \/ Sending # {})
    /\ \/ RecreateApi(FileConf)
       \/ /\ ccCore' = "mutex" /\ ccNew' = FileConf
          /\ UNCHANGED <<ccConf, ccApi, ccGen>>
    /\ UNCHANGED <<ccFile, ccEvent, ccRecent, ccOwner, ccReq>>

\* api.ReloadConf gets the mutex; Core goes on to its own copy.
ReloadApiConf ==
    /\ ccCore = "mutex" /\ ccOwner[ccGen] = NoOwner
    /\ ccApi' = [ccApi EXCEPT ![ccGen] = ccNew]
    /\ ccConf' = ccNew /\ ccCore' = "select"
    /\ UNCHANGED <<ccFile, ccEvent, ccRecent, ccWatch, ccNew, ccOwner, ccGen, ccReq,
                   ccRaced>>

\* A file that does not load, a component that cannot be created, the
\* interrupt, Close.
CoreEnds ==
    /\ ccCore = "select"
    /\ ccCore' = "done"
    /\ UNCHANGED <<ccFile, ccEvent, ccRecent, ccWatch, ccNew, ccConf, ccApi, ccOwner,
                   ccGen, ccReq, ccRaced>>

Unlock(r) == [ccOwner EXCEPT ![ccReq[r].gen] = IF @ = r THEN NoOwner ELSE @]

\* Core receives what a request sends; it does not call the API back
\* ("avoid a loop").
ApiReload(r) ==
    /\ ccCore = "select" /\ r \in Sending
    /\ ccReq' = [ccReq EXCEPT ![r].pc = "done"]
    /\ ccOwner' = Unlock(r)
    /\ \/ RecreateApi(ccReq[r].conf)
       \/ /\ ccConf' = ccReq[r].conf
          /\ UNCHANGED <<ccApi, ccGen, ccCore, ccNew>>
    /\ ccRaced' = (ccRaced \/ ccReq[r].gen # ccGen)
    /\ UNCHANGED <<ccFile, ccEvent, ccRecent, ccWatch>>

-----------------------------------------------------------------------------
\* The handlers of the API.

\* A request reaches an API instance and waits for its mutex.
Arrive(r) ==
    /\ ccReq[r].pc = "idle" /\ ccCore # "done"
    /\ ccReq' = [ccReq EXCEPT ![r].pc = "lock", ![r].gen = ccGen]
    /\ UNCHANGED <<ccFile, ccEvent, ccRecent, ccWatch, ccCore, ccNew, ccConf, ccApi,
                   ccOwner, ccGen, ccRaced>>

\* With the mutex: clone, patch, validate, and keep the result.
Edit(r) ==
    LET g == ccReq[r].gen
        new == [ccApi[g] EXCEPT !.edits = @ \cup {r}]
    IN /\ ccReq[r].pc = "lock" /\ ccOwner[g] = NoOwner
       /\ ccApi' = [ccApi EXCEPT ![g] = new]
       /\ ccReq' = [ccReq EXCEPT ![r].pc = "sending", ![r].conf = new]
       /\ ccRaced' = (ccRaced \/ InFlight)

\* onConfigGlobalPatch: a goroutine sends, the handler answers at once.
PatchGlobal(r) ==
    /\ r \in GlobalPatches /\ Edit(r)
    /\ UNCHANGED <<ccFile, ccEvent, ccRecent, ccWatch, ccCore, ccNew, ccConf, ccOwner, ccGen>>

\* onConfigPathDefaultsPatch: the handler sends, with the mutex held.
PatchPathDefaults(r) ==
    /\ r \in PathPatches /\ Edit(r)
    /\ ccOwner' = [ccOwner EXCEPT ![ccReq[r].gen] = r]
    /\ UNCHANGED <<ccFile, ccEvent, ccRecent, ccWatch, ccCore, ccNew, ccConf, ccGen>>

\* onConfigPathsAdd, Patch, Replace, Delete: as for the path defaults.
PatchPaths(r) == PatchPathDefaults(r)

\* A body that does not decode, a path that is not there, a configuration
\* that does not validate: nothing was changed.
RefuseEdit(r) ==
    /\ ccReq[r].pc = "lock" /\ ccOwner[ccReq[r].gen] = NoOwner
    /\ ccReq' = [ccReq EXCEPT ![r].pc = "done"]
    /\ UNCHANGED <<ccFile, ccEvent, ccRecent, ccWatch, ccCore, ccNew, ccConf, ccApi,
                   ccOwner, ccGen, ccRaced>>

\* APIConfigSet gives up when Core's context is done.
GiveUpSending(r) ==
    /\ r \in Sending /\ ccCore = "done"
    /\ ccReq' = [ccReq EXCEPT ![r].pc = "done"]
    /\ ccOwner' = Unlock(r)
    /\ UNCHANGED <<ccFile, ccEvent, ccRecent, ccWatch, ccCore, ccNew, ccConf, ccApi,
                   ccGen, ccRaced>>

ConfNext ==
    \/ WriteFile \/ WatchEvent \/ WatchInterval \/ WatchError
    \/ FileReload \/ ReloadApiConf \/ CoreEnds
    \/ \E r \in Requests : \/ Arrive(r) \/ PatchGlobal(r) \/ PatchPaths(r)
                           \/ RefuseEdit(r) \/ ApiReload(r) \/ GiveUpSending(r)

ConfSpec == ConfInit /\ [][ConfNext]_ccVars

-----------------------------------------------------------------------------

ConfTypeOK ==
    /\ ccFile \in 0 .. MaxWrites /\ ccGen \in 1 .. MaxApis
    /\ {ccEvent, ccRecent, ccRaced} \subseteq BOOLEAN
    /\ ccWatch \in {"idle", "signalling", "closed"}
    /\ ccCore \in {"select", "mutex", "done"}
    /\ ccConf \in Confs /\ ccNew \in Confs
    /\ ccApi \in [1 .. MaxApis -> Confs]
    /\ ccOwner \in [1 .. MaxApis -> Requests \cup {NoOwner}]
    /\ ccReq \in [Requests -> [pc : {"idle", "lock", "sending", "done"},
                               gen : 0 .. MaxApis, conf : Confs]]

\* The API and Core agree again once everything sent has arrived, whatever the
\* order of file changes, edits and re-creations of the API, unless one change
\* began while another was on its way: only such a race (two global patches
\* delivered in the other order, a file loaded between an edit and its
\* delivery, an edit through an API that was closed) makes them differ.
DivergenceNeedsRace ==
    (~InFlight /\ ccCore # "done" /\ ~ccRaced) => ccApi[ccGen] = ccConf

\* What the comment "avoid a loop" (core.go, closeResources) and the goroutine
\* of onConfigGlobalPatch are for: Core and a handler never wait for each
\* other, Core for the mutex and its holder for Core's loop.
NoMutualWait ==
    ~(ccCore = "mutex" /\ ccOwner[ccGen] \in Sending)
=============================================================================
