----------------------------- MODULE PathManager -----------------------------
(***************************************************************************)
(* mediamtx's path manager (internal/core/path_manager.go): one loop that  *)
(* owns the index of paths, creates a path for the first request of its    *)
(* name, applies new path configurations, and forgets a path that closes   *)
(* itself.  A path is seen here from outside: module Path has its inside.  *)
(*                                                                         *)
(* The loop and the goroutine of a path may wait for each other: the loop  *)
(* in pa.wait() while a configuration is reloaded, the path in pathReady,  *)
(* pathNotReady and closePath.                                             *)
(***************************************************************************)
EXTENDS Naturals

CONSTANTS PathNames,    \* names that clients ask for
          MaxPathObjs,  \* bound on the path objects created
          MaxConfLoads  \* bound on the configurations received

ASSUME PmConstants ==
    /\ PathNames # {} /\ "all_others" \notin PathNames
    /\ MaxPathObjs \in Nat \ {0} /\ MaxConfLoads \in Nat

VARIABLES pmConfs,    \* configuration name |-> its version, or Absent
          pmNew,      \* the configurations being applied
          pmPaths,    \* pm.paths: name |-> path object, or 0
          pmByConf,   \* pm.pathsByConf: configuration name |-> its path objects
          pmTodo,     \* path objects that doReloadConf has still to end
          pmWait,     \* the path object the loop waits for in pa.wait(), or 0
          pmStage,    \* the loop: "loop", "reload" or "end"
          pmLoads,    \* how many configurations were received
          pmObj,      \* path object |-> what it is and where its goroutine stands
          pmTold,     \* go pa.reloadConf(newPath): <<object, version>> on their way
          pmUsers,    \* path object |-> how many clients it serves
          pmMixed     \* history: a configuration was received with others on their way

pmVars == <<pmConfs, pmNew, pmPaths, pmByConf, pmTodo, pmWait, pmStage, pmLoads,
            pmObj, pmTold, pmUsers, pmMixed>>

Objs == 1 .. MaxPathObjs
\* One name may have a configuration of its own; "all_others" matches the rest.
Catchall == "all_others"
ConfNames == PathNames \cup {Catchall}
\* hard counts the changes that need a new path, soft the others
\* (pathConfCanBeUpdated: Record and the camera's settings).
Versions == [hard : 0 .. MaxConfLoads, soft : 0 .. MaxConfLoads]
Absent == [hard |-> MaxConfLoads + 1, soft |-> 0]
NoObj == [name |-> "", conf |-> Catchall, ver |-> Absent, st |-> "unborn"]

Configured(confs) == {c \in ConfNames : confs[c] # Absent}

\* conf.FindPathConf: the configuration with the path's name, else the catchall.
FindPathConf(confs, n) == IF confs[n] # Absent THEN n ELSE Catchall

Unborn == {i \in Objs : pmObj[i].st = "unborn"}
Fresh == CHOOSE i \in Objs : i \in Unborn
CanCreate == Unborn # {}
\* An object of its own for each of the names.
Assignments(names) == {f \in [names -> Unborn] : \A a, b \in names : f[a] = f[b] => a = b}

PathObj(n, c, v) == [name |-> n, conf |-> c, ver |-> v, st |-> "run"]

\* initialize: the path of the first name is configured by its name.
PmInit ==
    LET own == CHOOSE n \in PathNames : TRUE
        v0 == [hard |-> 0, soft |-> 0]
    IN /\ pmConfs = [c \in ConfNames |-> IF c \in {own, Catchall} THEN v0 ELSE Absent]
       /\ pmNew = pmConfs
       /\ pmObj = [i \in Objs |-> IF i = 1 THEN PathObj(own, own, v0) ELSE NoObj]
       /\ pmPaths = [n \in PathNames |-> IF n = own THEN 1 ELSE 0]
       /\ pmByConf = [c \in ConfNames |-> IF c = own THEN {1} ELSE {}]
       /\ pmTodo = {} /\ pmWait = 0 /\ pmStage = "loop" /\ pmLoads = 0
       /\ pmTold = {} /\ pmUsers = [i \in Objs |-> 0] /\ pmMixed = FALSE

-----------------------------------------------------------------------------

\* removePath
Forget(i) ==
    /\ pmByConf' = [pmByConf EXCEPT ![pmObj[i].conf] = @ \ {i}]
    /\ pmPaths' = [pmPaths EXCEPT ![pmObj[i].name] = 0]

\* doReloadConf begins: paths whose configuration changed are told of it, in
\* a goroutine each, or are to be ended, as are those whose configuration is gone.
ReceiveConf(new) ==
    LET changed == {c \in Configured(pmConfs) : new[c] # pmConfs[c]}
        updatable == {c \in changed : new[c].hard = pmConfs[c].hard}
    IN /\ pmStage = "loop" /\ pmLoads < MaxConfLoads
       /\ new # pmConfs
       /\ pmLoads' = pmLoads + 1 /\ pmStage' = "reload" /\ pmNew' = new
       /\ pmTold' = pmTold \cup UNION {{<<i, new[c]>> : i \in pmByConf[c]} : c \in updatable}
       /\ pmTodo' = UNION {pmByConf[c] : c \in changed \ updatable}
       /\ pmMixed' = (pmMixed \/ pmTold # {})
       /\ UNCHANGED <<pmConfs, pmPaths, pmByConf, pmWait, pmObj, pmUsers>>

\* Mutant: the loop does not wait for the path to end.
EndPathNoWait(i) ==
    /\ pmStage = "reload" /\ pmWait = 0 /\ i \in pmTodo
    /\ Forget(i)
    /\ pmTodo' = pmTodo \ {i}
    /\ pmObj' = [pmObj EXCEPT ![i].st = IF @ \in {"run", "notify", "leaving"}
                                        THEN "cancelled" ELSE @]
    /\ UNCHANGED <<pmConfs, pmNew, pmWait, pmStage, pmLoads, pmTold, pmUsers, pmMixed>>

\* Mutant: pathReady does not watch the path's context.
EndPathStuck(i) ==
    /\ pmStage = "reload" /\ pmWait = 0 /\ i \in pmTodo
    /\ Forget(i)
    /\ pmTodo' = pmTodo \ {i}
    /\ pmObj' = [pmObj EXCEPT ![i].st = IF @ \in {"run", "leaving"} THEN "cancelled" ELSE @]
    /\ pmWait' = i
    /\ UNCHANGED <<pmConfs, pmNew, pmStage, pmLoads, pmTold, pmUsers, pmMixed>>

\* One of them: removePath, close (its context is cancelled), and wait.
EndPath(i) ==
    /\ pmStage = "reload" /\ pmWait = 0 /\ i \in pmTodo
    /\ Forget(i)
    /\ pmTodo' = pmTodo \ {i}
    /\ pmObj' = [pmObj EXCEPT ![i].st = IF @ \in {"run", "notify", "leaving"}
                                        THEN "cancelled" ELSE @]
    /\ pmWait' = i
    /\ UNCHANGED <<pmConfs, pmNew, pmStage, pmLoads, pmTold, pmUsers, pmMixed>>

PathEnded ==
    /\ pmWait # 0 /\ pmObj[pmWait].st = "gone"
    /\ pmWait' = 0
    /\ UNCHANGED <<pmConfs, pmNew, pmPaths, pmByConf, pmTodo, pmStage, pmLoads, pmObj,
                   pmTold, pmUsers, pmMixed>>

\* doReloadConf ends: the new configurations count, and those without a
\* regular expression get their path if none has the name.
FinishReload ==
    LET new == {n \in PathNames : pmNew[n] # Absent /\ pmPaths[n] = 0}
        obj == CHOOSE f \in Assignments(new) : TRUE
    IN /\ pmStage = "reload" /\ pmTodo = {} /\ pmWait = 0
       /\ Assignments(new) # {}
       /\ pmStage' = "loop" /\ pmConfs' = pmNew
       /\ pmObj' = [i \in Objs |->
                      IF \E n \in new : obj[n] = i
                      THEN LET n == CHOOSE n \in new : obj[n] = i IN PathObj(n, n, pmNew[n])
                      ELSE pmObj[i]]
       /\ pmPaths' = [n \in PathNames |-> IF n \in new THEN obj[n] ELSE pmPaths[n]]
       /\ pmByConf' = [c \in ConfNames |->
                         IF c \in new THEN pmByConf[c] \cup {obj[c]} ELSE pmByConf[c]]
       /\ UNCHANGED <<pmNew, pmTodo, pmWait, pmLoads, pmTold, pmUsers, pmMixed>>

\* doDescribe, doAddReader, doAddPublisher: the path is created if there is
\* none, and serves the client once it has the answer.  Without a matching
\* configuration, or permission, nothing happens.
FindOrCreate(n) ==
    LET c == FindPathConf(pmConfs, n) IN
    /\ pmStage = "loop" /\ pmConfs[c] # Absent
    /\ IF pmPaths[n] # 0 THEN UNCHANGED <<pmObj, pmPaths, pmByConf>>
       ELSE /\ CanCreate
            /\ pmObj' = [pmObj EXCEPT ![Fresh] = PathObj(n, c, pmConfs[c])]
            /\ pmPaths' = [pmPaths EXCEPT ![n] = Fresh]
            /\ pmByConf' = [pmByConf EXCEPT ![c] = @ \cup {Fresh}]
    /\ LET i == pmPaths'[n]
       IN pmUsers' = IF pmObj'[i].st = "run" /\ pmUsers[i] = 0
                     THEN [pmUsers EXCEPT ![i] = 1] ELSE pmUsers
    /\ UNCHANGED <<pmConfs, pmNew, pmTodo, pmWait, pmStage, pmLoads, pmTold, pmMixed>>

\* doClosePath: the path the loop knows under that name may be another one.
ClosePath(i) ==
    /\ pmStage = "loop" /\ pmObj[i].st = "leaving"
    /\ IF pmPaths[pmObj[i].name] = i THEN Forget(i) ELSE UNCHANGED <<pmPaths, pmByConf>>
    /\ pmObj' = [pmObj EXCEPT ![i].st = "ending"]
    /\ UNCHANGED <<pmConfs, pmNew, pmTodo, pmWait, pmStage, pmLoads, pmTold, pmUsers, pmMixed>>

\* doPathReady, doPathNotReady: the HLS server is told.
PathNotifies(i) ==
    /\ pmStage = "loop" /\ pmObj[i].st = "notify"
    /\ pmObj' = [pmObj EXCEPT ![i].st = "run"]
    /\ UNCHANGED <<pmConfs, pmNew, pmPaths, pmByConf, pmTodo, pmWait, pmStage, pmLoads,
                   pmTold, pmUsers, pmMixed>>

\* close: the contexts of all paths derive from the manager's.
ManagerEnds ==
    /\ pmStage = "loop"
    /\ pmStage' = "end"
    /\ pmObj' = [i \in Objs |-> IF pmObj[i].st \in {"run", "notify", "leaving"}
                                THEN [pmObj[i] EXCEPT !.st = "cancelled"] ELSE pmObj[i]]
    /\ UNCHANGED <<pmConfs, pmNew, pmPaths, pmByConf, pmTodo, pmWait, pmLoads, pmTold,
                   pmUsers, pmMixed>>

-----------------------------------------------------------------------------
\* The goroutines of the paths.

\* setReady and setNotReady call the manager.
PathChanges(i) ==
    /\ pmObj[i].st = "run" /\ pmUsers[i] > 0
    /\ pmObj' = [pmObj EXCEPT ![i].st = "notify"]
    /\ UNCHANGED <<pmConfs, pmNew, pmPaths, pmByConf, pmTodo, pmWait, pmStage, pmLoads,
                   pmTold, pmUsers, pmMixed>>

UserLeaves(i) ==
    /\ pmObj[i].st = "run" /\ pmUsers[i] > 0
    /\ pmUsers' = [pmUsers EXCEPT ![i] = 0]
    /\ UNCHANGED <<pmConfs, pmNew, pmPaths, pmByConf, pmTodo, pmWait, pmStage, pmLoads,
                   pmObj, pmTold, pmMixed>>

\* shouldClose: a path of a regular expression that serves nobody.
PathLeaves(i) ==
    /\ pmObj[i].st = "run" /\ pmUsers[i] = 0 /\ pmObj[i].conf = Catchall
    /\ pmObj' = [pmObj EXCEPT ![i].st = "leaving"]
    /\ UNCHANGED <<pmConfs, pmNew, pmPaths, pmByConf, pmTodo, pmWait, pmStage, pmLoads,
                   pmTold, pmUsers, pmMixed>>

\* The end of run: what was waiting for the manager gives up when the path's
\* context is cancelled ("in case pathManager is blocked by path.wait()").
PathGone(i) ==
    /\ pmObj[i].st \in {"cancelled", "ending"}
    /\ pmObj' = [pmObj EXCEPT ![i].st = "gone"]
    /\ pmUsers' = [pmUsers EXCEPT ![i] = 0]
    /\ UNCHANGED <<pmConfs, pmNew, pmPaths, pmByConf, pmTodo, pmWait, pmStage, pmLoads,
                   pmTold, pmMixed>>

\* Mutant: the path keeps the configuration it has.
ReloadReachesNobody(t) ==
    /\ t \in pmTold /\ pmObj[t[1]].st \in {"run", "cancelled", "ending", "gone"}
    /\ pmTold' = pmTold \ {t}
    /\ UNCHANGED <<pmConfs, pmNew, pmPaths, pmByConf, pmTodo, pmWait, pmStage, pmLoads,
                   pmObj, pmUsers, pmMixed>>

\* A goroutine delivers a configuration to its path, or finds it ended.
ReloadReaches(t) ==
    /\ t \in pmTold /\ pmObj[t[1]].st \in {"run", "cancelled", "ending", "gone"}
    /\ pmTold' = pmTold \ {t}
    /\ pmObj' = IF pmObj[t[1]].st = "run" THEN [pmObj EXCEPT ![t[1]].ver = t[2]] ELSE pmObj
    /\ UNCHANGED <<pmConfs, pmNew, pmPaths, pmByConf, pmTodo, pmWait, pmStage, pmLoads,
                   pmUsers, pmMixed>>

\* A configuration in which one entry is removed, added or changed.
NextConfs == {[pmConfs EXCEPT ![c] = v] : c \in ConfNames,
                v \in {Absent} \cup
                      {[hard |-> h, soft |-> s] : h, s \in {0, pmLoads + 1}}}

\* What the loop and the paths do without a client or a new configuration.
PmProgress ==
    \/ PathEnded \/ FinishReload
    \/ \E i \in Objs : EndPath(i) \/ ClosePath(i) \/ PathNotifies(i) \/ PathGone(i)

PmNext ==
    \/ PmProgress \/ ManagerEnds
    \/ \E new \in NextConfs : ReceiveConf(new)
    \/ \E n \in PathNames : FindOrCreate(n)
    \/ \E i \in Objs : PathChanges(i) \/ UserLeaves(i) \/ PathLeaves(i)
    \/ \E t \in pmTold : ReloadReaches(t)

PmSpec == PmInit /\ [][PmNext]_pmVars /\ WF_pmVars(PmProgress)

-----------------------------------------------------------------------------

PathStates == {"unborn", "run", "notify", "leaving", "cancelled", "ending", "gone"}

PathRecords == [name : PathNames \cup {""}, conf : ConfNames,
                ver : Versions \cup {Absent}, st : PathStates]

PmTypeOK ==
    /\ pmConfs \in [ConfNames -> Versions \cup {Absent}]
    /\ pmNew \in [ConfNames -> Versions \cup {Absent}]
    /\ pmPaths \in [PathNames -> 0 .. MaxPathObjs]
    /\ pmByConf \in [ConfNames -> SUBSET Objs]
    /\ pmTodo \subseteq Objs /\ pmWait \in 0 .. MaxPathObjs
    /\ pmStage \in {"loop", "reload", "end"} /\ pmLoads \in 0 .. MaxConfLoads
    /\ pmObj \in [Objs -> PathRecords]
    /\ pmTold \subseteq Objs \X (Versions \cup {Absent})
    /\ pmMixed \in BOOLEAN /\ pmUsers \in [Objs -> 0 .. 1]

\* The index never keeps a path whose goroutine is over (its name could not be
\* served again), both maps hold the same objects, and no two objects of one
\* name run at a time with a source, which pa.wait() is there to prevent
\* ("avoid conflicts between sources").
PathIndexSound ==
    /\ pmStage # "end" =>
         \A n \in PathNames : pmPaths[n] # 0 => pmObj[pmPaths[n]].st \notin {"ending", "gone"}
    /\ UNION {pmByConf[c] : c \in ConfNames} = {pmPaths[n] : n \in PathNames} \ {0}
    /\ \A i, j \in Objs : (/\ {pmObj[i].st, pmObj[j].st} \subseteq {"run", "notify", "cancelled"}
                           /\ pmObj[i].name = pmObj[j].name) => i = j

\* Unless two new configurations overlapped (their goroutines may then reach
\* the path in either order), a path ends up with the manager's version of its
\* configuration.
PathConfCurrent ==
    (pmStage = "loop" /\ pmTold = {} /\ ~pmMixed) =>
        \A n \in PathNames : (pmPaths[n] # 0 /\ pmObj[pmPaths[n]].st = "run") =>
            pmObj[pmPaths[n]].ver = pmConfs[pmObj[pmPaths[n]].conf]

\* A reload of the configuration comes to its end, although the paths it waits
\* for may themselves be calling the manager.
ReloadEnds == (pmWait # 0) ~> (pmWait = 0)

\* Both: the index and the configurations of the paths in it.
ManagedPathsSound == PathIndexSound /\ PathConfCurrent
=============================================================================
