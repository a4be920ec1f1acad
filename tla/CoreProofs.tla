------------------------------ MODULE CoreProofs ------------------------------
(***************************************************************************)
(* Proofs about the path manager, about the two copies of the configuration *)
(* and about Core's resources, for any names, requests, path objects, sets   *)
(* of changed options and reloads.                                           *)
(*                                                                         *)
(* The index of paths: the inductive invariant says in which states a path   *)
(* is in the index, where the loop waits for one that is not, and which      *)
(* version is on its way to a path that has not got it yet.                   *)
(***************************************************************************)
EXTENDS PathManager, CoreConf, CoreResources, TLAPS

-----------------------------------------------------------------------------
(* The path manager.                                                        *)

\* The path object i is in pm.paths under its name.
Indexed(i) == pmObj[i].name \in PathNames /\ pmPaths[pmObj[i].name] = i

\* pm.paths and pm.pathsByConf hold the same objects, under their names and
\* under their configurations.
MapsAgree ==
    /\ \A n \in PathNames : pmPaths[n] # 0 =>
         /\ pmObj[pmPaths[n]].name = n
         /\ pmPaths[n] \in pmByConf[pmObj[pmPaths[n]].conf]
    /\ \A c \in ConfNames : \A i \in pmByConf[c] : pmObj[i].conf = c /\ Indexed(i)

\* Until the manager ends a path is in the index exactly while it is neither
\* cancelled nor closed, and the only cancelled one is the one awaited.
IndexHoldsLiving ==
    pmStage # "end" => \A i \in Objs :
        /\ pmObj[i].st \in {"run", "notify", "leaving"} <=> Indexed(i)
        /\ pmObj[i].st = "cancelled" => pmWait = i

\* Once it ends there are only cancelled ones, no two of one name.
AllCancelled ==
    pmStage = "end" =>
        /\ \A i \in Objs : pmObj[i].st \notin {"run", "notify", "leaving"}
        /\ \A i, j \in Objs : /\ pmObj[i].st = "cancelled" /\ pmObj[j].st = "cancelled"
                              /\ pmObj[i].name = pmObj[j].name
                              => i = j

\* What doReloadConf has still to do is in the index, and what it waits for
\* is not.
ReloadStages ==
    /\ pmStage # "reload" => pmTodo = {} /\ pmWait = 0
    /\ \A i \in pmTodo : Indexed(i)
    /\ pmWait # 0 => /\ pmObj[pmWait].name \in PathNames
                     /\ pmPaths[pmObj[pmWait].name] = 0
                     /\ pmObj[pmWait].st \in {"cancelled", "gone"}
    /\ pmStage = "loop" => pmNew = pmConfs
    /\ \A t \in pmTold : pmObj[t[1]].st # "unborn"

\* A path that stays has a configuration, and its version or one on the way.
VersionsArrive ==
    pmStage # "end" => \A i \in Objs : (Indexed(i) /\ i \notin pmTodo) =>
        /\ pmNew[pmObj[i].conf] # Absent
        /\ ~pmMixed =>
             /\ \/ pmObj[i].ver = pmNew[pmObj[i].conf]
                \/ <<i, pmNew[pmObj[i].conf]>> \in pmTold
             /\ \A t \in pmTold : t[1] = i => t[2] = pmNew[pmObj[i].conf]

\* The inductive strengthening of ManagedPathsSound.
PmInv ==
    /\ PmTypeOK /\ MapsAgree /\ IndexHoldsLiving /\ AllCancelled /\ ReloadStages
    /\ VersionsArrive

\* A step of one path: its goroutine goes from one place to another.
LEMMA PathMoves ==
  ASSUME PmTypeOK, NEW i \in Objs, NEW s \in PathStates,
         pmObj' = [pmObj EXCEPT ![i].st = s]
  PROVE  /\ pmObj' \in [Objs -> PathRecords]
         /\ pmObj'[i].st = s
         /\ \A j \in Objs : /\ pmObj'[j].name = pmObj[j].name /\ pmObj'[j].conf = pmObj[j].conf
                            /\ pmObj'[j].ver = pmObj[j].ver
                            /\ j # i => pmObj'[j].st = pmObj[j].st
  BY DEF PmTypeOK, PathRecords

\* The fields of the path objects.
LEMMA ObjectFields ==
  ASSUME PmTypeOK
  PROVE  /\ pmObj \in [Objs -> PathRecords]
         /\ \A i \in Objs : /\ pmObj[i].conf \in ConfNames /\ pmObj[i].st \in PathStates
                            /\ pmObj[i].ver \in Versions \cup {Absent}
         /\ \A t \in pmTold : t[1] \in Objs /\ t[2] \in Versions \cup {Absent} /\ t = <<t[1], t[2]>>
         /\ pmTodo \subseteq Objs /\ (pmWait # 0 => pmWait \in Objs) /\ 0 \notin Objs
         /\ \A c \in ConfNames : pmByConf[c] \subseteq Objs
         /\ \A n \in PathNames : pmPaths[n] # 0 => pmPaths[n] \in Objs
  <1>1. pmObj \in [Objs -> PathRecords]
    BY DEF PmTypeOK
  <1>2. \A i \in Objs : /\ pmObj[i].conf \in ConfNames /\ pmObj[i].st \in PathStates
                        /\ pmObj[i].ver \in Versions \cup {Absent}
    BY <1>1 DEF PathRecords
  <1>3. \A t \in pmTold : t[1] \in Objs /\ t[2] \in Versions \cup {Absent} /\ t = <<t[1], t[2]>>
    BY DEF PmTypeOK
  <1>4. /\ pmTodo \subseteq Objs /\ (pmWait # 0 => pmWait \in Objs) /\ 0 \notin Objs
        /\ \A n \in PathNames : pmPaths[n] # 0 => pmPaths[n] \in Objs
    BY PmConstants DEF PmTypeOK, Objs
  <1>5. \A c \in ConfNames : pmByConf[c] \subseteq Objs
    BY DEF PmTypeOK
  <1>6. QED BY <1>1, <1>2, <1>3, <1>4, <1>5

\* What is in one of the maps is an object, with its name and configuration.
LEMMA IndexedObjects ==
  ASSUME PmInv
  PROVE  /\ \A n \in PathNames : pmPaths[n] # 0 =>
              /\ pmPaths[n] \in Objs /\ pmObj[pmPaths[n]].name = n /\ Indexed(pmPaths[n])
         /\ \A c \in ConfNames : \A i \in pmByConf[c] :
              i \in Objs /\ Indexed(i) /\ pmObj[i].conf = c
         /\ \A i \in Objs : pmObj[i].conf \in ConfNames
         /\ \A i \in Objs : Indexed(i) => i \in pmByConf[pmObj[i].conf]
         /\ \A i, j \in Objs : (Indexed(i) /\ Indexed(j) /\ pmObj[i].name = pmObj[j].name) => i = j
         /\ 0 \notin Objs
  BY ObjectFields DEF PmInv, MapsAgree, Indexed

\* A path calls the manager, is answered, or decides to leave: it stays in the
\* index.
LEMMA LivingKeep ==
  ASSUME PmInv, NEW i \in Objs,
         PathNotifies(i) \/ PathChanges(i) \/ PathLeaves(i)
  PROVE  PmInv'
  <1> USE DEF PmInv
  <1>1. PICK s \in {"run", "notify", "leaving"} : pmObj' = [pmObj EXCEPT ![i].st = s]
    BY DEF PathNotifies, PathChanges, PathLeaves
  <1>2. /\ pmObj[i].st \in {"run", "notify", "leaving"}
        /\ UNCHANGED <<pmConfs, pmNew, pmPaths, pmByConf, pmTodo, pmWait, pmStage, pmLoads,
                       pmTold, pmUsers, pmMixed>>
    BY DEF PathNotifies, PathChanges, PathLeaves
  <1>3. s \in PathStates
    BY DEF PathStates
  <1>4. /\ pmObj' \in [Objs -> PathRecords]
        /\ pmObj'[i].st = s
        /\ \A j \in Objs : /\ pmObj'[j].name = pmObj[j].name /\ pmObj'[j].conf = pmObj[j].conf
                           /\ pmObj'[j].ver = pmObj[j].ver
                           /\ j # i => pmObj'[j].st = pmObj[j].st
    BY <1>1, <1>3, PathMoves
  <1>5. pmStage # "end"
    BY <1>2 DEF AllCancelled
  <1>6. \A j \in Objs : Indexed(j)' <=> Indexed(j)
    BY <1>2, <1>4 DEF Indexed
  <1>7. PmTypeOK'
    BY <1>2, <1>4 DEF PmTypeOK
  <1>8. MapsAgree'
    BY <1>2, <1>4, <1>6, IndexedObjects DEF MapsAgree
  <1>9. IndexHoldsLiving' /\ AllCancelled'
    BY <1>2, <1>4, <1>5, <1>6 DEF IndexHoldsLiving, AllCancelled
  <1>10. ReloadStages'
    BY <1>2, <1>4, <1>5, <1>6, ObjectFields DEF ReloadStages
  <1>11. VersionsArrive'
    BY <1>2, <1>4, <1>6, ObjectFields DEF VersionsArrive
  <1>12. QED BY <1>7, <1>8, <1>9, <1>10, <1>11

\* The last client of a path leaves.
LEMMA UserLeavesKeeps ==
  ASSUME PmInv, NEW i \in Objs, UserLeaves(i)
  PROVE  PmInv'
  <1>1. PmTypeOK'
    BY DEF PmInv, PmTypeOK, UserLeaves
  <1>2. QED
    BY <1>1 DEF PmInv, UserLeaves, MapsAgree, IndexHoldsLiving, AllCancelled, ReloadStages,
       VersionsArrive, Indexed

\* The goroutine of a path that is out of the index is over.
LEMMA PathGoneKeeps ==
  ASSUME PmInv, NEW i \in Objs, PathGone(i)
  PROVE  PmInv'
  <1> USE DEF PmInv
  <1>1. /\ pmObj[i].st \in {"cancelled", "ending"}
        /\ pmObj' = [pmObj EXCEPT ![i].st = "gone"]
        /\ pmUsers' = [pmUsers EXCEPT ![i] = 0]
        /\ UNCHANGED <<pmConfs, pmNew, pmPaths, pmByConf, pmTodo, pmWait, pmStage, pmLoads,
                       pmTold, pmMixed>>
    BY DEF PathGone
  <1>2. "gone" \in PathStates
    BY DEF PathStates
  <1>3. /\ pmObj' \in [Objs -> PathRecords]
        /\ pmObj'[i].st = "gone"
        /\ \A j \in Objs : /\ pmObj'[j].name = pmObj[j].name /\ pmObj'[j].conf = pmObj[j].conf
                           /\ pmObj'[j].ver = pmObj[j].ver
                           /\ j # i => pmObj'[j].st = pmObj[j].st
    BY <1>1, <1>2, PathMoves
  <1>4. \A j \in Objs : Indexed(j)' <=> Indexed(j)
    BY <1>1, <1>3 DEF Indexed
  <1>5. PmTypeOK'
    BY <1>1, <1>3 DEF PmTypeOK
  <1>6. MapsAgree'
    BY <1>1, <1>3, <1>4, IndexedObjects DEF MapsAgree
  <1>7. IndexHoldsLiving' /\ AllCancelled'
    BY <1>1, <1>3, <1>4 DEF IndexHoldsLiving, AllCancelled
  <1>8. ReloadStages'
    BY <1>1, <1>3, <1>4, ObjectFields DEF ReloadStages
  <1>9. VersionsArrive'
    BY <1>1, <1>3, <1>4, ObjectFields DEF VersionsArrive
  <1>10. QED BY <1>5, <1>6, <1>7, <1>8, <1>9

\* The loop removes a path from both maps: the path that closed itself, or the
\* one whose configuration changed, which it then waits for.
LEMMA ForgetKeeps ==
  ASSUME PmInv, NEW i \in Objs, ClosePath(i) \/ EndPath(i)
  PROVE  PmInv'
  <1> USE DEF PmInv
  <1>1. Indexed(i) /\ pmStage # "end" /\ pmWait = 0
    BY IndexedObjects DEF ClosePath, EndPath, IndexHoldsLiving, ReloadStages
  <1>2. pmObj[i].st \in {"run", "notify", "leaving"}
    BY <1>1 DEF IndexHoldsLiving
  <1>3. PICK s \in {"ending", "cancelled"} :
          /\ pmObj' = [pmObj EXCEPT ![i].st = s]
          /\ s = "ending" => pmStage = "loop" /\ pmWait' = pmWait /\ pmTodo' = pmTodo
          /\ s = "cancelled" => pmStage = "reload" /\ pmWait' = i /\ pmTodo' = pmTodo \ {i}
    <2>1. CASE ClosePath(i)
      BY <2>1 DEF ClosePath
    <2>2. CASE EndPath(i)
      <3>1. pmObj' = [pmObj EXCEPT ![i].st = "cancelled"]
        BY <1>2, <2>2 DEF EndPath, PmTypeOK
      <3>2. QED BY <2>2, <3>1 DEF EndPath
    <2>3. QED BY <2>1, <2>2
  <1>4. /\ Forget(i)
        /\ UNCHANGED <<pmConfs, pmNew, pmStage, pmLoads, pmTold, pmUsers, pmMixed>>
    BY <1>1 DEF ClosePath, EndPath, Indexed
  <1>5. s \in PathStates
    BY DEF PathStates
  <1>6. /\ pmObj' \in [Objs -> PathRecords]
        /\ pmObj'[i].st = s
        /\ \A j \in Objs : /\ pmObj'[j].name = pmObj[j].name /\ pmObj'[j].conf = pmObj[j].conf
                           /\ pmObj'[j].ver = pmObj[j].ver
                           /\ j # i => pmObj'[j].st = pmObj[j].st
    BY <1>3, <1>5, PathMoves
  <1>7. /\ pmPaths' \in [PathNames -> 0 .. MaxPathObjs]
        /\ pmByConf' \in [ConfNames -> SUBSET Objs]
        /\ pmPaths'[pmObj[i].name] = 0
        /\ \A n \in PathNames : n # pmObj[i].name => pmPaths'[n] = pmPaths[n]
        /\ \A c \in ConfNames : pmByConf'[c] = pmByConf[c] \ {i}
    <2>1. pmPaths' = [pmPaths EXCEPT ![pmObj[i].name] = 0]
      BY <1>4 DEF Forget
    <2>2. pmByConf' = [pmByConf EXCEPT ![pmObj[i].conf] = pmByConf[pmObj[i].conf] \ {i}]
      BY <1>4 DEF Forget
    <2>3. 0 \in 0 .. MaxPathObjs /\ pmObj[i].name \in PathNames
      BY <1>1, PmConstants DEF Indexed
    <2>4. \A c \in ConfNames : i \in pmByConf[c] => c = pmObj[i].conf
      BY DEF MapsAgree
    <2>5. pmByConf \in [ConfNames -> SUBSET Objs] /\ pmObj[i].conf \in ConfNames
      BY ObjectFields DEF PmTypeOK
    <2>6. /\ pmByConf' \in [ConfNames -> SUBSET Objs]
          /\ \A c \in ConfNames : pmByConf'[c] = pmByConf[c] \ {i}
      BY <2>2, <2>4, <2>5
    <2>7. QED BY <2>1, <2>3, <2>6 DEF PmTypeOK
  <1>8. \A j \in Objs : Indexed(j)' <=> (Indexed(j) /\ j # i)
    BY <1>1, <1>6, <1>7, IndexedObjects DEF Indexed
  <1>9. PmTypeOK'
    BY <1>3, <1>4, <1>6, <1>7 DEF PmTypeOK, Objs
  <1>10. MapsAgree'
    BY <1>6, <1>7, <1>8, IndexedObjects DEF MapsAgree
  <1>11. IndexHoldsLiving' /\ AllCancelled'
    <2>1. pmStage' # "end"
      BY <1>1, <1>4
    <2>2. \A j \in Objs : pmObj[j].st # "cancelled"
      BY <1>1, IndexedObjects DEF IndexHoldsLiving
    <2>3. \A j \in Objs : j # i =>
            /\ pmObj'[j].st \in {"run", "notify", "leaving"} <=> Indexed(j)'
            /\ pmObj'[j].st # "cancelled"
      BY <1>1, <1>6, <1>8, <2>2 DEF IndexHoldsLiving
    <2>4. ~Indexed(i)' /\ pmObj'[i].st \in {"ending", "cancelled"}
      BY <1>6, <1>8
    <2>5. pmObj'[i].st = "cancelled" => pmWait' = i
      BY <1>3, <1>6
    <2>6. QED BY <2>1, <2>3, <2>4, <2>5 DEF IndexHoldsLiving, AllCancelled
  <1>12. ReloadStages'
    <2>1. \A j \in pmTodo' : Indexed(j)'
      BY <1>3, <1>8, ObjectFields DEF ReloadStages
    <2>2. \A t \in pmTold' : pmObj'[t[1]].st # "unborn"
      BY <1>3, <1>4, <1>6, ObjectFields DEF ReloadStages
    <2>3. QED BY <1>1, <1>3, <1>4, <1>6, <1>7, <2>1, <2>2 DEF ReloadStages, Indexed
  <1>13. VersionsArrive'
    BY <1>3, <1>4, <1>6, <1>8, ObjectFields DEF VersionsArrive
  <1>14. QED BY <1>9, <1>10, <1>11, <1>12, <1>13

\* pa.wait() returns.
LEMMA PathEndedKeeps ==
  ASSUME PmInv, PathEnded
  PROVE  PmInv'
  <1>1. PmTypeOK'
    BY PmConstants DEF PmInv, PmTypeOK, PathEnded
  <1>2. IndexHoldsLiving'
    BY DEF PmInv, IndexHoldsLiving, Indexed, PathEnded
  <1>3. QED
    BY <1>1, <1>2 DEF PmInv, PathEnded, MapsAgree, AllCancelled, ReloadStages,
       VersionsArrive, Indexed

\* The contexts of all paths are cancelled.
LEMMA ManagerEndsKeeps ==
  ASSUME PmInv, ManagerEnds
  PROVE  PmInv'
  <1> USE DEF PmInv
  <1>1. /\ pmStage = "loop" /\ pmStage' = "end"
        /\ UNCHANGED <<pmConfs, pmNew, pmPaths, pmByConf, pmTodo, pmWait, pmLoads, pmTold,
                       pmUsers, pmMixed>>
    BY DEF ManagerEnds
  <1>2. pmObj' = [i \in Objs |-> IF pmObj[i].st \in {"run", "notify", "leaving"}
                                 THEN [pmObj[i] EXCEPT !.st = "cancelled"] ELSE pmObj[i]]
    BY DEF ManagerEnds
  <1>3. \A j \in Objs :
          /\ pmObj'[j] \in PathRecords
          /\ pmObj'[j].name = pmObj[j].name /\ pmObj'[j].conf = pmObj[j].conf
          /\ pmObj'[j].st = IF pmObj[j].st \in {"run", "notify", "leaving"}
                            THEN "cancelled" ELSE pmObj[j].st
    BY <1>2 DEF PmTypeOK, PathStates, PathRecords
  <1>4. \A j \in Objs : Indexed(j)' <=> Indexed(j)
    BY <1>1, <1>3 DEF Indexed
  <1>5. PmTypeOK'
    <2>1. pmObj' \in [Objs -> PathRecords]
      BY <1>2, <1>3
    <2>2. QED BY <1>1, <2>1 DEF PmTypeOK
  <1>6. MapsAgree'
    BY <1>1, <1>3, <1>4, IndexedObjects DEF MapsAgree
  <1>7. \A j \in Objs : pmObj'[j].st = "cancelled" => Indexed(j)
    BY <1>1, <1>3, PmConstants DEF IndexHoldsLiving, ReloadStages, Objs
  <1>8. IndexHoldsLiving' /\ AllCancelled'
    BY <1>1, <1>3, <1>7, IndexedObjects DEF IndexHoldsLiving, AllCancelled
  <1>9. ReloadStages'
    BY <1>1, <1>3, ObjectFields DEF ReloadStages
  <1>10. VersionsArrive'
    BY <1>1 DEF VersionsArrive
  <1>11. QED BY <1>5, <1>6, <1>8, <1>9, <1>10

\* A configuration reaches its path, or finds it ended.
LEMMA ReloadReachesKeeps ==
  ASSUME PmInv, NEW t \in pmTold, ReloadReaches(t)
  PROVE  PmInv'
  <1> USE DEF PmInv
  <1> DEFINE i == t[1]
  <1>1. i \in Objs /\ t[2] \in Versions \cup {Absent} /\ t = <<i, t[2]>>
    BY DEF PmTypeOK
  <1>2. /\ pmObj[i].st \in {"run", "cancelled", "ending", "gone"}
        /\ pmTold' = pmTold \ {t}
        /\ pmObj' = IF pmObj[i].st = "run" THEN [pmObj EXCEPT ![i].ver = t[2]] ELSE pmObj
        /\ UNCHANGED <<pmConfs, pmNew, pmPaths, pmByConf, pmTodo, pmWait, pmStage, pmLoads,
                       pmUsers, pmMixed>>
    BY DEF ReloadReaches
  <1>3. /\ pmObj' \in [Objs -> PathRecords]
        /\ \A j \in Objs : /\ pmObj'[j].name = pmObj[j].name /\ pmObj'[j].conf = pmObj[j].conf
                           /\ pmObj'[j].st = pmObj[j].st
                           /\ j # i => pmObj'[j].ver = pmObj[j].ver
        /\ pmObj[i].st = "run" => pmObj'[i].ver = t[2]
    <2>1. CASE pmObj[i].st # "run"
      BY <1>2, <2>1 DEF PmTypeOK
    <2>2. CASE pmObj[i].st = "run"
      <3>1. pmObj' = [pmObj EXCEPT ![i].ver = t[2]]
        BY <1>2, <2>2
      <3> HIDE DEF i
      <3>2. QED BY <1>1, <2>2, <3>1 DEF PmTypeOK, PathRecords
    <2>3. QED BY <2>1, <2>2
  <1> HIDE DEF i
  <1>4. \A j \in Objs : Indexed(j)' <=> Indexed(j)
    BY <1>2, <1>3 DEF Indexed
  <1>5. PmTypeOK'
    BY <1>2, <1>3 DEF PmTypeOK
  <1>6. MapsAgree'
    BY <1>2, <1>3, <1>4, IndexedObjects DEF MapsAgree
  <1>7. IndexHoldsLiving' /\ AllCancelled'
    BY <1>2, <1>3, <1>4 DEF IndexHoldsLiving, AllCancelled
  <1>8. ReloadStages'
    BY <1>2, <1>3, <1>4, ObjectFields DEF ReloadStages
  <1>9. VersionsArrive'
    <2> SUFFICES ASSUME pmStage # "end", NEW j \in Objs, Indexed(j), j \notin pmTodo
                 PROVE  /\ pmNew[pmObj[j].conf] # Absent
                        /\ ~pmMixed =>
                             /\ \/ pmObj'[j].ver = pmNew[pmObj[j].conf]
                                \/ <<j, pmNew[pmObj[j].conf]>> \in pmTold'
                             /\ \A u \in pmTold' : u[1] = j => u[2] = pmNew[pmObj[j].conf]
      BY <1>2, <1>3, <1>4 DEF VersionsArrive
    <2>1. CASE j = i
      <3>1. pmObj[i].st = "run"
        BY <1>2, <2>1 DEF IndexHoldsLiving
      <3>2. ~pmMixed => t[2] = pmNew[pmObj[i].conf]
        BY <2>1 DEF VersionsArrive, i
      <3>3. QED BY <1>1, <1>2, <1>3, <2>1, <3>1, <3>2 DEF VersionsArrive
    <2>2. CASE j # i
      BY <1>1, <1>2, <1>3, <2>2 DEF VersionsArrive
    <2>3. QED BY <2>1, <2>2
  <1>10. QED BY <1>5, <1>6, <1>7, <1>8, <1>9

\* doReloadConf begins: a path whose configuration changed is told of it or is
\* to be ended.
LEMMA ReceiveConfKeeps ==
  ASSUME PmInv, NEW new \in NextConfs, ReceiveConf(new)
  PROVE  PmInv'
  <1> USE DEF PmInv
  <1> DEFINE changed == {c \in Configured(pmConfs) : new[c] # pmConfs[c]}
             updatable == {c \in changed : new[c].hard = pmConfs[c].hard}
  <1>1. /\ pmStage = "loop" /\ pmLoads < MaxConfLoads
        /\ pmLoads' = pmLoads + 1 /\ pmStage' = "reload" /\ pmNew' = new
        /\ pmTold' = pmTold \cup UNION {{<<i, new[c]>> : i \in pmByConf[c]} : c \in updatable}
        /\ pmTodo' = UNION {pmByConf[c] : c \in changed \ updatable}
        /\ pmMixed' = (pmMixed \/ pmTold # {})
        /\ UNCHANGED <<pmConfs, pmPaths, pmByConf, pmWait, pmObj, pmUsers>>
    BY DEF ReceiveConf
  <1>2. pmTodo = {} /\ pmWait = 0 /\ pmNew = pmConfs
    BY <1>1 DEF ReloadStages
  <1>3. new \in [ConfNames -> Versions \cup {Absent}]
    <2>1. PICK c \in ConfNames, v \in {Absent} \cup {[hard |-> h, soft |-> s] :
                                                        h, s \in {0, pmLoads + 1}} :
            new = [pmConfs EXCEPT ![c] = v]
      BY DEF NextConfs
    <2>2. 0 \in 0 .. MaxConfLoads /\ pmLoads + 1 \in 0 .. MaxConfLoads
      BY <1>1, PmConstants DEF PmTypeOK
    <2>3. v \in Versions \cup {Absent}
      BY <2>2 DEF Versions
    <2>4. QED BY <2>1, <2>3 DEF PmTypeOK
  <1>4. \A c \in ConfNames : (pmConfs[c] # Absent /\ new[c].hard = pmConfs[c].hard) => new[c] # Absent
    <2>1. \A v \in Versions : v.hard # MaxConfLoads + 1
      BY PmConstants DEF Versions
    <2>2. \A c \in ConfNames : pmConfs[c] # Absent => pmConfs[c] \in Versions
      BY DEF PmTypeOK
    <2>3. Absent.hard = MaxConfLoads + 1
      BY DEF Absent
    <2>4. QED BY <2>1, <2>2, <2>3
  <1>5. changed \subseteq ConfNames /\ updatable \subseteq changed
    BY DEF Configured
  <1>6. \A c \in ConfNames : c \in changed <=> pmConfs[c] # Absent /\ new[c] # pmConfs[c]
    BY DEF Configured
  <1>7. \A c \in changed : c \in updatable <=> new[c].hard = pmConfs[c].hard
    OBVIOUS
  <1> HIDE DEF changed, updatable
  <1>8. \A i \in pmTodo' : \E c \in changed \ updatable : i \in pmByConf[c]
    BY <1>1
  <1>9. \A c \in changed \ updatable : pmByConf[c] \subseteq pmTodo'
    BY <1>1
  <1>10. \A t \in pmTold' : t \in pmTold \/ \E c \in updatable : \E i \in pmByConf[c] : t = <<i, new[c]>>
    BY <1>1
  <1>11. \A c \in updatable : \A i \in pmByConf[c] : <<i, new[c]>> \in pmTold'
    BY <1>1
  <1>12. pmMixed' \in BOOLEAN /\ (~pmMixed' => ~pmMixed /\ pmTold = {})
    BY <1>1 DEF PmTypeOK
  <1>13. \A j \in Objs : Indexed(j)' <=> Indexed(j)
    BY <1>1 DEF Indexed
  <1>14. PmTypeOK'
    <2>1. pmTodo' \subseteq Objs
      BY <1>5, <1>8, IndexedObjects
    <2>2. pmTold' \subseteq Objs \X (Versions \cup {Absent})
      BY <1>3, <1>5, <1>10, IndexedObjects DEF PmTypeOK
    <2>3. pmLoads' \in 0 .. MaxConfLoads
      BY <1>1, PmConstants DEF PmTypeOK
    <2>4. QED BY <1>1, <1>3, <1>12, <2>1, <2>2, <2>3 DEF PmTypeOK
  <1>15. MapsAgree'
    BY <1>1, <1>13 DEF MapsAgree, Indexed
  <1>16. IndexHoldsLiving' /\ AllCancelled'
    BY <1>1, <1>13 DEF IndexHoldsLiving, AllCancelled
  <1>17. ReloadStages'
    <2>1. \A i \in pmTodo' : Indexed(i)'
      BY <1>5, <1>8, <1>13, IndexedObjects
    <2>2. \A i \in Objs : Indexed(i) => pmObj[i].st # "unborn"
      BY <1>1 DEF IndexHoldsLiving
    <2>3. \A t \in pmTold' : pmObj'[t[1]].st # "unborn"
      <3> SUFFICES ASSUME NEW t \in pmTold', t \notin pmTold PROVE pmObj[t[1]].st # "unborn"
        BY <1>1 DEF ReloadStages
      <3>1. PICK c \in updatable : \E i \in pmByConf[c] : t = <<i, new[c]>>
        BY <1>10
      <3>2. \E i \in pmByConf[c] : i \in Objs /\ Indexed(i) /\ t[1] = i
        BY <1>5, <3>1, IndexedObjects
      <3>3. QED BY <2>2, <3>2
    <2>4. QED BY <1>1, <1>2, <2>1, <2>3 DEF ReloadStages
  <1>18. VersionsArrive'
    <2> SUFFICES ASSUME NEW i \in Objs, Indexed(i), i \notin pmTodo'
                 PROVE  /\ new[pmObj[i].conf] # Absent
                        /\ ~pmMixed' =>
                             /\ \/ pmObj[i].ver = new[pmObj[i].conf]
                                \/ <<i, new[pmObj[i].conf]>> \in pmTold'
                             /\ \A t \in pmTold' : t[1] = i => t[2] = new[pmObj[i].conf]
      BY <1>1, <1>13 DEF VersionsArrive
    <2> DEFINE c == pmObj[i].conf
    <2>1. c \in ConfNames /\ i \in pmByConf[c]
      BY IndexedObjects
    <2>2. pmConfs[c] # Absent
      BY <1>1, <1>2 DEF VersionsArrive
    <2>3. ~pmMixed' => pmObj[i].ver = pmConfs[c]
      BY <1>1, <1>2, <1>12 DEF VersionsArrive
    <2>4. new[c] = pmConfs[c] \/ c \in updatable
      BY <1>6, <1>9, <2>1, <2>2
    <2>5. new[c] # Absent
      BY <1>4, <1>5, <1>7, <2>1, <2>2, <2>4
    <2>6. ASSUME ~pmMixed', NEW t \in pmTold', t[1] = i PROVE t[2] = new[c]
      <3>1. PICK d \in updatable : \E j \in pmByConf[d] : t = <<j, new[d]>>
        BY <1>10, <1>12, <2>6
      <3>2. t = <<i, new[d]>> /\ i \in pmByConf[d]
        BY <2>6, <3>1
      <3>3. d = c
        BY <1>5, <3>2, IndexedObjects
      <3>4. QED BY <3>2, <3>3
    <2>7. c \in updatable => <<i, new[c]>> \in pmTold'
      BY <1>11, <2>1
    <2>8. QED BY <2>3, <2>4, <2>5, <2>6, <2>7
  <1>19. QED BY <1>14, <1>15, <1>16, <1>17, <1>18

\* The manager creates paths: each of the names gets an unborn object of its
\* own, f[n], and enters both maps with it, under the configuration conf[n].
CreatesPaths(names, f, conf) ==
    /\ pmStage # "end" /\ pmWait = 0 /\ pmTodo = {} /\ pmStage' = "loop"
    /\ names \subseteq PathNames
    /\ f \in [names -> Unborn] /\ \A a, b \in names : f[a] = f[b] => a = b
    /\ conf \in [names -> ConfNames]
    /\ \A n \in names : /\ pmPaths[n] = 0 /\ pmNew[conf[n]] # Absent
                        /\ pmObj'[f[n]] = PathObj(n, conf[n], pmNew[conf[n]])
    /\ pmObj' \in [Objs -> PathRecords]
    /\ \A i \in Objs : (\A n \in names : f[n] # i) => pmObj'[i] = pmObj[i]
    /\ pmPaths' = [n \in PathNames |-> IF n \in names THEN f[n] ELSE pmPaths[n]]
    /\ pmByConf' \in [ConfNames -> SUBSET Objs]
    /\ \A c \in ConfNames : \A i \in Objs :
          i \in pmByConf'[c] <=> \/ i \in pmByConf[c]
                                 \/ \E n \in names : f[n] = i /\ conf[n] = c
    /\ pmUsers' \in [Objs -> 0 .. 1] /\ pmConfs' = pmNew
    /\ UNCHANGED <<pmNew, pmTodo, pmWait, pmLoads, pmTold, pmMixed>>

\* What a new path object is.
LEMMA PathObjFields ==
  ASSUME NEW n, NEW c, NEW v
  PROVE  /\ PathObj(n, c, v).name = n /\ PathObj(n, c, v).conf = c
         /\ PathObj(n, c, v).ver = v /\ PathObj(n, c, v).st = "run"
  BY DEF PathObj

\* Both createPath and the end of doReloadConf create paths this way.
LEMMA CreateKeeps ==
  ASSUME PmInv, NEW names, NEW f, NEW conf, CreatesPaths(names, f, conf)
  PROVE  PmInv'
  <1> USE DEF PmInv, CreatesPaths
  <1>1. \A n \in names : f[n] \in Objs /\ pmObj[f[n]].st = "unborn" /\ ~Indexed(f[n])
    BY DEF Unborn, IndexHoldsLiving
  <1>2. \A n \in names : /\ pmObj'[f[n]].name = n /\ pmObj'[f[n]].conf = conf[n]
                         /\ pmObj'[f[n]].ver = pmNew[conf[n]] /\ pmObj'[f[n]].st = "run"
    BY PathObjFields
  <1>3. \A i \in Objs : Indexed(i) => pmObj'[i] = pmObj[i] /\ pmPaths'[pmObj[i].name] = i
    BY <1>1, IndexedObjects DEF Indexed
  <1>4. \A n \in names : pmPaths'[n] = f[n] /\ Indexed(f[n])'
    BY <1>2 DEF Indexed
  <1>5. \A i \in Objs : Indexed(i)' <=> (Indexed(i) \/ \E n \in names : f[n] = i)
    <2> TAKE i \in Objs
    <2>1. CASE \E n \in names : f[n] = i
      <3>1. PICK n \in names : f[n] = i
        BY <2>1
      <3>2. Indexed(f[n])'
        BY <1>4
      <3>3. QED BY <2>1, <3>1, <3>2 DEF Indexed
    <2>2. CASE ~\E n \in names : f[n] = i
      <3>1. pmObj'[i] = pmObj[i]
        BY <2>2
      <3>2. \A n \in PathNames : pmPaths'[n] = i <=> pmPaths[n] = i
        BY <2>2, IndexedObjects
      <3>3. QED BY <2>2, <3>1, <3>2 DEF Indexed
    <2>3. QED BY <2>1, <2>2
  <1>6. PmTypeOK'
    <2>1. pmPaths' \in [PathNames -> 0 .. MaxPathObjs]
      BY <1>1 DEF PmTypeOK, Objs
    <2>2. QED BY <2>1 DEF PmTypeOK
  <1>7. MapsAgree'
    <2>1. ASSUME NEW n \in PathNames, pmPaths'[n] # 0
          PROVE  pmObj'[pmPaths'[n]].name = n /\ pmPaths'[n] \in pmByConf'[pmObj'[pmPaths'[n]].conf]
      <3>1. CASE n \in names
        BY <1>1, <1>2, <1>4, <3>1
      <3>2. CASE n \notin names
        <4>1. pmPaths'[n] = pmPaths[n] /\ pmPaths[n] \in Objs /\ Indexed(pmPaths[n])
          BY <2>1, <3>2, IndexedObjects
        <4>2. QED BY <1>3, <4>1, IndexedObjects
      <3>3. QED BY <3>1, <3>2
    <2>2. ASSUME NEW c \in ConfNames, NEW i \in pmByConf'[c]
          PROVE  pmObj'[i].conf = c /\ Indexed(i)'
      <3>1. i \in Objs
        OBVIOUS
      <3>2. CASE i \in pmByConf[c]
        BY <1>3, <1>5, <3>1, <3>2, IndexedObjects
      <3>3. CASE \E n \in names : f[n] = i /\ conf[n] = c
        <4>1. PICK n \in names : f[n] = i /\ conf[n] = c
          BY <3>3
        <4>2. QED BY <1>2, <1>4, <4>1
      <3>4. QED BY <3>1, <3>2, <3>3
    <2>3. QED BY <2>1, <2>2 DEF MapsAgree
  <1>8. IndexHoldsLiving' /\ AllCancelled'
    <2>1. \A i \in Objs : /\ pmObj'[i].st \in {"run", "notify", "leaving"} <=> Indexed(i)'
                          /\ pmObj'[i].st # "cancelled"
      <3> TAKE i \in Objs
      <3>1. CASE \E n \in names : f[n] = i
        BY <1>2, <1>5, <3>1
      <3>2. CASE ~\E n \in names : f[n] = i
        BY <1>5, <3>2, IndexedObjects DEF IndexHoldsLiving
      <3>3. QED BY <3>1, <3>2
    <2>2. QED BY <2>1 DEF IndexHoldsLiving, AllCancelled
  <1>9. ReloadStages'
    <2>1. \A t \in pmTold : t[1] \in Objs /\ pmObj[t[1]].st # "unborn"
      BY ObjectFields DEF ReloadStages
    <2>2. \A t \in pmTold : pmObj'[t[1]].st # "unborn"
      BY <1>1, <2>1
    <2>3. QED BY <2>2 DEF ReloadStages
  <1>10. VersionsArrive'
    <2> SUFFICES ASSUME NEW i \in Objs, Indexed(i)'
                 PROVE  /\ pmNew[pmObj'[i].conf] # Absent
                        /\ ~pmMixed =>
                             /\ \/ pmObj'[i].ver = pmNew[pmObj'[i].conf]
                                \/ <<i, pmNew[pmObj'[i].conf]>> \in pmTold
                             /\ \A t \in pmTold : t[1] = i => t[2] = pmNew[pmObj'[i].conf]
      BY DEF VersionsArrive
    <2>1. CASE \E n \in names : f[n] = i
      <3>1. \A t \in pmTold : t[1] # i
        BY <1>1, <2>1 DEF ReloadStages
      <3>2. QED BY <1>2, <2>1, <3>1
    <2>2. CASE Indexed(i)
      BY <1>3, <2>2 DEF VersionsArrive
    <2>3. QED BY <1>5, <2>1, <2>2
  <1>11. QED BY <1>6, <1>7, <1>8, <1>9, <1>10

\* doReloadConf ends.
LEMMA FinishReloadKeeps ==
  ASSUME PmInv, FinishReload
  PROVE  PmInv'
  <1> DEFINE new == {n \in PathNames : pmNew[n] # Absent /\ pmPaths[n] = 0}
             obj == CHOOSE f \in Assignments(new) : TRUE
             conf == [n \in new |-> n]
  <1>1. obj \in Assignments(new)
    BY DEF FinishReload
  <1>2. obj \in [new -> Unborn] /\ \A a, b \in new : obj[a] = obj[b] => a = b
    BY <1>1 DEF Assignments
  <1>3. /\ pmStage = "reload" /\ pmTodo = {} /\ pmWait = 0
        /\ pmStage' = "loop" /\ pmConfs' = pmNew
        /\ pmObj' = [i \in Objs |->
                       IF \E n \in new : obj[n] = i
                       THEN PathObj(CHOOSE n \in new : obj[n] = i,
                                    CHOOSE n \in new : obj[n] = i,
                                    pmNew[CHOOSE n \in new : obj[n] = i])
                       ELSE pmObj[i]]
        /\ pmPaths' = [n \in PathNames |-> IF n \in new THEN obj[n] ELSE pmPaths[n]]
        /\ pmByConf' = [c \in ConfNames |->
                          IF c \in new THEN pmByConf[c] \cup {obj[c]} ELSE pmByConf[c]]
        /\ UNCHANGED <<pmNew, pmTodo, pmWait, pmLoads, pmTold, pmUsers, pmMixed>>
    BY DEF FinishReload
  <1>4. /\ new \subseteq PathNames /\ new \subseteq ConfNames
        /\ \A n \in new : pmPaths[n] = 0 /\ pmNew[n] # Absent
    BY DEF ConfNames
  <1> HIDE DEF obj, new
  <1>5. \A n \in new : (CHOOSE m \in new : obj[m] = obj[n]) = n
    BY <1>2
  <1>6. \A n \in new : obj[n] \in Objs /\ pmObj'[obj[n]] = PathObj(n, n, pmNew[n])
    BY <1>2, <1>3, <1>5 DEF Unborn
  <1>7. \A i \in Objs : (\A n \in new : obj[n] # i) => pmObj'[i] = pmObj[i]
    BY <1>3
  <1>8. pmObj' \in [Objs -> PathRecords]
    <2> SUFFICES ASSUME NEW i \in Objs
                 PROVE  pmObj'[i] \in PathRecords
      BY <1>3
    <2>1. CASE \E n \in new : obj[n] = i
      <3>1. PICK n \in new : obj[n] = i
        BY <2>1
      <3>2. n \in PathNames /\ n \in ConfNames /\ pmNew[n] \in Versions \cup {Absent}
        BY <1>4 DEF PmInv, PmTypeOK
      <3>3. PathObj(n, n, pmNew[n]) \in PathRecords
        BY <3>2 DEF PathObj, PathStates, PathRecords
      <3>4. QED BY <1>6, <3>1, <3>3
    <2>2. CASE ~\E n \in new : obj[n] = i
      BY <1>7, <2>2 DEF PmInv, PmTypeOK
    <2>3. QED BY <2>1, <2>2
  <1>9. pmByConf' \in [ConfNames -> SUBSET Objs]
    BY <1>3, <1>6 DEF PmInv, PmTypeOK
  <1>10. conf \in [new -> ConfNames] /\ \A n \in new : conf[n] = n
    BY <1>4
  <1> HIDE DEF conf
  <1>11. \A c \in ConfNames : \A i \in Objs :
           i \in pmByConf'[c] <=> \/ i \in pmByConf[c]
                                  \/ \E n \in new : obj[n] = i /\ conf[n] = c
    BY <1>3, <1>10
  <1>12. pmUsers' \in [Objs -> 0 .. 1]
    BY <1>3 DEF PmInv, PmTypeOK
  <1>13. /\ \A n \in new : pmObj'[obj[n]] = PathObj(n, conf[n], pmNew[conf[n]])
         /\ \A n \in new : pmNew[conf[n]] # Absent
    BY <1>4, <1>6, <1>10
  <1>14. pmStage # "end"
    BY <1>3
  <1>15. CreatesPaths(new, obj, conf)
    BY <1>2, <1>3, <1>4, <1>7, <1>8, <1>9, <1>10, <1>11, <1>12, <1>13, <1>14 DEF CreatesPaths
  <1>16. QED BY <1>15, CreateKeeps

\* A client's request: its path is there or is created.
LEMMA FindOrCreateKeeps ==
  ASSUME PmInv, NEW n \in PathNames, FindOrCreate(n)
  PROVE  PmInv'
  <1> DEFINE c == FindPathConf(pmConfs, n)
  <1>1. /\ pmStage = "loop" /\ pmConfs[c] # Absent
        /\ UNCHANGED <<pmConfs, pmNew, pmTodo, pmWait, pmStage, pmLoads, pmTold, pmMixed>>
    BY DEF FindOrCreate
  <1>2. pmTodo = {} /\ pmWait = 0 /\ pmNew = pmConfs
    BY <1>1 DEF PmInv, ReloadStages
  <1>3. c \in ConfNames
    BY DEF FindPathConf, ConfNames
  <1> HIDE DEF c
  <1>4. pmUsers' \in [Objs -> 0 .. 1]
    <2>1. pmUsers' = pmUsers \/ \E i : pmUsers' = [pmUsers EXCEPT ![i] = 1]
      BY DEF FindOrCreate
    <2>2. QED BY <2>1 DEF PmInv, PmTypeOK
  <1>5. CASE pmPaths[n] # 0
    <2>1. UNCHANGED <<pmObj, pmPaths, pmByConf>>
      BY <1>5 DEF FindOrCreate
    <2>2. PmTypeOK'
      BY <1>1, <1>4, <2>1 DEF PmInv, PmTypeOK
    <2>3. QED
      BY <1>1, <2>1, <2>2 DEF PmInv, MapsAgree, IndexHoldsLiving, AllCancelled, ReloadStages,
         VersionsArrive, Indexed
  <1>6. CASE pmPaths[n] = 0
    <2> DEFINE f == [m \in {n} |-> Fresh]
               conf == [m \in {n} |-> c]
    <2>1. Fresh \in Unborn /\ Fresh \in Objs
      BY <1>6 DEF FindOrCreate, CanCreate, Fresh, Unborn
    <2>2. /\ pmObj' = [pmObj EXCEPT ![Fresh] = PathObj(n, c, pmConfs[c])]
          /\ pmPaths' = [pmPaths EXCEPT ![n] = Fresh]
          /\ pmByConf' = [pmByConf EXCEPT ![c] = pmByConf[c] \cup {Fresh}]
      BY <1>6 DEF FindOrCreate, c
    <2> HIDE DEF Fresh
    <2>3. /\ f \in [{n} -> Unborn] /\ f[n] = Fresh /\ conf \in [{n} -> ConfNames] /\ conf[n] = c
          /\ \A a, b \in {n} : f[a] = f[b] => a = b
      BY <1>3, <2>1
    <2>4. PathObj(n, c, pmConfs[c]) \in PathRecords
      <3>1. pmConfs[c] \in Versions \cup {Absent}
        BY <1>3 DEF PmInv, PmTypeOK
      <3>2. QED BY <1>3, <3>1 DEF PathObj, PathStates, PathRecords
    <2>5. /\ pmObj' \in [Objs -> PathRecords]
          /\ pmObj'[Fresh] = PathObj(n, c, pmConfs[c])
          /\ \A i \in Objs : Fresh # i => pmObj'[i] = pmObj[i]
      BY <2>1, <2>2, <2>4 DEF PmInv, PmTypeOK
    <2>6. pmPaths' = [m \in PathNames |-> IF m \in {n} THEN f[m] ELSE pmPaths[m]]
      BY <2>2, <2>3 DEF PmInv, PmTypeOK
    <2>7. /\ pmByConf' \in [ConfNames -> SUBSET Objs]
          /\ \A d \in ConfNames : \A i \in Objs :
               i \in pmByConf'[d] <=> i \in pmByConf[d] \/ (Fresh = i /\ c = d)
      BY <1>3, <2>1, <2>2 DEF PmInv, PmTypeOK
    <2> HIDE DEF f, conf
    <2>8. /\ \A m \in {n} : pmPaths[m] = 0 /\ pmNew[conf[m]] # Absent
          /\ \A m \in {n} : pmObj'[f[m]] = PathObj(m, conf[m], pmNew[conf[m]])
          /\ \A i \in Objs : (\A m \in {n} : f[m] # i) => pmObj'[i] = pmObj[i]
          /\ \A d \in ConfNames : \A i \in Objs :
               i \in pmByConf'[d] <=> \/ i \in pmByConf[d]
                                      \/ \E m \in {n} : f[m] = i /\ conf[m] = d
          /\ {n} \subseteq PathNames /\ pmStage # "end" /\ pmStage' = "loop" /\ pmConfs' = pmNew
      BY <1>1, <1>2, <1>6, <2>3, <2>5, <2>7
    <2>9. CreatesPaths({n}, f, conf)
      BY <1>1, <1>2, <1>4, <2>3, <2>5, <2>6, <2>7, <2>8 DEF CreatesPaths
    <2>10. QED BY <2>9, CreateKeeps
  <1>7. QED BY <1>5, <1>6

\* The invariant holds at the start and through every step, fair or not.
LEMMA ManagerSafe == PmInit /\ [][PmNext]_pmVars => []PmInv
  <1>1. ASSUME PmInit PROVE PmInv
    <2> DEFINE own == CHOOSE n \in PathNames : TRUE
               v0 == [hard |-> 0, soft |-> 0]
    <2>1. own \in PathNames /\ own \in ConfNames /\ Catchall \in ConfNames
      BY PmConstants DEF ConfNames
    <2>2. v0 \in Versions /\ v0 # Absent /\ 1 \in Objs /\ 0 \notin Objs /\ 1 \in 0 .. MaxPathObjs
            /\ 0 \in 0 .. MaxPathObjs /\ 0 \in 0 .. MaxConfLoads
      BY PmConstants DEF Versions, Absent, Objs
    <2>3. /\ pmConfs = [c \in ConfNames |-> IF c \in {own, Catchall} THEN v0 ELSE Absent]
          /\ pmNew = pmConfs
          /\ pmObj = [i \in Objs |-> IF i = 1 THEN PathObj(own, own, v0) ELSE NoObj]
          /\ pmPaths = [n \in PathNames |-> IF n = own THEN 1 ELSE 0]
          /\ pmByConf = [c \in ConfNames |-> IF c = own THEN {1} ELSE {}]
          /\ pmTodo = {} /\ pmWait = 0 /\ pmStage = "loop" /\ pmLoads = 0
          /\ pmTold = {} /\ pmUsers = [i \in Objs |-> 0] /\ pmMixed = FALSE
      BY <1>1 DEF PmInit
    <2> HIDE DEF own, v0
    <2>4. /\ pmObj[1].name = own /\ pmObj[1].conf = own /\ pmObj[1].ver = v0 /\ pmObj[1].st = "run"
          /\ \A i \in Objs : i # 1 => pmObj[i].st = "unborn"
      BY <2>2, <2>3 DEF PathObj, NoObj
    <2>5. pmObj \in [Objs -> PathRecords]
      <3>1. PathObj(own, own, v0) \in PathRecords
        BY <2>1, <2>2 DEF PathObj, PathStates, PathRecords
      <3>2. NoObj \in PathRecords
        BY <2>1 DEF NoObj, PathStates, PathRecords
      <3>3. QED BY <2>3, <3>1, <3>2
    <2>6. PmTypeOK
      <3>1. pmConfs \in [ConfNames -> Versions \cup {Absent}]
        BY <2>2, <2>3
      <3>2. pmPaths \in [PathNames -> 0 .. MaxPathObjs] /\ pmByConf \in [ConfNames -> SUBSET Objs]
        BY <2>2, <2>3
      <3>3. pmUsers \in [Objs -> 0 .. 1]
        BY <2>3
      <3>4. QED BY <2>2, <2>3, <2>5, <3>1, <3>2, <3>3 DEF PmTypeOK
    <2>7. \A i \in Objs : Indexed(i) <=> i = 1
      BY <2>1, <2>2, <2>3, <2>4 DEF Indexed
    <2>8. MapsAgree
      BY <2>1, <2>2, <2>3, <2>4, <2>7 DEF MapsAgree
    <2>9. IndexHoldsLiving /\ AllCancelled /\ ReloadStages
      BY <2>2, <2>3, <2>4, <2>7 DEF IndexHoldsLiving, AllCancelled, ReloadStages
    <2>10. VersionsArrive
      BY <2>1, <2>2, <2>3, <2>4, <2>7 DEF VersionsArrive
    <2>11. QED BY <2>6, <2>8, <2>9, <2>10 DEF PmInv
  <1>2. PmInv /\ [PmNext]_pmVars => PmInv'
    <2> SUFFICES ASSUME PmInv, [PmNext]_pmVars PROVE PmInv'
      OBVIOUS
    <2>1. CASE PathEnded \/ FinishReload \/ ManagerEnds
      BY <2>1, PathEndedKeeps, FinishReloadKeeps, ManagerEndsKeeps
    <2>2. CASE \E i \in Objs : EndPath(i) \/ ClosePath(i) \/ PathNotifies(i) \/ PathGone(i)
      BY <2>2, ForgetKeeps, LivingKeep, PathGoneKeeps
    <2>3. CASE \E new \in NextConfs : ReceiveConf(new)
      BY <2>3, ReceiveConfKeeps
    <2>4. CASE \E n \in PathNames : FindOrCreate(n)
      BY <2>4, FindOrCreateKeeps
    <2>5. CASE \E i \in Objs : PathChanges(i) \/ UserLeaves(i) \/ PathLeaves(i)
      BY <2>5, LivingKeep, UserLeavesKeeps
    <2>6. CASE \E t \in pmTold : ReloadReaches(t)
      BY <2>6, ReloadReachesKeeps
    <2>7. CASE UNCHANGED pmVars
      BY <2>7 DEF pmVars, PmInv, PmTypeOK, MapsAgree, IndexHoldsLiving, AllCancelled,
         ReloadStages, VersionsArrive, Indexed
    <2>8. QED BY <2>1, <2>2, <2>3, <2>4, <2>5, <2>6, <2>7 DEF PmNext, PmProgress
  <1>3. QED BY <1>1, <1>2, PTL

\* What the path manager does keeps its invariant.
THEOREM ManagerInvariant == PmSpec => []PmInv
  BY ManagerSafe, PTL DEF PmSpec

\* The maps, the objects and what is on its way to them keep their types.
THEOREM ManagerTypeCorrect == PmSpec => []PmTypeOK
  <1>1. PmInv => PmTypeOK
    BY DEF PmInv
  <1>2. QED BY <1>1, ManagerInvariant, PTL

\* For any names, objects and reloads: no path that is over stays in the
\* index, pm.paths and pm.pathsByConf hold the same paths, no two paths of one
\* name run at a time, and a path ends up with the manager's version of its
\* configuration unless two reloads overlapped (path_manager.go, doReloadConf,
\* doClosePath, createPath, removePath).
THEOREM ManagedPathsAreSound == PmSpec => []ManagedPathsSound
  <1>1. ASSUME PmInv PROVE PathIndexSound
    <2>1. pmStage # "end" =>
            \A n \in PathNames : pmPaths[n] # 0 => pmObj[pmPaths[n]].st \notin {"ending", "gone"}
      BY <1>1, IndexedObjects DEF PmInv, IndexHoldsLiving
    <2>2. UNION {pmByConf[c] : c \in ConfNames} = {pmPaths[n] : n \in PathNames} \ {0}
      <3>1. ASSUME NEW c \in ConfNames, NEW i \in pmByConf[c]
            PROVE  i \in {pmPaths[n] : n \in PathNames} \ {0}
        BY <1>1, IndexedObjects DEF Indexed
      <3>2. ASSUME NEW n \in PathNames, pmPaths[n] # 0
            PROVE  \E c \in ConfNames : pmPaths[n] \in pmByConf[c]
        BY <1>1, <3>2, IndexedObjects
      <3>3. QED BY <3>1, <3>2
    <2>3. ASSUME NEW i \in Objs, NEW j \in Objs,
                 {pmObj[i].st, pmObj[j].st} \subseteq {"run", "notify", "cancelled"},
                 pmObj[i].name = pmObj[j].name
          PROVE  i = j
      <3>1. CASE pmStage = "end"
        BY <1>1, <2>3, <3>1 DEF PmInv, AllCancelled
      <3>2. CASE pmStage # "end"
        <4>1. \A k \in {i, j} : Indexed(k) \/ (pmObj[k].st = "cancelled" /\ pmWait = k)
          BY <1>1, <2>3, <3>2 DEF PmInv, IndexHoldsLiving
        <4>2. \A k \in Objs : pmWait = k => k # 0 /\ pmPaths[pmObj[k].name] = 0
          BY <1>1, IndexedObjects DEF PmInv, ReloadStages
        <4>3. QED BY <1>1, <2>3, <4>1, <4>2, IndexedObjects DEF Indexed
      <3>3. QED BY <3>1, <3>2
    <2>4. QED BY <2>1, <2>2, <2>3 DEF PathIndexSound
  <1>2. ASSUME PmInv PROVE PathConfCurrent
    <2> SUFFICES ASSUME pmStage = "loop", pmTold = {}, ~pmMixed,
                        NEW n \in PathNames, pmPaths[n] # 0
                 PROVE  pmObj[pmPaths[n]].ver = pmConfs[pmObj[pmPaths[n]].conf]
      BY DEF PathConfCurrent
    <2>1. pmPaths[n] \in Objs /\ Indexed(pmPaths[n])
      BY <1>2, IndexedObjects
    <2>2. pmTodo = {} /\ pmNew = pmConfs
      BY <1>2 DEF PmInv, ReloadStages
    <2>3. QED BY <1>2, <2>1, <2>2 DEF PmInv, VersionsArrive
  <1>3. PmInv => ManagedPathsSound
    BY <1>1, <1>2 DEF ManagedPathsSound
  <1>4. QED BY <1>3, ManagerInvariant, PTL

-----------------------------------------------------------------------------
(* The two copies of the configuration.                                      *)

\* The API instance a request works with.
RequestApis == \A r \in Requests : ccReq[r].pc \in {"lock", "sending"} => ccReq[r].gen # 0

\* Without a race, one request at most is sending, and what it sends is the
\* configuration of its API; otherwise both copies are the same.
CopiesAgree ==
    (~ccRaced /\ ccCore # "done") =>
        /\ Sending = {} => ccApi[ccGen] = ccConf
        /\ \A r \in Sending :
             /\ Sending = {r} /\ ccWatch # "signalling" /\ ccCore # "mutex"
             /\ ccApi[ccReq[r].gen] = ccReq[r].conf

\* The inductive strengthening of DivergenceNeedsRace.
ConfInv == ConfTypeOK /\ RequestApis /\ CopiesAgree

\* A handler's edit: its API and its request have the same new configuration.
LEMMA EditKeeps ==
  ASSUME ConfInv, NEW r \in Requests, Edit(r),
         UNCHANGED <<ccFile, ccEvent, ccRecent, ccWatch, ccCore, ccNew, ccConf, ccGen>>,
         ccOwner' \in [1 .. MaxApis -> Requests \cup {NoOwner}]
  PROVE  ConfInv'
  <1> DEFINE g == ccReq[r].gen
             new == [ccApi[g] EXCEPT !.edits = @ \cup {r}]
  <1>1. g \in 1 .. MaxApis /\ g \in 0 .. MaxApis /\ g # 0
    BY DEF ConfInv, ConfTypeOK, RequestApis, Edit
  <1>2. new \in Confs
    BY <1>1 DEF ConfInv, ConfTypeOK, Confs
  <1>3. /\ ccApi' = [ccApi EXCEPT ![g] = new]
        /\ ccReq' = [ccReq EXCEPT ![r].pc = "sending", ![r].conf = new]
        /\ ccRaced' = (ccRaced \/ InFlight)
    BY DEF Edit
  <1> HIDE DEF new
  <1>4. /\ ccReq' \in [Requests -> [pc : {"idle", "lock", "sending", "done"},
                                    gen : 0 .. MaxApis, conf : Confs]]
        /\ ccReq'[r].pc = "sending" /\ ccReq'[r].gen = g /\ ccReq'[r].conf = new
        /\ \A q \in Requests \ {r} : ccReq'[q] = ccReq[q]
    BY <1>1, <1>2, <1>3 DEF ConfInv, ConfTypeOK
  <1>5. ccApi' \in [1 .. MaxApis -> Confs] /\ ccApi'[g] = new
    BY <1>1, <1>2, <1>3 DEF ConfInv, ConfTypeOK
  <1>6. ccRaced' \in BOOLEAN /\ (~ccRaced' => ~InFlight)
    BY <1>3 DEF ConfInv, ConfTypeOK, InFlight
  <1>7. ConfTypeOK'
    BY <1>4, <1>5, <1>6 DEF ConfInv, ConfTypeOK
  <1>8. RequestApis'
    BY <1>1, <1>4 DEF ConfInv, RequestApis
  <1>9. Sending = {} => Sending' = {r}
    BY <1>4 DEF Sending
  <1>10. CopiesAgree'
    BY <1>4, <1>5, <1>6, <1>9 DEF CopiesAgree, InFlight
  <1>11. QED BY <1>7, <1>8, <1>10 DEF ConfInv

\* The configuration file, its watcher and the end of Core's loop.
LEMMA FilesKeep ==
  ASSUME ConfInv, WriteFile \/ WatchEvent \/ WatchInterval \/ WatchError \/ CoreEnds
  PROVE  ConfInv'
  <1> USE CcBounds DEF ConfInv
  <1>1. CASE WriteFile
    <2> USE <1>1 DEF WriteFile
    <2>1. ConfTypeOK'
      BY DEF ConfTypeOK, Confs, Sending
    <2>2. RequestApis'
      BY DEF ConfTypeOK, RequestApis, Sending
    <2>3. CopiesAgree'
      BY DEF ConfTypeOK, RequestApis, CopiesAgree, Sending, Confs
    <2>4. QED BY <2>1, <2>2, <2>3
  <1>2. CASE WatchEvent
    <2> USE <1>2 DEF WatchEvent, InFlight
    <2>1. ConfTypeOK'
      BY DEF ConfTypeOK, Confs, Sending
    <2>2. RequestApis'
      BY DEF ConfTypeOK, RequestApis, Sending
    <2>3. CopiesAgree'
      BY DEF ConfTypeOK, RequestApis, CopiesAgree, Sending, Confs
    <2>4. QED BY <2>1, <2>2, <2>3
  <1>3. CASE WatchInterval
    <2> USE <1>3 DEF WatchInterval
    <2>1. ConfTypeOK'
      BY DEF ConfTypeOK, Confs, Sending
    <2>2. RequestApis'
      BY DEF ConfTypeOK, RequestApis, Sending
    <2>3. CopiesAgree'
      BY DEF ConfTypeOK, RequestApis, CopiesAgree, Sending, Confs
    <2>4. QED BY <2>1, <2>2, <2>3
  <1>4. CASE WatchError
    <2> USE <1>4 DEF WatchError
    <2>1. ConfTypeOK'
      BY DEF ConfTypeOK, Confs, Sending
    <2>2. RequestApis'
      BY DEF ConfTypeOK, RequestApis, Sending
    <2>3. CopiesAgree'
      BY DEF ConfTypeOK, RequestApis, CopiesAgree, Sending, Confs
    <2>4. QED BY <2>1, <2>2, <2>3
  <1>5. CASE CoreEnds
    <2> USE <1>5 DEF CoreEnds
    <2>1. ConfTypeOK'
      BY DEF ConfTypeOK, Confs, Sending
    <2>2. RequestApis'
      BY DEF ConfTypeOK, RequestApis, Sending
    <2>3. CopiesAgree'
      BY DEF ConfTypeOK, RequestApis, CopiesAgree, Sending, Confs
    <2>4. QED BY <2>1, <2>2, <2>3
  <1>6. QED BY <1>1, <1>2, <1>3, <1>4, <1>5

\* Core loads the file, and gives it to an API that stays.
LEMMA LoadsKeep ==
  ASSUME ConfInv, FileReload \/ ReloadApiConf
  PROVE  ConfInv'
  <1> USE CcBounds DEF ConfInv
  <1>1. CASE FileReload
    <2> USE <1>1 DEF FileReload, RecreateApi, FileConf, Confs
    <2>1. FileConf \in Confs /\ Sending' = Sending /\ ccCore # "mutex"
      BY DEF ConfTypeOK, Confs, FileConf, Sending
    <2> HIDE DEF FileConf
    <2>2. ccRaced' \in BOOLEAN
      BY DEF ConfTypeOK
    <2>3. CASE RecreateApi(FileConf)
      <3>1. /\ ccGen' = ccGen + 1 /\ ccGen' \in 1 .. MaxApis
            /\ ccApi' = [ccApi EXCEPT ![ccGen'] = FileConf]
            /\ ccConf' = FileConf /\ ccNew' = ccNew /\ ccCore' = "select"
        BY <2>3 DEF RecreateApi, ConfTypeOK
      <3>2. ConfTypeOK'
        BY <2>1, <2>2, <3>1 DEF ConfTypeOK
      <3>3. ccApi'[ccGen'] = ccConf'
        BY <3>1 DEF ConfTypeOK
      <3>4. RequestApis' /\ CopiesAgree'
        BY <2>1, <2>2, <3>1, <3>3 DEF ConfTypeOK, RequestApis, CopiesAgree
      <3>5. QED BY <3>2, <3>4
    <2>4. CASE ccCore' = "mutex" /\ ccNew' = FileConf /\ UNCHANGED <<ccConf, ccApi, ccGen>>
      <3>1. ConfTypeOK'
        BY <2>1, <2>2, <2>4 DEF ConfTypeOK
      <3>2. RequestApis' /\ CopiesAgree'
        BY <2>1, <2>2, <2>4 DEF ConfTypeOK, RequestApis, CopiesAgree
      <3>3. QED BY <3>1, <3>2
    <2>5. QED BY <2>3, <2>4
  <1>2. CASE ReloadApiConf
    <2> USE <1>2 DEF ReloadApiConf
    <2>1. ConfTypeOK'
      BY DEF ConfTypeOK, Confs, Sending
    <2>2. RequestApis'
      BY DEF ConfTypeOK, RequestApis, Sending
    <2>3. CopiesAgree'
      BY DEF ConfTypeOK, RequestApis, CopiesAgree, Sending, Confs
    <2>4. QED BY <2>1, <2>2, <2>3
  <1>3. QED BY <1>1, <1>2

\* The API's handlers, and what Core receives from them.
LEMMA RequestsKeep ==
  ASSUME ConfInv, NEW r \in Requests,
         Arrive(r) \/ PatchGlobal(r) \/ PatchPaths(r) \/ RefuseEdit(r) \/
           ApiReload(r) \/ GiveUpSending(r)
  PROVE  ConfInv'
  <1> USE CcBounds DEF ConfInv
  <1>1. CASE Arrive(r)
    <2> USE <1>1 DEF Arrive
    <2>1. ccGen \in 0 .. MaxApis /\ ccGen # 0 /\ ccReq[r].conf \in Confs
      BY DEF ConfTypeOK
    <2>2. ccReq' \in [Requests -> [pc : {"idle", "lock", "sending", "done"},
                                   gen : 0 .. MaxApis, conf : Confs]]
      BY <2>1 DEF ConfTypeOK
    <2>3. ConfTypeOK'
      BY <2>2 DEF ConfTypeOK
    <2>4. RequestApis' /\ CopiesAgree'
      BY <2>1 DEF ConfTypeOK, RequestApis, CopiesAgree, Sending
    <2>5. QED BY <2>3, <2>4
  <1>2. CASE PatchGlobal(r)
    <2> USE <1>2 DEF PatchGlobal
    <2>1. Edit(r) /\ UNCHANGED <<ccFile, ccEvent, ccRecent, ccWatch, ccCore, ccNew, ccConf, ccGen>>
      OBVIOUS
    <2>2. ccOwner' \in [1 .. MaxApis -> Requests \cup {NoOwner}]
      BY DEF ConfTypeOK, RequestApis, Edit
    <2>3. QED BY <2>1, <2>2, EditKeeps
  <1>3. CASE PatchPaths(r)
    <2> USE <1>3 DEF PatchPaths, PatchPathDefaults
    <2>1. Edit(r) /\ UNCHANGED <<ccFile, ccEvent, ccRecent, ccWatch, ccCore, ccNew, ccConf, ccGen>>
      OBVIOUS
    <2>2. ccOwner' \in [1 .. MaxApis -> Requests \cup {NoOwner}]
      BY DEF ConfTypeOK, RequestApis, Edit
    <2>3. QED BY <2>1, <2>2, EditKeeps
  <1>4. CASE RefuseEdit(r)
    <2> USE <1>4 DEF RefuseEdit
    <2>1. ConfTypeOK'
      BY DEF ConfTypeOK, Confs, Sending
    <2>2. RequestApis'
      BY DEF ConfTypeOK, RequestApis, Sending
    <2>3. CopiesAgree'
      BY DEF ConfTypeOK, RequestApis, CopiesAgree, Sending, Confs
    <2>4. QED BY <2>1, <2>2, <2>3
  <1>5. CASE ApiReload(r)
    <2> USE <1>5 DEF ApiReload
    <2>1. /\ r \in Sending /\ Sending' = Sending \ {r}
          /\ ccReq' \in [Requests -> [pc : {"idle", "lock", "sending", "done"},
                                      gen : 0 .. MaxApis, conf : Confs]]
          /\ \A q \in Sending' : ccReq'[q] = ccReq[q]
          /\ ccReq[r].gen \in 1 .. MaxApis /\ ccReq[r].conf \in Confs
      BY DEF ConfTypeOK, RequestApis, Sending
    <2>2. ccOwner' \in [1 .. MaxApis -> Requests \cup {NoOwner}] /\ ccRaced' \in BOOLEAN
      BY <2>1 DEF ConfTypeOK, Unlock
    <2>3. RequestApis'
      BY DEF ConfTypeOK, RequestApis
    <2>4. ~ccRaced' => ccReq[r].gen = ccGen /\ ~ccRaced
      BY DEF ConfTypeOK
    <2>5. CASE RecreateApi(ccReq[r].conf)
      <3>1. /\ ccGen' \in 1 .. MaxApis
            /\ ccApi' = [ccApi EXCEPT ![ccGen'] = ccReq[r].conf]
            /\ ccConf' = ccReq[r].conf /\ ccNew' = ccNew /\ ccCore' = "select"
        BY <2>5 DEF RecreateApi, ConfTypeOK
      <3>2. ConfTypeOK'
        BY <2>1, <2>2, <3>1 DEF ConfTypeOK
      <3>3. ccApi'[ccGen'] = ccConf'
        BY <3>1 DEF ConfTypeOK
      <3>4. CopiesAgree'
        BY <2>1, <2>4, <3>1, <3>3 DEF CopiesAgree
      <3>5. QED BY <2>3, <3>2, <3>4
    <2>6. CASE ccConf' = ccReq[r].conf /\ UNCHANGED <<ccApi, ccGen, ccCore, ccNew>>
      <3>1. ConfTypeOK'
        BY <2>1, <2>2, <2>6 DEF ConfTypeOK
      <3>2. CopiesAgree'
        BY <2>1, <2>4, <2>6 DEF CopiesAgree
      <3>3. QED BY <2>3, <3>1, <3>2
    <2>7. QED BY <2>5, <2>6
  <1>6. CASE GiveUpSending(r)
    <2> USE <1>6 DEF GiveUpSending, Unlock
    <2>1. ConfTypeOK'
      BY DEF ConfTypeOK, Confs, Sending
    <2>2. RequestApis'
      BY DEF ConfTypeOK, RequestApis, Sending
    <2>3. CopiesAgree'
      BY DEF ConfTypeOK, RequestApis, CopiesAgree, Sending, Confs
    <2>4. QED BY <2>1, <2>2, <2>3
  <1>7. QED BY <1>1, <1>2, <1>3, <1>4, <1>5, <1>6

\* The invariant holds at the start and through every step.
THEOREM ConfInvariant == ConfSpec => []ConfInv
  <1>1. ASSUME ConfInit PROVE ConfInv
    <2>1. FileConf \in Confs /\ 0 \in 0 .. MaxApis /\ 1 \in 1 .. MaxApis /\ ccFile \in 0 .. MaxWrites
      BY <1>1, CcBounds DEF ConfInit, FileConf, Confs
    <2>2. ConfTypeOK
      BY <1>1, <2>1 DEF ConfInit, ConfTypeOK
    <2>3. RequestApis /\ CopiesAgree
      BY <1>1, <2>1 DEF ConfInit, RequestApis, CopiesAgree, Sending
    <2>4. QED BY <2>2, <2>3 DEF ConfInv
  <1>2. ConfInv /\ [ConfNext]_ccVars => ConfInv'
    <2> SUFFICES ASSUME ConfInv, [ConfNext]_ccVars PROVE ConfInv'
      OBVIOUS
    <2>1. CASE \/ WriteFile \/ WatchEvent \/ WatchInterval \/ WatchError \/ CoreEnds
      BY <2>1, FilesKeep
    <2>2. CASE FileReload \/ ReloadApiConf
      BY <2>2, LoadsKeep
    <2>3. CASE \E r \in Requests : \/ Arrive(r) \/ PatchGlobal(r) \/ PatchPaths(r)
                                   \/ RefuseEdit(r) \/ ApiReload(r) \/ GiveUpSending(r)
      BY <2>3, RequestsKeep
    <2>4. CASE UNCHANGED ccVars
      BY <2>4 DEF ccVars, ConfInv, ConfTypeOK, RequestApis, CopiesAgree, Sending
    <2>5. QED BY <2>1, <2>2, <2>3, <2>4 DEF ConfNext
  <1>3. QED BY <1>1, <1>2, PTL DEF ConfSpec

\* Both copies, the requests and the watcher keep their types, and no request
\* sends but through an API that Core created.
THEOREM ConfTypeCorrect == ConfSpec => [](ConfTypeOK /\ RequestApis)
  <1>1. ConfInv => ConfTypeOK /\ RequestApis
    BY DEF ConfInv
  <1>2. QED BY <1>1, ConfInvariant, PTL

\* Core's copy of the configuration and the API's agree whenever nothing is on
\* its way, for any requests, file changes and re-creations of the API, unless
\* one change began while another was on its way (core.go, run; api.go,
\* ReloadConf and the handlers).
THEOREM CopiesConverge == ConfSpec => []DivergenceNeedsRace
  <1>1. ConfInv => DivergenceNeedsRace
    BY DEF ConfInv, CopiesAgree, DivergenceNeedsRace, InFlight
  <1>2. QED BY <1>1, ConfInvariant, PTL

-----------------------------------------------------------------------------
(* Core's resources: first the tables of createResources and closeResources. *)

LEMMA CompsAre == Comps = Support \cup Servers \cup {"api"}
  BY DEF Comps, Order, Support, Servers

LEMMA UsesRows ==
    /\ \A c \in Support : Uses[c] = SupportUses[c]
    /\ \A c \in {"rtsp", "rtsps"} : Uses[c] = RTSPUses[c]
    /\ \A c \in {"rtmp", "rtmps"} : Uses[c] = RTMPUses[c]
    /\ \A c \in {"hls", "webrtc", "srt"} : Uses[c] = HTTPAndSRTUses[c]
    /\ Uses["api"] = APIUses["api"]
<1>1. \A c \in Support : Uses[c] = SupportUses[c]
  BY CompsAre DEF Uses, Support
<1>2. \A c \in {"rtsp", "rtsps"} : Uses[c] = RTSPUses[c]
  BY CompsAre DEF Uses, Support, Servers
<1>3. \A c \in {"rtmp", "rtmps"} : Uses[c] = RTMPUses[c]
  BY CompsAre DEF Uses, Support, Servers
<1>4. \A c \in {"hls", "webrtc", "srt"} : Uses[c] = HTTPAndSRTUses[c]
  BY CompsAre DEF Uses, Support, Servers
<1>5. Uses["api"] = APIUses["api"]
  BY CompsAre DEF Uses, Support, Servers
<1> QED BY <1>1, <1>2, <1>3, <1>4, <1>5

LEMMA WatchesRows ==
    /\ \A c \in Support : Watches[c] = SupportWatches[c]
    /\ \A c \in {"rtsp", "rtsps"} : Watches[c] = RTSPWatches[c]
    /\ \A c \in {"rtmp", "rtmps"} : Watches[c] = RTMPWatches[c]
    /\ \A c \in {"hls", "webrtc", "srt"} : Watches[c] = HTTPAndSRTWatches[c]
    /\ Watches["api"] = APIWatches["api"]
<1>1. \A c \in Support : Watches[c] = SupportWatches[c]
  BY CompsAre DEF Watches, Support
<1>2. \A c \in {"rtsp", "rtsps"} : Watches[c] = RTSPWatches[c]
  BY CompsAre DEF Watches, Support, Servers
<1>3. \A c \in {"rtmp", "rtmps"} : Watches[c] = RTMPWatches[c]
  BY CompsAre DEF Watches, Support, Servers
<1>4. \A c \in {"hls", "webrtc", "srt"} : Watches[c] = HTTPAndSRTWatches[c]
  BY CompsAre DEF Watches, Support, Servers
<1>5. Watches["api"] = APIWatches["api"]
  BY CompsAre DEF Watches, Support, Servers
<1> QED BY <1>1, <1>2, <1>3, <1>4, <1>5

\* The components that are created, each at its place in the order.
Rank == [logger |-> 1, auth |-> 2, metrics |-> 3, pprof |-> 4, cleaner |-> 5, playback |-> 6,
         pathManager |-> 7, rtsp |-> 8, rtsps |-> 9, rtmp |-> 10, rtmps |-> 11, hls |-> 12,
         webrtc |-> 13, srt |-> 14, api |-> 15]

LEMMA PositionIsRank ==
    \A c \in Comps : Position(c) = Rank[c] /\ Rank[c] \in 1..15 /\ Order[Rank[c]] = c
<1>1. \A i \in 1..15 : Rank[Order[i]] = i
  BY DEF Rank, Order
<1>2. DOMAIN Order = 1..15
  BY DEF Order
<1>3. ASSUME NEW c \in Comps
      PROVE  Position(c) = Rank[c] /\ Rank[c] \in 1..15 /\ Order[Rank[c]] = c
  <2>1. PICK i \in 1..15 : Order[i] = c
    BY <1>2 DEF Comps
  <2>2. Rank[c] = i
    BY <1>1, <2>1
  <2>3. \A j \in DOMAIN Order : Order[j] = c => j = i
    BY <1>1, <1>2, <2>2
  <2>4. Position(c) = i
    BY <1>2, <2>1, <2>3 DEF Position
  <2> QED BY <2>1, <2>2, <2>4
<1> QED BY <1>3

\* A component d needs k when it is created with a pointer to k, or k is told
\* of d: when k is closed, d must be closed too.  closeAPI forgets one case.
Needs(d, k) ==
    /\ k \in Uses[d].refs \cup Informed(d)
    /\ ~(d = "api" /\ k = "rtmps")

\* The rows of the tables, one by one.
LEMMA RefsAre ==
    /\ Uses["logger"].refs = {} /\ Uses["auth"].refs = {}
    /\ \A c \in {"metrics", "pprof", "playback", "pathManager"} : Uses[c].refs = {"auth", "logger"}
    /\ Uses["cleaner"].refs = {"logger"}
    /\ \A c \in Servers : Uses[c].refs = {"pathManager", "logger"}
    /\ Uses["api"].refs = {"auth", "pathManager", "logger"} \cup Servers
<1>1. Uses["logger"].refs = {} /\ Uses["auth"].refs = {} /\ Uses["cleaner"].refs = {"logger"}
  BY UsesRows DEF Support, SupportUses, Entry
<1>2. \A c \in {"metrics", "pprof", "playback", "pathManager"} : Uses[c].refs = {"auth", "logger"}
  BY UsesRows DEF Support, SupportUses, Entry
<1>3. \A c \in {"rtsp", "rtsps"} : Uses[c].refs = {"pathManager", "logger"}
  BY UsesRows DEF RTSPUses, Entry
<1>4. \A c \in {"rtmp", "rtmps"} : Uses[c].refs = {"pathManager", "logger"}
  BY UsesRows DEF RTMPUses, Entry
<1>5. \A c \in {"hls", "webrtc", "srt"} : Uses[c].refs = {"pathManager", "logger"}
  BY UsesRows DEF HTTPAndSRTUses, Entry
<1>6. Uses["api"].refs = {"auth", "pathManager", "logger"} \cup Servers
  BY UsesRows DEF APIUses, Entry
<1> QED BY <1>1, <1>2, <1>3, <1>4, <1>5, <1>6 DEF Servers

LEMMA WatchedRefsAre ==
    /\ {"auth", "logger"} \subseteq Watches["metrics"].refs
    /\ {"auth", "logger"} \subseteq Watches["pprof"].refs
    /\ {"auth", "logger"} \subseteq Watches["playback"].refs
    /\ {"logger"} \subseteq Watches["cleaner"].refs
    /\ {"metrics", "auth", "logger"} \subseteq Watches["pathManager"].refs
    /\ \A c \in Servers \ {"srt"} : {"metrics", "pathManager", "logger"} \subseteq Watches[c].refs
    /\ {"pathManager", "logger"} \subseteq Watches["srt"].refs
    /\ {"auth", "pathManager", "logger"} \cup (Servers \ {"rtmps"}) \subseteq Watches["api"].refs
<1>1. /\ Watches["metrics"].refs = {"auth", "logger"} /\ Watches["pprof"].refs = {"auth", "logger"}
      /\ Watches["playback"].refs = {"auth", "logger"} /\ Watches["cleaner"].refs = {"logger"}
      /\ Watches["pathManager"].refs = {"metrics", "auth", "logger"}
  BY WatchesRows DEF Support, SupportWatches, Entry
<1>2. \A c \in {"rtsp", "rtsps"} : Watches[c].refs = {"metrics", "pathManager", "logger"}
  BY WatchesRows DEF RTSPWatches, Entry
<1>3. \A c \in {"rtmp", "rtmps"} : Watches[c].refs = {"metrics", "pathManager", "logger"}
  BY WatchesRows DEF RTMPWatches, Entry
<1>4. /\ Watches["hls"].refs = {"metrics", "pathManager", "logger"}
      /\ Watches["webrtc"].refs = {"metrics", "pathManager", "logger"}
      /\ Watches["srt"].refs = {"pathManager", "logger"}
  BY WatchesRows DEF HTTPAndSRTWatches, Entry
<1>5. Watches["api"].refs = {"auth", "pathManager", "rtsp", "rtsps", "rtmp", "hls", "webrtc", "srt",
                             "logger"}
  BY WatchesRows DEF APIWatches, Entry
<1> QED BY <1>1, <1>2, <1>3, <1>4, <1>5 DEF Servers

\* Everything a component needs was created before it.
LEMMA NeedsBefore ==
    \A d, k \in Comps : Needs(d, k) => Position(k) < Position(d)
<1> SUFFICES ASSUME NEW d \in Comps, NEW k \in Comps, Needs(d, k)
             PROVE  Rank[k] < Rank[d]
  BY PositionIsRank
<1>1. Rank["logger"] = 1 /\ Rank["auth"] = 2 /\ Rank["metrics"] = 3 /\ Rank["pathManager"] = 7
      /\ (\A c \in Servers : Rank[c] \in 8..14) /\ Rank["api"] = 15
      /\ Rank["pprof"] = 4 /\ Rank["cleaner"] = 5 /\ Rank["playback"] = 6
  BY DEF Rank, Servers
<1>2. CASE d \in Servers
  <2>1. k \in {"pathManager", "logger", "metrics"}
    BY <1>2, RefsAre DEF Needs, Informed, Servers
  <2> QED BY <1>1, <1>2, <2>1
<1>3. CASE d \in {"metrics", "pprof", "playback", "pathManager"}
  <2>1. k \in {"auth", "logger"} \/ (d = "pathManager" /\ k = "metrics")
    BY <1>3, RefsAre DEF Needs, Informed, Servers
  <2> QED BY <1>1, <1>3, <2>1
<1>4. CASE d \in {"logger", "auth", "cleaner"}
  BY <1>1, <1>4, RefsAre DEF Needs, Informed, Servers
<1>5. CASE d = "api"
  <2>1. k \in {"auth", "pathManager", "logger"} \cup Servers
    BY <1>5, RefsAre DEF Needs, Informed, Servers
  <2> QED BY <1>1, <1>5, <2>1
<1> QED BY <1>2, <1>3, <1>4, <1>5, CompsAre DEF Support

\* What a component that stays is not told in place, it is closed for.
LEMMA OptionsCovered ==
    \A k \in Comps : Uses[k].opts \ Watches[k].opts \subseteq Reloaded[k]
<1> SUFFICES ASSUME NEW k \in Comps PROVE Uses[k].opts \ Watches[k].opts \subseteq Reloaded[k]
  OBVIOUS
<1>1. CASE k \in {"logger", "metrics", "pprof"}
  <2>1. Uses[k].opts = Watches[k].opts
    BY <1>1, UsesRows, WatchesRows DEF Support, SupportUses, SupportWatches, Entry
  <2> QED BY <2>1
<1>2. CASE k = "auth"
  <2>1. Reloaded[k] = {"users"}
    BY <1>2 DEF Reloaded
  <2>2. Uses[k].opts = {"auth", "users", "readTimeout", "rtspAuth"}
        /\ Watches[k].opts = {"auth", "readTimeout", "rtspAuth"}
    BY <1>2, UsesRows, WatchesRows DEF Support, SupportUses, SupportWatches, Entry
  <2> QED BY <2>1, <2>2
<1>3. CASE k \in {"cleaner", "playback"}
  <2>1. Reloaded[k] = {"paths"}
    BY <1>3 DEF Reloaded
  <2>2. Uses[k].opts \ {"paths"} = Watches[k].opts
    BY <1>3, UsesRows, WatchesRows DEF Support, SupportUses, SupportWatches, Entry
  <2> QED BY <2>1, <2>2
<1>4. CASE k = "pathManager"
  <2>1. Reloaded[k] = {"paths"}
    BY <1>4 DEF Reloaded
  <2>2. Uses[k].opts = {"logLevel", "rtspAddress", "readTimeout", "writeTimeout",
                        "writeQueueSize", "udpMaxPayloadSize", "paths"}
    BY <1>4, UsesRows DEF Support, SupportUses, Entry
  <2>3. Watches[k].opts = {"logLevel", "rtspAddress", "rtspAuth", "readTimeout",
                           "writeTimeout", "writeQueueSize", "udpMaxPayloadSize"}
    BY <1>4, WatchesRows DEF Support, SupportWatches, Entry
  <2> QED BY <2>1, <2>2, <2>3
<1>5. CASE k \in {"rtsp", "rtsps"}
  <2>1. Uses[k] = RTSPUses[k] /\ Watches[k] = RTSPWatches[k]
    BY <1>5, UsesRows, WatchesRows
  <2>2. RTSPUses[k].opts = RTSPWatches[k].opts
    BY <1>5 DEF RTSPUses, RTSPWatches, Entry
  <2> QED BY <2>1, <2>2
<1>6. CASE k \in {"rtmp", "rtmps"}
  <2>1. Uses[k] = RTMPUses[k] /\ Watches[k] = RTMPWatches[k]
    BY <1>6, UsesRows, WatchesRows
  <2>2. RTMPUses[k].opts = RTMPWatches[k].opts
    BY <1>6 DEF RTMPUses, RTMPWatches, Entry
  <2> QED BY <2>1, <2>2
<1>7. CASE k \in {"hls", "webrtc", "srt"}
  <2>1. Uses[k] = HTTPAndSRTUses[k] /\ Watches[k] = HTTPAndSRTWatches[k]
    BY <1>7, UsesRows, WatchesRows
  <2>2. HTTPAndSRTUses[k].opts = HTTPAndSRTWatches[k].opts
    BY <1>7 DEF HTTPAndSRTUses, HTTPAndSRTWatches, Entry
  <2> QED BY <2>1, <2>2
<1>8. CASE k = "api"
  <2>1. Uses[k] = APIUses[k] /\ Watches[k] = APIWatches[k]
    BY <1>8, UsesRows, WatchesRows
  <2>2. APIUses[k].opts = APIWatches[k].opts
    BY <1>8 DEF APIUses, APIWatches, Entry
  <2> QED BY <2>1, <2>2
<1> QED BY <1>1, <1>2, <1>3, <1>4, <1>5, <1>6, <1>7, <1>8, CompsAre DEF Support, Servers

\* The option that turns a component on and off closes it.
LEMMA SwitchWatched ==
    \A c \in Optional : c \in Comps /\ SwitchOf(c) \in Watches[c].opts
<1>1. \A c \in Optional : c \in Comps
  BY CompsAre DEF Optional, Support, Servers
<1>2. \A c \in {"metrics", "pprof", "playback"} : SwitchOf(c) \in Watches[c].opts
  BY WatchesRows DEF Support, SupportWatches, Entry, SwitchOf
<1>3. \A c \in {"rtsp", "rtsps"} : SwitchOf(c) \in Watches[c].opts
  BY WatchesRows DEF RTSPWatches, Entry, SwitchOf
<1>4. \A c \in {"rtmp", "rtmps"} : SwitchOf(c) \in Watches[c].opts
  BY WatchesRows DEF RTMPWatches, Entry, SwitchOf
<1>5. \A c \in {"hls", "webrtc", "srt"} : SwitchOf(c) \in Watches[c].opts
  BY WatchesRows DEF HTTPAndSRTWatches, Entry, SwitchOf
<1>6. SwitchOf("api") \in Watches["api"].opts
  BY WatchesRows DEF APIWatches, Entry, SwitchOf
<1> QED BY <1>1, <1>2, <1>3, <1>4, <1>5, <1>6 DEF Optional, Servers

\* What closeResources decides on one component, given the decisions before it.
CloseStep(i, before, changed) ==
    IF \/ Watches[Order[i]].opts \cap changed # {}
       \/ Watches[Order[i]].refs \cap before # {}
    THEN before \cup {Order[i]} ELSE before

CloseSteps(f, changed) ==
    [i \in 0 .. Len(Order) |-> IF i = 0 THEN {} ELSE CloseStep(i, f[i - 1], changed)]

\* The recursive definition of Closed has a solution: the fifteen decisions.
LEMMA ClosedExists ==
    ASSUME NEW changed PROVE \E f : f = CloseSteps(f, changed)
<1> DEFINE S(i, b) == CloseStep(i, b, changed)
<1> DEFINE c1 == S(1, {})
<1> DEFINE c2 == S(2, c1)
<1> DEFINE c3 == S(3, c2)
<1> DEFINE c4 == S(4, c3)
<1> DEFINE c5 == S(5, c4)
<1> DEFINE c6 == S(6, c5)
<1> DEFINE c7 == S(7, c6)
<1> DEFINE c8 == S(8, c7)
<1> DEFINE c9 == S(9, c8)
<1> DEFINE c10 == S(10, c9)
<1> DEFINE c11 == S(11, c10)
<1> DEFINE c12 == S(12, c11)
<1> DEFINE c13 == S(13, c12)
<1> DEFINE c14 == S(14, c13)
<1> DEFINE c15 == S(15, c14)
<1> DEFINE all == <<c1, c2, c3, c4, c5, c6, c7, c8, c9, c10, c11, c12, c13, c14, c15>>
<1> DEFINE f == [i \in 0..15 |-> IF i = 0 THEN {} ELSE all[i]]
<1>1. /\ c1 = S(1, {}) /\ c2 = S(2, c1) /\ c3 = S(3, c2) /\ c4 = S(4, c3) /\ c5 = S(5, c4)
      /\ c6 = S(6, c5) /\ c7 = S(7, c6) /\ c8 = S(8, c7) /\ c9 = S(9, c8) /\ c10 = S(10, c9)
      /\ c11 = S(11, c10) /\ c12 = S(12, c11) /\ c13 = S(13, c12) /\ c14 = S(14, c13)
      /\ c15 = S(15, c14)
  OBVIOUS
<1>2. Len(Order) = 15
  BY DEF Order
<1> HIDE DEF c1, c2, c3, c4, c5, c6, c7, c8, c9, c10, c11, c12, c13, c14, c15, S
<1>3. \A i \in 1..15 : f[i] = S(i, f[i - 1])
  BY <1>1
<1>4. f = CloseSteps(f, changed)
  BY <1>2, <1>3 DEF CloseSteps, S
<1> QED BY <1>4

\* A component is closed when one of its options changed or one that it
\* watches is closed, and no component is forgotten.
LEMMA ClosedIs ==
    ASSUME NEW changed, NEW c \in Comps
    PROVE  c \in Closed(changed) <=> \/ Watches[c].opts \cap changed # {}
                                     \/ \E k \in Watches[c].refs \cap Comps :
                                          Position(k) < Position(c) /\ k \in Closed(changed)
<1> DEFINE f == CHOOSE g : g = CloseSteps(g, changed)
<1>1. Closed(changed) = f[Len(Order)]
  BY Zenon DEF Closed, CloseSteps, CloseStep
<1>2. f = CloseSteps(f, changed)
  BY ClosedExists
<1>3. Len(Order) = 15
  BY DEF Order
<1> HIDE DEF f
<1>4. f[0] = {} /\ \A i \in 1..15 : f[i] = CloseStep(i, f[i - 1], changed)
  BY <1>2, <1>3 DEF CloseSteps
<1>5. \A i \in 1..15 : f[i] \subseteq f[i - 1] \cup {Order[i]} /\ f[i - 1] \subseteq f[i]
  BY <1>4 DEF CloseStep
<1>6. \A i \in 1..15 : Order[i] \in Comps /\ Position(Order[i]) = i
  BY PositionIsRank, <1>3 DEF Comps, Order, Rank
<1> DEFINE i0 == Position(c)
<1>7. i0 \in 1..15 /\ Order[i0] = c
  BY PositionIsRank
<1>8. \A i \in 0..15 : \A k \in Comps :
         k \in f[i] <=> Position(k) <= i /\ k \in f[15]
  <2>1. \A k \in Comps : Position(k) \in 1..15
    BY PositionIsRank
  <2> SUFFICES ASSUME NEW k \in Comps
               PROVE \A i \in 0..15 : k \in f[i] <=> Position(k) <= i /\ k \in f[15]
    OBVIOUS
  <2> DEFINE p == Position(k)
  <2>2. p \in 1..15 /\ \A i \in 1..15 : Order[i] = k => i = p
    BY <2>1, <1>6
  <2>3. \A i \in 1..15 : (k \in f[i - 1] => k \in f[i]) /\ (k \in f[i] /\ i # p => k \in f[i - 1])
    BY <1>5, <2>2
  <2>4. k \notin f[0]
    BY <1>4
  <2> HIDE DEF p
  <2>5. ASSUME NEW i \in 0..15 PROVE k \in f[i] <=> p <= i /\ k \in f[15]
    <3> DEFINE up(a) == k \in f[a - 1] => k \in f[a]
               down(a) == a # p /\ k \in f[a] => k \in f[a - 1]
    <3>1. /\ up(1) /\ up(2) /\ up(3) /\ up(4) /\ up(5) /\ up(6) /\ up(7) /\ up(8) /\ up(9)
          /\ up(10) /\ up(11) /\ up(12) /\ up(13) /\ up(14) /\ up(15)
          /\ down(1) /\ down(2) /\ down(3) /\ down(4) /\ down(5) /\ down(6) /\ down(7) /\ down(8)
          /\ down(9) /\ down(10) /\ down(11) /\ down(12) /\ down(13) /\ down(14) /\ down(15)
      BY <2>3
    <3> QED BY <3>1, <2>2, <2>4
  <2> QED BY <2>5 DEF p
<1>9. i0 - 1 \in 0..15 /\ c \notin f[i0 - 1]
  BY <1>7, <1>8
<1>10. c \in f[15] <=> \/ Watches[c].opts \cap changed # {}
                       \/ Watches[c].refs \cap f[i0 - 1] # {}
  <2>1. c \in f[15] <=> c \in f[i0]
    BY <1>7, <1>8
  <2>2. f[i0] = CloseStep(i0, f[i0 - 1], changed)
    BY <1>4, <1>7
  <2> QED BY <2>1, <2>2, <1>7, <1>9 DEF CloseStep
<1>11. \A i \in 0..15 : f[i] \subseteq Comps
  <2> DEFINE in(a) == f[a] \subseteq Comps
  <2>1. \A a \in 1..15 : in(a - 1) => in(a)
    BY <1>5, <1>6
  <2>2. in(0)
    BY <1>4
  <2>3. in(1) /\ in(2) /\ in(3)
    BY <2>1, <2>2
  <2>4. in(4) /\ in(5) /\ in(6) /\ in(7)
    BY <2>1, <2>3
  <2>5. in(8) /\ in(9) /\ in(10) /\ in(11)
    BY <2>1, <2>4
  <2>6. in(12) /\ in(13) /\ in(14) /\ in(15)
    BY <2>1, <2>5
  <2> HIDE DEF in
  <2>7. \A a \in 0..15 : in(a)
    BY <2>2, <2>3, <2>4, <2>5, <2>6
  <2> QED BY <2>7 DEF in
<1>12. Watches[c].refs \cap f[i0 - 1] # {} <=>
         \E k \in Watches[c].refs \cap Comps : Position(k) < Position(c) /\ k \in f[15]
  <2>1. \A k \in Comps : k \in f[i0 - 1] <=> Position(k) <= i0 - 1 /\ k \in f[15]
    BY <1>8, <1>9
  <2>2. \A k \in Comps : Position(k) <= i0 - 1 <=> Position(k) < i0
    BY <1>7, PositionIsRank
  <2> QED BY <2>1, <2>2, <1>11, <1>9
<1> QED BY <1>1, <1>3, <1>10, <1>12

\* The dependents of what is closed are closed: srt, which does not watch
\* metrics, follows the path manager.
LEMMA ClosedIsClosed ==
    ASSUME NEW changed, NEW d \in Comps, NEW k \in Comps, Needs(d, k), k \in Closed(changed)
    PROVE  d \in Closed(changed)
<1>1. ASSUME NEW e \in Comps, NEW j \in Comps, j \in Closed(changed), j \in Watches[e].refs,
             Position(j) < Position(e)
      PROVE  e \in Closed(changed)
  BY <1>1, ClosedIs
<1>2. Position(k) < Position(d)
  BY NeedsBefore
<1>3. CASE k \in Watches[d].refs
  BY <1>1, <1>2, <1>3
<1>4. CASE k \notin Watches[d].refs
  <2>1. d = "srt" /\ k = "metrics"
    <3>1. CASE d \in Servers
      <4>1. k \in {"pathManager", "logger", "metrics"}
        BY <3>1, RefsAre DEF Needs, Informed, Servers
      <4> QED BY <1>4, <3>1, <4>1, WatchedRefsAre
    <3>2. CASE d \in {"metrics", "pprof", "playback", "pathManager"}
      <4>1. k \in {"auth", "logger"} \/ (d = "pathManager" /\ k = "metrics")
        BY <3>2, RefsAre DEF Needs, Informed, Servers
      <4> QED BY <1>4, <3>2, <4>1, WatchedRefsAre
    <3>3. CASE d \in {"logger", "auth", "cleaner"}
      BY <1>4, <3>3, RefsAre, WatchedRefsAre DEF Needs, Informed, Servers
    <3>4. CASE d = "api"
      <4>1. k \in {"auth", "pathManager", "logger"} \cup (Servers \ {"rtmps"})
        BY <3>4, RefsAre DEF Needs, Informed, Servers
      <4> QED BY <1>4, <3>4, <4>1, WatchedRefsAre
    <3> QED BY <3>1, <3>2, <3>3, <3>4, CompsAre DEF Support
  <2>2. Rank["metrics"] = 3 /\ Rank["pathManager"] = 7 /\ Rank["srt"] = 14
    BY DEF Rank
  <2>3. {"metrics", "pathManager", "srt"} \subseteq Comps
    BY CompsAre DEF Support, Servers
  <2>4. "pathManager" \in Closed(changed)
    BY <1>1, <2>1, <2>2, <2>3, PositionIsRank, WatchedRefsAre
  <2> QED BY <1>1, <2>1, <2>2, <2>3, <2>4, PositionIsRank, WatchedRefsAre
<1> QED BY <1>3, <1>4

\* What the resources keep, between any two steps.  Beside what ResourcesCurrent
\* says: a reload closes the dependents of what it closes; a component that it
\* leaves alone is wanted by the new configuration, and what it needs exists if
\* it is wanted; two components that exist know each other as they should.
ForgottenByAPI(k) == IF k = "api" THEN {"rtmps"} ELSE {}

Pointers ==
    /\ \A k \in Comps : crLive[k] \subseteq Uses[k].refs \cup {c \in Comps : k \in Informed(c)}
    /\ \A k \in Comps : crDead[k] \subseteq ForgottenByAPI(k)
    /\ \A d, k \in crUp : Needs(d, k) => /\ k \in Uses[d].refs => k \in crLive[d]
                                         /\ k \in Informed(d) => d \in crLive[k]

DependentsGoFirst == \A c \in crTodo : \A d \in crUp : Needs(d, c) => d \in crTodo

StayingWanted ==
    crPhase \in {"creating", "running", "closing"} =>
        \A d \in crUp \ crTodo : /\ d \in Wanted
                                 /\ \A k \in Wanted : Needs(d, k) => k \in crUp

CoreInv ==
    /\ CoreTypeOK
    /\ crOld = Nothing
    /\ crPhase \notin {"closing", "stopping"} => crTodo = {}
    /\ crPhase = "running" => crUp = Wanted
    /\ Pointers /\ DependentsGoFirst /\ StayingWanted

LEMMA CoreInitInv == CoreInit => CoreInv
<1> SUFFICES ASSUME CoreInit PROVE CoreInv
  OBVIOUS
<1>1. CoreTypeOK
  BY DEF CoreInit, CoreTypeOK, Nothing
<1>2. Pointers /\ DependentsGoFirst /\ StayingWanted
  BY DEF CoreInit, Pointers, DependentsGoFirst, StayingWanted, Nothing
<1> QED BY <1>1, <1>2 DEF CoreInit, CoreInv

LEMMA WantedAreComps == CoreTypeOK => Wanted \subseteq Comps
  BY SwitchWatched DEF CoreTypeOK, Wanted

LEMMA UsesTyped == \A k \in Comps : Uses[k].refs \subseteq Comps
  BY RefsAre, CompsAre DEF Support, Servers

LEMMA NoSelfNeed == \A d, k \in Comps : Needs(d, k) => d # k
  BY NeedsBefore, PositionIsRank

LEMMA CreateComponentInv ==
    ASSUME CoreInv, NEW c \in Comps, CreateComponent(c) PROVE CoreInv'
<1> USE DEF CreateComponent
<1>1. /\ crUp \subseteq Comps /\ crTodo = {} /\ crLive \in [Comps -> SUBSET Comps]
      /\ crDead \in [Comps -> SUBSET Comps] /\ crOld = Nothing /\ crPhase = "creating"
      /\ c \in Wanted \ crUp /\ Wanted \subseteq Comps /\ crOn \subseteq Optional
  BY WantedAreComps DEF CoreInv, CoreTypeOK, FirstMissing, Missing
<1>2. /\ crTodo' = {} /\ crPhase' = "creating" /\ crOn' = crOn /\ crUp' = crUp \cup {c}
      /\ Wanted' = Wanted
  BY <1>1 DEF Wanted
<1>3. crLive' \in [Comps -> SUBSET Comps]
  BY <1>1, UsesTyped
<1>4. crDead' \in [Comps -> SUBSET Comps]
  BY <1>1
<1>5. crOld' = Nothing
  BY <1>1 DEF Nothing
<1>6. CoreTypeOK'
  <2>1. crOld' \in [Comps -> SUBSET Options]
    BY <1>5 DEF Nothing
  <2> QED BY <1>1, <1>2, <1>3, <1>4, <2>1 DEF CoreTypeOK
<1>7. \A d \in Comps : Needs(d, c) => d \notin crUp
  BY <1>1 DEF CoreInv, StayingWanted
<1>8. \A k \in Wanted : Needs(c, k) => k \in crUp
  <2> SUFFICES ASSUME NEW k \in Wanted, Needs(c, k), k \notin crUp PROVE FALSE
    OBVIOUS
  <2>1. Position(k) < Position(c)
    BY <1>1, NeedsBefore
  <2>2. Position(c) <= Position(k)
    BY DEF FirstMissing, Missing
  <2> QED BY <1>1, <2>1, <2>2, PositionIsRank
<1>9. Pointers'
  <2>1. ASSUME NEW k \in Comps
        PROVE crLive'[k] \subseteq Uses[k].refs \cup {e \in Comps : k \in Informed(e)}
    BY <1>1 DEF CoreInv, Pointers
  <2>2. ASSUME NEW k \in Comps PROVE crDead'[k] \subseteq ForgottenByAPI(k)
    BY <1>1 DEF CoreInv, Pointers
  <2>3. ASSUME NEW d \in crUp', NEW k \in crUp', Needs(d, k)
        PROVE /\ k \in Uses[d].refs => k \in crLive'[d]
              /\ k \in Informed(d) => d \in crLive'[k]
    <3>1. d \in Comps /\ k \in Comps /\ d # k
      BY <1>1, <2>3, NoSelfNeed
    <3>2. k # c
      BY <1>7, <2>3, <3>1
    <3>3. CASE d = c
      BY <1>1, <2>3, <3>1, <3>2, <3>3
    <3>4. CASE d # c
      BY <1>1, <2>3, <3>1, <3>2, <3>4 DEF CoreInv, Pointers
    <3> QED BY <3>3, <3>4
  <2> QED BY <2>1, <2>2, <2>3 DEF Pointers
<1>10. DependentsGoFirst'
  BY <1>2 DEF DependentsGoFirst
<1>11. StayingWanted'
  BY <1>1, <1>2, <1>8 DEF StayingWanted, CoreInv
<1> QED BY <1>2, <1>5, <1>6, <1>9, <1>10, <1>11 DEF CoreInv

LEMMA CloseComponentInv ==
    ASSUME CoreInv, NEW c \in Comps, CloseComponent(c) PROVE CoreInv'
<1> USE DEF CloseComponent
<1>1. /\ crUp \subseteq Comps /\ crTodo \subseteq crUp /\ crLive \in [Comps -> SUBSET Comps]
      /\ crDead \in [Comps -> SUBSET Comps] /\ crOld = Nothing
      /\ c \in crTodo /\ Wanted \subseteq Comps /\ crOn \subseteq Optional
  BY WantedAreComps DEF CoreInv, CoreTypeOK
<1>2. /\ crTodo' = crTodo \ {c} /\ crPhase' = crPhase /\ crOn' = crOn /\ crUp' = crUp \ {c}
      /\ Wanted' = Wanted
  BY <1>1 DEF Wanted
<1>3. \A d \in crUp : ~Needs(d, c)
  <2> SUFFICES ASSUME NEW d \in crUp, Needs(d, c) PROVE FALSE
    OBVIOUS
  <2>1. d \in crTodo
    BY <1>1 DEF CoreInv, DependentsGoFirst
  <2>2. Position(d) <= Position(c)
    BY <2>1
  <2>3. Position(c) < Position(d)
    BY <1>1, NeedsBefore
  <2> QED BY <1>1, <2>2, <2>3, PositionIsRank
<1>4. crOld' = Nothing
  BY <1>1 DEF Nothing
<1>5. CoreTypeOK'
  <2>1. crOld' \in [Comps -> SUBSET Options]
    BY <1>4 DEF Nothing
  <2> QED BY <1>1, <1>2, <2>1 DEF CoreTypeOK, CoreInv
<1>6. Pointers'
  <2>1. ASSUME NEW k \in Comps
        PROVE crLive'[k] \subseteq Uses[k].refs \cup {e \in Comps : k \in Informed(e)}
    BY <1>1 DEF CoreInv, Pointers
  <2>2. ASSUME NEW k \in Comps PROVE crDead'[k] \subseteq ForgottenByAPI(k)
    <3>1. CASE k # c /\ k \in crUp \ Informed(c) /\ c \in crLive[k]
      <4>1. c \in Uses[k].refs
        BY <1>1, <3>1 DEF CoreInv, Pointers
      <4>2. k = "api" /\ c = "rtmps"
        BY <1>3, <3>1, <4>1 DEF Needs
      <4>3. crDead'[k] = crDead[k] \cup {c}
        BY <1>1, <3>1
      <4> QED BY <1>1, <4>2, <4>3 DEF CoreInv, Pointers, ForgottenByAPI
    <3>2. CASE ~(k # c /\ k \in crUp \ Informed(c) /\ c \in crLive[k])
      <4>1. crDead'[k] = {} \/ crDead'[k] = crDead[k]
        BY <1>1, <3>2
      <4> QED BY <4>1 DEF CoreInv, Pointers
    <3> QED BY <3>1, <3>2
  <2>3. ASSUME NEW d \in crUp', NEW k \in crUp', Needs(d, k)
        PROVE /\ k \in Uses[d].refs => k \in crLive'[d]
              /\ k \in Informed(d) => d \in crLive'[k]
    <3>1. crLive'[d] = crLive[d] \ {c} /\ crLive'[k] = crLive[k] \ {c}
      BY <1>1, <1>2
    <3> QED BY <1>2, <2>3, <3>1 DEF CoreInv, Pointers
  <2> QED BY <2>1, <2>2, <2>3 DEF Pointers
<1>7. DependentsGoFirst'
  BY <1>2 DEF DependentsGoFirst, CoreInv
<1>8. StayingWanted'
  BY <1>1, <1>2, <1>3 DEF StayingWanted, CoreInv
<1> QED BY <1>2, <1>4, <1>5, <1>6, <1>7, <1>8 DEF CoreInv

LEMMA ReloadInv == ASSUME CoreInv, Reload PROVE CoreInv'
<1>1. PICK changed \in Changes, flipped \in SUBSET Switchable :
         /\ \A c \in flipped : SwitchOf(c) \in changed
         /\ crOn' = (crOn \ flipped) \cup (flipped \ crOn)
         /\ crTodo' = Closed(changed) \cap crUp
         /\ crOld' = [k \in Comps |->
                        IF k \in crUp \ Closed(changed)
                        THEN crOld[k] \cup ((Uses[k].opts \cap changed) \ Reloaded[k])
                        ELSE crOld[k]]
  BY DEF Reload
<1>2. /\ crPhase = "running" /\ crPhase' = "closing" /\ crUp' = crUp /\ crLive' = crLive
      /\ crDead' = crDead
  BY DEF Reload
<1>3. /\ crUp = Wanted /\ crUp \subseteq Comps /\ crOld = Nothing /\ crTodo = {}
      /\ crOn \subseteq Optional
  BY <1>2 DEF CoreInv, CoreTypeOK
<1>4. \A k \in Comps \ Closed(changed) : Watches[k].opts \cap changed = {}
  BY ClosedIs
<1>5. \A k \in Comps \ Closed(changed) : (Uses[k].opts \cap changed) \ Reloaded[k] = {}
  BY <1>4, OptionsCovered
<1>6. crOld' = Nothing
  BY <1>1, <1>3, <1>5 DEF Nothing
<1>7. flipped \subseteq Optional /\ flipped \subseteq Closed(changed)
  <2>1. flipped \subseteq Optional
    BY ReloadChoices
  <2>2. \A c \in flipped : c \in Comps /\ Watches[c].opts \cap changed # {}
    BY <1>1, <2>1, SwitchWatched
  <2> QED BY <1>4, <2>1, <2>2
<1>8. CoreTypeOK'
  <2>1. crOld' \in [Comps -> SUBSET Options]
    BY <1>6 DEF Nothing
  <2> QED BY <1>1, <1>2, <1>3, <1>7, <2>1 DEF CoreTypeOK, CoreInv
<1>9. Pointers'
  BY <1>2 DEF Pointers, CoreInv
<1>10. DependentsGoFirst'
  BY <1>1, <1>2, <1>3, ClosedIsClosed DEF DependentsGoFirst
<1>11. StayingWanted'
  <2>1. \A k \in Wanted' \ Wanted : k \in flipped
    BY <1>1 DEF Wanted
  <2>2. \A k \in Wanted \ Wanted' : k \in flipped
    BY <1>1 DEF Wanted
  <2>3. Wanted' \subseteq Comps
    BY <1>8, SwitchWatched DEF CoreTypeOK, Wanted
  <2>4. ASSUME NEW d \in crUp' \ crTodo'
        PROVE  d \in Wanted' /\ \A k \in Wanted' : Needs(d, k) => k \in crUp'
    <3>1. d \in crUp /\ d \in Comps /\ d \notin Closed(changed)
      BY <1>1, <1>2, <1>3
    <3>2. d \in Wanted'
      BY <1>3, <1>7, <2>2, <3>1
    <3>3. ASSUME NEW k \in Wanted', Needs(d, k) PROVE k \in crUp'
      BY <1>2, <1>3, <1>7, <2>1, <2>3, <3>1, <3>3, ClosedIsClosed
    <3> QED BY <3>2, <3>3
  <2> QED BY <2>4 DEF StayingWanted
<1> QED BY <1>2, <1>6, <1>8, <1>9, <1>10, <1>11 DEF CoreInv

\* The steps that only change the phase and what is left to close.
LEMMA PhaseInv ==
    ASSUME CoreInv, UNCHANGED <<crUp, crLive, crDead, crOld, crOn>>,
           crTodo' \in {{}, crUp},
           crPhase' \in {"creating", "running", "closing", "stopping", "done", "panic"},
           crPhase' \notin {"closing", "stopping"} => crTodo' = {},
           crPhase' = "running" => crUp = Wanted,
           crPhase' \in {"creating", "running", "closing"} =>
             crTodo' = {} /\ crTodo = {} /\ crPhase \in {"creating", "running", "closing"}
    PROVE  CoreInv'
<1>1. CoreTypeOK'
  BY DEF CoreInv, CoreTypeOK
<1>2. Wanted' = Wanted
  BY DEF Wanted
<1>3. Pointers' /\ DependentsGoFirst'
  BY DEF CoreInv, Pointers, DependentsGoFirst
<1>4. StayingWanted'
  BY <1>2 DEF CoreInv, StayingWanted
<1> QED BY <1>1, <1>2, <1>3, <1>4 DEF CoreInv

LEMMA CoreStepInv == CoreInv /\ [CoreNext]_crVars => CoreInv'
<1> SUFFICES ASSUME CoreInv, [CoreNext]_crVars PROVE CoreInv'
  OBVIOUS
<1>1. ASSUME NEW c \in Comps, CreateComponent(c) PROVE CoreInv'
  BY <1>1, CreateComponentInv
<1>2. ASSUME NEW c \in Comps, CreateFails(c) PROVE CoreInv'
  <2>1. UNCHANGED <<crUp, crLive, crDead, crOld, crOn>>
    BY <1>2 DEF CreateFails
  <2>2. (crPhase' = "stopping" /\ crTodo' = crUp) \/ (crPhase' = "panic" /\ crTodo' = {})
    BY <1>2 DEF CreateFails
  <2> QED BY <2>1, <2>2, PhaseInv
<1>3. ASSUME NEW c \in Comps, CloseComponent(c) PROVE CoreInv'
  BY <1>3, CloseComponentInv
<1>4. CASE CreateDone
  <2>1. crUp = Wanted
    BY <1>4 DEF CreateDone, Missing, CoreInv, StayingWanted
  <2> QED BY <1>4, <2>1, PhaseInv DEF CreateDone, CoreInv
<1>5. CASE Reload
  BY <1>5, ReloadInv
<1>6. CASE Stop
  BY <1>6, PhaseInv DEF Stop, CoreInv
<1>7. CASE CloseDone
  BY <1>7, PhaseInv DEF CloseDone, CoreInv
<1>8. CASE UNCHANGED crVars
  BY <1>8 DEF crVars, CoreInv, CoreTypeOK, Pointers, DependentsGoFirst, StayingWanted, Wanted
<1> QED BY <1>1, <1>2, <1>3, <1>4, <1>5, <1>6, <1>7, <1>8 DEF CoreNext

LEMMA CoreInvHolds == CoreSpec => []CoreInv
  BY CoreInitInv, CoreStepInv, PTL DEF CoreSpec

\* core.go: the resources keep their types.
THEOREM CoreTypeCorrect == CoreSpec => []CoreTypeOK
<1>1. CoreInv => CoreTypeOK
  BY DEF CoreInv
<1> QED BY <1>1, CoreInvHolds, PTL

\* core.go: whatever options change in however many reloads, and wherever a
\* creation fails, no component uses a closed one, and once a reload is over
\* every enabled component exists, with its options and its pointers current.
THEOREM ResourcesStayCurrent == CoreSpec => []ResourcesCurrent
<1>1. CoreInv => ResourcesCurrent
  <2> SUFFICES ASSUME CoreInv PROVE ResourcesCurrent
    OBVIOUS
  <2>1. ReferencesCurrent
    BY DEF CoreInv, CoreTypeOK, Pointers, ForgottenByAPI, ReferencesCurrent
  <2>2. ASSUME crPhase = "running", NEW k \in crUp, NEW c \in Comps, c \in crUp,
               c \in Uses[k].refs \/ k \in Informed(c), c \notin crLive[k]
        PROVE  k = "api" /\ c = "rtmps"
    <3>1. k \in Comps /\ crUp \subseteq Comps
      BY DEF CoreInv, CoreTypeOK
    <3>2. CASE c \in Uses[k].refs
      BY <2>2, <3>1, <3>2 DEF CoreInv, Pointers, Needs
    <3>3. CASE k \in Informed(c)
      <4>1. Needs(c, k)
        BY <3>3 DEF Needs, Informed, Servers
      <4> QED BY <2>2, <3>1, <3>3, <4>1 DEF CoreInv, Pointers
    <3> QED BY <2>2, <3>2, <3>3
  <2>3. ASSUME crPhase = "running", NEW k \in crUp PROVE crOld[k] = {}
    BY DEF CoreInv, CoreTypeOK, Nothing
  <2>4. SettingsCurrent
    <3> SUFFICES ASSUME crPhase = "running" PROVE SettingsCurrent
      BY DEF SettingsCurrent
    <3>1. crUp = Wanted
      BY DEF CoreInv
    <3>2. ASSUME NEW k \in crUp
          PROVE ((Uses[k].refs \cup {c \in Comps : k \in Informed(c)}) \cap crUp) \ crLive[k]
                  \subseteq (IF k = "api" THEN {"rtmps"} ELSE {})
      <4>1. crUp \subseteq Comps
        BY DEF CoreInv, CoreTypeOK
      <4> QED BY <2>2, <4>1
    <3> QED BY <2>3, <3>1, <3>2 DEF SettingsCurrent
  <2> QED BY <2>1, <2>4 DEF ResourcesCurrent
<1> QED BY <1>1, CoreInvHolds, PTL
===============================================================================
