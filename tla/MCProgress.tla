----------------------------- MODULE MCProgress -----------------------------
(* Bounded instances of the components whose work must get done. They share no state: a  *)
(* behaviour is a behaviour of one of them, chosen at the start, under the fairness that *)
(* its own specification states, and the variables of the others keep their values.      *)
EXTENDS MCClusterControlPlane, PushOutbox, ScheduledMessages, FileProcessing, UserCache
VARIABLE component

ProgressInit ==
    /\ component \in {"control", "outbox", "schedule", "files", "cache"}
    /\ RunningInit /\ OutboxInit /\ SchedInit /\ FileInit /\ UserCacheInit
    \* One initial state of a component that is not chosen is enough.
    /\ component # "schedule" => isLocal[CHOOSE n \in SNode : TRUE]
    /\ component # "files" => content = "fine" /\ scanner

Only(name) == component = name /\ UNCHANGED component

ProgressNext ==
    \/ /\ Only("control") /\ CPNext
       /\ UNCHANGED <<outboxVars, schedVars, fileVars, cacheVars>>
    \/ /\ Only("outbox") /\ OutboxNext
       /\ UNCHANGED <<cpVars, schedVars, fileVars, cacheVars>>
    \/ /\ Only("schedule") /\ SchedNext
       /\ UNCHANGED <<cpVars, outboxVars, fileVars, cacheVars>>
    \/ /\ Only("files") /\ FileNext
       /\ UNCHANGED <<cpVars, outboxVars, schedVars, cacheVars>>
    \/ /\ Only("cache") /\ UserCacheNext
       /\ UNCHANGED <<cpVars, outboxVars, schedVars, fileVars>>

\* The fairness that each component states, of the chosen one.
ProgressFairness ==
    /\ \A p \in Proc \ Disturbed :
          /\ WF_cpVars(component = "control" /\ WatchEvent(p))
          /\ WF_cpVars(component = "control" /\ RefreshRead(p))
          /\ WF_cpVars(component = "control" /\ RefreshGoesOn(p))
    /\ \A w \in Worker : WF_outboxVars(component = "outbox" /\ WorkerStep(w))
    /\ \A j \in Job :
          /\ WF_outboxVars(component = "outbox" /\ TimePasses(j))
          /\ WF_outboxVars(component = "outbox" /\ (ReplayPut(j) \/ ReplayDelete(j)))
    /\ WF_outboxVars(component = "outbox" /\ (persistReceipt \/ EnqueueDone \/ EnqueueUndo))
    /\ WF_schedVars(component = "schedule" /\ ClaimExpires)
    /\ \A n \in SNode :
          /\ WF_schedVars(component = "schedule" /\ schedulerStep(n))
          /\ WF_schedVars(component = "schedule" /\ hubTakes(n))
          /\ WF_schedVars(component = "schedule" /\ topicLoads(n))
          /\ WF_schedVars(component = "schedule" /\ topicStepOf(n))
          /\ WF_schedVars(component = "schedule" /\ dyingStep(n))
    /\ WF_fileVars(component = "files" /\ fileTimePasses)
    /\ WF_fileVars(component = "files" /\ (queueSave \/ enqueueJob))
    /\ \A w \in FileWorker : WF_fileVars(component = "files" /\ fileStep(w))
    /\ WF_cacheVars(component = "cache" /\ sendRequest)
    /\ WF_cacheVars(component = "cache" /\ updaterStep)
    /\ WF_cacheVars(component = "cache" /\ \E r \in reads : readRows(r))

progressVars == <<component, cpVars, outboxVars, schedVars, fileVars, cacheVars>>
ProgressSpec == ProgressInit /\ [][ProgressNext]_progressVars /\ ProgressFairness

\* The type invariants of the components.
ProgressTypeOK == OutboxTypeOK /\ SchedTypeOK /\ CacheTypeOK
=============================================================================
