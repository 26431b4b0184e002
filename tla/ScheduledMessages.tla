-------------------------- MODULE ScheduledMessages --------------------------
(***************************************************************************)
(* Scheduled messages of one topic and one client id: a row per accepted   *)
(* request, scanned by every node, claimed through a lease of the control  *)
(* plane, handed to the Hub and to the topic, which publishes the message  *)
(* under its client id and removes the row.                                *)
(*                                                                         *)
(* A node may believe that the topic is its own while another one does     *)
(* too. A topic that the Hub unloads is marked deleted, leaves the Hub's   *)
(* map, and may still take messages from its queue before it ends.         *)
(***************************************************************************)
EXTENDS Naturals, Sequences, FiniteSets

CONSTANTS
    SNode,        \* the nodes of the cluster
    MaxRow,       \* bound: rows that are ever inserted
    SchedQueue,   \* capacity of the queues of the Hub and of the topic
    MaxSchedFault \* bound: errors, crashes, unloads and claims that expire in use

ASSUME SchedAssumption == {MaxRow, SchedQueue, MaxSchedFault} \subseteq Nat

Row == 1 .. MaxRow

VARIABLES
    rows,       \* rows of the table scheduledmessages
    rowCount,   \* ids that were given to rows
    due,        \* rows whose publishat has come
    claims,     \* rows with a key under task-claims
    expired,    \* how often the claim of each row has expired
    isLocal,    \* nodes that take the topic for their own
    scan,       \* the rest of the batch every scheduler has read
    hubSchedule, topicQueue,
    topicState, \* the topic in the Hub's map: absent, loading or active
    topicStep,  \* what the loop of that topic is in the middle of
    dying,      \* the queue of a topic that was unloaded and has not ended
    topicMessages,   \* rows whose message was inserted, at most one by the index on the client id
    accepted, cancelled, refused,
    dropped,    \* rows a topic removed though no one had cancelled or refused them: it was being
                \* unloaded, or could not read the sender's role in an official channel
    schedFaults

schedVars == <<rows, rowCount, due, claims, expired, isLocal, scan, hubSchedule, topicQueue,
               topicState, topicStep, dying, topicMessages, accepted, cancelled, refused, dropped,
               schedFaults>>
tableVars == <<rows, rowCount, due>>
nodeVars == <<isLocal, scan, hubSchedule, topicQueue, topicState, topicStep, dying>>
outcomeVars == <<topicMessages, accepted, cancelled, refused, dropped>>

NoStep == [pc |-> "idle", row |-> 0]
SchedFault == schedFaults < MaxSchedFault /\ schedFaults' = schedFaults + 1

\* Copies of row r on their way to a topic: the places in queues that hold it.
SchedPlace == [queue : {"hub", "topic", "dying"}, node : SNode, at : 1 .. SchedQueue]
QueueAt(c) ==
    (IF c.queue = "hub" THEN hubSchedule ELSE IF c.queue = "topic" THEN topicQueue ELSE dying)[c.node]
CopiesOf(r) == {c \in SchedPlace : c.at <= Len(QueueAt(c)) /\ QueueAt(c)[c.at] = r}
Copies(r) == Cardinality(CopiesOf(r))

-----------------------------------------------------------------------------
(* scheduleMessage, in the loop of an active topic. *)

Idle(n) == topicState[n] = "active" /\ topicStep[n] = NoStep

\* Neither a message nor a row has the client id yet.
scheduleCheck(n) ==
    /\ Idle(n) /\ topicMessages = {} /\ rows = {} /\ rowCount < MaxRow
    /\ topicStep' = [topicStep EXCEPT ![n] = [pc |-> "insert", row |-> 0]]
    /\ UNCHANGED <<tableVars, claims, expired, isLocal, scan, hubSchedule, topicQueue, topicState,
                   dying, outcomeVars, schedFaults>>

\* store.Schedule: the index on topic, sender and client id refuses a second row.
scheduleInsert(n) ==
    /\ topicStep[n].pc = "insert"
    /\ IF rows = {} /\ rowCount < MaxRow
         THEN /\ rows' = rows \cup {rowCount + 1} /\ rowCount' = rowCount + 1
              /\ accepted' = accepted \cup {rowCount + 1}
         ELSE UNCHANGED <<rows, rowCount, accepted>>
    /\ topicStep' = [topicStep EXCEPT ![n] = NoStep]
    /\ UNCHANGED <<due, claims, expired, isLocal, scan, hubSchedule, topicQueue, topicState, dying,
                   topicMessages, cancelled, refused, dropped, schedFaults>>

\* replyDelScheduled: the row is deleted and the sender told so.
replyDelScheduled(n) ==
    \E r \in rows :
        /\ Idle(n) /\ rows' = rows \ {r} /\ cancelled' = cancelled \cup {r}
        /\ UNCHANGED <<rowCount, due, claims, expired, nodeVars, topicMessages, accepted, refused,
                       dropped, schedFaults>>

DueTimePasses ==
    \E r \in rows \ due :
        /\ due' = due \cup {r}
        /\ UNCHANGED <<rows, rowCount, claims, expired, nodeVars, outcomeVars, schedFaults>>

-----------------------------------------------------------------------------
(* dispatchDueScheduledMessages, every second on every node. *)

readDue(n) ==
    /\ scan[n] = {} /\ rows \cap due # {}
    /\ scan' = [scan EXCEPT ![n] = rows \cap due]
    /\ UNCHANGED <<tableVars, claims, expired, isLocal, hubSchedule, topicQueue, topicState,
                   topicStep, dying, outcomeVars, schedFaults>>

\* ClaimTask: the key is put if it does not exist.
ClaimTask(r) == r \notin claims

\* A row of the batch: skipped if the topic is remote or the row is claimed; if the Hub's
\* queue is full the rest of the batch waits for the next round.
dispatch(n) ==
    \E r \in scan[n] :
        /\ IF isLocal[n] /\ ClaimTask(r)
             THEN /\ claims' = claims \cup {r}
                  /\ IF Len(hubSchedule[n]) < SchedQueue
                       THEN /\ hubSchedule' = [hubSchedule EXCEPT ![n] = Append(@, r)]
                            /\ scan' = [scan EXCEPT ![n] = @ \ {r}]
                       ELSE /\ scan' = [scan EXCEPT ![n] = {}]
                            /\ UNCHANGED hubSchedule
             ELSE /\ scan' = [scan EXCEPT ![n] = @ \ {r}]
                  /\ UNCHANGED <<claims, hubSchedule>>
        /\ UNCHANGED <<tableVars, expired, isLocal, topicQueue, topicState, topicStep, dying,
                       outcomeVars, schedFaults>>

\* Writes are not allowed, or the claim fails, with or without the key in place.
dispatchFails(n) ==
    \E r \in scan[n] :
        /\ SchedFault
        /\ claims' \in {claims, claims \cup {r}}
        /\ scan' = [scan EXCEPT ![n] = {}]
        /\ UNCHANGED <<tableVars, expired, isLocal, hubSchedule, topicQueue, topicState, topicStep,
                       dying, outcomeVars>>

\* Faulty variant: the lease is kept alive while the row exists.
ClaimOutlivesRow ==
    \E r \in claims \ rows :
        /\ claims' = claims \ {r}
        /\ UNCHANGED <<tableVars, expired, nodeVars, outcomeVars, schedFaults>>

\* The lease of a claim ends; while a copy of the row is on its way that counts as a fault.
ClaimExpires ==
    \E r \in claims :
        /\ IF Copies(r) > 0 THEN SchedFault ELSE UNCHANGED schedFaults
        /\ claims' = claims \ {r}
        /\ expired' = [expired EXCEPT ![r] = IF Copies(r) > 0 THEN @ + 1 ELSE @]
        /\ UNCHANGED <<tableVars, nodeVars, outcomeVars>>

-----------------------------------------------------------------------------
(* The Hub and the topic. *)

\* The Hub makes the topic if need be and hands the message over unless the queue is full.
hubTakes(n) ==
    /\ hubSchedule[n] # <<>>
    /\ hubSchedule' = [hubSchedule EXCEPT ![n] = Tail(@)]
    /\ topicState' = [topicState EXCEPT ![n] = IF @ = "absent" THEN "loading" ELSE @]
    /\ topicQueue' = [topicQueue EXCEPT ![n] =
          IF Len(@) < SchedQueue THEN Append(@, Head(hubSchedule[n])) ELSE @]
    /\ UNCHANGED <<tableVars, claims, expired, isLocal, scan, topicStep, dying, outcomeVars,
                   schedFaults>>

\* topicInit, for a scheduled message or for a client that joins.
topicLoads(n) ==
    /\ topicState[n] = "loading" \/ (topicState[n] = "absent" /\ isLocal[n])
    /\ topicState' = [topicState EXCEPT ![n] = "active"]
    /\ UNCHANGED <<tableVars, claims, expired, isLocal, scan, hubSchedule, topicQueue, topicStep,
                   dying, outcomeVars, schedFaults>>

\* It fails: what waits in the queue is drained, the rows stay.
topicLoadFails(n) ==
    /\ topicState[n] = "loading" /\ SchedFault
    /\ topicState' = [topicState EXCEPT ![n] = "absent"]
    /\ topicQueue' = [topicQueue EXCEPT ![n] = <<>>]
    /\ UNCHANGED <<tableVars, claims, expired, isLocal, scan, hubSchedule, topicStep, dying,
                   outcomeVars>>

\* Faulty variant: the row is removed first.
publishRemovesFirst(n) ==
    /\ Idle(n) /\ topicQueue[n] # <<>>
    /\ rows' = rows \ {Head(topicQueue[n])}
    /\ topicStep' = [topicStep EXCEPT ![n] = [pc |-> "remove", row |-> Head(topicQueue[n])]]
    /\ topicQueue' = [topicQueue EXCEPT ![n] = Tail(@)]
    /\ UNCHANGED <<rowCount, due, claims, expired, isLocal, scan, hubSchedule, topicState, dying,
                   outcomeVars, schedFaults>>

\* handlePubBroadcast saves the message; a client id that exists is a success too.
publish(n) ==
    /\ Idle(n) /\ topicQueue[n] # <<>>
    /\ LET r == Head(topicQueue[n])
       IN  /\ topicMessages' = IF topicMessages = {} THEN {r} ELSE topicMessages
           /\ topicStep' = [topicStep EXCEPT ![n] = [pc |-> "remove", row |-> r]]
    /\ topicQueue' = [topicQueue EXCEPT ![n] = Tail(@)]
    /\ UNCHANGED <<tableVars, claims, expired, isLocal, scan, hubSchedule, topicState, dying,
                   accepted, cancelled, refused, dropped, schedFaults>>

\* The save fails for now: the row stays. It may have been committed.
publishFails(n) ==
    /\ Idle(n) /\ topicQueue[n] # <<>> /\ SchedFault
    /\ topicMessages' \in {topicMessages, IF topicMessages = {} THEN {Head(topicQueue[n])} ELSE topicMessages}
    /\ topicQueue' = [topicQueue EXCEPT ![n] = Tail(@)]
    /\ UNCHANGED <<tableVars, claims, expired, isLocal, scan, hubSchedule, topicState, topicStep,
                   dying, accepted, cancelled, refused, dropped>>

\* It can never succeed (read-only topic, sender without permission, not a member of the official
\* channel any more): the row is removed.
publishRefused(n) ==
    /\ Idle(n) /\ topicQueue[n] # <<>>
    /\ LET r == Head(topicQueue[n])
       IN  /\ rows' = rows \ {r} /\ refused' = refused \cup {r}
    /\ topicQueue' = [topicQueue EXCEPT ![n] = Tail(@)]
    /\ UNCHANGED <<rowCount, due, claims, expired, isLocal, scan, hubSchedule, topicState,
                   topicStep, dying, topicMessages, accepted, cancelled, dropped, schedFaults>>

\* An official channel reads the policy and the sender's subscription before it publishes: an error
\* of the store is taken for a refusal, and the row is removed.
publishRefreshFails(n) ==
    /\ Idle(n) /\ topicQueue[n] # <<>> /\ SchedFault
    /\ LET r == Head(topicQueue[n])
       IN  /\ rows' = rows \ {r}
           /\ dropped' = IF r \in rows THEN dropped \cup {r} ELSE dropped
    /\ topicQueue' = [topicQueue EXCEPT ![n] = Tail(@)]
    /\ UNCHANGED <<rowCount, due, claims, expired, isLocal, scan, hubSchedule, topicState,
                   topicStep, dying, topicMessages, accepted, cancelled, refused>>

\* removeScheduled after the save; its error is only logged.
removeScheduled(n) ==
    /\ topicStep[n].pc = "remove"
    /\ \/ rows' = rows \ {topicStep[n].row} /\ UNCHANGED schedFaults
       \/ SchedFault /\ UNCHANGED rows
    /\ topicStep' = [topicStep EXCEPT ![n] = NoStep]
    /\ UNCHANGED <<rowCount, due, claims, expired, isLocal, scan, hubSchedule, topicQueue,
                   topicState, dying, outcomeVars>>

\* Idle timer or rehash: topicUnreg marks the topic deleted and takes it out of the map.
topicUnreg(n) ==
    /\ Idle(n) /\ dying[n] = <<>> /\ SchedFault
    /\ topicState' = [topicState EXCEPT ![n] = "absent"]
    /\ dying' = [dying EXCEPT ![n] = topicQueue[n]]
    /\ topicQueue' = [topicQueue EXCEPT ![n] = <<>>]
    /\ UNCHANGED <<tableVars, claims, expired, isLocal, scan, hubSchedule, topicStep, outcomeVars>>

\* The unloaded topic takes a message before it takes the exit: it is deleted, so the row goes.
dyingTakes(n) ==
    /\ dying[n] # <<>>
    /\ LET r == Head(dying[n])
       IN  /\ rows' = rows \ {r}
           /\ dropped' = IF r \in rows THEN dropped \cup {r} ELSE dropped
    /\ dying' = [dying EXCEPT ![n] = Tail(@)]
    /\ UNCHANGED <<rowCount, due, claims, expired, isLocal, scan, hubSchedule, topicQueue,
                   topicState, topicStep, topicMessages, accepted, cancelled, refused, schedFaults>>

dyingEnds(n) ==
    /\ dying[n] # <<>>
    /\ dying' = [dying EXCEPT ![n] = <<>>]
    /\ UNCHANGED <<tableVars, claims, expired, isLocal, scan, hubSchedule, topicQueue, topicState,
                   topicStep, outcomeVars, schedFaults>>

-----------------------------------------------------------------------------
(* The environment: views change, nodes crash. *)

viewMoves(n) ==
    /\ SchedFault /\ isLocal' = [isLocal EXCEPT ![n] = ~@]
    /\ \E m \in SNode : isLocal'[m]
    /\ UNCHANGED <<tableVars, claims, expired, scan, hubSchedule, topicQueue, topicState, topicStep,
                   dying, outcomeVars>>

nodeCrashes(n) ==
    /\ SchedFault
    /\ scan' = [scan EXCEPT ![n] = {}]
    /\ hubSchedule' = [hubSchedule EXCEPT ![n] = <<>>]
    /\ topicQueue' = [topicQueue EXCEPT ![n] = <<>>]
    /\ topicState' = [topicState EXCEPT ![n] = "absent"]
    /\ topicStep' = [topicStep EXCEPT ![n] = NoStep]
    /\ dying' = [dying EXCEPT ![n] = <<>>]
    /\ UNCHANGED <<tableVars, claims, expired, isLocal, outcomeVars>>

-----------------------------------------------------------------------------
SchedInit ==
    /\ rows = {} /\ rowCount = 0 /\ due = {} /\ claims = {} /\ expired = [r \in Row |-> 0]
    /\ \E n \in SNode : isLocal = [m \in SNode |-> m = n]
    /\ scan = [n \in SNode |-> {}]
    /\ hubSchedule = [n \in SNode |-> <<>>] /\ topicQueue = [n \in SNode |-> <<>>]
    /\ topicState = [n \in SNode |-> "absent"] /\ topicStep = [n \in SNode |-> NoStep]
    /\ dying = [n \in SNode |-> <<>>]
    /\ topicMessages = {} /\ accepted = {} /\ cancelled = {} /\ refused = {} /\ dropped = {}
    /\ schedFaults = 0

schedulerStep(n) == readDue(n) \/ dispatch(n)
dyingStep(n) == dyingTakes(n) \/ dyingEnds(n)
topicStepOf(n) == scheduleInsert(n) \/ publish(n) \/ publishRefused(n) \/ removeScheduled(n)

SchedNext ==
    \/ DueTimePasses \/ ClaimExpires
    \/ \E n \in SNode :
          \/ scheduleCheck(n) \/ replyDelScheduled(n)
          \/ schedulerStep(n) \/ dispatchFails(n)
          \/ hubTakes(n) \/ topicLoads(n) \/ topicLoadFails(n)
          \/ topicStepOf(n) \/ publishFails(n) \/ publishRefreshFails(n)
          \/ topicUnreg(n) \/ dyingStep(n)
          \/ viewMoves(n) \/ nodeCrashes(n)

\* Claims run out, and the loops of the scheduler, the Hub and the topic go on. Faults, the
\* moves of the topic and what users ask for are not fair.
SchedFairness ==
    /\ WF_schedVars(ClaimExpires)
    /\ \A n \in SNode :
          /\ WF_schedVars(schedulerStep(n)) /\ WF_schedVars(hubTakes(n)) /\ WF_schedVars(topicLoads(n))
          /\ WF_schedVars(topicStepOf(n)) /\ WF_schedVars(dyingStep(n))
SchedSpec == SchedInit /\ [][SchedNext]_schedVars /\ SchedFairness

-----------------------------------------------------------------------------
\* Type invariant; a full queue never grows.
SchedTypeOK ==
    /\ rows \subseteq 1 .. rowCount /\ rowCount \in 0 .. MaxRow
    /\ due \subseteq Row /\ claims \subseteq Row /\ expired \in [Row -> 0 .. MaxSchedFault]
    /\ isLocal \in [SNode -> BOOLEAN] /\ scan \in [SNode -> SUBSET Row]
    /\ \A q \in {hubSchedule, topicQueue, dying} :
          \A n \in SNode : Len(q[n]) <= SchedQueue /\ \A i \in 1 .. Len(q[n]) : q[n][i] \in Row
    /\ topicState \in [SNode -> {"absent", "loading", "active"}]
    /\ topicStep \in [SNode -> [pc : {"idle", "insert", "remove"}, row : Row \cup {0}]]
    /\ \A S \in {topicMessages, accepted, cancelled, refused, dropped} : S \subseteq Row
    /\ schedFaults \in 0 .. MaxSchedFault

\* An accepted request is in the table until its message exists, its sender has cancelled it
\* or a topic has refused it for good, whatever fails, crashes or moves. Two things drop it: a
\* topic that is being unloaded, and a store that fails an official channel for a moment.
ScheduledIsKept ==
    \A r \in accepted :
        r \in rows \/ topicMessages # {} \/ r \in cancelled \cup refused \cup dropped

\* What removeScheduled says of itself: temporary errors of the store or the Hub leave the row.
ScheduledIsNotDropped ==
    \A r \in accepted : r \in rows \/ topicMessages # {} \/ r \in cancelled \cup refused

\* Nodes that scan the same table while the owner of the topic moves hand a row over once
\* per claim: more than one copy is under way only if the claim has expired under it.
OneCopyPerClaim == \A r \in Row : Copies(r) <= 1 + expired[r]

\* Rows are kept, and handed over once per claim.
ScheduleSafe == ScheduledIsKept /\ OneCopyPerClaim

\* A row whose time has come leaves the table in the end.
DueIsHandled == \A r \in Row : r \in rows /\ r \in due ~> r \notin rows
=============================================================================
