------------------------------- MODULE Calls -------------------------------
(***************************************************************************)
(* The audio and video call of one topic: invitation, answer, joining the  *)
(* media channel, leaving, hanging up, disconnection and the time-out of a *)
(* call nobody takes. The topic's loop handles one event at a time.        *)
(*                                                                         *)
(* Events name the call they mean by its sequence number and may come      *)
(* late, after the session has left the topic: nothing asks whether it is  *)
(* attached. Access rights, business policy and tokens are a choice to     *)
(* refuse; the state saved for each call is the last of its replacement    *)
(* messages. The topic is not unloaded meanwhile.                          *)
(***************************************************************************)
EXTENDS Naturals, Sequences, FiniteSets

CONSTANTS
    CallSession,      \* sessions of the members of the topic
    CallUser,         \* the user of a session
    MaxParticipants,  \* max_participants of the media provider
    MaxCall,          \* bound: calls
    MaxCallFault      \* bound: states that could not be saved

\* A session attached to a topic is authenticated: it has a user.
ASSUME CallAssumption ==
    /\ {MaxParticipants, MaxCall, MaxCallFault} \subseteq Nat
    /\ \A s \in CallSession : CallUser[s] # "none"

VARIABLES
    callCat,     \* p2p or grp
    connected,   \* sessions attached to the topic
    currentCall,        \* currentCall
    callTimer,   \* callEstablishmentTimer is armed
    callLog,     \* the states saved for each call so far
    callFaults,
    asked        \* for each call, what its own members did to end it

agoraVars == <<callCat, connected, currentCall, callTimer, callLog, callFaults, asked>>

\* parties are sessions; joined those with media credentials. History: stray are those that
\* joined when they were not attached, or were evicted after it.
NoCallNow == [seq |-> 0, parties |-> {}, joined |-> {}, stray |-> {}, accepted |-> FALSE,
              originator |-> "none"]
CallOn == currentCall.seq # 0
Of(s) == CallUser[s]
SessionsOf(u) == {s \in CallSession : Of(s) = u}

\* The call is not told of an eviction.
Struck(call, gone) == [call EXCEPT !.stray = @ \cup (call.joined \cap gone)]

\* The state of a call may be saved again; the log has it once.
Saved(log, state) == IF log[Len(log)] = state THEN log ELSE Append(log, state)

\* persistCallState: the replacement message is saved, or the topic's save fails.
persistCallState(state) ==
    \/ /\ callLog' = [callLog EXCEPT ![currentCall.seq] = Saved(@, state)]
       /\ UNCHANGED callFaults
    \/ /\ callFaults < MaxCallFault /\ callFaults' = callFaults + 1
       /\ UNCHANGED callLog

\* The same, where a failure gives up.
persistedCallState(state) ==
    /\ callLog' = [callLog EXCEPT ![currentCall.seq] = Saved(@, state)]
    /\ UNCHANGED callFaults

-----------------------------------------------------------------------------
\* handlePubBroadcast and handleCallInvite: one call at a time.
handleCallInvite(s) ==
    /\ ~CallOn /\ Len(callLog) < MaxCall
    /\ currentCall' = [NoCallNow EXCEPT !.seq = Len(callLog) + 1, !.parties = {s}, !.originator = s]
    /\ callLog' = Append(callLog, <<"started">>)
    /\ asked' = Append(asked, {})
    /\ callTimer' = TRUE
    /\ UNCHANGED <<callCat, connected, callFaults>>

\* Faulty variant: the number of the call is not looked at.
IsCurrentAny(n) == CallOn /\ n \in 1 .. Len(callLog)

\* handleCallEvent: the call that an event of some session names, attached or not.
IsCurrent(n) == CallOn /\ n = currentCall.seq

\* maybeEndCallInProgress: the state depends on who ends it and whether it was accepted.
EndState(user, timedOut) ==
    CASE user # "none" /\ currentCall.accepted -> "finished"
      [] user # "none" /\ ~currentCall.accepted ->
            IF user = Of(currentCall.originator) THEN "missed" ELSE "declined"
      [] OTHER -> IF timedOut THEN "missed" ELSE "disconnected"

maybeEndCallInProgress(user, timedOut) ==
    /\ persistCallState(EndState(user, timedOut))
    /\ currentCall' = NoCallNow
    /\ callTimer' = FALSE

\* The call is accepted: the state is saved, the timer stopped.
Accept(call) ==
    /\ persistedCallState("accepted")
    /\ currentCall' = [call EXCEPT !.accepted = TRUE]
    /\ callTimer' = FALSE

\* handleP2PCallAnswer: the other user accepts, from one session.
handleP2PCallAnswer(s, n) ==
    /\ IsCurrent(n) /\ callCat = "p2p"
    /\ Cardinality(currentCall.parties) = 1 /\ Of(s) # Of(currentCall.originator)
    /\ Accept([currentCall EXCEPT !.parties = @ \cup {s}])
    /\ UNCHANGED <<callCat, connected, asked>>

\* A party with credentials.
Joined(s) == [currentCall EXCEPT !.parties = @ \cup {s}, !.joined = @ \cup {s},
                                 !.stray = @ \cup ({s} \ connected)]

\* issueAgoraCallCredentials, for a join; a refresh changes none of this.
issueAgoraCallCredentials(s, n) ==
    /\ IsCurrent(n) /\ (s \in currentCall.joined \/ Cardinality(currentCall.joined) < MaxParticipants)
    /\ IF currentCall.accepted
         THEN currentCall' = Joined(s) /\ UNCHANGED <<callLog, callFaults, callTimer>>
         ELSE Accept(Joined(s))
    /\ UNCHANGED <<callCat, connected, asked>>

\* removeAgoraParty; the last participant ends the call. Others may be evicted with it.
Without(s, gone) ==
    IF currentCall.joined = {s} THEN maybeEndCallInProgress(Of(s), FALSE)
    ELSE /\ currentCall' = Struck([currentCall EXCEPT !.parties = @ \ {s}, !.joined = @ \ {s}], gone)
         /\ UNCHANGED <<callLog, callFaults, callTimer>>

leaveAgoraCall(s, n) ==
    /\ IsCurrent(n) /\ s \in currentCall.joined
    /\ Without(s, {})
    /\ asked' = [asked EXCEPT ![n] = @ \cup {"leave"}]
    /\ UNCHANGED <<callCat, connected>>

\* canHangUpP2PCall, or the originator or an administrator of the group.
canHangUp(s) ==
    IF callCat = "p2p"
      THEN CASE Cardinality(currentCall.parties) = 2 -> s \in currentCall.parties
             [] Cardinality(currentCall.parties) = 1 ->
                    Of(s) # Of(currentCall.originator) \/ s = currentCall.originator
             [] OTHER -> TRUE
      ELSE TRUE

hangUp(s, n) ==
    /\ IsCurrent(n) /\ canHangUp(s)
    /\ maybeEndCallInProgress(Of(s), FALSE)
    /\ asked' = [asked EXCEPT ![n] = @ \cup {"hang-up"}]
    /\ UNCHANGED <<callCat, connected>>

-----------------------------------------------------------------------------
attach(s) ==
    /\ s \notin connected /\ connected' = connected \cup {s}
    /\ currentCall' = [currentCall EXCEPT !.stray = @ \ {s}]
    /\ UNCHANGED <<callCat, callTimer, callLog, callFaults, asked>>

\* unregisterSession, of a session that is attached or no longer is: its party is removed first,
\* also when it then may not unsubscribe and stays; a user who unsubscribes is evicted.
unregisterCaller(s) ==
    \E gone \in {{}, {s}, SessionsOf(Of(s))} :
        /\ connected' = connected \ gone
        /\ IF CallOn /\ s \in currentCall.joined
             THEN Without(s, gone) /\ asked' = [asked EXCEPT ![currentCall.seq] = @ \cup {"leave"}]
             ELSE /\ currentCall' = Struck(currentCall, gone)
                  /\ UNCHANGED <<callTimer, callLog, callFaults, asked>>
        /\ UNCHANGED callCat

\* evictUser, asked by somebody else or by a change of the mode: the sessions of the user go and
\* their parties stay.
evictFromCall(u) ==
    /\ SessionsOf(u) \cap connected # {}
    /\ connected' = connected \ SessionsOf(u)
    /\ currentCall' = Struck(currentCall, SessionsOf(u))
    /\ UNCHANGED <<callCat, callTimer, callLog, callFaults, asked>>

\* The establishment timer fires.
terminateCallInProgress ==
    /\ callTimer /\ CallOn
    /\ maybeEndCallInProgress("none", TRUE)
    /\ UNCHANGED <<callCat, connected, asked>>

-----------------------------------------------------------------------------
CallInit ==
    /\ callCat \in {"p2p", "grp"} /\ connected = CallSession
    /\ currentCall = NoCallNow /\ callTimer = FALSE /\ callLog = <<>> /\ callFaults = 0 /\ asked = <<>>

CallNext ==
    \/ \E s \in CallSession : \/ handleCallInvite(s) \/ attach(s) \/ unregisterCaller(s)
                             \/ evictFromCall(Of(s))
    \/ \E s \in CallSession, n \in 1 .. Len(callLog) :
          \/ handleP2PCallAnswer(s, n) \/ issueAgoraCallCredentials(s, n)
          \/ leaveAgoraCall(s, n) \/ hangUp(s, n)
    \/ terminateCallInProgress

CallSpec == CallInit /\ [][CallNext]_agoraVars

-----------------------------------------------------------------------------
\* Type invariant; the channel never has more participants than configured.
CallTypeOK ==
    /\ callCat \in {"p2p", "grp"} /\ connected \subseteq CallSession
    /\ currentCall.joined \subseteq currentCall.parties /\ currentCall.parties \subseteq CallSession
    /\ Cardinality(currentCall.joined) <= MaxParticipants /\ currentCall.seq \in 0 .. Len(callLog)
    /\ {currentCall.accepted, callTimer} \subseteq BOOLEAN /\ callFaults \in 0 .. MaxCallFault

\* The states saved for a call tell one story: an accepted call is never missed or declined, a
\* call ends once and is not accepted after its end, and what was not accepted is not finished; whatever
\* events, time-outs and disconnections came in between.
CallStory ==
    \A n \in 1 .. Len(callLog) :
        callLog[n] \in { <<"started">>, <<"started", "accepted">>, <<"started", "missed">>,
                         <<"started", "declined">>, <<"started", "accepted", "finished">> }

\* A call is declined or finished only by what its own members did to it: events that were meant
\* for an earlier call do not end the next.
EndedByItsMembers ==
    \A n \in 1 .. Len(callLog) :
        \A k \in 1 .. Len(callLog[n]) : callLog[n][k] \in {"declined", "finished"} => asked[n] # {}

\* A call that goes on is held: nobody has taken it and the timer runs, or it was accepted and has
\* parties; the topic refuses the next call until it ends. A session with credentials is attached,
\* so that its end is noticed, unless it was evicted from the topic or joined when it had left.
CallIsHeld ==
    CallOn => \/ callTimer
              \/ /\ currentCall.accepted /\ currentCall.parties # {}
                 /\ currentCall.joined \ connected \subseteq currentCall.stray

\* What unregisterSession says: the call ends when the last participant leaves.
CallEndsWithTheLast == CallOn /\ currentCall.accepted => currentCall.parties \cap connected # {}

\* The saved story of every call is one of those a client can show, each call is ended by
\* its own members, and none is left over.
CallSafe == CallStory /\ EndedByItsMembers /\ CallIsHeld
=============================================================================
