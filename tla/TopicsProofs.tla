---------------------------- MODULE TopicsProofs ----------------------------
(***************************************************************************)
(* Safety of the call of a topic and of the members of a group, for every  *)
(* set of sessions and users and every bound.                              *)
(***************************************************************************)
EXTENDS Calls, GroupMembers, FiniteSetTheorems, TLAPS

-----------------------------------------------------------------------------
(* The call of a topic. *)

Started == <<"started">>
Accepted == <<"started", "accepted">>
Ends == { <<"started", "missed">>, <<"started", "declined">>, <<"started", "accepted", "finished">> }
Story == {Started, Accepted} \union Ends
CallRecord == [seq : Nat, parties : SUBSET CallSession, joined : SUBSET CallSession,
               stray : SUBSET CallSession, accepted : BOOLEAN, originator : CallSession \union {"none"}]

\* What the variables are, in full: the log and what members asked have an entry for each call.
CallTypes ==
    /\ callCat \in {"p2p", "grp"} /\ connected \in SUBSET CallSession
    /\ currentCall \in CallRecord /\ currentCall.joined \subseteq currentCall.parties
    /\ IsFiniteSet(currentCall.joined) /\ Cardinality(currentCall.joined) <= MaxParticipants
    /\ callTimer \in BOOLEAN /\ callFaults \in 0 .. MaxCallFault
    /\ callLog \in Seq(Story) /\ asked \in Seq(SUBSET {"leave", "hang-up"})
    /\ Len(asked) = Len(callLog) /\ currentCall.seq \in 0 .. Len(callLog)

\* The log of the call that goes on says whether it was accepted; the timer runs for a call
\* that was not.
LogIsCurrent ==
    CallOn => /\ callLog[currentCall.seq] = IF currentCall.accepted THEN Accepted ELSE Started
              /\ callTimer => ~currentCall.accepted

\* The story of a call that a member ended.
EndedAsked ==
    \A n \in 1 .. Len(callLog) :
        callLog[n] \in { <<"started", "declined">>, <<"started", "accepted", "finished">> } => asked[n] # {}

\* Who has joined the channel is attached to the topic or stray; a call has a party, and without
\* a call nobody has joined.
JoinedConnected ==
    /\ currentCall.joined \ connected \subseteq currentCall.stray
    /\ IF CallOn THEN currentCall.parties # {} ELSE currentCall.joined = {}

\* The inductive invariant of the calls.
CallInv == CallTypes /\ LogIsCurrent /\ EndedAsked /\ JoinedConnected /\ CallIsHeld

\* It holds of a topic that was just loaded.
LEMMA CallInitInv == CallInit => CallInv
  <1> SUFFICES ASSUME CallInit PROVE CallInv
    OBVIOUS
  <1>0. IsFiniteSet({}) /\ Cardinality({}) = 0
    BY FS_EmptySet
  <1>1. currentCall \in CallRecord /\ currentCall.seq = 0 /\ currentCall.joined = {} /\ currentCall.parties = {}
    BY DEF CallInit, NoCallNow, CallRecord
  <1>2. callLog \in Seq(Story) /\ asked \in Seq(SUBSET {"leave", "hang-up"}) /\ Len(callLog) = 0 /\ Len(asked) = 0
    BY DEF CallInit
  <1>3. MaxParticipants \in Nat /\ MaxCallFault \in Nat
    BY CallAssumption
  <1>4. callCat \in {"p2p", "grp"} /\ connected \in SUBSET CallSession /\ callTimer \in BOOLEAN
    BY Zenon DEF CallInit
  <1>5. callFaults \in 0 .. MaxCallFault
    BY <1>3 DEF CallInit
  <1>6. CallTypes
    BY <1>0, <1>1, <1>2, <1>3, <1>4, <1>5 DEF CallTypes
  <1> QED
    BY <1>6 DEF CallInit, CallInv, LogIsCurrent, EndedAsked, JoinedConnected, CallIsHeld, NoCallNow, CallOn

\* A tuple and one more element.
LEMMA AppendTuple ==
    ASSUME NEW x, NEW y, NEW z
    PROVE  Append(<<x>>, y) = <<x, y>> /\ Append(<<x, y>>, z) = <<x, y, z>>
  <1> DEFINE S == {x, y, z}  two == Append(<<x>>, y)  three == Append(<<x, y>>, z)
  <1>1. /\ two \in Seq(S) /\ Len(two) = 2 /\ two[1] = x /\ two[2] = y
        /\ three \in Seq(S) /\ Len(three) = 3 /\ three[1] = x /\ three[2] = y /\ three[3] = z
    OBVIOUS
  <1>2. /\ <<x, y>> \in Seq(S) /\ Len(<<x, y>>) = 2 /\ <<x, y, z>> \in Seq(S) /\ Len(<<x, y, z>>) = 3
    OBVIOUS
  <1> HIDE DEF two, three, S
  <1>3. \A i \in 1 .. 2 : two[i] = <<x, y>>[i]
    BY <1>1
  <1>4. \A i \in 1 .. 3 : three[i] = <<x, y, z>>[i]
    BY <1>1
  <1>5. two = <<x, y>>
    BY <1>1, <1>2, <1>3
  <1>6. three = <<x, y, z>>
    BY <1>1, <1>2, <1>4
  <1> QED
    BY <1>5, <1>6 DEF two, three

\* What is saved of a call that was started, and of one that was accepted.
LEMMA SavedIs ==
    /\ Saved(Started, "accepted") = Accepted /\ Saved(Accepted, "accepted") = Accepted
    /\ Saved(Started, "missed") = <<"started", "missed">>
    /\ Saved(Started, "declined") = <<"started", "declined">>
    /\ Saved(Accepted, "finished") = <<"started", "accepted", "finished">>
  <1>1. Started[Len(Started)] = "started" /\ Accepted[Len(Accepted)] = "accepted"
    BY DEF Started, Accepted
  <1>2. /\ Append(Started, "accepted") = Accepted
        /\ Append(Started, "missed") = <<"started", "missed">>
        /\ Append(Started, "declined") = <<"started", "declined">>
        /\ Append(Accepted, "finished") = <<"started", "accepted", "finished">>
    BY AppendTuple DEF Started, Accepted
  <1> QED
    BY <1>1, <1>2 DEF Saved

\* Saving a state changes the entry of one call.
LEMMA LogIs ==
    ASSUME CallTypes, CallOn, NEW story \in Story,
           callLog' = [callLog EXCEPT ![currentCall.seq] = story]
    PROVE  /\ callLog' \in Seq(Story) /\ Len(callLog') = Len(callLog)
           /\ callLog'[currentCall.seq] = story
           /\ \A n \in 1 .. Len(callLog) : n # currentCall.seq => callLog'[n] = callLog[n]
  BY DEF CallTypes, CallOn

\* What ending a call does to the log: its story ends, unless the state could not be saved.
LEMMA EndIs ==
    ASSUME CallInv, CallOn, NEW user, NEW timedOut,
           maybeEndCallInProgress(user, timedOut), user = "none" => timedOut /\ callTimer
    PROVE  /\ callLog' \in Seq(Story) /\ Len(callLog') = Len(callLog) /\ callFaults' \in 0 .. MaxCallFault
           /\ currentCall' = NoCallNow /\ callTimer' = FALSE
           /\ \A n \in 1 .. Len(callLog) : n # currentCall.seq => callLog'[n] = callLog[n]
           /\ user = "none" => callLog'[currentCall.seq] \in {Started, <<"started", "missed">>}
  <1> DEFINE n == currentCall.seq
  <1>1. n \in 1 .. Len(callLog)
    BY DEF CallInv, CallTypes, CallOn
  <1>2. CASE callLog' = callLog /\ callFaults < MaxCallFault /\ callFaults' = callFaults + 1
    BY <1>1, <1>2, CallAssumption DEF CallInv, CallTypes, maybeEndCallInProgress, LogIsCurrent, CallOn
  <1>3. CASE callLog' = [callLog EXCEPT ![currentCall.seq] = Saved(@, EndState(user, timedOut))]
             /\ callFaults' = callFaults
    <2> DEFINE story == Saved(callLog[n], EndState(user, timedOut))
    <2>1. story \in Story /\ (user = "none" => story = <<"started", "missed">>)
      <3>1. CASE currentCall.accepted
        <4>1. user # "none" /\ callLog[n] = Accepted /\ EndState(user, timedOut) = "finished"
          BY <3>1 DEF CallInv, LogIsCurrent, CallOn, EndState
        <4> QED
          BY <4>1, SavedIs DEF Story, Ends
      <3>2. CASE ~currentCall.accepted
        <4>1. callLog[n] = Started /\ EndState(user, timedOut) \in {"missed", "declined"}
              /\ (user = "none" => EndState(user, timedOut) = "missed")
          BY <3>2 DEF CallInv, LogIsCurrent, CallOn, EndState
        <4> QED
          BY <4>1, SavedIs DEF Story, Ends
      <3> QED
        BY <3>1, <3>2
    <2>2. callLog' = [callLog EXCEPT ![currentCall.seq] = story]
      BY <1>1, <1>3 DEF CallInv, CallTypes
    <2> HIDE DEF story
    <2> QED
      BY <1>3, <2>1, <2>2, LogIs DEF maybeEndCallInProgress, CallInv, CallTypes
  <1> QED
    BY <1>2, <1>3 DEF maybeEndCallInProgress, persistCallState

\* Noting what a member did makes the note of that call, and of no other, longer.
LEMMA AskedIs ==
    ASSUME CallTypes, CallOn, NEW what \in {"leave", "hang-up"},
           asked' = [asked EXCEPT ![currentCall.seq] = @ \union {what}]
    PROVE  /\ asked' \in Seq(SUBSET {"leave", "hang-up"}) /\ Len(asked') = Len(asked)
           /\ asked'[currentCall.seq] # {}
           /\ \A n \in 1 .. Len(callLog) : asked[n] # {} => asked'[n] # {}
  <1>1. currentCall.seq \in 1 .. Len(asked)
    BY DEF CallTypes, CallOn
  <1> DEFINE note == asked[currentCall.seq] \union {what}
  <1>2. note \in SUBSET {"leave", "hang-up"} /\ note # {}
    BY <1>1 DEF CallTypes
  <1>3. asked' = [asked EXCEPT ![currentCall.seq] = note]
    OBVIOUS
  <1> HIDE DEF note
  <1>4. Len(asked') = Len(asked) /\ asked' \in Seq(SUBSET {"leave", "hang-up"})
    BY <1>1, <1>2, <1>3 DEF CallTypes
  <1>5. asked \in Seq(SUBSET {"leave", "hang-up"}) /\ Len(asked) = Len(callLog)
    BY DEF CallTypes
  <1>6. asked'[currentCall.seq] = note /\ \A n \in 1 .. Len(asked) : n # currentCall.seq => asked'[n] = asked[n]
    BY <1>1, <1>3, <1>5
  <1> QED
    BY <1>1, <1>2, <1>4, <1>5, <1>6

\* A call that ends, by what a member did or by the timer, leaves the invariant true.
LEMMA EndKeeps ==
    ASSUME CallInv, CallOn, NEW user, NEW timedOut,
           maybeEndCallInProgress(user, timedOut), user = "none" => timedOut /\ callTimer,
           callCat' = callCat, connected' \in SUBSET CallSession,
           asked' \in Seq(SUBSET {"leave", "hang-up"}), Len(asked') = Len(asked),
           user # "none" => asked'[currentCall.seq] # {},
           \A n \in 1 .. Len(callLog) : asked[n] # {} => asked'[n] # {}
    PROVE  CallInv'
  <1>1. /\ callLog' \in Seq(Story) /\ Len(callLog') = Len(callLog) /\ callFaults' \in 0 .. MaxCallFault
        /\ currentCall' = NoCallNow /\ callTimer' = FALSE
        /\ \A n \in 1 .. Len(callLog) : n # currentCall.seq => callLog'[n] = callLog[n]
        /\ user = "none" => callLog'[currentCall.seq] \in {Started, <<"started", "missed">>}
    BY EndIs
  <1>2. /\ currentCall' \in CallRecord /\ currentCall'.seq = 0 /\ currentCall'.joined = {} /\ currentCall'.parties = {}
    BY <1>1 DEF NoCallNow, CallRecord
  <1>3. IsFiniteSet({}) /\ Cardinality({}) = 0 /\ MaxParticipants \in Nat
    BY FS_EmptySet, CallAssumption
  <1>4. callTimer' \in BOOLEAN
    BY <1>1, Zenon
  <1>5. CallTypes'
    BY <1>1, <1>2, <1>3, <1>4 DEF CallInv, CallTypes
  <1>6. EndedAsked'
    <2> SUFFICES ASSUME NEW n \in 1 .. Len(callLog),
                        callLog'[n] \in { <<"started", "declined">>, <<"started", "accepted", "finished">> }
                 PROVE  asked'[n] # {}
      BY <1>1 DEF EndedAsked
    <2>1. CASE n # currentCall.seq
      BY <1>1, <2>1 DEF CallInv, EndedAsked
    <2>2. CASE n = currentCall.seq
      <3>1. /\ <<"started", "declined">> \notin {Started, <<"started", "missed">>}
            /\ <<"started", "accepted", "finished">> \notin {Started, <<"started", "missed">>}
        BY DEF Started
      <3>2. user # "none"
        BY <1>1, <2>2, <3>1
      <3> QED
        BY <2>2, <3>2
    <2> QED
      BY <2>1, <2>2
  <1> QED
    BY <1>2, <1>5, <1>6 DEF CallInv, LogIsCurrent, JoinedConnected, CallIsHeld, CallOn

\* So does a call that goes on with other parties, of whom those who have joined are attached or
\* stray.
LEMMA GoesOnKeeps ==
    ASSUME CallInv, CallOn, NEW call \in CallRecord, currentCall' = call,
           call.seq = currentCall.seq, call.accepted = currentCall.accepted,
           call.joined \subseteq call.parties, call.parties # {},
           IsFiniteSet(call.joined), Cardinality(call.joined) <= MaxParticipants,
           call.joined \ connected' \subseteq call.stray,
           UNCHANGED <<callCat, callLog, callFaults, callTimer>>, connected' \in SUBSET CallSession,
           asked' \in Seq(SUBSET {"leave", "hang-up"}), Len(asked') = Len(asked),
           \A n \in 1 .. Len(callLog) : asked[n] # {} => asked'[n] # {}
    PROVE  CallInv'
  <1>1. CallTypes'
    BY DEF CallInv, CallTypes
  <1>2. LogIsCurrent'
    BY DEF CallInv, LogIsCurrent, CallOn
  <1>3. EndedAsked'
    BY DEF CallInv, EndedAsked
  <1>4. JoinedConnected' /\ CallIsHeld'
    BY DEF CallInv, JoinedConnected, CallIsHeld, CallOn
  <1> QED
    BY <1>1, <1>2, <1>3, <1>4 DEF CallInv

\* So does a step that only changes who is attached, if who has joined stays attached or is stray.
LEMMA StrayKeeps ==
    ASSUME CallInv, NEW stray \in SUBSET CallSession, currentCall' = [currentCall EXCEPT !.stray = stray],
           currentCall.joined \ connected' \subseteq stray, connected' \in SUBSET CallSession,
           UNCHANGED <<callCat, callTimer, callLog, callFaults, asked>>
    PROVE  CallInv'
  <1>1. /\ currentCall' \in CallRecord /\ currentCall'.seq = currentCall.seq
        /\ currentCall'.joined = currentCall.joined /\ currentCall'.parties = currentCall.parties
        /\ currentCall'.accepted = currentCall.accepted /\ currentCall'.stray = stray
    BY DEF CallInv, CallTypes, CallRecord
  <1>2. CallTypes'
    BY <1>1 DEF CallInv, CallTypes
  <1>3. LogIsCurrent' /\ EndedAsked'
    BY <1>1 DEF CallInv, LogIsCurrent, EndedAsked, CallOn
  <1>4. JoinedConnected' /\ CallIsHeld'
    BY <1>1 DEF CallInv, JoinedConnected, CallIsHeld, CallOn
  <1> QED
    BY <1>2, <1>3, <1>4 DEF CallInv

\* So does a call that is accepted.
LEMMA AcceptKeeps ==
    ASSUME CallInv, CallOn, NEW call \in CallRecord, Accept(call), call.seq = currentCall.seq,
           call.joined \subseteq call.parties, call.parties # {},
           IsFiniteSet(call.joined), Cardinality(call.joined) <= MaxParticipants,
           call.joined \ connected \subseteq call.stray,
           UNCHANGED <<callCat, connected, asked>>
    PROVE  CallInv'
  <1>1. /\ currentCall' \in CallRecord /\ currentCall'.seq = currentCall.seq
        /\ currentCall'.joined = call.joined /\ currentCall'.parties = call.parties
        /\ currentCall'.stray = call.stray /\ currentCall'.accepted
    BY DEF CallRecord, Accept
  <1>2. callLog' = [callLog EXCEPT ![currentCall.seq] = Accepted] /\ UNCHANGED callFaults
    <2>1. currentCall.seq \in 1 .. Len(callLog) /\ callLog[currentCall.seq] \in {Started, Accepted}
      BY DEF CallInv, CallTypes, LogIsCurrent, CallOn
    <2> QED
      BY <2>1, SavedIs DEF Accept, persistedCallState, CallInv, CallTypes
  <1>3. /\ callLog' \in Seq(Story) /\ Len(callLog') = Len(callLog) /\ callLog'[currentCall.seq] = Accepted
        /\ \A n \in 1 .. Len(callLog) : n # currentCall.seq => callLog'[n] = callLog[n]
    <2>1. Accepted \in Story
      BY DEF Story
    <2> QED
      BY <1>2, <2>1, LogIs DEF CallInv
  <1>4. ~callTimer' /\ callTimer' \in BOOLEAN
    BY Zenon DEF Accept
  <1>5. CallTypes'
    BY <1>1, <1>2, <1>3, <1>4 DEF CallInv, CallTypes
  <1>6. LogIsCurrent'
    BY <1>1, <1>3, <1>4 DEF LogIsCurrent
  <1>7. EndedAsked'
    <2>1. Accepted \notin { <<"started", "declined">>, <<"started", "accepted", "finished">> }
      BY DEF Accepted
    <2> QED
      BY <1>3, <2>1 DEF CallInv, EndedAsked
  <1>8. JoinedConnected' /\ CallIsHeld'
    BY <1>1 DEF CallInv, JoinedConnected, CallIsHeld, CallOn
  <1> QED
    BY <1>5, <1>6, <1>7, <1>8 DEF CallInv

\* removeAgoraParty leaves the invariant true, whether the call ends with it or not.
LEMMA WithoutKeeps ==
    ASSUME CallInv, CallOn, NEW s \in currentCall.joined, NEW gone \in SUBSET CallSession,
           Without(s, gone),
           asked' = [asked EXCEPT ![currentCall.seq] = @ \union {"leave"}],
           callCat' = callCat, connected' = connected \ gone
    PROVE  CallInv'
  <1>1. /\ asked' \in Seq(SUBSET {"leave", "hang-up"}) /\ Len(asked') = Len(asked)
        /\ asked'[currentCall.seq] # {}
        /\ \A n \in 1 .. Len(callLog) : asked[n] # {} => asked'[n] # {}
    BY AskedIs DEF CallInv
  <1>2. connected' \in SUBSET CallSession
    BY DEF CallInv, CallTypes
  <1>3. CASE currentCall.joined = {s}
    <2>1. maybeEndCallInProgress(Of(s), FALSE) /\ Of(s) # "none"
      BY <1>3, CallAssumption DEF Without, CallInv, CallTypes, CallRecord, Of
    <2> QED
      BY <1>1, <1>2, <2>1, EndKeeps
  <1>4. CASE currentCall.joined # {s}
    <2> DEFINE joined == currentCall.joined \ {s}
               call == [currentCall EXCEPT !.parties = @ \ {s}, !.joined = @ \ {s},
                                           !.stray = @ \union (joined \intersect gone)]
    <2>1. currentCall' = call /\ UNCHANGED <<callLog, callFaults, callTimer>>
      BY <1>4 DEF Without, Struck, CallInv, CallTypes, CallRecord
    <2>2. /\ call \in CallRecord /\ call.joined = joined /\ call.parties = currentCall.parties \ {s}
          /\ call.seq = currentCall.seq /\ call.accepted = currentCall.accepted
          /\ call.stray = currentCall.stray \union (joined \intersect gone)
      BY DEF CallInv, CallTypes, CallRecord
    <2>3. joined # {} /\ joined \subseteq currentCall.parties \ {s}
      BY <1>4 DEF CallInv, CallTypes
    <2>4. joined \ connected' \subseteq call.stray
      BY <2>2 DEF CallInv, JoinedConnected
    <2>5. IsFiniteSet(joined) /\ Cardinality(joined) <= MaxParticipants
      <3>1. /\ IsFiniteSet(currentCall.joined) /\ Cardinality(currentCall.joined) <= MaxParticipants
            /\ MaxParticipants \in Nat
        BY CallAssumption DEF CallInv, CallTypes
      <3>2. IsFiniteSet(joined) /\ Cardinality(joined) = Cardinality(currentCall.joined) - 1
        BY <3>1, FS_RemoveElement
      <3> QED
        BY <3>1, <3>2, FS_CardinalityType
    <2> HIDE DEF call, joined
    <2> QED
      BY <1>1, <1>2, <2>1, <2>2, <2>3, <2>4, <2>5, GoesOnKeeps
  <1> QED
    BY <1>3, <1>4

\* A join adds one participant, if there is room.
LEMMA JoinedIs ==
    ASSUME CallInv, NEW s, s \in currentCall.joined \/ Cardinality(currentCall.joined) < MaxParticipants
    PROVE  /\ IsFiniteSet(currentCall.joined \union {s})
           /\ Cardinality(currentCall.joined \union {s}) <= MaxParticipants
  <1>1. /\ IsFiniteSet(currentCall.joined) /\ Cardinality(currentCall.joined) <= MaxParticipants
        /\ MaxParticipants \in Nat
    BY CallAssumption DEF CallInv, CallTypes
  <1>2. CASE s \in currentCall.joined
    <2>1. currentCall.joined \union {s} = currentCall.joined
      BY <1>2
    <2> QED
      BY <1>1, <2>1
  <1>3. CASE s \notin currentCall.joined
    <2>1. /\ IsFiniteSet(currentCall.joined \union {s})
          /\ Cardinality(currentCall.joined \union {s}) = Cardinality(currentCall.joined) + 1
      BY <1>1, <1>3, FS_AddElement
    <2> QED
      BY <1>1, <1>3, <2>1, FS_CardinalityType
  <1> QED
    BY <1>2, <1>3

\* An invitation begins a call, with a log of its own and the timer armed.
LEMMA InviteKeeps == ASSUME CallInv, NEW s \in CallSession, handleCallInvite(s) PROVE CallInv'
  <1>1. /\ currentCall' \in CallRecord /\ currentCall'.seq = Len(callLog) + 1 /\ currentCall'.parties = {s}
        /\ currentCall'.joined = {} /\ currentCall'.accepted = FALSE /\ currentCall'.stray = {}
    <2>1. Len(callLog) + 1 \in Nat
      BY DEF CallInv, CallTypes
    <2>2. currentCall' = [seq |-> Len(callLog) + 1, parties |-> {s}, joined |-> {}, stray |-> {},
                          accepted |-> FALSE, originator |-> s]
      BY DEF handleCallInvite, NoCallNow
    <2> QED
      BY <2>1, <2>2 DEF CallRecord
  <1>2. /\ callLog' \in Seq(Story) /\ Len(callLog') = Len(callLog) + 1 /\ callLog'[Len(callLog) + 1] = Started
        /\ \A n \in 1 .. Len(callLog) : callLog'[n] = callLog[n]
    <2>1. Started \in Story /\ callLog \in Seq(Story) /\ callLog' = Append(callLog, Started)
      BY DEF Story, CallInv, CallTypes, handleCallInvite, Started
    <2> QED
      BY <2>1
  <1>3. /\ asked' \in Seq(SUBSET {"leave", "hang-up"}) /\ Len(asked') = Len(asked) + 1
        /\ \A n \in 1 .. Len(callLog) : asked'[n] = asked[n]
    <2>1. /\ asked \in Seq(SUBSET {"leave", "hang-up"}) /\ Len(asked) = Len(callLog) /\ asked' = Append(asked, {})
      BY DEF CallInv, CallTypes, handleCallInvite
    <2> QED
      BY <2>1
  <1>4. callTimer' /\ callTimer' \in BOOLEAN /\ UNCHANGED <<callCat, connected, callFaults>>
    BY Zenon DEF handleCallInvite
  <1>5. IsFiniteSet({}) /\ Cardinality({}) = 0 /\ MaxParticipants \in Nat
    BY FS_EmptySet, CallAssumption
  <1>6. CallTypes'
    BY <1>1, <1>2, <1>3, <1>4, <1>5 DEF CallInv, CallTypes
  <1>7. LogIsCurrent'
    BY <1>1, <1>2 DEF LogIsCurrent
  <1>8. EndedAsked'
    <2>1. Started \notin { <<"started", "declined">>, <<"started", "accepted", "finished">> }
      BY DEF Started
    <2>2. \A n \in 1 .. Len(callLog') : n = Len(callLog) + 1 \/ n \in 1 .. Len(callLog)
      BY <1>2 DEF CallInv, CallTypes
    <2> QED
      BY <1>2, <1>3, <2>1, <2>2 DEF CallInv, EndedAsked
  <1> QED
    BY <1>1, <1>4, <1>6, <1>7, <1>8 DEF CallInv, JoinedConnected, CallIsHeld

\* A session with credentials, and what becomes of the parties then.
LEMMA JoinedCallIs ==
    ASSUME CallInv, CallOn, NEW s \in CallSession,
           s \in currentCall.joined \/ Cardinality(currentCall.joined) < MaxParticipants
    PROVE  LET call == Joined(s)
           IN  /\ call \in CallRecord /\ call.seq = currentCall.seq /\ call.accepted = currentCall.accepted
               /\ call.joined \subseteq call.parties /\ call.parties # {}
               /\ IsFiniteSet(call.joined) /\ Cardinality(call.joined) <= MaxParticipants
               /\ call.joined \ connected \subseteq call.stray
  <1> DEFINE call == Joined(s)
  <1>1. /\ currentCall \in CallRecord /\ currentCall.joined \subseteq currentCall.parties
        /\ currentCall.joined \ connected \subseteq currentCall.stray
    BY DEF CallInv, CallTypes, JoinedConnected
  <1>2. /\ call \in CallRecord /\ call.seq = currentCall.seq /\ call.accepted = currentCall.accepted
        /\ call.joined = currentCall.joined \union {s} /\ call.parties = currentCall.parties \union {s}
        /\ call.stray = currentCall.stray \union ({s} \ connected)
    BY <1>1 DEF Joined, CallRecord
  <1> HIDE DEF call
  <1>3. IsFiniteSet(call.joined) /\ Cardinality(call.joined) <= MaxParticipants
    BY <1>2, JoinedIs
  <1>4. call.joined \ connected \subseteq call.stray
    BY <1>1, <1>2
  <1>5. call.joined \subseteq call.parties /\ call.parties # {}
    BY <1>1, <1>2
  <1>6. QED
    BY <1>2, <1>3, <1>4, <1>5 DEF call

\* Every step of a call leaves the invariant true.
LEMMA CallStepInv == CallInv /\ [CallNext]_agoraVars => CallInv'
  <1> SUFFICES ASSUME CallInv, [CallNext]_agoraVars PROVE CallInv'
    OBVIOUS
  <1>0. /\ currentCall \in CallRecord /\ currentCall.joined \subseteq currentCall.parties
        /\ connected \in SUBSET CallSession /\ currentCall.joined \ connected \subseteq currentCall.stray
        /\ IsFiniteSet(currentCall.joined) /\ Cardinality(currentCall.joined) <= MaxParticipants
    BY DEF CallInv, CallTypes, JoinedConnected
  <1>1. ASSUME NEW s \in CallSession, attach(s) PROVE CallInv'
    <2> DEFINE stray == currentCall.stray \ {s}
    <2>1. /\ connected' = connected \union {s} /\ currentCall' = [currentCall EXCEPT !.stray = stray]
          /\ UNCHANGED <<callCat, callTimer, callLog, callFaults, asked>>
      BY <1>0, <1>1 DEF attach
    <2>2. /\ stray \in SUBSET CallSession /\ currentCall.joined \ connected' \subseteq stray
          /\ connected' \in SUBSET CallSession
      BY <1>0, <2>1 DEF CallRecord
    <2> HIDE DEF stray
    <2> QED
      BY <2>1, <2>2, StrayKeeps
  <1>2. ASSUME NEW gone \in SUBSET CallSession, connected' = connected \ gone,
               currentCall' = Struck(currentCall, gone),
               UNCHANGED <<callCat, callTimer, callLog, callFaults, asked>>
        PROVE  CallInv'
    <2> DEFINE stray == currentCall.stray \union (currentCall.joined \intersect gone)
    <2>1. currentCall' = [currentCall EXCEPT !.stray = stray]
      BY <1>2 DEF Struck
    <2>2. /\ stray \in SUBSET CallSession /\ currentCall.joined \ connected' \subseteq stray
          /\ connected' \in SUBSET CallSession
      BY <1>0, <1>2 DEF CallRecord
    <2> HIDE DEF stray
    <2> QED
      BY <1>2, <2>1, <2>2, StrayKeeps
  <1>9. ASSUME NEW s \in CallSession, unregisterCaller(s) PROVE CallInv'
    <2>1. PICK gone \in {{}, {s}, SessionsOf(Of(s))} :
              /\ connected' = connected \ gone
              /\ IF CallOn /\ s \in currentCall.joined
                   THEN Without(s, gone) /\ asked' = [asked EXCEPT ![currentCall.seq] = @ \union {"leave"}]
                   ELSE /\ currentCall' = Struck(currentCall, gone)
                        /\ UNCHANGED <<callTimer, callLog, callFaults, asked>>
              /\ UNCHANGED callCat
      BY <1>9 DEF unregisterCaller
    <2>2. gone \in SUBSET CallSession
      BY DEF SessionsOf
    <2>3. CASE CallOn /\ s \in currentCall.joined
      BY <2>1, <2>2, <2>3, WithoutKeeps
    <2>4. CASE ~(CallOn /\ s \in currentCall.joined)
      BY <1>2, <2>1, <2>2, <2>4
    <2> QED
      BY <2>3, <2>4
  <1>10. ASSUME NEW s \in CallSession, evictFromCall(Of(s)) PROVE CallInv'
    <2>1. SessionsOf(Of(s)) \in SUBSET CallSession
      BY DEF SessionsOf
    <2> QED
      BY <1>2, <1>10, <2>1 DEF evictFromCall
  <1>3. ASSUME NEW s \in CallSession, NEW n, handleP2PCallAnswer(s, n) PROVE CallInv'
    <2> DEFINE call == [currentCall EXCEPT !.parties = @ \union {s}]
    <2>1. CallOn /\ Accept(call) /\ UNCHANGED <<callCat, connected, asked>>
      BY <1>3 DEF handleP2PCallAnswer, IsCurrent
    <2>2. /\ call \in CallRecord /\ call.seq = currentCall.seq /\ call.joined = currentCall.joined
          /\ call.parties = currentCall.parties \union {s} /\ call.stray = currentCall.stray
      BY <1>0 DEF CallRecord
    <2> HIDE DEF call
    <2> QED
      BY <1>0, <2>1, <2>2, AcceptKeeps
  <1>4. ASSUME NEW s \in CallSession, NEW n, issueAgoraCallCredentials(s, n) PROVE CallInv'
    <2> DEFINE call == Joined(s)
    <2>1. /\ CallOn /\ UNCHANGED <<callCat, connected, asked>>
          /\ s \in currentCall.joined \/ Cardinality(currentCall.joined) < MaxParticipants
      BY <1>4 DEF issueAgoraCallCredentials, IsCurrent
    <2>2. /\ call \in CallRecord /\ call.seq = currentCall.seq /\ call.accepted = currentCall.accepted
          /\ call.joined \subseteq call.parties /\ call.parties # {}
          /\ IsFiniteSet(call.joined) /\ Cardinality(call.joined) <= MaxParticipants
          /\ call.joined \ connected \subseteq call.stray
      BY <2>1, JoinedCallIs
    <2>3. CASE currentCall.accepted
      <3>1. currentCall' = call /\ UNCHANGED <<callLog, callFaults, callTimer>>
        BY <1>4, <2>3 DEF issueAgoraCallCredentials
      <3>2. asked' \in Seq(SUBSET {"leave", "hang-up"}) /\ Len(asked') = Len(asked)
        BY <2>1 DEF CallInv, CallTypes
      <3> HIDE DEF call
      <3> QED
        BY <1>0, <2>1, <2>2, <3>1, <3>2, GoesOnKeeps
    <2>4. CASE ~currentCall.accepted
      <3>1. Accept(call)
        BY <1>4, <2>4 DEF issueAgoraCallCredentials
      <3> HIDE DEF call
      <3> QED
        BY <2>1, <2>2, <3>1, AcceptKeeps
    <2> QED
      BY <2>3, <2>4
  <1>5. ASSUME NEW s \in CallSession, NEW n, leaveAgoraCall(s, n) PROVE CallInv'
    <2>1. /\ CallOn /\ s \in currentCall.joined /\ Without(s, {}) /\ connected' = connected \ {}
          /\ asked' = [asked EXCEPT ![currentCall.seq] = @ \union {"leave"}] /\ callCat' = callCat
      BY <1>5 DEF leaveAgoraCall, IsCurrent
    <2> QED
      BY <2>1, WithoutKeeps
  <1>6. ASSUME NEW s \in CallSession, NEW n, hangUp(s, n) PROVE CallInv'
    <2>1. /\ CallOn /\ maybeEndCallInProgress(Of(s), FALSE) /\ UNCHANGED <<callCat, connected>>
          /\ asked' = [asked EXCEPT ![currentCall.seq] = @ \union {"hang-up"}]
      BY <1>6 DEF hangUp, IsCurrent
    <2>2. /\ asked' \in Seq(SUBSET {"leave", "hang-up"}) /\ Len(asked') = Len(asked)
          /\ asked'[currentCall.seq] # {}
          /\ \A k \in 1 .. Len(callLog) : asked[k] # {} => asked'[k] # {}
      BY <2>1, AskedIs DEF CallInv
    <2>3. Of(s) # "none"
      BY CallAssumption DEF Of
    <2> QED
      BY <1>0, <2>1, <2>2, <2>3, EndKeeps
  <1>7. ASSUME terminateCallInProgress PROVE CallInv'
    <2>1. /\ CallOn /\ callTimer /\ maybeEndCallInProgress("none", TRUE) /\ UNCHANGED <<callCat, connected, asked>>
      BY <1>7 DEF terminateCallInProgress
    <2>2. asked' \in Seq(SUBSET {"leave", "hang-up"}) /\ Len(asked') = Len(asked)
      BY <2>1 DEF CallInv, CallTypes
    <2> QED
      BY <1>0, <2>1, <2>2, EndKeeps
  <1>8. ASSUME UNCHANGED agoraVars PROVE CallInv'
    BY <1>8 DEF agoraVars, CallInv, CallTypes, LogIsCurrent, EndedAsked, JoinedConnected, CallIsHeld, CallOn
  <1> QED
    BY <1>1, <1>3, <1>4, <1>5, <1>6, <1>7, <1>8, <1>9, <1>10, InviteKeeps DEF CallNext

\* Every call of a topic, whatever events come late, tells a story that a client can show, is
\* ended by its own members and is not left over.
THEOREM CallsAreSafe == CallSpec => []CallSafe
  <1>1. CallInv => CallSafe
    <2> SUFFICES ASSUME CallInv PROVE CallSafe
      OBVIOUS
    <2>1. CallStory
      BY DEF CallInv, CallTypes, Story, Ends, Started, Accepted, CallStory
    <2>2. EndedByItsMembers
      <3> SUFFICES ASSUME NEW n \in 1 .. Len(callLog), NEW k \in 1 .. Len(callLog[n]),
                          callLog[n][k] \in {"declined", "finished"}
                   PROVE  asked[n] # {}
        BY DEF EndedByItsMembers
      <3>1. callLog[n] \in Story
        BY DEF CallInv, CallTypes
      <3>2. callLog[n] \notin {Started, Accepted, <<"started", "missed">>}
        BY DEF Started, Accepted
      <3> QED
        BY <3>1, <3>2 DEF CallInv, EndedAsked, Story, Ends
    <2> QED
      BY <2>1, <2>2 DEF CallInv, CallSafe
  <1> QED
    BY CallInitInv, CallStepInv, <1>1, PTL DEF CallSpec

\* The channel never has more participants than configured.
THEOREM CallsAreTyped == CallSpec => []CallTypeOK
  <1>1. CallInv => CallTypeOK
    BY DEF CallInv, CallTypes, CallRecord, CallTypeOK
  <1> QED
    BY CallInitInv, CallStepInv, <1>1, PTL DEF CallSpec

-----------------------------------------------------------------------------
(* The members of a group. *)

\* A mode with the owner's letter has the letter to join.
GroupMode == {m \in SUBSET Letter : "O" \in m => "J" \in m}
SubState == {"none", "live", "deleted"}
SubRow == [want : GroupMode, given : GroupMode, is : SubState]
SubModes == [want : GroupMode, given : GroupMode]

\* What the variables are, in full: the cache has the users whose rows are live.
GroupTypes ==
    /\ subs \in [Member -> SubRow]
    /\ Cached = Stored /\ perUser \in [Cached -> SubModes]
    /\ offline \in [Member -> GroupMode \union {NoOffline}]
    /\ attached \subseteq Cached
    /\ Cardinality(Cached) <= maxSubscriberCount
    /\ invite \in [active : BOOLEAN, uses : 0 .. MaxUses]

\* The owner the topic knows, if any, is a member who owns and has joined.
OwnerOwns == owner # NoUser => owner \in Cached /\ {"J", "O"} \subseteq Mode(perUser[owner])

\* Who was banned has a row, with nothing given, and nothing is given in the cache.
BannedGivenNothing ==
    \A u \in banned : /\ u \in Member /\ subs[u].is # "none" /\ subs[u].given = {}
                      /\ u \in Cached => perUser[u].given = {}

\* Until a transfer breaks off or a late write takes the owner bit, the group has an owner, the
\* rows and the cache agree on what is given, and the owner's row wants to own.
OwnerMeanwhile ==
    ~halfDone /\ ~overtaken =>
        /\ owner # NoUser /\ "O" \in subs[owner].want
        /\ \A u \in Cached : subs[u].given = perUser[u].given

\* The inductive invariant of the members of a group.
GroupInv == GroupTypes /\ OwnerOwns /\ BannedGivenNothing /\ AttachedMayJoin /\ OwnerMeanwhile

\* The modes that the actions write.
LEMMA GroupModes ==
    /\ {} \in GroupMode /\ ModeMember \in GroupMode /\ ModeAdmin \in GroupMode /\ ModeCFull \in GroupMode
    /\ accessFor \in GroupMode /\ AskedMode \subseteq GroupMode
    /\ \A m \in GroupMode : userAccess \intersect m \in GroupMode
    /\ \A m \in GroupMode : m \ {"O"} \in GroupMode /\ m \ {"D"} \in GroupMode
    /\ \A m, n \in GroupMode : m \union n \in GroupMode
  BY DEF GroupMode, Letter, ModeMember, ModeAdmin, ModeCFull, accessFor, AskedMode, userAccess

\* The unset mode is none of them; without the letter to join only the empty mode is asked for.
LEMMA AskedModes ==
    /\ \A m \in AskedMode : m # ModeUnset /\ m # NoOffline /\ ("J" \notin m => m = {})
    /\ "J" \in ModeMember /\ "J" \in ModeAdmin /\ "J" \in accessFor
  BY DEF AskedMode, ModeMember, ModeAdmin, ModeCFull, ModeUnset, NoOffline, accessFor

\* A row or an entry of the cache, taken apart.
LEMMA SubIs ==
    ASSUME NEW w \in GroupMode, NEW g \in GroupMode
    PROVE  /\ Row(w, g) \in SubRow /\ Row(w, g).want = w /\ Row(w, g).given = g /\ Row(w, g).is = "live"
           /\ Modes(w, g) \in SubModes /\ Modes(w, g).want = w /\ Modes(w, g).given = g
  BY DEF Row, Modes, SubRow, SubModes, SubState

\* One more member, if there is room, and one less.
LEMMA CachedIs ==
    ASSUME GroupTypes, NEW u \in Member
    PROVE  /\ Cached \subseteq Member /\ IsFiniteSet(Cached)
           /\ u \in Cached \/ Cardinality(Cached) < maxSubscriberCount =>
                 Cardinality(Cached \union {u}) <= maxSubscriberCount
           /\ Cardinality(Cached \ {u}) <= maxSubscriberCount
  <1>1. Cached \subseteq Member
    BY DEF GroupTypes, Stored
  <1>2. IsFiniteSet(Cached) /\ Cardinality(Cached) \in Nat
    BY <1>1, GroupAssumption, FS_Subset, FS_CardinalityType
  <1>3. Cardinality(Cached) <= maxSubscriberCount /\ maxSubscriberCount \in Nat
    BY GroupAssumption DEF GroupTypes
  <1>4. ASSUME u \in Cached \/ Cardinality(Cached) < maxSubscriberCount
        PROVE  Cardinality(Cached \union {u}) <= maxSubscriberCount
    <2>1. CASE u \in Cached
      <3>1. Cached \union {u} = Cached
        BY <2>1
      <3> QED
        BY <1>3, <3>1
    <2>2. CASE u \notin Cached
      <3>1. Cardinality(Cached \union {u}) = Cardinality(Cached) + 1
        BY <1>2, <2>2, FS_AddElement
      <3> QED
        BY <1>2, <1>3, <1>4, <2>2, <3>1
    <2> QED
      BY <2>1, <2>2
  <1>5. Cardinality(Cached \ {u}) <= Cardinality(Cached) /\ Cardinality(Cached \ {u}) \in Nat
    <2>1. Cached \ {u} \subseteq Cached
      OBVIOUS
    <2> QED
      BY <1>2, <2>1, FS_Subset, FS_CardinalityType
  <1> QED
    BY <1>1, <1>2, <1>3, <1>4, <1>5

\* It holds of a group that was just made.
LEMMA GroupInitInv == GroupInit => GroupInv
  <1> SUFFICES ASSUME GroupInit PROVE GroupInv
    OBVIOUS
  <1> DEFINE first == Modes(ModeCFull, ModeCFull)  never == [want |-> {}, given |-> {}, is |-> "none"]
             row == Row(ModeCFull, ModeCFull)
  <1>1. /\ row \in SubRow /\ row.want = ModeCFull /\ row.given = ModeCFull /\ row.is = "live"
        /\ first \in SubModes /\ first.want = ModeCFull /\ first.given = ModeCFull
    BY SubIs, GroupModes
  <1>2. never \in SubRow /\ never.is = "none"
    BY GroupModes DEF SubRow, SubState
  <1>3. /\ subs = [u \in Member |-> IF u = Founder THEN row ELSE never]
        /\ perUser = [u \in {Founder} |-> first]
        /\ owner = Founder /\ attached = {Founder} /\ banned = {} /\ slipped = {} /\ offline = [u \in Member |-> NoOffline]
        /\ invite = [active |-> FALSE, uses |-> 0]
    BY DEF GroupInit
  <1>4. Founder \in Member /\ 0 \in 0 .. MaxUses /\ maxSubscriberCount \in Nat \ {0} /\ Founder # NoUser
    BY GroupAssumption, NoUserAssumption
  <1> HIDE DEF first, never, row
  <1>5. Cached = {Founder} /\ Stored = {Founder} /\ Cardinality({Founder}) = 1
    BY <1>1, <1>2, <1>3, <1>4, FS_Singleton DEF Cached, Stored
  <1>6. GroupTypes
    BY <1>1, <1>2, <1>3, <1>4, <1>5 DEF GroupTypes
  <1>7. {"J", "O"} \subseteq ModeCFull
    BY DEF ModeCFull, ModeAdmin
  <1>8. OwnerOwns /\ BannedGivenNothing /\ AttachedMayJoin /\ OwnerMeanwhile
    BY <1>1, <1>3, <1>4, <1>5, <1>7 DEF OwnerOwns, BannedGivenNothing, AttachedMayJoin, OwnerMeanwhile, Mode
  <1> QED
    BY <1>6, <1>8 DEF GroupInv

\* A step that writes the row and the entry of one member leaves the invariant true: the owner's
\* with the letters of an owner, one who is given nothing or was not banned.
LEMMA MemberKeeps ==
    ASSUME GroupInv, NEW u \in Member, NEW want \in GroupMode, NEW given \in GroupMode,
           NEW rowWant \in GroupMode, NEW rowGiven \in GroupMode,
           subs' = [subs EXCEPT ![u] = Row(rowWant, rowGiven)], perUser' = With(u, Modes(want, given)),
           UNCHANGED <<owner, offline, halfDone, overtaken>>,
           u = owner => {"J", "O"} \subseteq want \intersect given,
           ~halfDone /\ ~overtaken => rowGiven = given /\ (u = owner => "O" \in rowWant),
           attached' \subseteq attached \union {u}, slipped \intersect attached' \subseteq slipped' \union {u},
           u \in attached' \ slipped' => "J" \in want \intersect given,
           banned' \subseteq banned \union {u}, u \in banned' => given = {} /\ rowGiven = {},
           invite' \in [active : BOOLEAN, uses : 0 .. MaxUses],
           u \in Cached \/ Cardinality(Cached) < maxSubscriberCount
    PROVE  GroupInv'
  <1> DEFINE row == Row(rowWant, rowGiven)  entry == Modes(want, given)
  <1>1. /\ row \in SubRow /\ row.want = rowWant /\ row.given = rowGiven /\ row.is = "live"
        /\ entry \in SubModes /\ entry.want = want /\ entry.given = given
    BY SubIs
  <1>2. subs' = [subs EXCEPT ![u] = row] /\ perUser' = With(u, entry)
    OBVIOUS
  <1> HIDE DEF row, entry
  <1>3. subs' \in [Member -> SubRow] /\ subs'[u] = row /\ \A v \in Member \ {u} : subs'[v] = subs[v]
    BY <1>1, <1>2 DEF GroupInv, GroupTypes
  <1>4. /\ Cached' = Cached \union {u} /\ perUser' \in [Cached' -> SubModes] /\ perUser'[u] = entry
        /\ \A v \in Cached \ {u} : perUser'[v] = perUser[v]
    BY <1>1, <1>2 DEF GroupInv, GroupTypes, With, Cached
  <1>5. Stored' = Stored \union {u}
    BY <1>1, <1>3 DEF Stored
  <1>6. Cardinality(Cached') <= maxSubscriberCount /\ Cached \subseteq Member
    BY <1>4, CachedIs DEF GroupInv
  <1>7. GroupTypes'
    BY <1>3, <1>4, <1>5, <1>6 DEF GroupInv, GroupTypes
  <1>8. OwnerOwns'
    BY <1>1, <1>4 DEF GroupInv, OwnerOwns, Mode
  <1>9. BannedGivenNothing'
    BY <1>1, <1>3, <1>4 DEF GroupInv, BannedGivenNothing
  <1>10. AttachedMayJoin'
    BY <1>1, <1>4 DEF GroupInv, GroupTypes, AttachedMayJoin, Mode
  <1>11. OwnerMeanwhile'
    BY <1>1, <1>3, <1>4, <1>6 DEF GroupInv, OwnerMeanwhile, OwnerOwns
  <1> QED
    BY <1>7, <1>8, <1>9, <1>10, <1>11 DEF GroupInv

\* So does a step that changes no mode and lets no session in.
LEMMA NoModeKeeps ==
    ASSUME GroupInv, UNCHANGED <<subs, perUser, owner, offline, halfDone, overtaken, banned>>,
           attached' \subseteq attached, slipped \intersect attached' \subseteq slipped',
           invite' \in [active : BOOLEAN, uses : 0 .. MaxUses]
    PROVE  GroupInv'
  <1>1. GroupTypes'
    BY DEF GroupInv, GroupTypes, Cached, Stored
  <1>2. OwnerOwns' /\ BannedGivenNothing' /\ AttachedMayJoin' /\ OwnerMeanwhile'
    BY DEF GroupInv, OwnerOwns, BannedGivenNothing, AttachedMayJoin, OwnerMeanwhile, Cached, Mode
  <1> QED
    BY <1>1, <1>2 DEF GroupInv

\* So does the removal of a member who is not the owner.
LEMMA RemovedKeeps ==
    ASSUME GroupInv, NEW u \in Member, u # owner, Removed(u),
           UNCHANGED <<owner, offline, halfDone, overtaken, banned, invite>>
    PROVE  GroupInv'
  <1>1. CASE u \notin Stored
    BY <1>1, NoModeKeeps DEF Removed, GroupInv, GroupTypes
  <1>2. CASE u \in Stored
    <2> DEFINE row == [subs[u] EXCEPT !.is = "deleted"]
    <2>1. /\ row \in SubRow /\ row.want = subs[u].want /\ row.given = subs[u].given /\ row.is = "deleted"
      BY DEF GroupInv, GroupTypes, SubRow, SubState
    <2>2. /\ subs' = [subs EXCEPT ![u] = row] /\ perUser' = [v \in Cached \ {u} |-> perUser[v]]
          /\ attached' = attached \ {u} /\ slipped' = slipped \ {u}
      BY <1>2 DEF Removed, Restrict
    <2> HIDE DEF row
    <2>3. subs' \in [Member -> SubRow] /\ subs'[u] = row /\ \A v \in Member \ {u} : subs'[v] = subs[v]
      BY <2>1, <2>2 DEF GroupInv, GroupTypes
    <2>4. /\ Cached' = Cached \ {u} /\ perUser' \in [Cached' -> SubModes]
          /\ \A v \in Cached' : perUser'[v] = perUser[v]
      BY <2>2 DEF GroupInv, GroupTypes, Cached
    <2>5. Stored' = Stored \ {u}
      BY <2>1, <2>3 DEF Stored
    <2>6. Cardinality(Cached') <= maxSubscriberCount /\ Cached \subseteq Member
      BY <2>4, CachedIs DEF GroupInv
    <2>7. GroupTypes'
      BY <2>2, <2>3, <2>4, <2>5, <2>6 DEF GroupInv, GroupTypes
    <2>8. OwnerOwns' /\ AttachedMayJoin'
      BY <2>2, <2>4 DEF GroupInv, GroupTypes, OwnerOwns, AttachedMayJoin, Mode
    <2>9. BannedGivenNothing'
      BY <2>1, <2>3, <2>4 DEF GroupInv, BannedGivenNothing
    <2>10. OwnerMeanwhile'
      BY <2>1, <2>3, <2>4, <2>6 DEF GroupInv, OwnerMeanwhile, OwnerOwns
    <2> QED
      BY <2>7, <2>8, <2>9, <2>10 DEF GroupInv
  <1> QED
    BY <1>1, <1>2

\* What planExistingSelfSubscription plans: nothing given is taken, a banned user is given
\* nothing, the owner stays one, and a transfer gives the new owner the letters of one.
LEMMA PlanIs ==
    ASSUME GroupInv, NEW u \in Cached, NEW req \in AskedMode \union {ModeUnset}, PlanOK(u, req)
    PROVE  /\ PlanWant(u, req) \in GroupMode /\ PlanGiven(u, req) \in GroupMode
           /\ perUser[u].given \subseteq PlanGiven(u, req)
           /\ u \in banned => PlanGiven(u, req) = {}
           /\ u = owner => {"J", "O"} \subseteq PlanWant(u, req) \intersect PlanGiven(u, req)
           /\ OwnerChange(u, req) => /\ u # owner /\ PlanWant(u, req) # perUser[u].want
                                     /\ {"J", "O"} \subseteq PlanWant(u, req) \intersect PlanGiven(u, req)
  <1> DEFINE had == perUser[u]  given == PlanGiven(u, req)  want == PlanWant(u, req)
  <1>1. had.want \in GroupMode /\ had.given \in GroupMode
    BY DEF GroupInv, GroupTypes, SubModes
  <1>2. req # ModeUnset => req \in GroupMode
    BY GroupModes
  <1>3. given \in {had.given, had.given \union req, had.given \union (req \ {"D"})}
        /\ (req = ModeUnset => given = had.given)
    <2>1. CASE req = ModeUnset
      <3>1. "O" \notin req
        BY <2>1 DEF ModeUnset
      <3> QED
        BY <2>1, <3>1 DEF PlanGiven
    <2>2. CASE req # ModeUnset /\ "O" \in had.given
      BY <2>2 DEF PlanGiven
    <2>3. CASE req # ModeUnset /\ "O" \notin had.given
      BY <2>3 DEF PlanGiven
    <2> QED
      BY <2>1, <2>2, <2>3
  <1>4. given \in GroupMode /\ had.given \subseteq given
    BY <1>1, <1>2, <1>3, GroupModes
  <1>5. want \in {req, had.want, given \union accessFor} /\ (req # ModeUnset => want = req)
        /\ (req = ModeUnset => want # req)
    BY <1>1, <1>4, GroupModes DEF PlanWant, GroupMode, Letter, ModeUnset
  <1>6. want \in GroupMode
    BY <1>1, <1>2, <1>4, <1>5, GroupModes
  <1>7. u \in banned => given = {}
    BY DEF GroupInv, BannedGivenNothing, PlanGiven, IsAdmin
  <1>8. ASSUME u = owner PROVE {"J", "O"} \subseteq want \intersect given
    <2>1. {"J", "O"} \subseteq had.want /\ {"J", "O"} \subseteq had.given
      <3>1. owner # NoUser
        BY <1>8, NoUserAssumption, CachedIs DEF GroupInv, GroupTypes, Stored
      <3> QED
        BY <1>8, <3>1 DEF GroupInv, OwnerOwns, Mode
    <2>2. CASE req = ModeUnset
      BY <1>3, <2>1, <2>2 DEF PlanWant
    <2>3. CASE req # ModeUnset
      BY <1>4, <1>5, <1>8, <2>1, <2>3 DEF PlanOK
    <2> QED
      BY <2>2, <2>3
  <1>9. ASSUME OwnerChange(u, req)
        PROVE  u # owner /\ want # had.want /\ {"J", "O"} \subseteq want \intersect given
    <2>1. "O" \in had.given /\ "O" \notin had.want /\ "O" \in req /\ req # ModeUnset
      BY <1>9 DEF OwnerChange
    <2>2. want = req /\ "J" \in req /\ "J" \in had.given
      BY <1>1, <1>2, <1>5, <2>1 DEF GroupMode
    <2>3. u # owner
      BY <1>8, <1>9, <2>1, NoUserAssumption, CachedIs DEF GroupInv, GroupTypes, Stored, OwnerOwns, Mode
    <2> QED
      BY <1>4, <2>1, <2>2, <2>3
  <1> QED
    BY <1>4, <1>6, <1>7, <1>8, <1>9

\* The rows after the first write of existingSubscription.
Written(u, req) ==
    [subs EXCEPT ![u].want = IF PlanWant(u, req) # perUser[u].want THEN PlanWant(u, req) ELSE @,
                 ![u].given = IF PlanGiven(u, req) # perUser[u].given THEN PlanGiven(u, req) ELSE @]

\* That write changes one live row: an owner's wants and gives the owner bit, a banned user's
\* gives nothing.
LEMMA WrittenIs ==
    ASSUME GroupInv, NEW u \in Cached, NEW req \in AskedMode \union {ModeUnset}, PlanOK(u, req)
    PROVE  \E w, g \in GroupMode :
             /\ Written(u, req) = [subs EXCEPT ![u] = Row(w, g)]
             /\ u \in banned => g = {}
             /\ ~halfDone /\ ~overtaken => g = PlanGiven(u, req) /\ (u = owner => "O" \in w)
             /\ OwnerChange(u, req) => "O" \in w
  <1> DEFINE given == PlanGiven(u, req)  want == PlanWant(u, req)
             w == IF want # perUser[u].want THEN want ELSE subs[u].want
             g == IF given # perUser[u].given THEN given ELSE subs[u].given
  <1>1. /\ want \in GroupMode /\ given \in GroupMode
        /\ u \in banned => given = {}
        /\ u = owner => {"J", "O"} \subseteq want \intersect given
        /\ OwnerChange(u, req) => want # perUser[u].want /\ {"J", "O"} \subseteq want \intersect given
    BY PlanIs
  <1> HIDE DEF given, want
  <1>2. u \in Member /\ subs[u] \in SubRow /\ subs[u].is = "live"
    BY DEF GroupInv, GroupTypes, Stored
  <1>3. w \in GroupMode /\ g \in GroupMode
    BY <1>1, <1>2 DEF SubRow
  <1>4. Written(u, req) = [subs EXCEPT ![u] = Row(w, g)]
    <2>1. Written(u, req) = [subs EXCEPT ![u] = [subs[u] EXCEPT !.want = w, !.given = g]]
      <3> DEFINE mid == [subs EXCEPT ![u] = [subs[u] EXCEPT !.want = w]]
      <3>1. subs \in [Member -> SubRow]
        BY DEF GroupInv, GroupTypes
      <3>2. mid[u] = [subs[u] EXCEPT !.want = w] /\ mid[u].given = subs[u].given
        BY <1>2, <3>1 DEF SubRow
      <3>3. Written(u, req) = [mid EXCEPT ![u] = [mid[u] EXCEPT
                !.given = IF given # perUser[u].given THEN given ELSE mid[u].given]]
        BY DEF Written, given, want
      <3>4. Written(u, req) = [mid EXCEPT ![u] = [mid[u] EXCEPT !.given = g]]
        BY <3>2, <3>3
      <3> HIDE DEF w, g
      <3> QED
        BY <1>2, <3>1, <3>2, <3>4
    <2> HIDE DEF w, g
    <2>2. [subs[u] EXCEPT !.want = w, !.given = g] = Row(w, g)
      <3> DEFINE row == subs[u]  changed == [row EXCEPT !.want = w, !.given = g]
      <3>1. row \in SubRow /\ row.is = "live"
        BY <1>2
      <3> HIDE DEF row
      <3>2. changed \in SubRow /\ changed.want = w /\ changed.given = g /\ changed.is = "live"
        BY <1>3, <3>1 DEF SubRow
      <3>3. Row(w, g) \in SubRow /\ Row(w, g).want = w /\ Row(w, g).given = g /\ Row(w, g).is = "live"
        BY <1>3, SubIs
      <3> HIDE DEF changed
      <3>4. changed = Row(w, g)
        BY <3>2, <3>3 DEF SubRow
      <3> QED
        BY <3>4 DEF changed, row
    <2> QED
      BY <2>1, <2>2
  <1>5. u \in banned => g = {}
    BY <1>1 DEF GroupInv, BannedGivenNothing
  <1>6. ~halfDone /\ ~overtaken => g = given /\ (u = owner => "O" \in w)
    BY <1>1 DEF GroupInv, OwnerMeanwhile
  <1>7. OwnerChange(u, req) => "O" \in w
    BY <1>1
  <1> QED
    BY <1>3, <1>4, <1>5, <1>6, <1>7 DEF given

\* What taking the owner bit from the old owner does to the rows: the new owner's is not
\* touched, no row loses its state, and no row is given more.
LEMMA DethronedIs ==
    ASSUME GroupInv, NEW rows \in [Member -> SubRow]
    PROVE  /\ Dethroned(rows) \in [Member -> SubRow]
           /\ \A v \in Member : /\ Dethroned(rows)[v].is = rows[v].is
                                /\ owner # NoUser /\ v # owner => Dethroned(rows)[v] = rows[v]
                                /\ v \in banned /\ rows[v].given = {} => Dethroned(rows)[v].given = {}
           /\ owner # NoUser => Dethroned(rows)[owner].given = perUser[owner].given \ {"O"}
  <1>1. CASE owner = NoUser
    BY <1>1, GroupModes DEF Dethroned, SubRow
  <1>2. CASE owner # NoUser
    <2> DEFINE w == perUser[owner].want \ {"O"}  g == perUser[owner].given \ {"O"}
               row == [rows[owner] EXCEPT !.want = w, !.given = g]
    <2>1. owner \in Cached /\ owner \in Member /\ owner \notin banned
      BY <1>2, CachedIs DEF GroupInv, GroupTypes, Stored, OwnerOwns, Mode, BannedGivenNothing
    <2>2. w \in GroupMode /\ g \in GroupMode
      BY <2>1, GroupModes DEF GroupInv, GroupTypes, SubModes
    <2> HIDE DEF w, g
    <2>3. row \in SubRow /\ row.is = rows[owner].is /\ row.given = g
      BY <2>1, <2>2 DEF SubRow
    <2>4. Dethroned(rows) = [rows EXCEPT ![owner] = row]
      <3>1. Dethroned(rows) = [rows EXCEPT ![owner].want = w, ![owner].given = g]
        BY <1>2 DEF Dethroned, w, g
      <3> QED
        BY <2>1, <3>1
    <2> HIDE DEF row
    <2> QED
      BY <1>2, <2>1, <2>3, <2>4 DEF g
  <1> QED
    BY <1>1, <1>2

\* A transfer that is done leaves the invariant true.
LEMMA TransferKeeps ==
    ASSUME GroupInv, NEW u \in Cached, NEW req \in AskedMode \union {ModeUnset}, PlanOK(u, req),
           OwnerChange(u, req), subs' = Dethroned(Written(u, req)), owner' = u,
           perUser' = LET updated == With(u, Modes(PlanWant(u, req), PlanGiven(u, req)))
                      IN  IF owner \in Cached
                          THEN [updated EXCEPT ![owner] = Modes(@.want \ {"O"}, @.given \ {"O"})]
                          ELSE updated,
           attached' \subseteq attached \union {u}, slipped \intersect attached' \subseteq slipped' \union {u},
           UNCHANGED <<offline, halfDone, overtaken, banned, invite>>
    PROVE  GroupInv'
  <1> DEFINE want == PlanWant(u, req)  given == PlanGiven(u, req)  entry == Modes(want, given)
             rows == Written(u, req)
  <1>1. /\ want \in GroupMode /\ given \in GroupMode /\ u # owner
        /\ u \in banned => given = {}
        /\ {"J", "O"} \subseteq want \intersect given
    BY PlanIs
  <1>2. PICK w \in GroupMode, g \in GroupMode :
             /\ rows = [subs EXCEPT ![u] = Row(w, g)]
             /\ u \in banned => g = {}
             /\ ~halfDone /\ ~overtaken => g = given
             /\ "O" \in w
    BY WrittenIs
  <1>3. entry \in SubModes /\ entry.want = want /\ entry.given = given
    BY <1>1, SubIs
  <1>4. Row(w, g) \in SubRow /\ Row(w, g).want = w /\ Row(w, g).given = g /\ Row(w, g).is = "live"
    BY <1>2, SubIs
  <1>5. u \in Member /\ Cached \subseteq Member /\ subs[u].is = "live" /\ u # NoUser
    BY NoUserAssumption DEF GroupInv, GroupTypes, Stored
  <1>6. /\ rows \in [Member -> SubRow] /\ rows[u] = Row(w, g) /\ \A v \in Member \ {u} : rows[v] = subs[v]
    BY <1>2, <1>4, <1>5 DEF GroupInv, GroupTypes
  <1> HIDE DEF want, given, entry, rows
  <1>7. /\ subs' \in [Member -> SubRow]
        /\ \A v \in Member : /\ subs'[v].is = rows[v].is
                             /\ owner # NoUser /\ v # owner => subs'[v] = rows[v]
                             /\ v \in banned /\ rows[v].given = {} => subs'[v].given = {}
        /\ owner # NoUser => subs'[owner].given = perUser[owner].given \ {"O"}
    BY <1>6, DethronedIs DEF rows
  <1>8. /\ Cached' = Cached /\ perUser' \in [Cached -> SubModes] /\ perUser'[u] = entry
        /\ \A v \in Cached \ {u, owner} : perUser'[v] = perUser[v]
        /\ owner \in Cached => /\ perUser'[owner].want = perUser[owner].want \ {"O"}
                               /\ perUser'[owner].given = perUser[owner].given \ {"O"}
    <2> DEFINE updated == [v \in Cached |-> IF v = u THEN entry ELSE perUser[v]]
               ow == perUser[owner].want \ {"O"}  og == perUser[owner].given \ {"O"}
    <2>1. updated \in [Cached -> SubModes] /\ updated[u] = entry /\ \A v \in Cached \ {u} : updated[v] = perUser[v]
      BY <1>3 DEF GroupInv, GroupTypes
    <2>2. perUser' = IF owner \in Cached
                     THEN [updated EXCEPT ![owner] = Modes(@.want \ {"O"}, @.given \ {"O"})] ELSE updated
      <3>1. With(u, entry) = updated
        BY DEF With
      <3> QED
        BY <3>1 DEF entry, want, given
    <2> HIDE DEF updated
    <2>3. CASE owner \notin Cached
      BY <2>1, <2>2, <2>3 DEF Cached
    <2>4. CASE owner \in Cached
      <3>1. ow \in GroupMode /\ og \in GroupMode
        BY <2>4, GroupModes DEF GroupInv, GroupTypes, SubModes
      <3>2. Modes(ow, og) \in SubModes /\ Modes(ow, og).want = ow /\ Modes(ow, og).given = og
        BY <3>1, SubIs
      <3>3. perUser' = [updated EXCEPT ![owner] = Modes(ow, og)]
        BY <1>1, <2>1, <2>2, <2>4
      <3> HIDE DEF ow, og
      <3>4. /\ perUser' \in [Cached -> SubModes] /\ perUser'[u] = entry /\ perUser'[owner] = Modes(ow, og)
            /\ \A v \in Cached \ {u, owner} : perUser'[v] = perUser[v]
        BY <1>1, <2>1, <2>4, <3>2, <3>3
      <3> QED
        BY <3>2, <3>4 DEF Cached, ow, og
    <2> QED
      BY <2>3, <2>4
  <1>9. Stored' = Stored
    BY <1>4, <1>5, <1>6, <1>7 DEF Stored
  <1>10. GroupTypes'
    BY <1>7, <1>8, <1>9 DEF GroupInv, GroupTypes
  <1>11. OwnerOwns'
    BY <1>1, <1>3, <1>8 DEF OwnerOwns, Mode
  <1>12. BannedGivenNothing'
    <2> SUFFICES ASSUME NEW v \in banned
                 PROVE  v \in Member /\ subs'[v].is # "none" /\ subs'[v].given = {}
                        /\ (v \in Cached => perUser'[v].given = {})
      BY <1>8 DEF BannedGivenNothing
    <2>1. v \in Member /\ subs[v].is # "none" /\ subs[v].given = {} /\ (v \in Cached => perUser[v].given = {})
      BY DEF GroupInv, BannedGivenNothing
    <2>2. v # u
      BY <1>1
    <2>3. v # owner \/ v \notin Cached
      BY <2>1, NoUserAssumption DEF GroupInv, OwnerOwns, Mode
    <2> QED
      BY <1>6, <1>7, <1>8, <2>1, <2>2, <2>3
  <1>13. AttachedMayJoin'
    BY <1>1, <1>3, <1>8 DEF GroupInv, GroupTypes, AttachedMayJoin, Mode
  <1>14. OwnerMeanwhile'
    <2> SUFFICES ASSUME ~halfDone, ~overtaken
                 PROVE  "O" \in subs'[u].want /\ \A v \in Cached : subs'[v].given = perUser'[v].given
      BY <1>5, <1>8 DEF OwnerMeanwhile
    <2>1. owner # NoUser /\ \A v \in Cached : subs[v].given = perUser[v].given
      BY DEF GroupInv, OwnerMeanwhile
    <2>2. subs'[u] = Row(w, g)
      BY <1>1, <1>5, <1>6, <1>7, <2>1
    <2>3. subs'[u].given = perUser'[u].given /\ "O" \in subs'[u].want
      BY <1>2, <1>3, <1>4, <1>8, <2>2
    <2>4. owner \in Cached => subs'[owner].given = perUser'[owner].given
      BY <1>7, <1>8, <2>1
    <2>5. \A v \in Cached \ {u, owner} : subs'[v].given = perUser'[v].given
      BY <1>5, <1>6, <1>7, <1>8, <2>1
    <2> QED
      BY <2>3, <2>4, <2>5
  <1> QED
    BY <1>10, <1>11, <1>12, <1>13, <1>14 DEF GroupInv

\* So does one that breaks off after a write; the new owner's row says so already.
LEMMA BrokenOffKeeps ==
    ASSUME GroupInv, NEW u \in Cached, NEW req \in AskedMode \union {ModeUnset}, PlanOK(u, req),
           OwnerChange(u, req), subs' \in {Written(u, req), Dethroned(Written(u, req))},
           halfDone', UNCHANGED <<perUser, owner, attached, slipped, offline, overtaken, banned, invite>>
    PROVE  GroupInv' /\ (owner # NoUser /\ ~halfDone /\ ~overtaken => "O" \in Mode(subs'[u]))
  <1> DEFINE rows == Written(u, req)
  <1>1. u # owner /\ {"J", "O"} \subseteq PlanGiven(u, req) /\ (u \in banned => PlanGiven(u, req) = {})
    BY PlanIs
  <1>2. PICK w \in GroupMode, g \in GroupMode :
             /\ rows = [subs EXCEPT ![u] = Row(w, g)]
             /\ u \in banned => g = {}
             /\ ~halfDone /\ ~overtaken => g = PlanGiven(u, req)
             /\ "O" \in w
    BY WrittenIs
  <1>3. Row(w, g) \in SubRow /\ Row(w, g).want = w /\ Row(w, g).given = g /\ Row(w, g).is = "live"
    BY <1>2, SubIs
  <1>4. u \in Member /\ subs[u].is = "live"
    BY DEF GroupInv, GroupTypes, Stored
  <1>5. /\ rows \in [Member -> SubRow] /\ rows[u] = Row(w, g) /\ \A v \in Member \ {u} : rows[v] = subs[v]
    BY <1>2, <1>3, <1>4 DEF GroupInv, GroupTypes
  <1> HIDE DEF rows
  <1>6. /\ subs' \in [Member -> SubRow]
        /\ \A v \in Member : /\ subs'[v].is = rows[v].is
                             /\ owner # NoUser /\ v # owner => subs'[v] = rows[v]
                             /\ v \in banned /\ rows[v].given = {} => subs'[v].given = {}
    BY <1>5, DethronedIs DEF rows
  <1>7. Stored' = Stored /\ Cached' = Cached
    BY <1>3, <1>4, <1>5, <1>6 DEF Stored, Cached
  <1>8. GroupTypes'
    BY <1>6, <1>7 DEF GroupInv, GroupTypes
  <1>9. OwnerOwns' /\ AttachedMayJoin' /\ OwnerMeanwhile'
    BY <1>7 DEF GroupInv, OwnerOwns, AttachedMayJoin, OwnerMeanwhile, Mode
  <1>10. BannedGivenNothing'
    BY <1>1, <1>5, <1>6, <1>7 DEF GroupInv, BannedGivenNothing
  <1>11. owner # NoUser /\ ~halfDone /\ ~overtaken => "O" \in Mode(subs'[u])
    BY <1>1, <1>2, <1>3, <1>4, <1>5, <1>6 DEF Mode
  <1> QED
    BY <1>8, <1>9, <1>10, <1>11 DEF GroupInv

\* A use of the invitation is counted up to the limit.
LEMMA ConsumedIs ==
    ASSUME GroupTypes, usable
    PROVE  Consumed \in [active : BOOLEAN, uses : 0 .. MaxUses]
  <1>1. invite.uses + 1 \in 0 .. MaxUses
    BY GroupAssumption DEF GroupTypes, usable
  <1> QED
    BY <1>1 DEF GroupTypes, Consumed

\* A banned member whom an invitation brings back.
LEMMA RestoreKeeps == ASSUME GroupInv, NEW u \in Member, restoreInvited(u) PROVE GroupInv'
  <1>1. /\ u \in Cached /\ u # owner /\ invite' \in [active : BOOLEAN, uses : 0 .. MaxUses]
        /\ UNCHANGED <<owner, offline, halfDone, overtaken, slipped>>
    BY ConsumedIs, NoUserAssumption DEF restoreInvited, GroupInv, OwnerOwns, Mode
  <1>2. CASE UNCHANGED <<subs, perUser, attached, banned>>
    BY <1>1, <1>2, NoModeKeeps
  <1>3. CASE /\ subs' = [subs EXCEPT ![u] = Row(ModeMember, ModeMember)]
             /\ perUser' = With(u, Modes(ModeMember, ModeMember))
             /\ attached' = attached \union {u} /\ banned' = banned \ {u}
    BY <1>1, <1>3, MemberKeeps, GroupModes, AskedModes
  <1> QED
    BY <1>2, <1>3 DEF restoreInvited

\* A new member.
LEMMA NewKeeps ==
    ASSUME GroupInv, NEW u \in Member, NEW req \in AskedMode \union {ModeUnset}, NEW invited \in BOOLEAN,
           newSubscription(u, req, invited)
    PROVE  GroupInv'
  <1> DEFINE given == IF invited THEN ModeMember ELSE GivenBefore(u)
             want == IF invited THEN ModeMember ELSE IF req = ModeUnset THEN accessFor ELSE req
  <1>1. /\ u \notin Cached /\ u # owner /\ invite' \in [active : BOOLEAN, uses : 0 .. MaxUses]
        /\ UNCHANGED <<owner, offline, halfDone, overtaken, slipped>>
    <2>1. /\ u \notin Cached /\ (invited => usable) /\ invite' = IF invited THEN Consumed ELSE invite
          /\ UNCHANGED <<owner, offline, halfDone, overtaken, slipped>>
      BY DEF newSubscription
    <2>2. invite' \in [active : BOOLEAN, uses : 0 .. MaxUses]
      BY <2>1, ConsumedIs DEF GroupInv, GroupTypes
    <2> QED
      BY <2>1, <2>2, NoUserAssumption DEF GroupInv, OwnerOwns
  <1>2. subs[u] \in SubRow /\ subs[u].is # "live" /\ want \in GroupMode /\ given \in GroupMode
    BY <1>1, GroupModes DEF GroupInv, GroupTypes, Stored, SubRow, GivenBefore
  <1>3. CASE UNCHANGED <<subs, perUser, attached, banned>>
    BY <1>1, <1>3, NoModeKeeps
  <1>4. CASE /\ Cardinality(Cached) < maxSubscriberCount /\ "J" \in given
             /\ subs' = [subs EXCEPT ![u] = IF @.is = "live" THEN @ ELSE Row(want, given)]
             /\ perUser' = With(u, Modes(want, given))
             /\ attached' = IF "J" \in want THEN attached \union {u} ELSE attached
             /\ banned' = IF invited THEN banned \ {u} ELSE banned
    <2>1. subs' = [subs EXCEPT ![u] = Row(want, given)]
      BY <1>2, <1>4 DEF GroupInv, GroupTypes
    <2>2. u \notin banned'
      BY <1>4 DEF GroupInv, BannedGivenNothing, GivenBefore
    <2>3. u \notin attached
      BY <1>1 DEF GroupInv, GroupTypes
    <2> HIDE DEF want, given
    <2> QED
      BY <1>1, <1>2, <1>4, <2>1, <2>2, <2>3, MemberKeeps
  <1> QED
    BY <1>3, <1>4 DEF newSubscription

\* A member who changes what they want.
LEMMA ExistingKeeps ==
    ASSUME GroupInv, NEW u \in Member, NEW req \in AskedMode \union {ModeUnset}, setSelf(u, req)
    PROVE  GroupInv'
  <1> DEFINE want == PlanWant(u, req)  given == PlanGiven(u, req)
  <1>1. /\ u \in Cached /\ PlanOK(u, req) /\ UNCHANGED <<invite, offline, overtaken, banned>>
    BY DEF setSelf, existingSubscription
  <1>2. /\ want \in GroupMode /\ given \in GroupMode /\ perUser[u].given \subseteq given
        /\ u \in banned => given = {}
        /\ u = owner => {"J", "O"} \subseteq want \intersect given
    BY <1>1, PlanIs
  <1>3. invite' \in [active : BOOLEAN, uses : 0 .. MaxUses]
    BY <1>1 DEF GroupInv, GroupTypes
  <1>4. CASE UNCHANGED <<subs, perUser, owner, attached, slipped, halfDone>>
    BY <1>1, <1>3, <1>4, NoModeKeeps
  <1>5. CASE /\ OwnerChange(u, req) /\ halfDone' = TRUE
             /\ subs' \in {Written(u, req), Dethroned(Written(u, req))}
             /\ UNCHANGED <<perUser, owner, attached, slipped>>
    BY <1>1, <1>5, BrokenOffKeeps
  <1> DEFINE updated == With(u, Modes(want, given))
             demoted == IF OwnerChange(u, req) /\ owner \in Cached
                        THEN [updated EXCEPT ![owner] = Modes(@.want \ {"O"}, @.given \ {"O"})]
                        ELSE updated
             hasJoined == u \notin linked /\ IF "J" \in want THEN "J" \in given
                                            ELSE perUser[u] = Modes(want, given)
  <1>6. CASE /\ subs' = IF OwnerChange(u, req) THEN Dethroned(Written(u, req)) ELSE Written(u, req)
             /\ perUser' = demoted
             /\ owner' = IF OwnerChange(u, req) THEN u ELSE owner
             /\ attached' = IF hasJoined THEN attached \union {u}
                            ELSE IF "J" \notin want THEN attached \ {u}
                            ELSE attached
             /\ slipped' = IF "J" \in want \intersect given THEN slipped \ {u}
                           ELSE IF hasJoined THEN slipped \union {u}
                           ELSE slipped \intersect attached'
             /\ UNCHANGED halfDone
    <2>1. attached' \subseteq attached \union {u} /\ slipped \intersect attached' \subseteq slipped' \union {u}
      BY <1>6
    <2>2. CASE OwnerChange(u, req)
      BY <1>1, <1>6, <2>1, <2>2, TransferKeeps
    <2>3. CASE ~OwnerChange(u, req)
      <3>1. PICK w \in GroupMode, g \in GroupMode :
               /\ Written(u, req) = [subs EXCEPT ![u] = Row(w, g)]
               /\ u \in banned => g = {}
               /\ ~halfDone /\ ~overtaken => g = given /\ (u = owner => "O" \in w)
        BY <1>1, WrittenIs
      <3>2. u \in attached' \ slipped' => "J" \in want \intersect given
        BY <1>2, <1>6 DEF GroupInv, AttachedMayJoin, Mode
      <3>3. subs' = [subs EXCEPT ![u] = Row(w, g)] /\ perUser' = updated /\ UNCHANGED owner
        BY <1>6, <2>3, <3>1
      <3> HIDE DEF want, given
      <3> QED
        BY <1>1, <1>2, <1>3, <1>6, <2>1, <3>1, <3>2, <3>3, MemberKeeps
    <2> QED
      BY <2>2, <2>3
  <1> QED
    BY <1>4, <1>5, <1>6 DEF setSelf, existingSubscription, Written

\* An administrator who changes what a member is given.
LEMMA AnotherKeeps ==
    ASSUME GroupInv, NEW h \in Member, NEW u \in Member, NEW req \in AskedMode, anotherUserSub(h, u, req)
    PROVE  GroupInv'
  <1>1. /\ u \in Cached /\ (owner = u => {"J", "O"} \subseteq req) /\ UNCHANGED <<owner, offline, halfDone, overtaken, invite>>
    BY DEF anotherUserSub
  <1>2. /\ req \in GroupMode /\ ("J" \notin req => req = {}) /\ invite' \in [active : BOOLEAN, uses : 0 .. MaxUses]
    BY <1>1, GroupModes, AskedModes DEF GroupInv, GroupTypes
  <1>3. CASE UNCHANGED <<subs, perUser, attached, slipped, banned>>
    BY <1>1, <1>2, <1>3, NoModeKeeps
  <1>4. CASE /\ subs' = [subs EXCEPT ![u] = [@ EXCEPT !.given = req]]
             /\ perUser' = [perUser EXCEPT ![u].given = req]
             /\ attached' = AttachedAfter(u, req) /\ slipped' = slipped \intersect attached'
             /\ banned' = IF "J" \in req THEN banned \ {u} ELSE banned \union {u}
    <2> DEFINE row == subs[u]  entry == perUser[u]  row2 == [row EXCEPT !.given = req]
               entry2 == [entry EXCEPT !.given = req]
    <2>1. row \in SubRow /\ row.is = "live" /\ entry \in SubModes
      BY <1>1 DEF GroupInv, GroupTypes, Stored
    <2> HIDE DEF row, entry
    <2>2. /\ row2 \in SubRow /\ row2.want = row.want /\ row2.given = req /\ row2.is = "live"
          /\ entry2 \in SubModes /\ entry2.want = entry.want /\ entry2.given = req
          /\ row.want \in GroupMode /\ entry.want \in GroupMode
      BY <1>2, <2>1 DEF SubRow, SubModes
    <2>3. /\ Row(row.want, req) \in SubRow /\ Row(row.want, req).want = row.want
          /\ Row(row.want, req).given = req /\ Row(row.want, req).is = "live"
          /\ Modes(entry.want, req) \in SubModes /\ Modes(entry.want, req).want = entry.want
          /\ Modes(entry.want, req).given = req
      BY <1>2, <2>2, SubIs
    <2> HIDE DEF row2, entry2
    <2>4. row2 = Row(row.want, req) /\ entry2 = Modes(entry.want, req)
      BY <2>2, <2>3 DEF SubRow, SubModes
    <2>5. subs' = [subs EXCEPT ![u] = Row(row.want, req)]
      BY <1>4, <2>4 DEF row2, row
    <2>6. perUser' = With(u, Modes(entry.want, req))
      <3>1. perUser' = [perUser EXCEPT ![u] = entry2]
        BY <1>4 DEF entry2, entry
      <3> QED
        BY ZenonT(60), <1>1, <2>4, <3>1 DEF With, GroupInv, GroupTypes
    <2>7. u = owner => {"J", "O"} \subseteq entry.want \intersect req
      BY <1>1, NoUserAssumption DEF GroupInv, OwnerOwns, Mode, entry
    <2>8. ~halfDone /\ ~overtaken => (u = owner => "O" \in row.want)
      BY DEF GroupInv, OwnerMeanwhile, row
    <2>9. /\ attached' \subseteq attached \union {u} /\ slipped \intersect attached' \subseteq slipped' \union {u}
          /\ u \in attached' \ slipped' => "J" \in entry.want \intersect req
      BY <1>4 DEF AttachedAfter, GroupInv, AttachedMayJoin, Mode, entry
    <2>10. banned' \subseteq banned \union {u} /\ (u \in banned' => req = {})
      BY <1>2, <1>4
    <2> QED
      BY <1>1, <1>2, <2>2, <2>5, <2>6, <2>7, <2>8, <2>9, <2>10, MemberKeeps
  <1> QED
    BY <1>3, <1>4 DEF anotherUserSub

\* Somebody who brings a user in.
LEMMA InviteUserKeeps ==
    ASSUME GroupInv, NEW h \in Member, NEW u \in Member, NEW req \in AskedMode \union {ModeUnset},
           inviteUser(h, u, req)
    PROVE  GroupInv'
  <1> DEFINE given == IF req = ModeUnset THEN accessFor \union {"J"} ELSE req
             want == IF subs[u].is # "none" THEN subs[u].want ELSE userAccess \intersect given
  <1>1. /\ u \notin Cached /\ Cardinality(Cached) < maxSubscriberCount
        /\ UNCHANGED <<owner, offline, halfDone, overtaken, invite, attached, slipped>>
    BY DEF inviteUser
  <1>2. u # owner /\ invite' \in [active : BOOLEAN, uses : 0 .. MaxUses] /\ u \notin attached
    BY <1>1, NoUserAssumption DEF GroupInv, GroupTypes, OwnerOwns
  <1>3. given \in GroupMode /\ ("J" \notin given => given = {})
    <2>1. accessFor \union {"J"} = accessFor
      BY AskedModes
    <2> QED
      BY <2>1, GroupModes, AskedModes
  <1>4. want \in GroupMode
    BY <1>3, GroupModes DEF GroupInv, GroupTypes, SubRow
  <1>5. CASE UNCHANGED <<subs, perUser, banned>>
    BY <1>1, <1>2, <1>5, NoModeKeeps
  <1>6. CASE /\ subs' = [subs EXCEPT ![u] = Row(want, given)]
             /\ perUser' = With(u, Modes(want, given))
             /\ banned' = IF "J" \in given THEN banned \ {u} ELSE banned \union {u}
    <2>1. banned' \subseteq banned \union {u} /\ (u \in banned' => given = {})
      BY <1>3, <1>6
    <2> HIDE DEF want, given
    <2> QED
      BY <1>1, <1>2, <1>3, <1>4, <1>6, <2>1, MemberKeeps
  <1> QED
    BY <1>5, <1>6 DEF inviteUser

\* An administrator who gives a role.
LEMMA RoleKeeps ==
    ASSUME GroupInv, NEW h \in Member, NEW u \in Member, NEW role \in {{}, ModeMember, ModeAdmin},
           setAnotherUserRole(h, u, role)
    PROVE  GroupInv'
  <1>1. /\ u \in Cached => "O" \notin Mode(perUser[u])
        /\ u \notin Cached => Cardinality(Cached) < maxSubscriberCount
        /\ UNCHANGED <<owner, offline, halfDone, overtaken, invite>>
    BY DEF setAnotherUserRole
  <1>2. u # owner /\ invite' \in [active : BOOLEAN, uses : 0 .. MaxUses]
    BY <1>1, NoUserAssumption DEF GroupInv, GroupTypes, OwnerOwns
  <1>3. role \in GroupMode /\ ("J" \notin role => role = {})
    BY GroupModes, AskedModes
  <1>4. CASE UNCHANGED <<subs, perUser, attached, slipped, banned>>
    BY <1>1, <1>2, <1>4, NoModeKeeps
  <1>5. CASE /\ subs' = [subs EXCEPT ![u] = Row(role, role)]
             /\ perUser' = With(u, Modes(role, role))
             /\ attached' = AttachedAfter(u, role) /\ slipped' = slipped \intersect attached'
             /\ banned' = IF role = {} THEN banned \union {u} ELSE banned \ {u}
    <2>1. banned' \subseteq banned \union {u} /\ (u \in banned' => role = {})
      BY <1>5
    <2>2. /\ attached' \subseteq attached \union {u} /\ slipped \intersect attached' \subseteq slipped' \union {u}
          /\ u \in attached' \ slipped' => "J" \in role
      BY <1>5 DEF AttachedAfter
    <2> QED
      BY <1>1, <1>2, <1>3, <1>5, <2>1, <2>2, MemberKeeps
  <1> QED
    BY <1>4, <1>5 DEF setAnotherUserRole

\* A goroutine's late write of what a user wants.
LEMMA OfflineWriteKeeps == ASSUME GroupInv, NEW u \in Member, offlineWrite(u) PROVE GroupInv'
  <1> DEFINE row == subs[u]  row2 == [row EXCEPT !.want = offline[u]]
  <1>1. /\ offline[u] \in GroupMode /\ row \in SubRow
    BY DEF offlineWrite, GroupInv, GroupTypes
  <1> HIDE DEF row
  <1>2. row2 \in SubRow /\ row2.want = offline[u] /\ row2.given = row.given /\ row2.is = row.is
    BY <1>1 DEF SubRow
  <1>3. subs' = [subs EXCEPT ![u] = row2]
    BY DEF offlineWrite, row
  <1>4. /\ offline' = [offline EXCEPT ![u] = NoOffline]
        /\ ~overtaken' => ~overtaken /\ ("O" \in offline[u] <=> "O" \in row.want)
        /\ UNCHANGED <<perUser, owner, attached, slipped, invite, halfDone, banned>>
    BY DEF offlineWrite, row
  <1> HIDE DEF row2
  <1>5. /\ subs' \in [Member -> SubRow] /\ subs'[u] = row2 /\ \A v \in Member \ {u} : subs'[v] = subs[v]
    BY <1>2, <1>3 DEF GroupInv, GroupTypes
  <1>6. \A v \in Member : subs'[v].is = subs[v].is /\ subs'[v].given = subs[v].given
    BY <1>2, <1>5 DEF row
  <1>7. Stored' = Stored /\ Cached' = Cached /\ Cached \subseteq Member
    BY <1>4, <1>6, CachedIs DEF Stored, Cached, GroupInv
  <1>8. GroupTypes'
    BY <1>4, <1>5, <1>7 DEF GroupInv, GroupTypes
  <1>9. OwnerOwns' /\ AttachedMayJoin' /\ BannedGivenNothing'
    BY <1>4, <1>6, <1>7 DEF GroupInv, OwnerOwns, AttachedMayJoin, BannedGivenNothing, Mode
  <1>10. OwnerMeanwhile'
    <2> SUFFICES ASSUME ~halfDone, ~overtaken'
                 PROVE  /\ owner # NoUser /\ "O" \in subs'[owner].want
                        /\ \A v \in Cached : subs'[v].given = perUser[v].given
      BY <1>4, <1>7 DEF OwnerMeanwhile
    <2>1. /\ owner # NoUser /\ "O" \in subs[owner].want /\ \A v \in Cached : subs[v].given = perUser[v].given
      BY <1>4 DEF GroupInv, OwnerMeanwhile
    <2>2. owner \in Member
      BY <1>7, <2>1 DEF GroupInv, OwnerOwns
    <2>3. "O" \in subs'[owner].want
      BY <1>2, <1>4, <1>5, <2>1, <2>2 DEF row
    <2> QED
      BY <1>6, <1>7, <2>1, <2>3
  <1> QED
    BY <1>8, <1>9, <1>10 DEF GroupInv

\* A topic that is unloaded and loaded again takes the rows, and an owner among them.
LEMMA ReloadKeeps == ASSUME GroupInv, reload PROVE GroupInv'
  <1> DEFINE owners == {u \in Stored : "O" \in Mode(subs[u])}
  <1>1. /\ attached = {} /\ perUser' = [u \in Stored |-> Modes(subs[u].want, subs[u].given)]
        /\ owner' \in (IF owners = {} THEN {NoUser} ELSE owners)
        /\ UNCHANGED <<subs, attached, invite, offline, halfDone, overtaken, banned>>
    BY DEF reload, history
  <1>2. Cached = Stored /\ Stored \subseteq Member /\ Stored' = Stored
    BY <1>1 DEF GroupInv, GroupTypes, Stored
  <1>3. \A u \in Stored : subs[u].want \in GroupMode /\ subs[u].given \in GroupMode
    BY <1>2 DEF GroupInv, GroupTypes, SubRow
  <1>4. \A u \in Stored : /\ Modes(subs[u].want, subs[u].given) \in SubModes
                          /\ Modes(subs[u].want, subs[u].given).want = subs[u].want
                          /\ Modes(subs[u].want, subs[u].given).given = subs[u].given
    BY <1>3, SubIs
  <1>5. /\ Cached' = Stored /\ perUser' \in [Stored -> SubModes]
        /\ \A u \in Stored : perUser'[u].want = subs[u].want /\ perUser'[u].given = subs[u].given
    BY <1>1, <1>4 DEF Cached
  <1>6. GroupTypes'
    BY <1>1, <1>2, <1>5 DEF GroupInv, GroupTypes
  <1>7. OwnerOwns'
    <2> SUFFICES ASSUME owner' # NoUser PROVE owner' \in Stored /\ {"J", "O"} \subseteq Mode(perUser'[owner'])
      BY <1>5 DEF OwnerOwns
    <2>1. owner' \in Stored /\ "O" \in subs[owner'].want /\ "O" \in subs[owner'].given
      BY <1>1 DEF Mode
    <2>2. "J" \in subs[owner'].want /\ "J" \in subs[owner'].given
      BY <1>3, <2>1 DEF GroupMode
    <2> QED
      BY <1>5, <2>1, <2>2 DEF Mode
  <1>8. BannedGivenNothing' /\ AttachedMayJoin'
    BY <1>1, <1>5 DEF GroupInv, BannedGivenNothing, AttachedMayJoin
  <1>9. OwnerMeanwhile'
    <2> SUFFICES ASSUME ~halfDone, ~overtaken PROVE owner' # NoUser /\ "O" \in subs[owner'].want
      BY <1>1, <1>5 DEF OwnerMeanwhile
    <2>1. /\ owner # NoUser /\ "O" \in subs[owner].want /\ \A u \in Cached : subs[u].given = perUser[u].given
      BY DEF GroupInv, OwnerMeanwhile
    <2>2. owner \in owners
      BY <1>2, <2>1 DEF GroupInv, OwnerOwns, Mode
    <2>3. owner' \in owners
      BY <1>1, <2>2
    <2> QED
      BY <1>2, <2>3, NoUserAssumption DEF Mode
  <1> QED
    BY <1>6, <1>7, <1>8, <1>9 DEF GroupInv

\* Every step of a group leaves the invariant true.
LEMMA GroupStepInv == GroupInv /\ [GroupNext]_groupVars => GroupInv'
  <1> SUFFICES ASSUME GroupInv, [GroupNext]_groupVars PROVE GroupInv'
    OBVIOUS
  <1>0. invite \in [active : BOOLEAN, uses : 0 .. MaxUses]
    BY DEF GroupInv, GroupTypes
  <1>1. ASSUME NEW u \in Member, leaveTopic(u) \/ sessionDetached(u) PROVE GroupInv'
    <2>1. /\ UNCHANGED <<subs, perUser, owner, offline, halfDone, overtaken, banned, invite>>
          /\ attached' \subseteq attached /\ slipped \intersect attached' \subseteq slipped'
      BY <1>1 DEF leaveTopic, sessionDetached, history
    <2> QED
      BY <1>0, <2>1, NoModeKeeps
  <1>2. ASSUME NEW u \in Member, replyLeaveUnsub(u) PROVE GroupInv'
    <2>1. u # owner /\ UNCHANGED <<owner, offline, halfDone, overtaken, banned, invite>>
      BY <1>2 DEF replyLeaveUnsub, history
    <2>2. CASE Removed(u)
      BY <2>1, <2>2, RemovedKeeps
    <2>3. CASE UNCHANGED <<subs, perUser, attached, slipped>>
      BY <1>0, <2>1, <2>3, NoModeKeeps
    <2> QED
      BY <1>2, <2>2, <2>3 DEF replyLeaveUnsub
  <1>3. ASSUME NEW h \in Member, NEW u \in Member, replyDelSub(h, u) PROVE GroupInv'
    <2>1. u # owner /\ UNCHANGED <<owner, offline, halfDone, overtaken, banned, invite>>
      BY <1>3, NoUserAssumption DEF replyDelSub, history, GroupInv, OwnerOwns
    <2>2. CASE Removed(u)
      BY <2>1, <2>2, RemovedKeeps
    <2>3. CASE UNCHANGED <<subs, perUser, attached, slipped>>
      BY <1>0, <2>1, <2>3, NoModeKeeps
    <2> QED
      BY <1>3, <2>2, <2>3 DEF replyDelSub
  <1>4. ASSUME NEW u \in Member, NEW req \in AskedMode, offlineRead(u, req) PROVE GroupInv'
    <2>1. /\ UNCHANGED <<subs, perUser, owner, attached, slipped, invite, halfDone, overtaken, banned>>
          /\ offline' = [offline EXCEPT ![u] = req]
      BY <1>4 DEF offlineRead, history
    <2>2. offline' \in [Member -> GroupMode \union {NoOffline}]
      BY <2>1, GroupModes DEF GroupInv, GroupTypes
    <2>3. GroupTypes'
      BY <2>1, <2>2 DEF GroupInv, GroupTypes, Cached, Stored
    <2>4. OwnerOwns' /\ BannedGivenNothing' /\ AttachedMayJoin' /\ OwnerMeanwhile'
      BY <2>1 DEF GroupInv, OwnerOwns, BannedGivenNothing, AttachedMayJoin, OwnerMeanwhile, Cached, Mode
    <2> QED
      BY <2>3, <2>4 DEF GroupInv
  <1>5. ASSUME (\E h \in Member : replySetInvite(h)) \/ revokeTopicInvite PROVE GroupInv'
    <2>1. /\ UNCHANGED <<subs, perUser, owner, offline, halfDone, overtaken, banned, attached, slipped>>
          /\ invite' = [active |-> TRUE, uses |-> 0] \/ invite' = [active |-> FALSE, uses |-> MaxUses]
      BY <1>5 DEF replySetInvite, revokeTopicInvite, history
    <2>2. 0 \in 0 .. MaxUses /\ MaxUses \in 0 .. MaxUses
      BY GroupAssumption
    <2>3. \A a \in BOOLEAN, n \in 0 .. MaxUses :
             [active |-> a, uses |-> n] \in [active : BOOLEAN, uses : 0 .. MaxUses]
      OBVIOUS
    <2>4. invite' \in [active : BOOLEAN, uses : 0 .. MaxUses]
      BY <2>1, <2>2, <2>3, Zenon
    <2> QED
      BY <2>1, <2>4, NoModeKeeps
  <1>6. ASSUME UNCHANGED groupVars PROVE GroupInv'
    BY <1>0, <1>6, NoModeKeeps DEF groupVars
  <1> QED
    BY <1>1, <1>2, <1>3, <1>4, <1>5, <1>6, RestoreKeeps, NewKeeps, ExistingKeeps, OfflineWriteKeeps,
       AnotherKeeps, InviteUserKeeps, RoleKeeps, ReloadKeeps DEF GroupNext

\* Who may not join is not attached, unless by asking again for a mode that may not, and a ban
\* holds: whatever the banned user does, and whichever of the writes of a change fail.
THEOREM GroupsAreSafe == GroupSpec => []GroupSafe
  <1>1. GroupInv => GroupSafe
    BY DEF GroupInv, BannedGivenNothing, GroupSafe, BanHolds
  <1> QED
    BY GroupInitInv, GroupStepInv, <1>1, PTL DEF GroupSpec

\* The group never has more members than the limit, nor its invitation more uses.
THEOREM GroupsAreTyped == GroupSpec => []GroupTypeOK
  <1>1. GroupInv => GroupTypeOK
    <2> SUFFICES ASSUME GroupInv PROVE GroupTypeOK
      OBVIOUS
    <2>1. \A u \in Cached : perUser[u].want \union perUser[u].given \subseteq Letter
      BY DEF GroupInv, GroupTypes, SubModes, GroupMode
    <2> QED
      BY <2>1 DEF GroupInv, GroupTypes, Stored, GroupTypeOK
  <1> QED
    BY GroupInitInv, GroupStepInv, <1>1, PTL DEF GroupSpec

\* Unless a late write took the owner bit, no step leaves the group without an owner, not even a
\* transfer that breaks off at one of its writes.
THEOREM OwnersAreKept == GroupSpec => OwnerIsKept
  <1>1. GroupInv /\ ~halfDone /\ ~overtaken => HasOwner
    BY DEF GroupInv, GroupTypes, OwnerOwns, OwnerMeanwhile, HasOwner, Mode
  <1>2. ASSUME GroupInv, GroupInv', [GroupNext]_groupVars, ~halfDone, ~overtaken' PROVE HasOwner'
    <2>1. CASE ~halfDone'
      <3>1. (GroupInv /\ ~halfDone /\ ~overtaken => HasOwner)'
        BY <1>1, PTL
      <3> QED
        BY <1>2, <2>1, <3>1
    <2>2. CASE halfDone'
      <3>1. PICK u \in Member, req \in AskedMode \union {ModeUnset} : setSelf(u, req)
        <4>1. ASSUME NEW u \in Member,
                     \/ restoreInvited(u) \/ leaveTopic(u) \/ sessionDetached(u) \/ replyLeaveUnsub(u)
                     \/ offlineWrite(u) \/ replySetInvite(u)
              PROVE  halfDone' = halfDone
          BY <4>1 DEF restoreInvited, leaveTopic, sessionDetached, replyLeaveUnsub, offlineWrite,
                      replySetInvite, history
        <4>2. ASSUME NEW u \in Member, NEW req, NEW invited, newSubscription(u, req, invited) \/ offlineRead(u, req)
              PROVE  halfDone' = halfDone
          BY <4>2 DEF newSubscription, offlineRead, history
        <4>3. ASSUME NEW h \in Member, NEW u \in Member, NEW req,
                     \/ anotherUserSub(h, u, req) \/ inviteUser(h, u, req)
                     \/ setAnotherUserRole(h, u, req) \/ replyDelSub(h, u)
              PROVE  halfDone' = halfDone
          BY <4>3 DEF anotherUserSub, inviteUser, setAnotherUserRole, replyDelSub, history
        <4>4. ASSUME revokeTopicInvite \/ reload \/ UNCHANGED groupVars PROVE halfDone' = halfDone
          BY <4>4 DEF revokeTopicInvite, reload, groupVars, history
        <4> QED
          BY <1>2, <2>2, <4>1, <4>2, <4>3, <4>4 DEF GroupNext
      <3>2. /\ u \in Cached /\ PlanOK(u, req) /\ OwnerChange(u, req)
            /\ subs' \in {Written(u, req), Dethroned(Written(u, req))}
            /\ UNCHANGED <<perUser, owner, attached, slipped, offline, overtaken, banned, invite>>
        BY <1>2, <2>2, <3>1 DEF setSelf, existingSubscription, Written
      <3>3. HasOwner /\ ~overtaken /\ owner # NoUser
        BY <1>1, <1>2, <3>2 DEF GroupInv, OwnerMeanwhile
      <3>4. "O" \in Mode(subs'[u])
        BY <1>2, <2>2, <3>2, <3>3, BrokenOffKeeps
      <3>5. u \in Stored' /\ Cached' = Cached
        BY <1>2, <3>2 DEF GroupInv, GroupTypes, Cached
      <3> QED
        BY <3>2, <3>3, <3>4, <3>5 DEF HasOwner
    <2> QED
      BY <2>1, <2>2
  <1> QED
    BY GroupInitInv, GroupStepInv, <1>2, PTL DEF GroupSpec, OwnerIsKept
=============================================================================
