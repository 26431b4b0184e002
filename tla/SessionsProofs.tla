--------------------------- MODULE SessionsProofs ---------------------------
(***************************************************************************)
(* Safety of the sessions of a user, of the topics that they join through  *)
(* the Hub, of the queue of outgoing messages of one session, and of a     *)
(* topic whose sessions are on another node: for any number of sessions,   *)
(* topics, messages and multiplex sessions, and any limits.                *)
(***************************************************************************)
EXTENDS Sessions, HubLifecycle, SessionQueue, ProxyTopics, FiniteSetTheorems, SequenceTheorems, TLAPS

-----------------------------------------------------------------------------
(* Evictions reach every session (Sessions).                               *)
(*                                                                         *)
(* EvictUser walks the index of the user under the lock of the store, so   *)
(* the argument is about what that lock keeps: while it is held nobody     *)
(* enters the store or logs in, and whoever is logged in and stored has    *)
(* been told or is on the list of those still to be told.                  *)

\* The order in which a map is walked (EvictUser, Shutdown) has every element of the map.
LEMMA OrderIsComplete ==
    ASSUME NEW S, IsFiniteSet(S), NEW q \in SE!SetToSeqs(S)
    PROVE  q \in Seq(S) /\ \A x \in S : \E k \in 1 .. Len(q) : q[k] = x
  <1> DEFINE n == Cardinality(S)
  <1>1. n \in Nat
    BY FS_CardinalityType
  <1>2. q \in [1 .. n -> S] /\ \A i, j \in 1 .. n : i # j => q[i] # q[j]
    <2>1. SE!Cardinality(S) = Cardinality(S)
      BY DEF SE!Cardinality, Cardinality
    <2> QED BY <2>1 DEF SE!SetToSeqs
  <1>3. q \in Seq(S) /\ Len(q) = n
    BY <1>1, <1>2
  <1>4. ASSUME NEW x \in S, \A k \in 1 .. n : q[k] # x PROVE FALSE
    <2>1. IsFiniteSet(S \ {x}) /\ Cardinality(S \ {x}) = n - 1
      BY FS_RemoveElement
    <2>2. IsFiniteSet(1 .. n) /\ Cardinality(1 .. n) = n
      BY <1>1, FS_Interval
    <2>3. q \in [1 .. n -> S \ {x}]
      BY <1>2, <1>4
    <2>4. \E i, j \in 1 .. n : i # j /\ q[i] = q[j]
      BY <1>1, <2>1, <2>2, <2>3, FS_PigeonHole
    <2> QED BY <1>2, <2>4
  <1> QED BY <1>3, <1>4

\* Types of all variables; the maps of the store are finite.
SessTypes ==
    /\ sessCache \subseteq Sess /\ uidCache \subseteq Sess /\ evicted \subseteq Sess
    /\ IsFiniteSet(sessCache) /\ IsFiniteSet(uidCache)
    /\ locker \in WebSession \cup {"none", "node"} /\ toStop \in Seq(Sess)
    /\ loop \in [Sess -> {"none", "opening", "open", "evicting", "deleted", "expired", "delete",
                          "unsub", "stop", "gone"}]
    /\ writer \in [Sess -> BOOLEAN] /\ stop \in [Sess -> BOOLEAN] /\ uid \in [Sess -> BOOLEAN]
    /\ login \in [Sess -> BOOLEAN] /\ joined \in [Sess -> BOOLEAN]
    /\ poll \in [Sess -> {"none", "polling", "deleting"}]
    /\ expires \in [Sess -> SUBSET PollSession]
    /\ account \in {"ok", "suspended"} /\ suspension \in {"none", "evict", "update"}
    /\ evictions \in 0 .. MaxEvict

\* A session is on the way out: what EvictedIsStopped asks of an evicted one.
Stopped(s) ==
    \/ stop[s] \/ Ending(s) \/ s \notin sessCache \/ poll[s] = "deleting"
    \/ s \in WebSession /\ ~writer[s]

\* What the read loop of a session, or its clean-up, has reached tells of the other parts:
\* who is logged in, stored, indexed and joined.
LoopFollows ==
    \A s \in Sess :
        /\ login[s] => loop[s] = "open"
        /\ loop[s] \in {"none", "opening"} => ~uid[s] /\ s \notin evicted
        /\ loop[s] = "opening" \/ writer[s] => s \in WebSession
        /\ loop[s] \in {"expired", "unsub", "stop", "gone"} => s \notin sessCache
        /\ s \in WebSession /\ loop[s] \in {"unsub", "stop", "gone"} => s \notin uidCache
        /\ loop[s] \in {"stop", "gone"} => ~joined[s]

\* The index by user knows every stored session of the user.
IndexHolds == \A s \in sessCache : uid[s] => s \in uidCache

\* The session that holds the lock is waiting in replyDelUser.
LockerEvicts == locker \in WebSession => loop[locker] = "evicting"

\* Who is logged in when an eviction walks its list has been told, or is still on the list.
ToldOrStopped ==
    ~Unlocked => \A s \in sessCache :
        uid[s] /\ s # locker => Stopped(s) \/ \E k \in 1 .. Len(toStop) : toStop[k] = s

\* The inductive invariant.
SessInv ==
    /\ SessTypes /\ LoopFollows /\ IndexHolds /\ LockerEvicts /\ ToldOrStopped
    /\ \A s \in evicted : Stopped(s)

\* At the start there is no session.
LEMMA SessInitInv == SessionsInit => SessInv
  <1> SUFFICES ASSUME SessionsInit PROVE SessInv
    OBVIOUS
  <1>1. IsFiniteSet({})
    BY FS_EmptySet
  <1>2. SessTypes
    BY <1>1, SessionsAssumption DEF SessionsInit, SessTypes
  <1> QED
    BY <1>2, SessionsAssumption DEF SessionsInit, SessInv, LoopFollows, IndexHolds, LockerEvicts,
       ToldOrStopped, Unlocked

\* Taking the lock for a loop over a finite map puts all of it on the list.
LEMMA LockIs ==
    ASSUME SessTypes, NEW who, NEW S \in SUBSET Sess, IsFiniteSet(S), Lock(who, S)
    PROVE  /\ Unlocked /\ locker' = who /\ toStop' \in Seq(Sess) /\ evictions' \in 0 .. MaxEvict
           /\ \A x \in S : \E k \in 1 .. Len(toStop') : toStop'[k] = x
  <1>1. Unlocked /\ locker' = who /\ evictions' \in 0 .. MaxEvict /\ toStop' \in SE!SetToSeqs(S)
    BY SessionsAssumption DEF SessTypes, Lock
  <1>2. toStop' \in Seq(S) /\ \A x \in S : \E k \in 1 .. Len(toStop') : toStop'[k] = x
    BY <1>1, OrderIsComplete
  <1>3. Seq(S) \subseteq Seq(Sess)
    OBVIOUS
  <1> QED BY <1>1, <1>2, <1>3

\* SessionStore.Delete leaves finite maps.
LEMMA DeletedIs ==
    ASSUME SessTypes, NEW s \in Sess, Delete(s)
    PROVE  /\ IsFiniteSet(sessCache') /\ IsFiniteSet(uidCache')
           /\ sessCache' = sessCache \ {s} /\ uidCache' = uidCache \ {s}
  BY FS_RemoveElement DEF SessTypes, Delete

\* Every step keeps the types, and the maps finite.
LEMMA SessTypesStep == ASSUME SessInv, SessionsNext PROVE SessTypes'
  <1> USE DEF SessTypes, sessionVars, storeVars, lockVars, userVars, Sess
  <1>0. SessTypes
    BY DEF SessInv
  <1>1. ASSUME NEW s \in Sess, NewSession(s) PROVE SessTypes'
    <2>1. PICK old \in SUBSET IdlePolls :
              /\ sessCache' = (sessCache \cup {s}) \ old
              /\ loop' = [x \in Sess |->
                    CASE x = s -> IF s \in WebSession THEN "opening" ELSE "open"
                      [] x \in old -> "expired"
                      [] OTHER -> loop[x]]
              /\ expires' = [expires EXCEPT ![s] = old]
      BY <1>1 DEF NewSession
    <2>2. old \subseteq PollSession
      BY DEF IdlePolls
    <2>3. IsFiniteSet(sessCache')
      <3>1. IsFiniteSet(sessCache \cup {s})
        BY <1>0, FS_AddElement
      <3> QED BY <3>1, <2>1, FS_Difference
    <2>4. \A x \in Sess : loop'[x] \in {"opening", "open", "expired"} \cup {loop[x]}
      BY <2>1
    <2>5. loop' \in [Sess -> {"none", "opening", "open", "evicting", "deleted", "expired", "delete",
                             "unsub", "stop", "gone"}]
      BY <1>0, <2>1, <2>4
    <2> QED BY <1>0, <1>1, <2>1, <2>2, <2>3, <2>5 DEF NewSession
  <1>2. ASSUME NEW s \in Sess, PollDeletes(s) \/ cleanUpDeletes(s) PROVE SessTypes'
    <2>1. /\ IsFiniteSet(sessCache') /\ IsFiniteSet(uidCache')
          /\ sessCache' = sessCache \ {s} /\ uidCache' = uidCache \ {s}
      BY <1>0, <1>2, DeletedIs DEF PollDeletes, cleanUpDeletes
    <2> QED BY <1>0, <1>2, <2>1 DEF PollDeletes, cleanUpDeletes
  <1>3. ASSUME NEW s \in Sess, SetSessionUid(s) PROVE SessTypes'
    <2>1. IsFiniteSet(uidCache')
      BY <1>0, <1>3, FS_AddElement DEF SetSessionUid
    <2> QED BY <1>0, <1>3, <2>1 DEF SetSessionUid
  <1>4. ASSUME NEW s \in Sess, \/ SessionStarts(s) \/ LoginChecked(s) \/ Attach(s)
                              \/ PollBegins(s) \/ PollEnds(s)
        PROVE  SessTypes'
    <2>1. CASE SessionStarts(s)
      BY <1>0, <2>1 DEF SessionStarts
    <2>2. CASE LoginChecked(s)
      BY <1>0, <2>2 DEF LoginChecked
    <2>3. CASE Attach(s)
      BY <1>0, <2>3 DEF Attach
    <2>4. CASE PollBegins(s)
      BY <1>0, <2>4 DEF PollBegins
    <2>5. CASE PollEnds(s)
      BY <1>0, <2>5 DEF PollEnds
    <2> QED BY <1>4, <2>1, <2>2, <2>3, <2>4, <2>5
  <1>5. ASSUME NEW s \in Sess, PollStops(s) \/ WriterStops(s) \/ WriteFails(s) \/ Purge(s)
        PROVE  SessTypes'
    <2>1. CASE PollStops(s)
      BY <1>0, <2>1 DEF PollStops
    <2>2. CASE WriterStops(s)
      BY <1>0, <2>2 DEF WriterStops
    <2>3. CASE WriteFails(s)
      BY <1>0, <2>3 DEF WriteFails
    <2>4. CASE Purge(s)
      BY <1>0, <2>4 DEF Purge
    <2> QED BY <1>5, <2>1, <2>2, <2>3, <2>4
  <1>6. ASSUME NEW s \in Sess, unsubAll(s) \/ stopSession(s) \/ stopSelf(s) \/ deletionFails(s)
        PROVE  SessTypes'
    BY <1>0, <1>6 DEF unsubAll, stopSession, stopSelf, deletionFails
  <1>7. ASSUME NEW s \in Sess, replyDelUser(s) PROVE SessTypes'
    <2>1. IsFiniteSet(uidCache \ {s})
      BY <1>0, FS_RemoveElement
    <2>2. locker' = s /\ toStop' \in Seq(Sess) /\ evictions' \in 0 .. MaxEvict
      BY <1>0, <1>7, <2>1, LockIs DEF replyDelUser
    <2> QED BY <1>0, <1>7, <2>2 DEF replyDelUser
  <1>8. CASE EvictUser \/ Shutdown
    <2>1. locker' = "node" /\ toStop' \in Seq(Sess) /\ evictions' \in 0 .. MaxEvict
      BY <1>0, <1>8, LockIs DEF EvictUser, Shutdown
    <2> QED BY <1>0, <1>8, <2>1 DEF EvictUser, Shutdown
  <1>9. CASE TellToStop
    <2>1. toStop' \in Seq(Sess)
      BY <1>0, <1>9 DEF TellToStop
    <2> QED BY <1>0, <1>9, <2>1 DEF TellToStop
  <1>10. CASE Unlock
    BY <1>0, <1>10 DEF Unlock
  <1>11. CASE UpdateState
    BY <1>0, <1>11 DEF UpdateState
  <1> QED
    BY <1>1, <1>2, <1>3, <1>4, <1>5, <1>6, <1>7, <1>8, <1>9, <1>10, <1>11 DEF SessionsNext

\* Every step keeps what the loop of a session tells of its other parts.
LEMMA LoopFollowsStep == ASSUME SessInv, SessionsNext PROVE LoopFollows'
  <1> USE DEF SessTypes, LoopFollows,
          sessionVars, storeVars, lockVars, userVars, Sess, Unlocked, Delete, Reachable
  <1>0. SessTypes /\ LoopFollows /\ LockerEvicts
    BY DEF SessInv
  <1>1. ASSUME NEW s \in Sess, NewSession(s) PROVE LoopFollows'
    <2>1. PICK old \in SUBSET IdlePolls :
              /\ sessCache' = (sessCache \cup {s}) \ old
              /\ loop' = [x \in Sess |->
                    CASE x = s -> IF s \in WebSession THEN "opening" ELSE "open"
                      [] x \in old -> "expired"
                      [] OTHER -> loop[x]]
      BY <1>1 DEF NewSession
    <2>2. \A x \in old : x \in PollSession \cap sessCache /\ ~login[x]
      BY DEF IdlePolls
    <2> QED BY <1>0, <1>1, <2>1, <2>2 DEF NewSession
  <1>2. ASSUME NEW s \in Sess, SessionStarts(s) \/ LoginChecked(s) \/ SetSessionUid(s)
        PROVE  LoopFollows'
    BY <1>0, <1>2 DEF SessionStarts, LoginChecked, SetSessionUid
  <1>3. ASSUME NEW s \in Sess, Attach(s) \/ PollBegins(s) \/ PollEnds(s) \/ PollStops(s)
        PROVE  LoopFollows'
    <2>1. CASE Attach(s)
      BY <1>0, <2>1 DEF Attach
    <2>2. CASE PollBegins(s)
      BY <1>0, <2>2 DEF PollBegins
    <2>3. CASE PollEnds(s)
      BY <1>0, <2>3 DEF PollEnds
    <2>4. CASE PollStops(s)
      BY <1>0, <2>4 DEF PollStops
    <2> QED BY <1>3, <2>1, <2>2, <2>3, <2>4
  <1>4. ASSUME NEW s \in Sess, PollDeletes(s) \/ WriterStops(s) \/ WriteFails(s) PROVE LoopFollows'
    BY <1>0, <1>4 DEF PollDeletes, WriterStops, WriteFails
  <1>5. ASSUME NEW s \in Sess, Purge(s) \/ cleanUpDeletes(s) \/ unsubAll(s) PROVE LoopFollows'
    BY <1>0, <1>5 DEF Purge, cleanUpDeletes, unsubAll
  <1>6. ASSUME NEW s \in Sess, stopSession(s) \/ stopSelf(s) \/ deletionFails(s) PROVE LoopFollows'
    BY <1>0, <1>6 DEF stopSession, stopSelf, deletionFails
  <1>7. ASSUME NEW s \in Sess, replyDelUser(s) PROVE LoopFollows'
    BY <1>0, <1>7 DEF replyDelUser, Lock
  <1>8. CASE EvictUser \/ Shutdown
    BY <1>0, <1>8, SessionsAssumption DEF EvictUser, Shutdown, Lock
  <1>9. CASE TellToStop \/ UpdateState
    BY <1>0, <1>9 DEF TellToStop, UpdateState
  <1>10. CASE Unlock
    <2>0. \A s \in Sess : s = locker => loop[s] = "evicting"
      BY <1>0, SessionsAssumption DEF LockerEvicts
    <2>1. \A s \in Sess :
              loop'[s] = loop[s] \/ (s = locker /\ loop[s] = "evicting" /\ loop'[s] = "deleted")
      BY <1>0, <1>10, <2>0 DEF Unlock
    <2>2. \A s \in Sess : loop[s] \in {"none", "opening"} => s \notin evicted'
      BY <1>0, <1>10 DEF Unlock
    <2>3. UNCHANGED <<sessCache, uidCache, login, uid, writer, joined>>
      BY <1>10 DEF Unlock
    <2> QED BY <1>0, <2>1, <2>2, <2>3
  <1> QED
    BY <1>1, <1>2, <1>3, <1>4, <1>5, <1>6, <1>7, <1>8, <1>9, <1>10 DEF SessionsNext

\* No login, expiry or deletion leaves a stored session of the user out of the index.
LEMMA IndexHoldsStep == ASSUME SessInv, SessionsNext PROVE IndexHolds'
  <1> USE DEF SessTypes, IndexHolds,
          sessionVars, storeVars, lockVars, userVars, Sess, Unlocked, Delete, Reachable
  <1>0. SessTypes /\ LoopFollows /\ IndexHolds
    BY DEF SessInv
  <1>1. ASSUME NEW s \in Sess, NewSession(s) PROVE IndexHolds'
    <2>1. ~uid[s] /\ uid' = uid /\ uidCache' = uidCache
      BY <1>0, <1>1 DEF NewSession, LoopFollows
    <2>2. \A x \in sessCache' : x = s \/ x \in sessCache
      BY <1>1 DEF NewSession
    <2> QED BY <1>0, <2>1, <2>2
  <1>2. ASSUME NEW s \in Sess, SessionStarts(s) \/ LoginChecked(s) \/ SetSessionUid(s)
        PROVE  IndexHolds'
    BY <1>0, <1>2 DEF SessionStarts, LoginChecked, SetSessionUid
  <1>3. ASSUME NEW s \in Sess, Attach(s) \/ PollBegins(s) \/ PollEnds(s) \/ PollStops(s)
        PROVE  IndexHolds'
    BY <1>0, <1>3 DEF Attach, PollBegins, PollEnds, PollStops
  <1>4. ASSUME NEW s \in Sess, PollDeletes(s) \/ WriterStops(s) \/ WriteFails(s) PROVE IndexHolds'
    BY <1>0, <1>4 DEF PollDeletes, WriterStops, WriteFails
  <1>5. ASSUME NEW s \in Sess, Purge(s) \/ cleanUpDeletes(s) \/ unsubAll(s) PROVE IndexHolds'
    BY <1>0, <1>5 DEF Purge, cleanUpDeletes, unsubAll
  <1>6. ASSUME NEW s \in Sess, stopSession(s) \/ stopSelf(s) \/ deletionFails(s) PROVE IndexHolds'
    BY <1>0, <1>6 DEF stopSession, stopSelf, deletionFails
  <1>7. ASSUME NEW s \in Sess, replyDelUser(s) PROVE IndexHolds'
    BY <1>0, <1>7 DEF replyDelUser, Lock
  <1>8. CASE EvictUser \/ Shutdown
    BY <1>0, <1>8, SessionsAssumption DEF EvictUser, Shutdown, Lock
  <1>9. CASE TellToStop \/ UpdateState
    BY <1>0, <1>9 DEF TellToStop, UpdateState
  <1>10. CASE Unlock
    BY <1>0, <1>10, SessionsAssumption DEF Unlock
  <1> QED
    BY <1>1, <1>2, <1>3, <1>4, <1>5, <1>6, <1>7, <1>8, <1>9, <1>10 DEF SessionsNext

\* A session that holds the lock goes on only when it has given it back.
LEMMA LockerEvictsStep == ASSUME SessInv, SessionsNext PROVE LockerEvicts'
  <1> USE DEF SessTypes, LockerEvicts,
          sessionVars, storeVars, lockVars, userVars, Sess, Unlocked, Delete, Reachable
  <1>0. SessTypes /\ LoopFollows /\ LockerEvicts
    BY DEF SessInv
  <1>1. ASSUME NEW s \in Sess, NewSession(s) PROVE LockerEvicts'
    BY <1>0, <1>1, SessionsAssumption DEF NewSession
  <1>2. ASSUME NEW s \in Sess, SessionStarts(s) \/ LoginChecked(s) \/ SetSessionUid(s)
        PROVE  LockerEvicts'
    BY <1>0, <1>2 DEF SessionStarts, LoginChecked, SetSessionUid
  <1>3. ASSUME NEW s \in Sess, Attach(s) \/ PollBegins(s) \/ PollEnds(s) \/ PollStops(s)
        PROVE  LockerEvicts'
    BY <1>0, <1>3 DEF Attach, PollBegins, PollEnds, PollStops
  <1>4. ASSUME NEW s \in Sess, PollDeletes(s) \/ WriterStops(s) \/ WriteFails(s) PROVE LockerEvicts'
    BY <1>0, <1>4 DEF PollDeletes, WriterStops, WriteFails
  <1>5. ASSUME NEW s \in Sess, Purge(s) \/ cleanUpDeletes(s) \/ unsubAll(s) PROVE LockerEvicts'
    BY <1>0, <1>5 DEF Purge, cleanUpDeletes, unsubAll
  <1>6. ASSUME NEW s \in Sess, stopSession(s) \/ stopSelf(s) \/ deletionFails(s) PROVE LockerEvicts'
    BY <1>0, <1>6 DEF stopSession, stopSelf, deletionFails
  <1>7. ASSUME NEW s \in Sess, replyDelUser(s) PROVE LockerEvicts'
    BY <1>0, <1>7 DEF replyDelUser, Lock
  <1>8. CASE EvictUser \/ Shutdown
    BY <1>0, <1>8, SessionsAssumption DEF EvictUser, Shutdown, Lock
  <1>9. CASE TellToStop \/ UpdateState
    BY <1>0, <1>9 DEF TellToStop, UpdateState
  <1>10. CASE Unlock
    BY <1>0, <1>10, SessionsAssumption DEF Unlock
  <1> QED
    BY <1>1, <1>2, <1>3, <1>4, <1>5, <1>6, <1>7, <1>8, <1>9, <1>10 DEF SessionsNext

\* Nothing brings a session back that is stopped, except the writer, which nobody starts twice.
LEMMA StoppedStays ==
    ASSUME SessInv, SessionsNext, NEW s \in Sess, Stopped(s), loop[s] \notin {"none", "opening"}
    PROVE  Stopped(s)'
  <1> USE DEF SessTypes, Stopped, Ending,
          sessionVars, storeVars, lockVars, userVars, Sess, Unlocked, Delete, Reachable
  <1>0. SessTypes /\ LoopFollows /\ LockerEvicts
    BY DEF SessInv
  <1>1. ASSUME NEW x \in Sess, NewSession(x) PROVE Stopped(s)'
    <2>1. x # s
      BY <1>1 DEF NewSession
    <2>2. UNCHANGED <<stop, poll, writer>> /\ (s \notin sessCache => s \notin sessCache')
      BY <1>1, <2>1 DEF NewSession
    <2>3. loop'[s] \in {loop[s], "expired"}
      BY <1>1, <2>1 DEF NewSession
    <2> QED BY <2>2, <2>3
  <1>2. ASSUME NEW x \in Sess, SessionStarts(x) \/ LoginChecked(x) \/ SetSessionUid(x)
        PROVE  Stopped(s)'
    BY <1>0, <1>2 DEF SessionStarts, LoginChecked, SetSessionUid
  <1>3. ASSUME NEW x \in Sess, Attach(x) \/ PollBegins(x) \/ PollEnds(x) \/ PollStops(x)
        PROVE  Stopped(s)'
    BY <1>0, <1>3 DEF Attach, PollBegins, PollEnds, PollStops
  <1>4. ASSUME NEW x \in Sess, PollDeletes(x) \/ WriterStops(x) \/ WriteFails(x) PROVE Stopped(s)'
    BY <1>0, <1>4 DEF PollDeletes, WriterStops, WriteFails, LoopFollows
  <1>5. ASSUME NEW x \in Sess, Purge(x) \/ cleanUpDeletes(x) \/ unsubAll(x) PROVE Stopped(s)'
    BY <1>0, <1>5 DEF Purge, cleanUpDeletes, unsubAll
  <1>6. ASSUME NEW x \in Sess, stopSession(x) \/ stopSelf(x) \/ deletionFails(x) PROVE Stopped(s)'
    BY <1>0, <1>6 DEF stopSession, stopSelf, deletionFails
  <1>7. ASSUME NEW x \in Sess, replyDelUser(x) PROVE Stopped(s)'
    BY <1>0, <1>7 DEF replyDelUser, Lock
  <1>8. CASE EvictUser \/ Shutdown
    BY <1>0, <1>8 DEF EvictUser, Shutdown, Lock
  <1>9. CASE TellToStop \/ UpdateState
    BY <1>0, <1>9 DEF TellToStop, UpdateState
  <1>10. CASE Unlock
    <2>1. s = locker => loop[s] = "evicting"
      BY <1>0, SessionsAssumption DEF LockerEvicts
    <2> QED BY <1>0, <1>10, <2>1 DEF Unlock
  <1> QED
    BY <1>1, <1>2, <1>3, <1>4, <1>5, <1>6, <1>7, <1>8, <1>9, <1>10 DEF SessionsNext

\* While the lock is held nobody enters the store or logs in.
LEMMA LockHolds ==
    ASSUME SessInv, SessionsNext, ~Unlocked, ~Unlock
    PROVE  /\ locker' = locker /\ uid' = uid /\ \A s \in sessCache' : s \in sessCache
           /\ toStop' = toStop \/ TellToStop
  <1> USE DEF sessionVars, storeVars, lockVars, userVars, Unlocked, Delete
  <1>1. ASSUME NEW s \in Sess, NewSession(s) \/ SetSessionUid(s) \/ replyDelUser(s) PROVE FALSE
    BY <1>1 DEF NewSession, SetSessionUid, replyDelUser, Lock
  <1>2. ~EvictUser /\ ~Shutdown
    BY DEF EvictUser, Shutdown, Lock
  <1>3. ASSUME NEW s \in Sess, \/ SessionStarts(s) \/ LoginChecked(s) \/ Attach(s) \/ PollBegins(s) \/ PollEnds(s)
                              \/ PollStops(s) \/ PollDeletes(s) \/ WriterStops(s) \/ WriteFails(s)
        PROVE  locker' = locker /\ uid' = uid /\ toStop' = toStop /\ \A x \in sessCache' : x \in sessCache
    BY <1>3 DEF SessionStarts, LoginChecked, Attach, PollBegins, PollEnds, PollStops, PollDeletes, WriterStops,
                WriteFails
  <1>4. ASSUME NEW s \in Sess, \/ Purge(s) \/ cleanUpDeletes(s) \/ unsubAll(s) \/ stopSession(s) \/ stopSelf(s)
                              \/ deletionFails(s)
        PROVE  locker' = locker /\ uid' = uid /\ toStop' = toStop /\ \A x \in sessCache' : x \in sessCache
    BY <1>4 DEF Purge, cleanUpDeletes, unsubAll, stopSession, stopSelf, deletionFails
  <1>5. TellToStop \/ UpdateState => locker' = locker /\ uid' = uid /\ sessCache' = sessCache
    BY DEF TellToStop, UpdateState
  <1>6. UpdateState => toStop' = toStop
    BY DEF UpdateState
  <1> QED
    BY <1>1, <1>2, <1>3, <1>4, <1>5, <1>6 DEF SessionsNext

\* What a lock that is taken has to tell is all that is logged in.
LEMMA LockTells ==
    ASSUME SessInv, Unlocked, SessionsNext, ~(Unlocked')
    PROVE  /\ UNCHANGED <<sessCache, uid>>
           /\ \A s \in sessCache : uid[s] /\ s # locker' => \E k \in 1 .. Len(toStop') : toStop'[k] = s
  <1> USE DEF sessionVars, storeVars, lockVars, userVars, Unlocked
  <1>0. SessTypes /\ IndexHolds
    BY DEF SessInv
  <1>1. ASSUME NEW s \in Sess, replyDelUser(s)
        PROVE  /\ UNCHANGED <<sessCache, uid>>
               /\ \A x \in sessCache :
                     uid[x] /\ x # locker' => \E k \in 1 .. Len(toStop') : toStop'[k] = x
    <2>1. Lock(s, uidCache \ {s}) /\ UNCHANGED <<sessCache, uid>>
      BY <1>1 DEF replyDelUser
    <2>2. IsFiniteSet(uidCache \ {s}) /\ uidCache \ {s} \in SUBSET Sess
      BY <1>0, FS_RemoveElement DEF SessTypes
    <2>3. locker' = s /\ \A x \in uidCache \ {s} : \E k \in 1 .. Len(toStop') : toStop'[k] = x
      BY <1>0, <2>1, <2>2, LockIs
    <2> QED BY <1>0, <2>1, <2>3 DEF IndexHolds
  <1>2. ASSUME EvictUser
        PROVE  /\ UNCHANGED <<sessCache, uid>>
               /\ \A x \in sessCache : uid[x] => \E k \in 1 .. Len(toStop') : toStop'[k] = x
    <2>1. Lock("node", uidCache) /\ UNCHANGED <<sessCache, uid>>
      BY <1>2 DEF EvictUser
    <2>2. \A x \in uidCache : \E k \in 1 .. Len(toStop') : toStop'[k] = x
      BY <1>0, <2>1, LockIs DEF SessTypes
    <2> QED BY <1>0, <2>1, <2>2 DEF IndexHolds
  <1>3. ASSUME Shutdown
        PROVE  /\ UNCHANGED <<sessCache, uid>>
               /\ \A x \in sessCache : \E k \in 1 .. Len(toStop') : toStop'[k] = x
    <2>1. Lock("node", sessCache) /\ UNCHANGED <<sessCache, uid>>
      BY <1>3 DEF Shutdown
    <2> QED BY <1>0, <2>1, LockIs DEF SessTypes
  <1>4. ASSUME NEW s \in Sess, \/ NewSession(s) \/ SetSessionUid(s) \/ SessionStarts(s) \/ LoginChecked(s)
                              \/ Attach(s) \/ PollBegins(s) \/ PollEnds(s) \/ PollStops(s) \/ PollDeletes(s)
                              \/ WriterStops(s) \/ WriteFails(s)
        PROVE  locker' = locker
    BY <1>4 DEF NewSession, SetSessionUid, SessionStarts, LoginChecked, Attach, PollBegins, PollEnds, PollStops,
                PollDeletes, WriterStops, WriteFails
  <1>5. ASSUME NEW s \in Sess, \/ Purge(s) \/ cleanUpDeletes(s) \/ unsubAll(s) \/ stopSession(s) \/ stopSelf(s)
                              \/ deletionFails(s)
        PROVE  locker' = locker
    BY <1>5 DEF Purge, cleanUpDeletes, unsubAll, stopSession, stopSelf, deletionFails
  <1>6. TellToStop \/ Unlock \/ UpdateState => locker' = locker
    BY DEF TellToStop, Unlock, UpdateState
  <1> QED
    BY <1>1, <1>2, <1>3, <1>4, <1>5, <1>6 DEF SessionsNext

\* An eviction loses nobody while it walks its list, whatever the sessions do meanwhile.
LEMMA ToldOrStoppedStep == ASSUME SessInv, SessionsNext PROVE ToldOrStopped'
  <1>0. SessTypes /\ LoopFollows /\ ToldOrStopped
    BY DEF SessInv
  <1>1. CASE Unlocked
    BY <1>1, LockTells DEF ToldOrStopped
  <1>2. CASE Unlock
    BY <1>2 DEF Unlock, Unlocked, ToldOrStopped
  <1>3. ASSUME ~Unlocked, ~Unlock, NEW s \in sessCache', uid'[s], s # locker'
        PROVE  Stopped(s)' \/ \E k \in 1 .. Len(toStop') : toStop'[k] = s
    <2>1. locker' = locker /\ uid' = uid /\ s \in sessCache /\ (toStop' = toStop \/ TellToStop)
      BY <1>3, LockHolds
    <2>2. s \in Sess /\ loop[s] \notin {"none", "opening"}
      BY <1>0, <1>3, <2>1 DEF SessTypes, LoopFollows
    <2>3. Stopped(s) => Stopped(s)'
      BY <2>2, StoppedStays
    <2>4. ASSUME NEW k \in 1 .. Len(toStop), toStop[k] = s, TellToStop
          PROVE  Stopped(s)' \/ \E j \in 1 .. Len(toStop') : toStop'[j] = s
      <3>1. CASE k = 1
        BY <1>0, <2>2, <2>4, <3>1 DEF TellToStop, SessTypes, Stopped
      <3>2. ASSUME k # 1 PROVE k - 1 \in 1 .. Len(toStop') /\ toStop'[k - 1] = s
        BY <1>0, <2>4, <3>2 DEF TellToStop, SessTypes
      <3> QED BY <3>1, <3>2
    <2> QED BY <1>0, <1>3, <2>1, <2>3, <2>4 DEF ToldOrStopped
  <1> QED
    BY <1>1, <1>2, <1>3 DEF ToldOrStopped

\* Whoever an eviction that returned was to reach is on the way out, and stays so.
LEMMA EvictedStep == ASSUME SessInv, SessionsNext, NEW s \in evicted' PROVE Stopped(s)'
  <1>0. SessTypes /\ LoopFollows /\ ToldOrStopped
    BY DEF SessInv
  <1>1. s \in evicted \/ (Unlock /\ s \in sessCache /\ uid[s] /\ s # locker)
    <2> USE DEF userVars, Lock
    <2>1. ASSUME NEW x \in Sess, \/ NewSession(x) \/ SetSessionUid(x) \/ SessionStarts(x) \/ LoginChecked(x)
                                \/ Attach(x) \/ PollBegins(x) \/ PollEnds(x) \/ PollStops(x) \/ PollDeletes(x)
                                \/ WriterStops(x) \/ WriteFails(x)
          PROVE  evicted' = evicted
      BY <2>1 DEF NewSession, SetSessionUid, SessionStarts, LoginChecked, Attach, PollBegins, PollEnds, PollStops,
                  PollDeletes, WriterStops, WriteFails
    <2>2. ASSUME NEW x \in Sess, \/ Purge(x) \/ cleanUpDeletes(x) \/ unsubAll(x) \/ stopSession(x) \/ stopSelf(x)
                                \/ deletionFails(x) \/ replyDelUser(x)
          PROVE  evicted' = evicted
      BY <2>2 DEF Purge, cleanUpDeletes, unsubAll, stopSession, stopSelf, deletionFails, replyDelUser
    <2>3. EvictUser \/ Shutdown \/ TellToStop \/ UpdateState => evicted' = evicted
      BY DEF EvictUser, Shutdown, TellToStop, UpdateState
    <2>4. Unlock => s \in evicted \/ (s \in sessCache /\ uid[s] /\ s # locker)
      BY DEF Unlock
    <2> QED BY <2>1, <2>2, <2>3, <2>4 DEF SessionsNext
  <1>2. s \in Sess /\ loop[s] \notin {"none", "opening"}
    BY <1>0, <1>1 DEF SessTypes, LoopFollows
  <1>3. Stopped(s)
    <2>1. CASE s \in evicted
      BY <2>1 DEF SessInv
    <2>2. ASSUME Unlock, s \in sessCache, uid[s], s # locker PROVE Stopped(s)
      <3>1. ~Unlocked /\ toStop = <<>>
        BY <2>2 DEF Unlock
      <3> QED BY <1>0, <2>2, <3>1 DEF ToldOrStopped
    <2> QED BY <1>1, <2>1, <2>2
  <1> QED
    BY <1>2, <1>3, StoppedStays

\* The invariant is inductive.
LEMMA SessStepInv == SessInv /\ [SessionsNext]_sessionVars => SessInv'
  <1>1. ASSUME SessInv, SessionsNext PROVE SessInv'
    BY <1>1, SessTypesStep, LoopFollowsStep, IndexHoldsStep, LockerEvictsStep, ToldOrStoppedStep, EvictedStep
       DEF SessInv
  <1>2. ASSUME SessInv, UNCHANGED sessionVars PROVE SessInv'
    BY <1>2 DEF SessInv, SessTypes, LoopFollows, IndexHolds, LockerEvicts, ToldOrStopped, Stopped, Ending, Unlocked,
                sessionVars, storeVars, lockVars, userVars
  <1> QED
    BY <1>1, <1>2

\* EvictUser and Shutdown reach every session that was logged in, and cleanUp leaves nothing
\* of a session behind, in every order of logins, expiries, disconnects and evictions.
THEOREM SessionsAreSafe == SessionsSpec => []SessionsSafe
  <1>1. SessInv => SessionsSafe
    BY DEF SessInv, SessTypes, Stopped, LoopFollows, SessionsSafe, EvictedIsStopped, GoneIsForgotten
  <1> QED
    BY SessInitInv, SessStepInv, <1>1, PTL DEF SessionsSpec

-----------------------------------------------------------------------------
(* Requests are answered and no topic is loaded twice (HubLifecycle).      *)
(*                                                                         *)
(* The Hub marks an instance when it takes it out of its map, and before   *)
(* anybody else can load the topic again. So the argument is about marks   *)
(* and map: what is not marked and alive is what the map has, a session's  *)
(* subscription and the instance know of each other unless the instance is *)
(* marked, and a request without an answer is in a queue that is served.   *)

\* A request is in a queue.
Queued(q, s) == \E k \in 1 .. Len(q) : q[k] = s

\* Types of all variables.
HubTypes ==
    /\ HubTypeOK
    /\ hubJoin \in Seq(HSession) /\ reg \in [Inst -> Seq(HSession)] /\ unreg \in [Inst -> Seq(HSession)]

\* Instances are made one after the other, and what an instance is about fits its marks.
Numbered == \E n \in 0 .. MaxTopicInst : \A i \in Inst : topics[i].pc # "none" <=> i <= n
MarksFit ==
    \A i \in Inst :
        /\ topics[i].pc \in {"none", "init"} => topics[i].sessions = {}
        /\ topics[i].pc = "init" => topics[i].paused /\ topics[i].starter \in HSession
        /\ topics[i].exit \in {"idle", "rehash"} => topics[i].deleted
        /\ topics[i].exit = "shutdown" => ~topics[i].deleted /\ hubLoop # "run"

\* The instance in the map is not marked, and while the Hub runs it is alive; every unmarked
\* one that is alive is in the map, unless a failed load has removed it.
MapFits ==
    /\ hubTopics # 0 => ~topics[hubTopics].deleted
    /\ hubTopics # 0 /\ hubLoop = "run" => topics[hubTopics].pc \in {"init", "run"}
    /\ ~stolen => \A i \in Inst :
          topics[i].pc \in {"init", "run"} /\ ~topics[i].deleted => hubTopics = i

\* What a session knows of its instance, and the instance of it: a message to detach goes only to
\* a session that the topic no longer has.
SessionsFit ==
    \A s \in HSession :
        /\ session[s].sub # 0 => topics[session[s].sub].pc \in {"run", "gone"}
        /\ session[s].detach => session[s].sub # 0 /\ IsLive(s)
        /\ \A i \in Inst :
              /\ IsLive(s) /\ topics[i].pc = "run" /\ s \in topics[i].sessions =>
                    session[s].sub = i /\ ~session[s].detach
              /\ IsLive(s) /\ topics[i].pc = "run" /\ ~isInactive(i) /\ session[s].sub = i
                 /\ ~session[s].detach => s \in topics[i].sessions

\* Someone will answer the request of a session.
Held(s) ==
    \/ Queued(hubJoin, s)
    \/ \E i \in Inst :
          \/ topics[i].pc = "init" /\ topics[i].starter = s
          \/ topics[i].pc = "run" /\ (Queued(reg[i], s) \/ Queued(unreg[i], s))
RequestsFit ==
    \A s \in HSession : session[s].request # "none" /\ s \notin stranded /\ hubLoop = "run" => Held(s)

\* The Hub's loop ends only when the cluster is closed, and no change of the ring waits then.
WaitsFit ==
    /\ ShutdownIsHeard
    /\ hubLoop # "run" => shuttingDown = "cluster"
    /\ shuttingDown = "cluster" => ~rehashing

\* The inductive invariant.
HubInv == HubTypes /\ Numbered /\ MarksFit /\ MapFits /\ SessionsFit /\ RequestsFit /\ WaitsFit

\* A queue that is appended to keeps its requests, and the new one.
LEMMA QueueAppended ==
    ASSUME NEW S, NEW q \in Seq(S), NEW x \in S
    PROVE  /\ Append(q, x) \in Seq(S) /\ Queued(Append(q, x), x)
           /\ \A s : Queued(q, s) => Queued(Append(q, x), s)
  <1>1. Append(q, x)[Len(q) + 1] = x /\ Len(q) + 1 \in 1 .. Len(Append(q, x))
    OBVIOUS
  <1>2. ASSUME NEW s, NEW k \in 1 .. Len(q), q[k] = s
        PROVE  k \in 1 .. Len(Append(q, x)) /\ Append(q, x)[k] = s
    BY <1>2
  <1> QED BY <1>1, <1>2 DEF Queued

\* ... whether or not the request was put into it.
LEMMA QueueGrows ==
    ASSUME NEW S, NEW q \in Seq(S), NEW x \in S, NEW r, r = q \/ r = Append(q, x)
    PROVE  \A s : Queued(q, s) => Queued(r, s)
  <1>1. CASE r = q
    BY <1>1
  <1>2. CASE r = Append(q, x)
    BY <1>2, QueueAppended
  <1> QED BY <1>1, <1>2

\* A queue whose head is taken keeps its other requests.
LEMMA HeadTaken ==
    ASSUME NEW S, NEW q \in Seq(S), q # <<>>
    PROVE  /\ Head(q) \in S /\ Tail(q) \in Seq(S)
           /\ \A s : Queued(q, s) => s = Head(q) \/ Queued(Tail(q), s)
  <1>1. ASSUME NEW s, NEW k \in 1 .. Len(q), q[k] = s, s # Head(q)
        PROVE  k - 1 \in 1 .. Len(Tail(q)) /\ Tail(q)[k - 1] = s
    BY <1>1
  <1> QED BY <1>1 DEF Queued

\* At the start there is no instance and no request.
LEMMA HubInitInv == HubInit => HubInv
  <1> SUFFICES ASSUME HubInit PROVE HubInv
    OBVIOUS
  <1> USE HubAssumption DEF HubInit
  <1>1. HubTypes
    <2>1. NoInst \in InstType
      BY DEF NoInst, InstType
    <2>2. topics \in [Inst -> InstType]
      BY <2>1
    <2>3. hubJoin \in Seq(HSession) /\ Len(hubJoin) = 0
      OBVIOUS
    <2>4. reg \in [Inst -> Seq(HSession)] /\ unreg \in [Inst -> Seq(HSession)]
      OBVIOUS
    <2>5. 0 <= HubQueue /\ 0 \in 0 .. HubQueue /\ 0 \in 0 .. MaxRehash
      OBVIOUS
    <2> QED BY <2>2, <2>3, <2>4, <2>5 DEF HubTypes, HubTypeOK
  <1>2. Numbered
    BY DEF Numbered, NoInst, Inst
  <1>3. MarksFit /\ MapFits /\ RequestsFit
    BY DEF MarksFit, MapFits, RequestsFit, NoInst
  <1>4. SessionsFit /\ WaitsFit
    BY DEF SessionsFit, WaitsFit, ShutdownIsHeard, NoInst
  <1> QED BY <1>1, <1>2, <1>3, <1>4 DEF HubInv

\* The number of instances is that of the last one made.
LEMMA UsedIs ==
    ASSUME HubTypes, Numbered
    PROVE  Used \in 0 .. MaxTopicInst /\ \A i \in Inst : topics[i].pc # "none" <=> i <= Used
  <1>1. PICK n \in 0 .. MaxTopicInst : \A i \in Inst : topics[i].pc # "none" <=> i <= n
    BY DEF Numbered
  <1>2. {i \in Inst : topics[i].pc # "none"} = 1 .. n
    BY <1>1, HubAssumption DEF Inst
  <1>3. Cardinality(1 .. n) = n
    <2>1. n \in Nat
      BY <1>1, HubAssumption
    <2>2. 1 \in Int /\ n \in Int
      BY <2>1
    <2>3. Cardinality(1 .. n) = IF 1 > n THEN 0 ELSE n - 1 + 1
      BY Zenon, <2>2, FS_Interval
    <2> QED BY <2>1, <2>3
  <1>4. Used = Cardinality(1 .. n)
    BY Zenon, <1>2 DEF Used
  <1>5. Used = n
    BY Zenon, <1>3, <1>4
  <1> QED BY <1>1, <1>5

\* What takeJoin makes of the request at the head of the Hub's queue.
LEMMA JoinTaken ==
    ASSUME HubInv, hubTakesJoin
    PROVE  \E s \in HSession :
              /\ s = Head(hubJoin) /\ hubLoop = "run" /\ hubJoin' \in Seq(HSession)
              /\ Len(hubJoin') <= HubQueue
              /\ \A x : Queued(hubJoin, x) => x = s \/ Queued(hubJoin', x)
              /\ \/ \E n \in Inst :
                       /\ hubTopics = 0 /\ hubTopics' = n /\ topics' = [topics EXCEPT ![n] = NewInst(s)]
                       /\ n = Used + 1 /\ topics[n].pc = "none" /\ UNCHANGED <<session, reg>>
                 \/ /\ hubTopics # 0 /\ UNCHANGED <<hubTopics, topics, reg>>
                    /\ session' = Answered(session, s)
                 \/ /\ hubTopics # 0 /\ ~isInactive(hubTopics) /\ UNCHANGED <<hubTopics, topics, session>>
                    /\ Len(reg[hubTopics]) # HubQueue
                    /\ reg' = [reg EXCEPT ![hubTopics] = Append(@, s)]
  <1>0. HubTypes /\ Numbered /\ hubJoin \in Seq(HSession) /\ Len(hubJoin) <= HubQueue
    BY DEF HubInv, HubTypes, HubTypeOK
  <1> DEFINE s == Head(hubJoin)
  <1>1. hubLoop = "run" /\ hubJoin # <<>> /\ hubJoin' = Tail(hubJoin)
    BY DEF hubTakesJoin
  <1>2. s \in HSession /\ hubJoin' \in Seq(HSession) /\ \A x : Queued(hubJoin, x) => x = s \/ Queued(hubJoin', x)
    BY <1>0, <1>1, HeadTaken
  <1>3. Len(hubJoin') <= HubQueue
    BY <1>0, <1>1, HubAssumption
  <1>4. CASE hubTopics = 0 /\ makeTopic(s) /\ UNCHANGED <<session, reg>>
    <2>1. Used \in 0 .. MaxTopicInst /\ \A i \in Inst : topics[i].pc # "none" <=> i <= Used
      BY <1>0, UsedIs
    <2>2. Used + 1 \in Inst /\ ~(Used + 1 <= Used)
      BY <1>4, <2>1, HubAssumption DEF makeTopic, Inst
    <2>3. topics[Used + 1].pc = "none"
      BY <2>1, <2>2
    <2> QED BY <1>1, <1>2, <1>3, <1>4, <2>2, <2>3 DEF makeTopic
  <1>5. CASE hubTopics # 0 /\ UNCHANGED <<hubTopics, topics>>
    <2>1. \/ session' = Answered(session, s) /\ UNCHANGED reg
          \/ ~isInactive(hubTopics) /\ Len(reg[hubTopics]) # HubQueue
             /\ reg' = [reg EXCEPT ![hubTopics] = Append(@, s)] /\ UNCHANGED session
      BY <1>5 DEF hubTakesJoin
    <2> QED BY <1>1, <1>2, <1>3, <1>5, <2>1
  <1> QED
    BY <1>4, <1>5 DEF hubTakesJoin

\* The type of the sessions.
SessionType ==
    [HSession -> [request : {"none", "join", "leave"}, sub : Inst \cup {0}, detach : BOOLEAN,
                  closing : {"no", "wait", "done"}]]

\* Answering a request keeps the types of the sessions.
LEMMA AnsweredIs ==
    ASSUME NEW ss \in SessionType, NEW s
    PROVE  /\ Answered(ss, s) \in SessionType
           /\ \A x \in HSession :
                 /\ x # s => Answered(ss, s)[x] = ss[x]
                 /\ Answered(ss, s)[x].sub = ss[x].sub /\ Answered(ss, s)[x].detach = ss[x].detach
                 /\ Answered(ss, s)[x].closing = ss[x].closing
                 /\ Answered(ss, s)[x].request \in {"none", ss[x].request}
           /\ s \in HSession => Answered(ss, s)[s].request = "none"
  BY DEF Answered, SessionType

\* ... also together with a change of the instance that the session knows.
LEMMA AttachedIs ==
    ASSUME NEW ss \in SessionType, NEW s \in HSession, NEW k \in Inst \cup {0}
    PROVE  \A x \in HSession :
              /\ Answered([ss EXCEPT ![s].sub = k], s)[x].sub = IF x = s THEN k ELSE ss[x].sub
              /\ Answered([ss EXCEPT ![s].sub = k], s)[x].detach = ss[x].detach
              /\ Answered([ss EXCEPT ![s].sub = k], s)[x].closing = ss[x].closing
  <1> DEFINE tt == [ss EXCEPT ![s].sub = k]
  <1>1. tt \in SessionType
    BY DEF SessionType
  <1>2. ASSUME NEW x \in HSession
        PROVE  /\ tt[x].sub = IF x = s THEN k ELSE ss[x].sub
               /\ tt[x].detach = ss[x].detach /\ tt[x].closing = ss[x].closing
    BY DEF SessionType
  <1> HIDE DEF tt
  <1>3. ASSUME NEW x \in HSession
        PROVE  /\ Answered(tt, s)[x].sub = IF x = s THEN k ELSE ss[x].sub
               /\ Answered(tt, s)[x].detach = ss[x].detach /\ Answered(tt, s)[x].closing = ss[x].closing
    <2>1. /\ Answered(tt, s)[x].sub = tt[x].sub /\ Answered(tt, s)[x].detach = tt[x].detach
          /\ Answered(tt, s)[x].closing = tt[x].closing
      BY <1>1, AnsweredIs
    <2> QED BY <1>2, <2>1
  <1> QED BY <1>3 DEF tt

\* A message to detach changes nothing else of a session.
LEMMA DetachedIs ==
    ASSUME session \in SessionType, NEW S
    PROVE  /\ Detached(S) \in SessionType
           /\ \A x \in HSession :
                 /\ Detached(S)[x].sub = session[x].sub /\ Detached(S)[x].closing = session[x].closing
                 /\ Detached(S)[x].request = session[x].request
                 /\ Detached(S)[x].detach = (session[x].detach \/ (x \in S /\ IsLive(x)))
  BY DEF Detached, SessionType

\* ... also when a request is answered with it.
LEMMA DetachedAnswered ==
    ASSUME session \in SessionType, NEW S, NEW s \in HSession
    PROVE  /\ Answered(Detached(S), s) \in SessionType
           /\ Answered(Detached(S), s)[s].request = "none"
           /\ \A x \in HSession :
                 /\ Answered(Detached(S), s)[x].sub = session[x].sub
                 /\ Answered(Detached(S), s)[x].closing = session[x].closing
                 /\ Answered(Detached(S), s)[x].request \in {"none", session[x].request}
                 /\ Answered(Detached(S), s)[x].detach = (session[x].detach \/ (x \in S /\ IsLive(x)))
  <1>1. Detached(S) \in SessionType
    BY DetachedIs
  <1>2. /\ Answered(Detached(S), s) \in SessionType
        /\ Answered(Detached(S), s)[s].request = "none"
        /\ \A x \in HSession :
              /\ Answered(Detached(S), s)[x].sub = Detached(S)[x].sub
              /\ Answered(Detached(S), s)[x].closing = Detached(S)[x].closing
              /\ Answered(Detached(S), s)[x].request \in {"none", Detached(S)[x].request}
              /\ Answered(Detached(S), s)[x].detach = Detached(S)[x].detach
    BY <1>1, AnsweredIs
  <1> QED BY <1>2, DetachedIs

\* What steps change of an instance keeps its type.
LEMMA InstChanges ==
    ASSUME NEW x \in InstType
    PROVE  /\ \A p \in {"none", "init", "run", "gone"} : [x EXCEPT !.pc = p] \in InstType
           /\ [x EXCEPT !.pc = "run", !.paused = FALSE] \in InstType
           /\ \A e \in {"none", "idle", "rehash", "shutdown"} :
                 [x EXCEPT !.exit = e] \in InstType /\ [x EXCEPT !.deleted = TRUE, !.exit = e] \in InstType
           /\ \A S \in SUBSET HSession, b \in BOOLEAN : [x EXCEPT !.sessions = S, !.timer = b] \in InstType
           /\ \A b \in BOOLEAN : [x EXCEPT !.timer = b] \in InstType
           /\ \A S \in SUBSET HSession : [x EXCEPT !.sessions = S] \in InstType
  BY DEF InstType

\* Every step keeps the types.
LEMMA HubTypesStep == ASSUME HubInv, HubNext PROVE HubTypes'
  <1> USE DEF envVars, flagVars
  <1>0. HubTypes /\ HubTypeOK /\ session \in SessionType
    BY DEF HubInv, HubTypes, HubTypeOK, SessionType
  <1>1. ASSUME NEW s \in HSession, subscribe(s) PROVE HubTypes'
    <2>1. hubJoin' \in Seq(HSession) /\ Len(hubJoin') <= HubQueue
      BY <1>0, <1>1, HubAssumption DEF subscribe, HubTypes
    <2>2. session' \in SessionType
      BY <1>0, <1>1 DEF subscribe, SessionType
    <2> QED BY <1>0, <1>1, <2>1, <2>2 DEF subscribe, HubTypes, HubTypeOK, SessionType
  <1>2. ASSUME NEW s \in HSession, leave(s) PROVE HubTypes'
    <2>1. session[s].sub \in Inst
      BY <1>0, <1>2 DEF leave, SessionType
    <2>2. unreg' \in [Inst -> Seq(HSession)]
      BY <1>0, <1>2, <2>1 DEF leave, HubTypes
    <2>3. session' \in SessionType
      BY <1>0, <1>2 DEF leave, SessionType
    <2> QED BY <1>0, <1>2, <2>2, <2>3 DEF leave, HubTypes, HubTypeOK, SessionType
  <1>3. ASSUME NEW s \in HSession, detachSession(s) \/ disconnect(s) PROVE HubTypes'
    <2>1. CASE detachSession(s)
      <3>1. session' \in SessionType
        BY <1>0, <2>1 DEF detachSession, SessionType
      <3> QED BY <1>0, <2>1, <3>1 DEF detachSession, HubTypes, HubTypeOK, SessionType
    <2>2. CASE disconnect(s)
      <3>1. session' \in SessionType
        BY <1>0, <2>2 DEF disconnect, SessionType
      <3> QED BY <1>0, <2>2, <3>1 DEF disconnect, HubTypes, HubTypeOK, SessionType
    <2> QED BY <1>3, <2>1, <2>2
  <1>4. ASSUME NEW s \in HSession, cleanUp(s) PROVE HubTypes'
    <2>1. unreg' \in [Inst -> Seq(HSession)]
      BY <1>0, <1>4 DEF cleanUp, HubTypes, SessionType
    <2>2. session' \in SessionType
      BY <1>0, <1>4 DEF cleanUp, SessionType
    <2> QED BY <1>0, <1>4, <2>1, <2>2 DEF cleanUp, HubTypes, HubTypeOK, SessionType
  <1>5. CASE hubTakesJoin
    <2>1. PICK s \in HSession :
              /\ hubJoin' \in Seq(HSession) /\ Len(hubJoin') <= HubQueue
              /\ \/ \E n \in Inst :
                       hubTopics' = n /\ topics' = [topics EXCEPT ![n] = NewInst(s)] /\ UNCHANGED <<session, reg>>
                 \/ UNCHANGED <<hubTopics, topics, reg>> /\ session' = Answered(session, s)
                 \/ /\ hubTopics # 0 /\ UNCHANGED <<hubTopics, topics, session>>
                    /\ reg' = [reg EXCEPT ![hubTopics] = Append(@, s)]
      BY <1>5, JoinTaken
    <2>2. NewInst(s) \in InstType
      BY <1>0 DEF NewInst, InstType, HubTypeOK
    <2>3. hubTopics' \in Inst \cup {0} /\ topics' \in [Inst -> InstType]
      BY <1>0, <2>1, <2>2 DEF HubTypeOK
    <2>4. session' \in SessionType
      BY <1>0, <2>1, AnsweredIs
    <2>5. reg' \in [Inst -> Seq(HSession)]
      <3>1. hubTopics # 0 => hubTopics \in Inst /\ Append(reg[hubTopics], s) \in Seq(HSession)
        BY <1>0, QueueAppended DEF HubTypes, HubTypeOK
      <3> QED BY <1>0, <2>1, <3>1 DEF HubTypes
    <2> QED BY <1>0, <1>5, <2>1, <2>3, <2>4, <2>5 DEF hubTakesJoin, HubTypes, HubTypeOK, SessionType
  <1>6. CASE hubTakesUnreg \/ hubTakesRehash \/ hubTakesShutdown \/ hubStops
    <2>1. topics' \in [Inst -> InstType] /\ hubTopics' \in Inst \cup {0}
      <3>1. \A i \in Inst, e \in {"idle", "rehash", "shutdown"} :
                /\ [topics[i] EXCEPT !.exit = e] \in InstType
                /\ [topics[i] EXCEPT !.deleted = TRUE, !.exit = e] \in InstType
        BY <1>0, InstChanges DEF HubTypeOK
      <3> QED BY <1>0, <1>6, <3>1
              DEF hubTakesUnreg, hubTakesRehash, hubTakesShutdown, hubStops, TakeDown, HubTypeOK
    <2>2. hubUnreg' \in 0 .. HubQueue
      BY <1>0, <1>6, HubAssumption
         DEF hubTakesUnreg, hubTakesRehash, hubTakesShutdown, hubStops, HubTypeOK
    <2>3. hubWaits' \subseteq Inst
      BY <1>0, <1>6 DEF hubTakesUnreg, hubTakesRehash, hubTakesShutdown, hubStops, HubTypeOK
    <2> QED BY <1>0, <1>6, <2>1, <2>2, <2>3
            DEF hubTakesUnreg, hubTakesRehash, hubTakesShutdown, hubStops, HubTypes, HubTypeOK
  <1>7. ASSUME NEW i \in Inst, topicInitDone(i) \/ topicInitFails(i) PROVE HubTypes'
    <2>1. topics' \in [Inst -> InstType]
      <3>1. /\ [topics[i] EXCEPT !.pc = "gone"] \in InstType
            /\ [topics[i] EXCEPT !.pc = "run", !.paused = FALSE] \in InstType
        BY <1>0, InstChanges DEF HubTypeOK
      <3> QED BY <1>0, <1>7, <3>1 DEF topicInitDone, topicInitFails, InitEnds, HubTypeOK
    <2>2. session' \in SessionType
      BY <1>0, <1>7, AnsweredIs DEF topicInitDone, topicInitFails, InitEnds
    <2>3. reg' \in [Inst -> Seq(HSession)]
      <3>1. topics[i].starter \in HSession \cup {"none"}
        BY <1>0 DEF HubTypeOK, InstType
      <3>2. topics[i].starter # "none" => Append(reg[i], topics[i].starter) \in Seq(HSession)
        BY <1>0, <3>1, QueueAppended DEF HubTypes
      <3> QED BY <1>0, <1>7, <3>2 DEF topicInitDone, topicInitFails, HubTypes
    <2>4. /\ hubTopics' \in Inst \cup {0} /\ stolen' \in BOOLEAN /\ forgotten' \subseteq Inst
          /\ hubWaits' \subseteq Inst /\ stranded' \subseteq HSession
      BY <1>0, <1>7 DEF topicInitDone, topicInitFails, topicDel, HubTypeOK
    <2>5. UNCHANGED <<hubLoop, hubJoin, hubUnreg, unreg, envVars>>
      BY <1>7 DEF topicInitDone, topicInitFails
    <2> QED BY <1>0, <2>1, <2>2, <2>3, <2>4, <2>5 DEF HubTypes, HubTypeOK, SessionType
  <1>8. ASSUME NEW i \in Inst, registerSession(i) PROVE HubTypes'
    <2> DEFINE s == Head(reg[i])
    <2>1. s \in HSession /\ reg' \in [Inst -> Seq(HSession)]
      BY <1>0, <1>8, HeadTaken DEF registerSession, HubTypes
    <2>2. [session EXCEPT ![s].sub = i] \in SessionType
      BY <1>0, <2>1 DEF SessionType
    <2>3. session' \in SessionType
      BY <1>0, <1>8, <2>1, <2>2, AnsweredIs, DetachedAnswered DEF registerSession
    <2>4. topics' \in [Inst -> InstType]
      <3>1. topics[i] \in InstType /\ topics[i].sessions \cup {s} \in SUBSET HSession
        BY <1>0, <2>1 DEF HubTypeOK, InstType
      <3>2. /\ [topics[i] EXCEPT !.sessions = topics[i].sessions \cup {s}, !.timer = FALSE] \in InstType
            /\ [topics[i] EXCEPT !.timer = (topics[i].sessions = {})] \in InstType
        BY <3>1, InstChanges
      <3>3. ASSUME NEW out
            PROVE  [topics[i] EXCEPT !.sessions = topics[i].sessions \ out, !.timer = FALSE] \in InstType
        <4>1. topics[i].sessions \ out \in SUBSET HSession
          BY <3>1
        <4> QED BY <3>1, <4>1, InstChanges
      <3>4. \/ topics' = topics
            \/ topics' = [topics EXCEPT ![i].sessions = @ \cup {s}, ![i].timer = FALSE]
            \/ topics' = [topics EXCEPT ![i].timer = topics[i].sessions = {}]
            \/ \E out : topics' = [topics EXCEPT ![i].sessions = @ \ out, ![i].timer = FALSE]
        BY <1>8 DEF registerSession
      <3>5. CASE topics' = [topics EXCEPT ![i].sessions = @ \cup {s}, ![i].timer = FALSE]
        BY <1>0, <3>2, <3>5 DEF HubTypeOK
      <3>6. CASE topics' = [topics EXCEPT ![i].timer = topics[i].sessions = {}]
        BY <1>0, <3>2, <3>6 DEF HubTypeOK
      <3>7. ASSUME NEW out, topics' = [topics EXCEPT ![i].sessions = @ \ out, ![i].timer = FALSE]
            PROVE  topics' \in [Inst -> InstType]
        BY <1>0, <3>3, <3>7 DEF HubTypeOK
      <3> QED BY <1>0, <3>4, <3>5, <3>6, <3>7 DEF HubTypeOK
    <2> QED BY <1>0, <1>8, <2>1, <2>3, <2>4 DEF registerSession, HubTypes, HubTypeOK, SessionType
  <1>9. ASSUME NEW i \in Inst, unregisterSession(i) PROVE HubTypes'
    <2> DEFINE s == Head(unreg[i])
    <2>1. s \in HSession /\ unreg' \in [Inst -> Seq(HSession)]
      BY <1>0, <1>9, HeadTaken DEF unregisterSession, HubTypes
    <2>2. [session EXCEPT ![s].sub = 0] \in SessionType
      BY <1>0, <2>1 DEF SessionType
    <2>3. session' \in SessionType
      BY <1>0, <1>9, <2>1, <2>2, AnsweredIs, DetachedAnswered DEF unregisterSession
    <2>4. topics' \in [Inst -> InstType]
      <3>1. PICK out : topics' = [topics EXCEPT ![i].sessions = @ \ out,
                                                ![i].timer = @ \/ topics[i].sessions \ out = {}]
        BY <1>9 DEF unregisterSession
      <3> DEFINE rest == topics[i].sessions \ out
                 timer == topics[i].timer \/ rest = {}
      <3>2. topics[i] \in InstType /\ rest \in SUBSET HSession /\ timer \in BOOLEAN
        BY <1>0 DEF HubTypeOK, InstType
      <3>3. topics' = [topics EXCEPT ![i].sessions = rest, ![i].timer = timer]
        BY <3>1
      <3> HIDE DEF rest, timer
      <3>4. [topics[i] EXCEPT !.sessions = rest, !.timer = timer] \in InstType
        BY <3>2, InstChanges
      <3> QED BY <1>0, <3>3, <3>4 DEF HubTypeOK
    <2> QED BY <1>0, <1>9, <2>1, <2>3, <2>4 DEF unregisterSession, HubTypes, HubTypeOK, SessionType
  <1>13. ASSUME NEW i \in Inst, NEW u, topicEvicts(i, u) PROVE HubTypes'
    <2>1. topics' \in [Inst -> InstType]
      <3>1. topics[i] \in InstType /\ topics[i].sessions \ Evicted(i, u) \in SUBSET HSession
        BY <1>0 DEF HubTypeOK, InstType
      <3>2. [topics[i] EXCEPT !.sessions = topics[i].sessions \ Evicted(i, u)] \in InstType
        BY <3>1, InstChanges
      <3> QED BY <1>0, <1>13, <3>2 DEF topicEvicts, HubTypeOK
    <2>2. session' \in SessionType
      BY <1>0, <1>13, DetachedIs DEF topicEvicts
    <2> QED BY <1>0, <1>13, <2>1, <2>2 DEF topicEvicts, HubTypes, HubTypeOK, SessionType
  <1>10. ASSUME NEW i \in Inst, topicExits(i) PROVE HubTypes'
    <2>1. topics' \in [Inst -> InstType]
      <3>1. [topics[i] EXCEPT !.pc = "gone"] \in InstType
        BY <1>0, InstChanges DEF HubTypeOK
      <3> QED BY <1>0, <1>10, <3>1 DEF topicExits, HubTypeOK
    <2>2. session' \in SessionType
      BY <1>0, <1>10, DetachedIs DEF topicExits
    <2>3. stranded' \subseteq HSession
      BY <1>0, <1>10 DEF topicExits, HubTypeOK
    <2> QED BY <1>0, <1>10, <2>1, <2>2, <2>3 DEF topicExits, HubTypes, HubTypeOK, SessionType
  <1>11. ASSUME NEW i \in Inst, killTimer(i) PROVE HubTypes'
    <2>1. topics' \in [Inst -> InstType]
      <3>1. [topics[i] EXCEPT !.timer = FALSE] \in InstType
        BY <1>0, InstChanges DEF HubTypeOK
      <3> QED BY <1>0, <1>11, <3>1 DEF killTimer, HubTypeOK
    <2>2. hubUnreg' \in 0 .. HubQueue
      BY <1>0, <1>11, HubAssumption DEF killTimer, HubTypeOK
    <2> QED BY <1>0, <1>11, <2>1, <2>2 DEF killTimer, HubTypes, HubTypeOK
  <1>12. CASE ringChanges \/ beginShutdown \/ closeCluster
    <2>1. rehashes' \in 0 .. MaxRehash
      BY <1>0, <1>12, HubAssumption DEF ringChanges, beginShutdown, closeCluster, HubTypeOK
    <2> QED BY <1>0, <1>12, <2>1 DEF ringChanges, beginShutdown, closeCluster, HubTypes, HubTypeOK
  <1> QED
    BY <1>1, <1>2, <1>3, <1>4, <1>5, <1>6, <1>7, <1>8, <1>9, <1>10, <1>11, <1>12, <1>13
       DEF HubNext, hubStep, topicInit, topicLoop

\* A step that leaves the life of every instance alone.
SameMarks ==
    \A j \in Inst :
        /\ topics'[j].pc = topics[j].pc /\ topics'[j].paused = topics[j].paused
        /\ topics'[j].deleted = topics[j].deleted /\ topics'[j].exit = topics[j].exit
        /\ topics'[j].starter = topics[j].starter
        /\ topics[j].pc # "run" => topics'[j].sessions = topics[j].sessions

\* Then the marks go on fitting each other and the map.
LEMMA SameMarksKeep ==
    ASSUME HubTypes, Numbered, MarksFit, MapFits, SameMarks, UNCHANGED <<hubTopics, stolen>>,
           hubLoop' = "run" <=> hubLoop = "run"
    PROVE  Numbered' /\ MarksFit' /\ MapFits'
  <1>1. Numbered'
    BY DEF Numbered, SameMarks
  <1>2. MarksFit'
    BY DEF MarksFit, SameMarks
  <1>3. MapFits'
    BY DEF MapFits, SameMarks, HubTypes, HubTypeOK
  <1> QED BY <1>1, <1>2, <1>3

\* The Hub makes instances in order and marks those that leave its map.
LEMMA HubStepFits ==
    ASSUME HubInv, hubStep
    PROVE  Numbered' /\ MarksFit' /\ MapFits'
  <1> USE DEF envVars, flagVars
  <1>0. /\ HubTypes /\ Numbered /\ MarksFit /\ MapFits
        /\ topics \in [Inst -> InstType] /\ hubTopics \in Inst \cup {0} /\ 0 \notin Inst
    BY DEF HubInv, HubTypes, HubTypeOK, Inst
  <1>1. CASE hubTakesJoin
    <2>0. UNCHANGED <<hubLoop, stolen>>
      BY <1>1 DEF hubTakesJoin
    <2>1. PICK s \in HSession :
              /\ hubLoop = "run"
              /\ \/ \E n \in Inst :
                       /\ hubTopics = 0 /\ hubTopics' = n /\ topics' = [topics EXCEPT ![n] = NewInst(s)]
                       /\ n = Used + 1 /\ topics[n].pc = "none"
                 \/ UNCHANGED <<hubTopics, topics>>
      BY <1>1, JoinTaken
    <2>2. CASE UNCHANGED <<hubTopics, topics>>
      BY <1>0, <2>0, <2>2, SameMarksKeep DEF SameMarks
    <2>3. ASSUME NEW n \in Inst, hubTopics = 0, hubTopics' = n,
                 topics' = [topics EXCEPT ![n] = NewInst(s)], n = Used + 1, topics[n].pc = "none"
          PROVE  Numbered' /\ MarksFit' /\ MapFits'
      <3>0. /\ topics'[n] = NewInst(s)
            /\ \A j \in Inst : j # n => topics'[j] = topics[j]
        BY <1>0, <2>3
      <3>1. Numbered'
        <4>1. Used \in 0 .. MaxTopicInst /\ \A i \in Inst : topics[i].pc # "none" <=> i <= Used
          BY <1>0, UsedIs
        <4>2. n \in 0 .. MaxTopicInst /\ \A i \in Inst : i <= n <=> i <= Used \/ i = n
          BY <2>3, <4>1, HubAssumption DEF Inst
        <4>3. \A i \in Inst : topics'[i].pc # "none" <=> i <= n
          BY <3>0, <4>1, <4>2 DEF NewInst
        <4> QED BY <4>2, <4>3 DEF Numbered
      <3>2. MarksFit'
        BY <1>0, <2>0, <3>0 DEF MarksFit, NewInst
      <3>3. MapFits'
        BY <1>0, <2>0, <2>3, <3>0 DEF MapFits, NewInst
      <3> QED BY <3>1, <3>2, <3>3
    <2> QED BY <2>1, <2>2, <2>3
  <1>2. ASSUME hubTopics # 0, NEW reason \in {"idle", "rehash"}, TakeDown(reason), UNCHANGED <<hubLoop, stolen>>
        PROVE  Numbered' /\ MarksFit' /\ MapFits'
    <2>1. /\ hubTopics \in Inst /\ hubTopics' = 0
          /\ topics'[hubTopics] = [topics[hubTopics] EXCEPT !.deleted = TRUE, !.exit = reason]
          /\ \A j \in Inst : j # hubTopics => topics'[j] = topics[j]
      BY <1>0, <1>2 DEF TakeDown
    <2>2. /\ topics'[hubTopics].pc = topics[hubTopics].pc /\ topics'[hubTopics].deleted
          /\ topics'[hubTopics].exit = reason /\ topics'[hubTopics].sessions = topics[hubTopics].sessions
          /\ topics'[hubTopics].paused = topics[hubTopics].paused
          /\ topics'[hubTopics].starter = topics[hubTopics].starter
      BY <1>0, <2>1 DEF InstType
    <2>3. Numbered'
      BY <1>0, <2>1, <2>2 DEF Numbered
    <2>4. MarksFit'
      <3> DEFINE Fit(i) ==
              /\ topics[i].pc \in {"none", "init"} => topics[i].sessions = {}
              /\ topics[i].pc = "init" => topics[i].paused /\ topics[i].starter \in HSession
              /\ topics[i].exit \in {"idle", "rehash"} => topics[i].deleted
              /\ topics[i].exit = "shutdown" => ~topics[i].deleted /\ hubLoop # "run"
      <3>1. \A i \in Inst : Fit(i)
        BY <1>0 DEF MarksFit
      <3>2. ASSUME NEW k \in Inst, k = hubTopics PROVE Fit(k)'
        BY <1>2, <2>2, <3>1, <3>2
      <3>3. ASSUME NEW i \in Inst, i # hubTopics PROVE Fit(i)'
        BY <1>2, <2>1, <3>1, <3>3
      <3> QED BY <3>2, <3>3 DEF MarksFit
    <2>5. MapFits'
      BY <1>0, <1>2, <2>1, <2>2 DEF MapFits
    <2> QED BY <2>3, <2>4, <2>5
  <1>3. CASE hubTakesUnreg
    <2>1. CASE hubTopics = 0
      BY <1>0, <1>3, <2>1, SameMarksKeep DEF hubTakesUnreg, SameMarks
    <2> QED BY <1>2, <1>3, <2>1 DEF hubTakesUnreg
  <1>4. CASE hubTakesRehash
    <2>1. CASE UNCHANGED <<hubTopics, topics>>
      BY <1>0, <1>4, <2>1, SameMarksKeep DEF hubTakesRehash, SameMarks
    <2> QED BY <1>2, <1>4, <2>1 DEF hubTakesRehash
  <1>5. CASE hubTakesShutdown
    <2>0. hubLoop = "run" /\ hubLoop' # "run" /\ UNCHANGED <<hubTopics, stolen>>
      BY <1>5 DEF hubTakesShutdown
    <2>1. ASSUME NEW j \in Inst
          PROVE  /\ topics'[j].pc = topics[j].pc /\ topics'[j].paused = topics[j].paused
                 /\ topics'[j].deleted = topics[j].deleted /\ topics'[j].sessions = topics[j].sessions
                 /\ topics'[j].starter = topics[j].starter
                 /\ topics'[j].exit # topics[j].exit => topics'[j].exit = "shutdown" /\ j = hubTopics
      BY <1>0, <1>5 DEF hubTakesShutdown, InstType
    <2>2. Numbered'
      BY <1>0, <2>1 DEF Numbered
    <2>3. MarksFit'
      BY <1>0, <2>0, <2>1 DEF MarksFit, MapFits
    <2>4. MapFits'
      BY <1>0, <2>0, <2>1 DEF MapFits
    <2> QED BY <2>2, <2>3, <2>4
  <1>6. CASE hubStops
    BY <1>0, <1>6, SameMarksKeep DEF hubStops, SameMarks
  <1> QED
    BY <1>1, <1>3, <1>4, <1>5, <1>6 DEF hubStep

\* Every step keeps the numbers, the marks and the map of the instances.
LEMMA InstancesStep ==
    ASSUME HubInv, HubNext
    PROVE  Numbered' /\ MarksFit' /\ MapFits'
  <1> USE DEF envVars, flagVars
  <1>0. /\ HubTypes /\ Numbered /\ MarksFit /\ MapFits
        /\ topics \in [Inst -> InstType] /\ hubTopics \in Inst \cup {0} /\ 0 \notin Inst
    BY DEF HubInv, HubTypes, HubTypeOK, Inst
  <1>1. ASSUME NEW s \in HSession,
               \/ subscribe(s) \/ leave(s) \/ detachSession(s) \/ disconnect(s) \/ cleanUp(s)
        PROVE  Numbered' /\ MarksFit' /\ MapFits'
    <2>1. UNCHANGED <<topics, hubTopics, stolen, hubLoop>>
      BY <1>1 DEF subscribe, leave, detachSession, disconnect, cleanUp
    <2> QED BY <1>0, <2>1, SameMarksKeep DEF SameMarks
  <1>2. CASE ringChanges \/ beginShutdown \/ closeCluster
    <2>1. UNCHANGED <<topics, hubTopics, stolen, hubLoop>>
      BY <1>2 DEF ringChanges, beginShutdown, closeCluster
    <2> QED BY <1>0, <2>1, SameMarksKeep DEF SameMarks
  <1>3. ASSUME NEW i \in Inst,
               \/ registerSession(i) \/ unregisterSession(i) \/ killTimer(i)
               \/ \E s \in HSession : topicEvicts(i, HUser[s])
        PROVE  Numbered' /\ MarksFit' /\ MapFits'
    <2>1. UNCHANGED <<hubTopics, stolen, hubLoop>>
      BY <1>3 DEF registerSession, unregisterSession, killTimer, topicEvicts
    <2>2. SameMarks
      BY <1>0, <1>3 DEF registerSession, unregisterSession, killTimer, topicEvicts, SameMarks, InstType
    <2> QED BY <1>0, <2>1, <2>2, SameMarksKeep
  <1>4. ASSUME NEW i \in Inst, topicInitDone(i) \/ topicInitFails(i) \/ topicExits(i)
        PROVE  Numbered' /\ MarksFit' /\ MapFits'
    <2>0. hubLoop' = hubLoop
      BY <1>4 DEF topicInitDone, topicInitFails, topicExits
    <2>1. /\ \A j \in Inst : j # i => topics'[j] = topics[j]
          /\ topics[i].pc # "none" /\ topics'[i].pc \in {"run", "gone"}
          /\ topics'[i].deleted = topics[i].deleted /\ topics'[i].exit = topics[i].exit
      BY <1>0, <1>4 DEF topicInitDone, topicInitFails, topicExits, InitEnds, InstType
    <2>2. Numbered'
      BY <1>0, <2>1 DEF Numbered
    <2>3. MarksFit'
      BY <1>0, <2>0, <2>1 DEF MarksFit
    <2>4. MapFits'
      <3>1. CASE topicDel(i) /\ topics'[i].pc = "gone"
        BY <1>0, <2>0, <2>1, <3>1 DEF MapFits, topicDel
      <3>2. CASE topics'[i].pc = "run" /\ topics[i].pc = "init" /\ UNCHANGED <<hubTopics, stolen>>
        BY <1>0, <2>0, <2>1, <3>2 DEF MapFits
      <3>3. ASSUME UNCHANGED <<hubTopics, stolen>>, topics'[i].pc = "gone",
                   topics[i].deleted \/ hubLoop # "run"
            PROVE  MapFits'
        <4>1. hubTopics' # 0 => ~topics'[hubTopics'].deleted
          BY <1>0, <2>1, <3>3 DEF MapFits
        <4>2. hubTopics' # 0 /\ hubLoop' = "run" => topics'[hubTopics'].pc \in {"init", "run"}
          BY <1>0, <2>0, <2>1, <3>3 DEF MapFits
        <4>3. ~stolen' => \A j \in Inst :
                  topics'[j].pc \in {"init", "run"} /\ ~topics'[j].deleted => hubTopics' = j
          BY <1>0, <2>1, <3>3 DEF MapFits
        <4> QED BY <4>1, <4>2, <4>3 DEF MapFits
      <3>4. topicExits(i) => topics[i].deleted \/ hubLoop # "run"
        BY <1>0 DEF topicExits, MarksFit, InstType
      <3>5. CASE topicInitDone(i)
        BY <1>0, <2>1, <3>1, <3>2, <3>3, <3>5 DEF topicInitDone, InitEnds, InstType
      <3>6. CASE topicInitFails(i)
        BY <1>0, <2>1, <3>1, <3>6 DEF topicInitFails, InitEnds, InstType
      <3>7. CASE topicExits(i)
        BY <1>0, <2>1, <3>3, <3>4, <3>7 DEF topicExits, InstType
      <3> QED BY <1>4, <3>5, <3>6, <3>7
    <2> QED BY <2>2, <2>3, <2>4
  <1> QED
    BY <1>1, <1>2, <1>3, <1>4, HubStepFits DEF HubNext, topicInit, topicLoop

\* A step that attaches and detaches nobody, and starts no loop, keeps what sessions and
\* instances know of each other.
LEMMA SameSessions ==
    ASSUME HubTypes, SessionsFit,
           \A s \in HSession :
               /\ session'[s].sub = session[s].sub /\ (session'[s].detach => session[s].detach)
               /\ session'[s].closing = "no" => session[s].closing = "no" /\ session'[s].detach = session[s].detach
               /\ session'[s].detach => session'[s].closing = "no",
           \A i \in Inst :
               /\ topics'[i].pc = "run" =>
                     /\ topics[i].pc = "run" /\ topics'[i].sessions = topics[i].sessions
                     /\ topics[i].paused \/ topics[i].deleted => topics'[i].paused \/ topics'[i].deleted
               /\ topics[i].pc = "run" => topics'[i].pc \in {"run", "gone"}
               /\ topics[i].pc = "gone" => topics'[i].pc = "gone"
    PROVE  SessionsFit'
  <1>1. ASSUME NEW s \in HSession
        PROVE  /\ session'[s].sub # 0 => topics'[session'[s].sub].pc \in {"run", "gone"}
               /\ session'[s].detach => session'[s].sub # 0
    <2>1. session[s].sub \in Inst \cup {0}
      BY DEF HubTypes, HubTypeOK
    <2> QED BY <2>1 DEF SessionsFit
  <1>2. ASSUME NEW s \in HSession, NEW i \in Inst, session'[s].closing = "no", topics'[i].pc = "run"
        PROVE  /\ s \in topics'[i].sessions => session'[s].sub = i /\ ~session'[s].detach
               /\ ~(topics'[i].paused \/ topics'[i].deleted) /\ session'[s].sub = i /\ ~session'[s].detach =>
                     s \in topics'[i].sessions
    BY <1>2 DEF SessionsFit, IsLive, isInactive
  <1> QED
    BY <1>1, <1>2 DEF SessionsFit, IsLive, isInactive

\* Nor does a step that takes sessions from an instance, which may end with it, and tells those
\* that are live to detach.
LEMMA DetachFits ==
    ASSUME HubTypes, SessionsFit, NEW i \in Inst, NEW out \in SUBSET topics[i].sessions,
           topics[i].pc = "run", \A j \in Inst : j # i => topics'[j] = topics[j],
           \/ topics'[i].pc = "gone"
           \/ /\ topics'[i].pc = "run" /\ topics'[i].sessions = topics[i].sessions \ out
              /\ topics'[i].paused = topics[i].paused /\ topics'[i].deleted = topics[i].deleted,
           \A x \in HSession :
               /\ session'[x].sub = session[x].sub /\ session'[x].closing = session[x].closing
               /\ session'[x].detach = (session[x].detach \/ (x \in out /\ session[x].closing = "no"))
    PROVE  SessionsFit'
  <1>1. ASSUME NEW x \in HSession
        PROVE  /\ session'[x].sub # 0 => topics'[session'[x].sub].pc \in {"run", "gone"}
               /\ session'[x].detach => session'[x].sub # 0 /\ session'[x].closing = "no"
    <2>1. session[x].sub \in Inst \cup {0} /\ 0 \notin Inst
      BY DEF HubTypes, HubTypeOK, Inst
    <2>2. x \in out /\ session[x].closing = "no" => session[x].sub = i
      BY DEF SessionsFit, IsLive
    <2>3. session[x].detach => session[x].sub # 0 /\ session[x].closing = "no"
      BY DEF SessionsFit, IsLive
    <2>4. session[x].sub # 0 => topics[session[x].sub].pc \in {"run", "gone"}
      BY DEF SessionsFit
    <2> QED BY <2>1, <2>2, <2>3, <2>4
  <1>2. ASSUME NEW x \in HSession, NEW j \in Inst, session'[x].closing = "no", topics'[j].pc = "run"
        PROVE  /\ x \in topics'[j].sessions => session'[x].sub = j /\ ~session'[x].detach
               /\ ~(topics'[j].paused \/ topics'[j].deleted) /\ session'[x].sub = j /\ ~session'[x].detach =>
                     x \in topics'[j].sessions
    <2>1. topics[j].pc = "run" /\ session[x].closing = "no"
      BY <1>2
    <2>2. /\ x \in topics[j].sessions => session[x].sub = j /\ ~session[x].detach
          /\ ~(topics[j].paused \/ topics[j].deleted) /\ session[x].sub = j /\ ~session[x].detach =>
                x \in topics[j].sessions
      BY <2>1 DEF SessionsFit, IsLive, isInactive
    <2>3. x \in out => session[x].sub = i
      BY <2>1 DEF SessionsFit, IsLive
    <2>4. CASE j = i
      BY <1>2, <2>1, <2>2, <2>4
    <2>5. CASE j # i
      BY <1>2, <2>1, <2>2, <2>3, <2>5
    <2> QED BY <2>4, <2>5
  <1> QED
    BY <1>1, <1>2 DEF SessionsFit, IsLive, isInactive

\* The loop of an instance attaches, detaches and lets go on both sides.
LEMMA LoopSessionsFit ==
    ASSUME HubInv, NEW i \in Inst, topicLoop(i)
    PROVE  SessionsFit'
  <1> USE DEF envVars, flagVars
  <1>0. /\ HubTypes /\ SessionsFit /\ session \in SessionType
        /\ topics \in [Inst -> InstType] /\ 0 \notin Inst
    BY DEF HubInv, HubTypes, HubTypeOK, Inst, SessionType
  <1>1. topics[i].pc = "run" /\ \A j \in Inst : j # i => topics'[j] = topics[j]
    BY <1>0 DEF topicLoop, registerSession, unregisterSession, topicExits, topicEvicts
  <1>2. ASSUME NEW s \in HSession, session' = Answered(session, s),
               /\ topics'[i].pc = "run" /\ topics'[i].sessions = topics[i].sessions
               /\ topics'[i].paused = topics[i].paused /\ topics'[i].deleted = topics[i].deleted
        PROVE  SessionsFit'
    <2>1. \A x \in HSession :
              /\ session'[x].sub = session[x].sub /\ session'[x].detach = session[x].detach
              /\ session'[x].closing = session[x].closing
      BY <1>0, <1>2, AnsweredIs
    <2>2. \A x \in HSession : session[x].detach => session[x].closing = "no"
      BY <1>0 DEF SessionsFit, IsLive
    <2> QED BY <1>0, <1>1, <1>2, <2>1, <2>2, SameSessions
  <1>3. ASSUME NEW s \in HSession, NEW out \in SUBSET topics[i].sessions,
               session' = Answered(Detached(out), s),
               /\ topics'[i].pc = "run" /\ topics'[i].sessions = topics[i].sessions \ out
               /\ topics'[i].paused = topics[i].paused /\ topics'[i].deleted = topics[i].deleted
        PROVE  SessionsFit'
    <2>1. \A x \in HSession :
              /\ session'[x].sub = session[x].sub /\ session'[x].closing = session[x].closing
              /\ session'[x].detach = (session[x].detach \/ (x \in out /\ session[x].closing = "no"))
      BY <1>0, <1>3, DetachedAnswered DEF IsLive
    <2> QED BY <1>0, <1>1, <1>3, <2>1, DetachFits
  <1>4. CASE registerSession(i)
    <2> DEFINE s == Head(reg[i])
    <2>1. s \in HSession
      BY <1>0, <1>4, HeadTaken DEF registerSession, HubTypes
    <2>2. topics'[i].pc = "run" /\ topics'[i].paused = topics[i].paused /\ topics'[i].deleted = topics[i].deleted
      BY <1>0, <1>1, <1>4 DEF registerSession, InstType
    <2>3. ASSUME session[s].sub = 0, topics'[i].sessions = topics[i].sessions \cup {s},
                 session' = Answered([session EXCEPT ![s].sub = i], s)
          PROVE  SessionsFit'
      <3>2. \A x \in HSession :
                /\ session'[x].sub = IF x = s THEN i ELSE session[x].sub
                /\ session'[x].detach = session[x].detach /\ session'[x].closing = session[x].closing
        BY <1>0, <2>1, <2>3, AttachedIs
      <3>3. ~session[s].detach
        BY <1>0, <2>1, <2>3 DEF SessionsFit
      <3>4. ASSUME NEW x \in HSession
            PROVE  /\ session'[x].sub # 0 => topics'[session'[x].sub].pc \in {"run", "gone"}
                   /\ session'[x].detach => session'[x].sub # 0 /\ session'[x].closing = "no"
        <4>1. session[x].sub \in Inst \cup {0}
          BY <1>0 DEF SessionType
        <4> QED BY <1>0, <1>1, <2>1, <2>2, <3>2, <3>3, <4>1 DEF SessionsFit, IsLive
      <3>5. ASSUME NEW x \in HSession, NEW j \in Inst, session'[x].closing = "no", topics'[j].pc = "run"
            PROVE  /\ x \in topics'[j].sessions => session'[x].sub = j /\ ~session'[x].detach
                   /\ ~(topics'[j].paused \/ topics'[j].deleted) /\ session'[x].sub = j /\ ~session'[x].detach =>
                         x \in topics'[j].sessions
        <4>1. /\ x \in topics[j].sessions /\ topics[j].pc = "run" => session[x].sub = j /\ ~session[x].detach
              /\ topics[j].pc = "run" /\ ~(topics[j].paused \/ topics[j].deleted) /\ session[x].sub = j
                 /\ ~session[x].detach => x \in topics[j].sessions
          BY <1>0, <3>2, <3>5 DEF SessionsFit, IsLive, isInactive
        <4> QED BY <1>0, <1>1, <2>1, <2>2, <2>3, <3>2, <3>3, <3>5, <4>1
      <3> QED BY <3>4, <3>5 DEF SessionsFit, IsLive, isInactive
    <2>4. ASSUME NEW out \in {{}, Evicted(i, HUser[s])}, session' = Answered(Detached(out), s),
                 topics' = [topics EXCEPT ![i].sessions = @ \ out, ![i].timer = FALSE]
          PROVE  SessionsFit'
      <3>1. out \in SUBSET topics[i].sessions /\ topics'[i].sessions = topics[i].sessions \ out
        BY <1>0, <2>4 DEF Evicted, InstType
      <3> QED BY <1>3, <2>1, <2>2, <2>4, <3>1
    <2>5. \/ /\ topics' = topics \/ topics' = [topics EXCEPT ![i].timer = topics[i].sessions = {}]
             /\ session' = Answered(session, s)
          \/ /\ session[s].sub = 0
             /\ topics' = [topics EXCEPT ![i].sessions = @ \cup {s}, ![i].timer = FALSE]
             /\ session' = Answered([session EXCEPT ![s].sub = i], s)
          \/ \E out \in {{}, Evicted(i, HUser[s])} :
                /\ session' = Answered(Detached(out), s)
                /\ topics' = [topics EXCEPT ![i].sessions = @ \ out, ![i].timer = FALSE]
      BY <1>4 DEF registerSession
    <2>6. topics' = topics \/ topics' = [topics EXCEPT ![i].timer = topics[i].sessions = {}] =>
              topics'[i].sessions = topics[i].sessions
      BY <1>0 DEF InstType
    <2>7. topics' = [topics EXCEPT ![i].sessions = @ \cup {s}, ![i].timer = FALSE] =>
              topics'[i].sessions = topics[i].sessions \cup {s}
      BY <1>0 DEF InstType
    <2> QED BY <1>2, <2>1, <2>2, <2>3, <2>4, <2>5, <2>6, <2>7
  <1>5. CASE unregisterSession(i)
    <2> DEFINE s == Head(unreg[i])
    <2>1. s \in HSession
      BY <1>0, <1>5, HeadTaken DEF unregisterSession, HubTypes
    <2>2. topics'[i].pc = "run" /\ topics'[i].paused = topics[i].paused /\ topics'[i].deleted = topics[i].deleted
      BY <1>0, <1>1, <1>5 DEF unregisterSession, InstType
    <2>3. \/ topics'[i].sessions = topics[i].sessions /\ session' = Answered(session, s)
          \/ /\ s \in topics[i].sessions /\ topics'[i].sessions = topics[i].sessions \ {s}
             /\ session' = Answered([session EXCEPT ![s].sub = 0], s)
          \/ /\ topics'[i].sessions = topics[i].sessions \ Evicted(i, HUser[s])
             /\ session' = Answered(Detached(Evicted(i, HUser[s])), s)
      BY <1>0, <1>5 DEF unregisterSession, InstType
    <2>4. Evicted(i, HUser[s]) \in SUBSET topics[i].sessions
      BY DEF Evicted
    <2>5. ASSUME s \in topics[i].sessions, topics'[i].sessions = topics[i].sessions \ {s},
                 session' = Answered([session EXCEPT ![s].sub = 0], s)
          PROVE  SessionsFit'
      <3>1. \A x \in HSession :
                /\ session'[x].sub = IF x = s THEN 0 ELSE session[x].sub
                /\ session'[x].detach = session[x].detach /\ session'[x].closing = session[x].closing
        BY <1>0, <2>1, <2>5, AttachedIs
      <3>2. ~session[s].detach
        BY <1>0, <1>1, <2>1, <2>5 DEF SessionsFit
      <3>3. ASSUME NEW x \in HSession
            PROVE  /\ session'[x].sub # 0 => topics'[session'[x].sub].pc \in {"run", "gone"}
                   /\ session'[x].detach => session'[x].sub # 0 /\ session'[x].closing = "no"
        <4>1. session[x].sub \in Inst \cup {0}
          BY <1>0 DEF SessionType
        <4> QED BY <1>0, <1>1, <2>1, <2>2, <3>1, <3>2, <4>1 DEF SessionsFit, IsLive
      <3>4. ASSUME NEW x \in HSession, NEW j \in Inst, session'[x].closing = "no", topics'[j].pc = "run"
            PROVE  /\ x \in topics'[j].sessions => session'[x].sub = j /\ ~session'[x].detach
                   /\ ~(topics'[j].paused \/ topics'[j].deleted) /\ session'[x].sub = j /\ ~session'[x].detach =>
                         x \in topics'[j].sessions
        <4>1. /\ x \in topics[j].sessions /\ topics[j].pc = "run" => session[x].sub = j /\ ~session[x].detach
              /\ topics[j].pc = "run" /\ ~isInactive(j) /\ session[x].sub = j /\ ~session[x].detach =>
                    x \in topics[j].sessions
          BY <1>0, <3>1, <3>4 DEF SessionsFit, IsLive
        <4>2. s \in topics[i].sessions /\ session[s].closing = "no" => session[s].sub = i
          BY <1>0, <1>1, <2>1 DEF SessionsFit, IsLive
        <4> QED BY <1>0, <1>1, <2>1, <2>2, <2>5, <3>1, <3>4, <4>1, <4>2 DEF isInactive
      <3> QED BY <3>3, <3>4 DEF SessionsFit, IsLive, isInactive
    <2> QED BY <1>2, <1>3, <2>1, <2>2, <2>3, <2>4, <2>5
  <1>6. ASSUME NEW u, topicEvicts(i, u) PROVE SessionsFit'
    <2>1. /\ topics'[i].pc = "run" /\ topics'[i].sessions = topics[i].sessions \ Evicted(i, u)
          /\ topics'[i].paused = topics[i].paused /\ topics'[i].deleted = topics[i].deleted
      BY <1>0, <1>1, <1>6 DEF topicEvicts, InstType
    <2>2. \A x \in HSession :
              /\ session'[x].sub = session[x].sub /\ session'[x].closing = session[x].closing
              /\ session'[x].detach = (session[x].detach \/ (x \in Evicted(i, u) /\ session[x].closing = "no"))
      BY <1>0, <1>6, DetachedIs DEF topicEvicts, IsLive
    <2>3. Evicted(i, u) \in SUBSET topics[i].sessions
      BY DEF Evicted
    <2> QED BY <1>0, <1>1, <2>1, <2>2, <2>3, DetachFits
  <1>7. CASE topicExits(i)
    <2>1. topics'[i].pc = "gone"
      BY <1>0, <1>7 DEF topicExits, InstType
    <2>2. \A x \in HSession :
              /\ session'[x].sub = session[x].sub /\ session'[x].closing = session[x].closing
              /\ session'[x].detach = (session[x].detach \/ (x \in topics[i].sessions /\ session[x].closing = "no"))
      BY <1>0, <1>7, DetachedIs DEF topicExits, IsLive
    <2>3. topics[i].sessions \in SUBSET topics[i].sessions
      OBVIOUS
    <2> QED BY <1>0, <1>1, <2>1, <2>2, <2>3, DetachFits
  <1> QED
    BY <1>4, <1>5, <1>6, <1>7 DEF topicLoop

\* Every step keeps what sessions and instances know of each other.
LEMMA SessionsFitStep == ASSUME HubInv, HubNext PROVE SessionsFit'
  <1> USE DEF envVars, flagVars
  <1>0. /\ HubTypes /\ Numbered /\ MarksFit /\ MapFits /\ SessionsFit /\ session \in SessionType
        /\ topics \in [Inst -> InstType] /\ hubTopics \in Inst \cup {0} /\ 0 \notin Inst
        /\ \A x \in HSession : session[x].detach => session[x].closing = "no"
    BY DEF HubInv, HubTypes, HubTypeOK, Inst, SessionType, SessionsFit, IsLive
  <1>1. ASSUME NEW s \in HSession, subscribe(s) \/ leave(s) \/ disconnect(s) \/ cleanUp(s)
        PROVE  SessionsFit'
    <2>1. topics' = topics
      BY <1>1 DEF subscribe, leave, disconnect, cleanUp
    <2>2. \A x \in HSession :
              /\ session'[x].sub = session[x].sub /\ (session'[x].detach => session[x].detach)
              /\ session'[x].closing = "no" => session[x].closing = "no" /\ session'[x].detach = session[x].detach
              /\ session'[x].detach => session'[x].closing = "no"
      BY <1>0, <1>1 DEF subscribe, leave, disconnect, cleanUp, SessionType, IsLive
    <2> QED BY <1>0, <2>1, <2>2, SameSessions DEF InstType
  <1>2. ASSUME NEW s \in HSession, detachSession(s) PROVE SessionsFit'
    <2>1. /\ topics' = topics /\ session[s].detach
          /\ \A x \in HSession : x # s => session'[x] = session[x]
          /\ session'[s].sub = 0 /\ ~session'[s].detach /\ session'[s].closing = session[s].closing
      BY <1>0, <1>2 DEF detachSession, SessionType
    <2>2. \A j \in Inst : topics[j].pc = "run" => s \notin topics[j].sessions
      BY <1>0, <2>1 DEF SessionsFit, IsLive
    <2> QED BY <1>0, <2>1, <2>2 DEF SessionsFit, IsLive, isInactive
  <1>3. CASE hubStep
    <2>1. \A x \in HSession :
              /\ session'[x].sub = session[x].sub /\ session'[x].detach = session[x].detach
              /\ session'[x].closing = session[x].closing
      <3>1. session' = session \/ session' = Answered(session, Head(hubJoin))
        BY <1>3 DEF hubStep, hubTakesJoin, hubTakesUnreg, hubTakesRehash, hubTakesShutdown, hubStops
      <3> QED BY <1>0, <3>1, AnsweredIs
    <2>2. ASSUME NEW i \in Inst
          PROVE  /\ topics'[i].pc = "run" => topics[i].pc = "run"
                 /\ topics[i].pc \in {"run", "gone"} =>
                       /\ topics'[i].pc = topics[i].pc /\ topics'[i].sessions = topics[i].sessions
                       /\ topics'[i].paused = topics[i].paused /\ (topics[i].deleted => topics'[i].deleted)
      <3>1. CASE hubTakesJoin
        <4>1. PICK s \in HSession :
                  \/ \E n \in Inst :
                        topics' = [topics EXCEPT ![n] = NewInst(s)] /\ topics[n].pc = "none"
                  \/ topics' = topics
          BY <3>1, JoinTaken
        <4> QED BY <1>0, <4>1 DEF NewInst
      <3>2. CASE hubTakesUnreg \/ hubTakesRehash
        BY <1>0, <3>2 DEF hubTakesUnreg, hubTakesRehash, TakeDown, InstType
      <3>3. CASE hubTakesShutdown \/ hubStops
        BY <1>0, <3>3 DEF hubTakesShutdown, hubStops, InstType
      <3> QED BY <1>3, <3>1, <3>2, <3>3 DEF hubStep
    <2> QED BY <1>0, <2>1, <2>2, SameSessions
  <1>4. ASSUME NEW i \in Inst, topicInit(i) PROVE SessionsFit'
    <2>1. \A x \in HSession :
              /\ session'[x].sub = session[x].sub /\ session'[x].detach = session[x].detach
              /\ session'[x].closing = session[x].closing
      <3>1. session' = session \/ session' = Answered(session, topics[i].starter)
        BY <1>4 DEF topicInit, topicInitDone, topicInitFails, InitEnds
      <3> QED BY <1>0, <3>1, AnsweredIs
    <2>2. /\ topics[i].pc = "init" /\ topics'[i].pc \in {"run", "gone"}
          /\ topics'[i].sessions = topics[i].sessions
          /\ \A j \in Inst : j # i => topics'[j] = topics[j]
      BY <1>0, <1>4 DEF topicInit, topicInitDone, topicInitFails, InitEnds, InstType
    <2>3. topics[i].sessions = {} /\ \A s \in HSession : session[s].sub # i
      BY <1>0, <2>2 DEF MarksFit, SessionsFit
    <2>4. ASSUME NEW s \in HSession
          PROVE  /\ session'[s].sub # 0 => topics'[session'[s].sub].pc \in {"run", "gone"}
                 /\ session'[s].detach => session'[s].sub # 0 /\ session'[s].closing = "no"
      <3>1. session[s].sub \in Inst \cup {0}
        BY <1>0 DEF SessionType
      <3> QED BY <1>0, <2>1, <2>2, <2>3, <3>1 DEF SessionsFit
    <2>5. ASSUME NEW s \in HSession, NEW j \in Inst, session'[s].closing = "no", topics'[j].pc = "run"
          PROVE  /\ s \in topics'[j].sessions => session'[s].sub = j /\ ~session'[s].detach
                 /\ ~(topics'[j].paused \/ topics'[j].deleted) /\ session'[s].sub = j /\ ~session'[s].detach =>
                       s \in topics'[j].sessions
      <3>1. CASE j = i
        BY <2>1, <2>2, <2>3, <3>1
      <3>2. CASE j # i
        BY <1>0, <2>1, <2>2, <2>5, <3>2 DEF SessionsFit, IsLive, isInactive
      <3> QED BY <3>1, <3>2
    <2> QED BY <2>4, <2>5 DEF SessionsFit, IsLive, isInactive
  <1>5. ASSUME NEW i \in Inst, killTimer(i) PROVE SessionsFit'
    <2>1. session' = session
      BY <1>5 DEF killTimer
    <2>2. \A j \in Inst :
              /\ topics'[j].pc = topics[j].pc /\ topics'[j].sessions = topics[j].sessions
              /\ topics'[j].paused = topics[j].paused /\ topics'[j].deleted = topics[j].deleted
      BY <1>0, <1>5 DEF killTimer, InstType
    <2> QED BY <1>0, <2>1, <2>2, SameSessions
  <1>6. CASE ringChanges \/ beginShutdown \/ closeCluster
    <2>1. UNCHANGED <<session, topics>>
      BY <1>6 DEF ringChanges, beginShutdown, closeCluster
    <2> QED BY <1>0, <2>1, SameSessions
  <1> QED
    BY <1>1, <1>2, <1>3, <1>4, <1>5, <1>6, LoopSessionsFit DEF HubNext

\* A step that takes nothing from a queue, and ends no load and no loop, lets no request go.
LEMMA HeldStays ==
    ASSUME NEW s, Held(s),
           Queued(hubJoin, s) => Queued(hubJoin', s),
           \A i \in Inst :
               /\ topics[i].pc = "init" => topics'[i].pc = "init" /\ topics'[i].starter = topics[i].starter
               /\ topics[i].pc = "run" =>
                     /\ topics'[i].pc = "run"
                     /\ Queued(reg[i], s) => Queued(reg'[i], s)
                     /\ Queued(unreg[i], s) => Queued(unreg'[i], s)
    PROVE  Held(s)'
  <1>1. CASE Queued(hubJoin, s)
    BY <1>1 DEF Held, Queued
  <1>2. ASSUME NEW i \in Inst, topics[i].pc = "init", topics[i].starter = s
        PROVE  Held(s)'
    BY <1>2 DEF Held
  <1>3. ASSUME NEW i \in Inst, topics[i].pc = "run", Queued(reg[i], s) \/ Queued(unreg[i], s)
        PROVE  Held(s)'
    <2>1. topics'[i].pc = "run" /\ (Queued(reg'[i], s) \/ Queued(unreg'[i], s))
      BY <1>3
    <2> QED BY <2>1 DEF Held, Queued
  <1> QED
    BY <1>1, <1>2, <1>3 DEF Held

\* The requests that sessions make, and those they have made, are held.
LEMMA ClientsHold ==
    ASSUME HubInv, NEW c \in HSession,
           subscribe(c) \/ leave(c) \/ detachSession(c) \/ disconnect(c) \/ cleanUp(c)
    PROVE  RequestsFit'
  <1> USE DEF envVars, flagVars
  <1>0. /\ HubTypes /\ SessionsFit /\ RequestsFit /\ session \in SessionType
        /\ hubJoin \in Seq(HSession) /\ reg \in [Inst -> Seq(HSession)] /\ unreg \in [Inst -> Seq(HSession)]
        /\ 0 \notin Inst
    BY DEF HubInv, HubTypes, HubTypeOK, SessionType, Inst
  <1>1. UNCHANGED <<topics, hubLoop, reg>> /\ \A x \in HSession : x \in stranded => x \in stranded'
    BY DEF subscribe, leave, detachSession, disconnect, cleanUp
  <1>2. \A x : Queued(hubJoin, x) => Queued(hubJoin', x)
    <2>1. hubJoin' = hubJoin \/ hubJoin' = Append(hubJoin, c)
      BY DEF subscribe, leave, detachSession, disconnect, cleanUp
    <2> QED BY <1>0, <2>1, QueueGrows
  <1>3. \A i \in Inst, x \in HSession : Queued(unreg[i], x) => Queued(unreg'[i], x)
    <2>1. \A i \in Inst : unreg'[i] = unreg[i] \/ unreg'[i] = Append(unreg[i], c)
      BY <1>0 DEF subscribe, leave, detachSession, disconnect, cleanUp
    <2> QED BY <1>0, <2>1, QueueGrows
  <1>4. \A x \in HSession : Held(x) => Held(x)'
    BY <1>1, <1>2, <1>3, HeldStays
  <1>5. \A x \in HSession : session'[x].request = session[x].request \/ (x = c /\ (subscribe(c) \/ leave(c)))
    BY <1>0 DEF subscribe, leave, detachSession, disconnect, cleanUp, SessionType
  <1>6. CASE subscribe(c)
    <2>1. Queued(hubJoin', c)
      BY <1>0, <1>6, QueueAppended DEF subscribe
    <2>2. Held(c)'
      BY <2>1 DEF Held, Queued
    <2> QED BY <1>0, <1>1, <1>4, <1>5, <1>6, <2>2 DEF RequestsFit
  <1>7. ASSUME leave(c), c \notin stranded' PROVE Held(c)'
    <2>1. /\ session[c].sub \in Inst /\ topics[session[c].sub].pc # "gone"
          /\ unreg' = [unreg EXCEPT ![session[c].sub] = Append(@, c)]
      BY <1>0, <1>7 DEF leave, SessionType
    <2>2. PICK i \in Inst : i = session[c].sub
      BY <2>1
    <2>3. topics'[i].pc = "run"
      BY <1>0, <1>1, <2>1, <2>2 DEF SessionsFit
    <2>4. Queued(unreg'[i], c)
      BY <1>0, <2>1, <2>2, QueueAppended
    <2> QED BY <2>3, <2>4 DEF Held, Queued
  <1> QED
    BY <1>0, <1>1, <1>4, <1>5, <1>6, <1>7 DEF RequestsFit

\* The Hub hands a join on, or answers it.
LEMMA HubHolds == ASSUME HubInv, hubStep PROVE RequestsFit'
  <1> USE DEF envVars, flagVars
  <1>0. /\ HubTypes /\ MarksFit /\ MapFits /\ RequestsFit /\ session \in SessionType
        /\ topics \in [Inst -> InstType] /\ hubTopics \in Inst \cup {0} /\ 0 \notin Inst
        /\ hubJoin \in Seq(HSession) /\ reg \in [Inst -> Seq(HSession)]
    BY DEF HubInv, HubTypes, HubTypeOK, Inst, SessionType
  <1>1. UNCHANGED <<stranded, unreg>> /\ (hubLoop' = "run" => hubLoop = "run")
    BY DEF hubStep, hubTakesJoin, hubTakesUnreg, hubTakesRehash, hubTakesShutdown, hubStops
  <1>2. CASE hubTakesJoin
    <2>1. PICK s \in HSession :
              /\ hubLoop = "run" /\ \A x : Queued(hubJoin, x) => x = s \/ Queued(hubJoin', x)
              /\ \/ \E n \in Inst :
                       /\ topics' = [topics EXCEPT ![n] = NewInst(s)]
                       /\ topics[n].pc = "none" /\ UNCHANGED <<session, reg>>
                 \/ UNCHANGED <<topics, reg>> /\ session' = Answered(session, s)
                 \/ /\ hubTopics # 0 /\ ~isInactive(hubTopics) /\ UNCHANGED <<topics, session>>
                    /\ reg' = [reg EXCEPT ![hubTopics] = Append(@, s)]
      BY <1>2, JoinTaken
    <2>2. ASSUME NEW x \in HSession, x # s, Held(x) PROVE Held(x)'
      <3>1. Queued(hubJoin, x) => Queued(hubJoin', x)
        BY <2>1, <2>2
      <3>2. \A i \in Inst : topics[i].pc # "none" => topics'[i] = topics[i]
        BY <1>0, <2>1
      <3>3. \A i \in Inst : Queued(reg[i], x) => Queued(reg'[i], x)
        <4>1. \A i \in Inst : reg'[i] = reg[i] \/ reg'[i] = Append(reg[i], s)
          BY <1>0, <2>1
        <4> QED BY <1>0, <4>1, QueueGrows
      <3> QED BY <1>1, <2>2, <3>1, <3>2, <3>3, HeldStays
    <2>3. \A x \in HSession : session'[x].request # "none" => session[x].request # "none"
      BY <1>0, <2>1, AnsweredIs
    <2>4. session'[s].request # "none" => Held(s)'
      <3>1. ASSUME NEW n \in Inst, topics' = [topics EXCEPT ![n] = NewInst(s)] PROVE Held(s)'
        <4>1. topics'[n].pc = "init" /\ topics'[n].starter = s
          BY <1>0, <3>1 DEF NewInst
        <4> QED BY <4>1 DEF Held
      <3>2. ASSUME session' = Answered(session, s) PROVE session'[s].request = "none"
        BY <1>0, <3>2, AnsweredIs
      <3>3. ASSUME hubTopics # 0, ~isInactive(hubTopics), topics' = topics,
                   reg' = [reg EXCEPT ![hubTopics] = Append(@, s)]
            PROVE  Held(s)'
        <4>1. PICK i \in Inst : i = hubTopics
          BY <1>0, <3>3
        <4>2. topics'[i].pc = "run"
          BY <1>0, <2>1, <3>3, <4>1 DEF MapFits, MarksFit, isInactive
        <4>3. Queued(reg'[i], s)
          BY <1>0, <3>3, <4>1, QueueAppended
        <4> QED BY <4>2, <4>3 DEF Held, Queued
      <3> QED BY <2>1, <3>1, <3>2, <3>3
    <2> QED BY <1>0, <1>1, <2>1, <2>2, <2>3, <2>4 DEF RequestsFit
  <1>3. CASE hubTakesUnreg \/ hubTakesRehash \/ hubTakesShutdown \/ hubStops
    <2>1. UNCHANGED <<session, hubJoin, reg>>
      BY <1>3 DEF hubTakesUnreg, hubTakesRehash, hubTakesShutdown, hubStops
    <2>2. \A i \in Inst : topics'[i].pc = topics[i].pc /\ topics'[i].starter = topics[i].starter
      BY <1>0, <1>3 DEF hubTakesUnreg, hubTakesRehash, hubTakesShutdown, hubStops, TakeDown, InstType
    <2>3. \A x \in HSession : Held(x) => Held(x)'
      BY <1>1, <2>1, <2>2, HeldStays
    <2> QED BY <1>0, <1>1, <2>1, <2>3 DEF RequestsFit
  <1> QED
    BY <1>2, <1>3 DEF hubStep

\* topicInit hands the join it was started for to its loop, answers it, or strands it.
LEMMA InitHolds == ASSUME HubInv, NEW i \in Inst, topicInit(i) PROVE RequestsFit'
  <1> USE DEF envVars, flagVars
  <1>0. /\ HubTypes /\ MarksFit /\ RequestsFit /\ session \in SessionType
        /\ topics \in [Inst -> InstType] /\ reg \in [Inst -> Seq(HSession)]
    BY DEF HubInv, HubTypes, HubTypeOK, SessionType
  <1>1. PICK s \in HSession : s = topics[i].starter
    BY <1>0 DEF MarksFit, topicInit, topicInitDone, topicInitFails
  <1>2. /\ UNCHANGED <<hubJoin, hubLoop, unreg>> /\ topics[i].pc = "init"
        /\ \A x \in HSession : x \in stranded => x \in stranded'
        /\ session' = session \/ session' = Answered(session, s)
    BY <1>1 DEF topicInit, topicInitDone, topicInitFails, InitEnds
  <1>3. \A j \in Inst : j # i => topics'[j] = topics[j]
    BY <1>0 DEF topicInit, topicInitDone, topicInitFails, InitEnds
  <1>4. \A j \in Inst, x \in HSession : Queued(reg[j], x) => Queued(reg'[j], x)
    <2>1. \A j \in Inst : reg'[j] = reg[j] \/ reg'[j] = Append(reg[j], s)
      BY <1>0, <1>1 DEF topicInit, topicInitDone, topicInitFails
    <2> QED BY <1>0, <2>1, QueueGrows
  <1>5. ASSUME NEW x \in HSession, x # s, Held(x) PROVE Held(x)'
    <2>1. CASE Queued(hubJoin, x)
      BY <1>2, <2>1 DEF Held, Queued
    <2>2. ASSUME NEW j \in Inst, topics[j].pc = "init", topics[j].starter = x PROVE Held(x)'
      <3>1. topics'[j] = topics[j]
        BY <1>1, <1>3, <1>5, <2>2
      <3> QED BY <2>2, <3>1 DEF Held
    <2>3. ASSUME NEW j \in Inst, topics[j].pc = "run", Queued(reg[j], x) \/ Queued(unreg[j], x) PROVE Held(x)'
      <3>1. topics'[j] = topics[j] /\ (Queued(reg'[j], x) \/ Queued(unreg'[j], x))
        BY <1>2, <1>3, <1>4, <2>3
      <3> QED BY <2>3, <3>1 DEF Held, Queued
    <2> QED BY <1>5, <2>1, <2>2, <2>3 DEF Held
  <1>6. \A x \in HSession : session'[x].request # "none" => session[x].request # "none"
    BY <1>0, <1>2, AnsweredIs
  <1>7. session'[s].request # "none" /\ s \notin stranded' => Held(s)'
    <2>1. CASE session' = Answered(session, s)
      BY <1>0, <1>1, <2>1, AnsweredIs
    <2>2. CASE topicInitDone(i) /\ topics' = [topics EXCEPT ![i].pc = "run", ![i].paused = FALSE]
      <3>1. topics'[i].pc = "run"
        BY <1>0, <2>2 DEF InstType
      <3>2. s # "none"
        BY <1>1, HubAssumption
      <3>3. reg' = [reg EXCEPT ![i] = Append(@, s)]
        BY <1>0, <1>1, <2>2, <3>1, <3>2 DEF topicInitDone, InitEnds, InstType
      <3>4. Queued(reg'[i], s)
        BY <1>0, <1>1, <3>3, QueueAppended
      <3> QED BY <3>1, <3>4 DEF Held, Queued
    <2>3. CASE topicInitFails(i)
      BY <1>1, <2>1, <2>3 DEF topicInitFails, InitEnds
    <2>4. CASE topicInitDone(i)
      BY <1>1, <2>1, <2>2, <2>4 DEF topicInitDone, InitEnds
    <2> QED BY <2>3, <2>4 DEF topicInit
  <1> QED
    BY <1>0, <1>2, <1>5, <1>6, <1>7 DEF RequestsFit

\* The loop of an instance answers what it takes; what it leaves behind is stranded.
LEMMA LoopHolds == ASSUME HubInv, NEW i \in Inst, topicLoop(i) PROVE RequestsFit'
  <1> USE DEF envVars, flagVars
  <1>0. /\ HubTypes /\ RequestsFit /\ session \in SessionType
        /\ topics \in [Inst -> InstType]
        /\ reg \in [Inst -> Seq(HSession)] /\ unreg \in [Inst -> Seq(HSession)]
    BY DEF HubInv, HubTypes, HubTypeOK, SessionType
  <1>1. /\ UNCHANGED <<hubJoin, hubLoop>> /\ topics[i].pc = "run"
        /\ \A x \in HSession : x \in stranded => x \in stranded'
    BY DEF topicLoop, registerSession, unregisterSession, topicExits, topicEvicts
  <1>2. ASSUME NEW s \in HSession, session'[s].request = "none",
               \A x \in HSession : session'[x].request \in {"none", session[x].request},
               \A j \in Inst : topics'[j].pc = topics[j].pc /\ topics'[j].starter = topics[j].starter,
               \A j \in Inst, x \in HSession : x # s =>
                   (Queued(reg[j], x) => Queued(reg'[j], x)) /\ (Queued(unreg[j], x) => Queued(unreg'[j], x))
        PROVE  RequestsFit'
    <2>1. \A x \in HSession : x # s /\ Held(x) => Held(x)'
      BY <1>1, <1>2, HeldStays
    <2> QED BY <1>0, <1>1, <1>2, <2>1 DEF RequestsFit
  <1>3. CASE registerSession(i)
    <2> DEFINE s == Head(reg[i])
    <2>1. s \in HSession /\ \A x : Queued(reg[i], x) => x = s \/ Queued(Tail(reg[i]), x)
      BY <1>0, <1>3, HeadTaken DEF registerSession
    <2>2. \A j \in Inst : reg'[j] = IF j = i THEN Tail(reg[i]) ELSE reg[j]
      BY <1>0, <1>3 DEF registerSession
    <2>3. unreg' = unreg
      BY <1>3 DEF registerSession
    <2>4. \A j \in Inst : topics'[j].pc = topics[j].pc /\ topics'[j].starter = topics[j].starter
      <3>1. topics'[i].pc = topics[i].pc /\ topics'[i].starter = topics[i].starter
        BY <1>0, <1>3 DEF registerSession, InstType
      <3>2. \A j \in Inst : j # i => topics'[j] = topics[j]
        BY <1>0, <1>3 DEF registerSession
      <3> QED BY <3>1, <3>2
    <2>5. session'[s].request = "none" /\ \A x \in HSession : session'[x].request \in {"none", session[x].request}
      <3> DEFINE tt == [session EXCEPT ![s].sub = i]
      <3>1. tt \in SessionType /\ \A x \in HSession : tt[x].request = session[x].request
        BY <1>0, <2>1 DEF SessionType
      <3>2. CASE session' = Answered(session, s)
        BY <1>0, <2>1, <3>2, AnsweredIs
      <3>3. CASE session' = Answered(tt, s)
        <4> HIDE DEF tt
        <4>1. \A x \in HSession : Answered(tt, s)[x].request \in {"none", tt[x].request}
          BY <3>1, AnsweredIs
        <4> QED BY <2>1, <3>1, <3>3, <4>1, AnsweredIs
      <3>4. ASSUME NEW out, session' = Answered(Detached(out), s)
            PROVE  /\ session'[s].request = "none"
                   /\ \A x \in HSession : session'[x].request \in {"none", session[x].request}
        BY <1>0, <2>1, <3>4, DetachedAnswered
      <3> QED BY <1>3, <3>2, <3>3, <3>4 DEF registerSession
    <2> QED BY <1>2, <2>1, <2>2, <2>3, <2>4, <2>5
  <1>4. CASE unregisterSession(i)
    <2> DEFINE s == Head(unreg[i])
    <2>1. s \in HSession /\ \A x : Queued(unreg[i], x) => x = s \/ Queued(Tail(unreg[i]), x)
      BY <1>0, <1>4, HeadTaken DEF unregisterSession
    <2>2. \A j \in Inst : unreg'[j] = IF j = i THEN Tail(unreg[i]) ELSE unreg[j]
      BY <1>0, <1>4 DEF unregisterSession
    <2>3. reg' = reg
      BY <1>4 DEF unregisterSession
    <2>4. \A j \in Inst : topics'[j].pc = topics[j].pc /\ topics'[j].starter = topics[j].starter
      <3>1. PICK out : topics' = [topics EXCEPT ![i].sessions = @ \ out,
                                                ![i].timer = @ \/ topics[i].sessions \ out = {}]
        BY <1>4 DEF unregisterSession
      <3>2. topics'[i].pc = topics[i].pc /\ topics'[i].starter = topics[i].starter
        BY <1>0, <3>1 DEF InstType
      <3>3. \A j \in Inst : j # i => topics'[j] = topics[j]
        BY <1>0, <3>1
      <3> QED BY <3>2, <3>3
    <2>5. session'[s].request = "none" /\ \A x \in HSession : session'[x].request \in {"none", session[x].request}
      <3> DEFINE tt == [session EXCEPT ![s].sub = 0]
      <3>1. tt \in SessionType /\ \A x \in HSession : tt[x].request = session[x].request
        BY <1>0, <2>1 DEF SessionType
      <3>2. CASE session' = Answered(session, s)
        BY <1>0, <2>1, <3>2, AnsweredIs
      <3>3. CASE session' = Answered(tt, s)
        <4> HIDE DEF tt
        <4>1. \A x \in HSession : Answered(tt, s)[x].request \in {"none", tt[x].request}
          BY <3>1, AnsweredIs
        <4> QED BY <2>1, <3>1, <3>3, <4>1, AnsweredIs
      <3>4. CASE session' = Answered(Detached(Evicted(i, HUser[s])), s)
        BY <1>0, <2>1, <3>4, DetachedAnswered
      <3> QED BY <1>4, <3>2, <3>3, <3>4 DEF unregisterSession
    <2> QED BY <1>2, <2>1, <2>2, <2>3, <2>4, <2>5
  <1>5. CASE topicExits(i)
    <2>1. UNCHANGED <<reg, unreg>> /\ \A j \in Inst : j # i => topics'[j] = topics[j]
      BY <1>0, <1>5 DEF topicExits
    <2>2. \A x \in HSession : session'[x].request = session[x].request
      BY <1>0, <1>5, DetachedIs DEF topicExits
    <2>3. \A x \in HSession : session[x].request # "none" /\ (Queued(reg[i], x) \/ Queued(unreg[i], x)) =>
              x \in stranded'
      BY <1>5 DEF topicExits, Queued
    <2>4. ASSUME NEW x \in HSession, session'[x].request # "none", x \notin stranded', Held(x) PROVE Held(x)'
      <3>1. CASE Queued(hubJoin, x)
        BY <1>1, <3>1 DEF Held, Queued
      <3>2. ASSUME NEW j \in Inst, topics[j].pc = "init", topics[j].starter = x PROVE Held(x)'
        <4>1. topics'[j] = topics[j]
          BY <1>1, <2>1, <3>2
        <4> QED BY <3>2, <4>1 DEF Held
      <3>3. ASSUME NEW j \in Inst, topics[j].pc = "run", Queued(reg[j], x) \/ Queued(unreg[j], x) PROVE Held(x)'
        <4>1. j # i
          BY <2>2, <2>3, <2>4, <3>3
        <4>2. topics'[j] = topics[j] /\ (Queued(reg'[j], x) \/ Queued(unreg'[j], x))
          BY <2>1, <3>3, <4>1
        <4> QED BY <3>3, <4>2 DEF Held, Queued
      <3> QED BY <2>4, <3>1, <3>2, <3>3 DEF Held
    <2> QED BY <1>0, <1>1, <2>2, <2>4 DEF RequestsFit
  <1>6. ASSUME NEW u, topicEvicts(i, u) PROVE RequestsFit'
    <2>1. UNCHANGED <<reg, unreg, stranded>> /\ \A x \in HSession : session'[x].request = session[x].request
      BY <1>0, <1>6, DetachedIs DEF topicEvicts
    <2>2. \A j \in Inst : topics'[j].pc = topics[j].pc /\ topics'[j].starter = topics[j].starter
      BY <1>0, <1>6 DEF topicEvicts, InstType
    <2>3. \A x \in HSession : Held(x) => Held(x)'
      BY <1>1, <2>1, <2>2, HeldStays
    <2> QED BY <1>0, <1>1, <2>1, <2>3 DEF RequestsFit
  <1> QED
    BY <1>3, <1>4, <1>5, <1>6 DEF topicLoop

\* Every step keeps the requests held.
LEMMA RequestsStep == ASSUME HubInv, HubNext PROVE RequestsFit'
  <1>1. ASSUME \/ \E i \in Inst : killTimer(i)
               \/ ringChanges \/ beginShutdown \/ closeCluster
        PROVE  RequestsFit'
    <2> USE DEF envVars, flagVars
    <2>1. RequestsFit /\ topics \in [Inst -> InstType]
      BY DEF HubInv, HubTypes, HubTypeOK
    <2>2. UNCHANGED <<session, hubJoin, hubLoop, reg, unreg, stranded>>
      BY <1>1 DEF killTimer, ringChanges, beginShutdown, closeCluster
    <2>3. \A j \in Inst : topics'[j].pc = topics[j].pc /\ topics'[j].starter = topics[j].starter
      BY <1>1, <2>1 DEF killTimer, ringChanges, beginShutdown, closeCluster, InstType
    <2>4. \A x \in HSession : Held(x) => Held(x)'
      BY <2>2, <2>3, HeldStays
    <2> QED BY <2>1, <2>2, <2>4 DEF RequestsFit
  <1> QED
    BY <1>1, ClientsHold, HubHolds, InitHolds, LoopHolds DEF HubNext

\* Every step keeps those heard that the shutdown and the control plane wait for.
LEMMA WaitsStep == ASSUME HubInv, HubNext PROVE WaitsFit'
  <1> USE DEF envVars, flagVars, WaitsFit, ShutdownIsHeard
  <1>0. /\ HubTypes /\ MarksFit /\ MapFits /\ WaitsFit /\ hubWaits \subseteq Inst
        /\ topics \in [Inst -> InstType] /\ hubTopics \in Inst \cup {0} /\ 0 \notin Inst
    BY DEF HubInv, HubTypes, HubTypeOK, Inst
  <1>1. ASSUME NEW s \in HSession,
               subscribe(s) \/ leave(s) \/ detachSession(s) \/ disconnect(s) \/ cleanUp(s)
        PROVE  WaitsFit'
    BY <1>0, <1>1 DEF subscribe, leave, detachSession, disconnect, cleanUp
  <1>2. CASE hubTakesJoin
    <2>1. UNCHANGED <<hubLoop, hubWaits, forgotten, shuttingDown, rehashing>> /\ hubLoop = "run"
      BY <1>2 DEF hubTakesJoin
    <2>2. \A j \in Inst : topics[j].pc # "none" => topics'[j] = topics[j]
      <3>1. PICK s \in HSession :
                \/ \E n \in Inst : topics' = [topics EXCEPT ![n] = NewInst(s)] /\ topics[n].pc = "none"
                \/ topics' = topics
        BY <1>2, JoinTaken
      <3> QED BY <1>0, <3>1
    <2> QED BY <1>0, <2>1, <2>2
  <1>3. CASE hubTakesUnreg \/ hubTakesRehash
    <2>1. /\ UNCHANGED <<hubLoop, hubWaits, forgotten, shuttingDown>> /\ hubLoop = "run"
          /\ (rehashing' => rehashing)
      BY <1>3 DEF hubTakesUnreg, hubTakesRehash
    <2>2. hubWaits \subseteq forgotten
      BY <1>0, <2>1 DEF MarksFit
    <2> QED BY <1>0, <2>1, <2>2
  <1>4. CASE hubTakesShutdown
    <2>1. /\ UNCHANGED <<forgotten, shuttingDown, rehashing>> /\ hubLoop = "run" /\ shuttingDown = "cluster"
      BY <1>4 DEF hubTakesShutdown
    <2>2. CASE hubTopics = 0
      BY <1>0, <1>4, <2>1, <2>2 DEF hubTakesShutdown, MarksFit
    <2>3. ASSUME NEW k \in Inst, k = hubTopics PROVE WaitsFit'
      <3>1. topics'[k].exit = "shutdown" /\ topics'[k].pc = topics[k].pc /\ hubWaits' = {k}
        BY <1>0, <1>4, <2>3 DEF hubTakesShutdown, InstType
      <3>2. topics[k].pc \in {"init", "run"}
        BY <1>0, <2>1, <2>3 DEF MapFits
      <3> QED BY <1>0, <2>1, <3>1, <3>2
    <2> QED BY <1>0, <2>2, <2>3
  <1>5. CASE hubStops
    BY <1>0, <1>5 DEF hubStops
  <1>6. ASSUME NEW i \in Inst, topicInitDone(i) PROVE WaitsFit'
    <2>1. /\ UNCHANGED <<hubLoop, hubWaits, shuttingDown, rehashing>>
          /\ \A j \in Inst : j # i => topics'[j] = topics[j]
          /\ topics'[i].exit = topics[i].exit /\ \A j \in forgotten : j \in forgotten'
      BY <1>0, <1>6 DEF topicInitDone, InitEnds, InstType
    <2>2. i \in hubWaits \ forgotten' => topics'[i].pc \in {"init", "run"}
      BY <1>0, <1>6, <2>1 DEF topicInitDone, MarksFit, InitEnds, InstType
    <2> QED BY <1>0, <2>1, <2>2
  <1>7. ASSUME NEW i \in Inst, topicInitFails(i) \/ topicExits(i) PROVE WaitsFit'
    <2>1. /\ UNCHANGED <<hubLoop, shuttingDown, rehashing, forgotten>> /\ hubWaits' = hubWaits \ {i}
          /\ \A j \in Inst : j # i => topics'[j] = topics[j]
      BY <1>0, <1>7 DEF topicInitFails, topicExits, InitEnds
    <2> QED BY <1>0, <2>1
  <1>8. ASSUME NEW i \in Inst,
               \/ registerSession(i) \/ unregisterSession(i) \/ killTimer(i)
               \/ \E s \in HSession : topicEvicts(i, HUser[s])
        PROVE  WaitsFit'
    <2>1. UNCHANGED <<hubLoop, hubWaits, shuttingDown, rehashing, forgotten>>
      BY <1>8 DEF registerSession, unregisterSession, killTimer, topicEvicts
    <2>2. \A j \in Inst : topics'[j].pc = topics[j].pc /\ topics'[j].exit = topics[j].exit
      BY <1>0, <1>8 DEF registerSession, unregisterSession, killTimer, topicEvicts, InstType
    <2> QED BY <1>0, <2>1, <2>2
  <1>9. CASE ringChanges \/ beginShutdown \/ closeCluster
    BY <1>0, <1>9 DEF ringChanges, beginShutdown, closeCluster
  <1> QED
    BY <1>1, <1>2, <1>3, <1>4, <1>5, <1>6, <1>7, <1>8, <1>9 DEF HubNext, hubStep, topicInit, topicLoop

\* The invariant is inductive.
LEMMA HubStepInv == HubInv /\ [HubNext]_hubVars => HubInv'
  <1>1. ASSUME HubInv, HubNext PROVE HubInv'
    BY <1>1, HubTypesStep, InstancesStep, SessionsFitStep, RequestsStep, WaitsStep DEF HubInv
  <1>2. ASSUME HubInv, UNCHANGED hubVars PROVE HubInv'
    BY <1>2 DEF HubInv, hubVars, HubTypes, HubTypeOK, Numbered, MarksFit, MapFits, SessionsFit, RequestsFit,
                WaitsFit, ShutdownIsHeard, Held, Queued, IsLive, isInactive
  <1> QED
    BY <1>1, <1>2

\* Loading, idle time-outs, rehashing and the shutdown leave at most one active instance of a
\* topic, no request without someone who will answer, and nobody waiting for who is gone.
THEOREM HubIsSafe == HubSpec => []HubSafe
  <1>1. HubInv => OneActiveInstance
    BY DEF HubInv, MapFits, MarksFit, OneActiveInstance, isInactive
  <1>2. HubInv => SessionsAreServed
    <2>1. HubInv => RequestsAreHeld
      BY DEF HubInv, RequestsFit, RequestsAreHeld, Held, Queued
    <2>2. HubInv => AttachedBothWays
      BY DEF HubInv, SessionsFit, AttachedBothWays
    <2> QED BY <2>1, <2>2 DEF SessionsAreServed
  <1>3. HubInv => WaitsAreHeard
    BY DEF HubInv, HubTypes, HubTypeOK, WaitsFit, WaitsAreHeard, RehashIsHeard
  <1>4. HubInv => HubSafe
    BY <1>1, <1>2, <1>3 DEF HubSafe
  <1> QED
    BY HubInitInv, HubStepInv, <1>4, PTL DEF HubSpec

-----------------------------------------------------------------------------
(* The outgoing queue (SessionQueue).                                      *)
(*                                                                         *)
(* A message is in one place at a time, so that what one action takes out  *)
(* of the count is exactly what another has put in; and what was written,  *)
(* gathered and queued is one line, which grows at its end and loses only  *)
(* what the clean-up takes.                                                *)

\* Types of all variables.
QueueTypes ==
    /\ framing \in {"none", "single", "batch", "binary"} /\ pendingBytes \in 0 .. ByteLimit
    /\ qItems \in Seq(Item)
    /\ producer \in [Producer -> [pc : {"idle", "reserve", "send"}, item : Item]]
    /\ qWriter \in [pc : {"select", "release", "gather", "write", "gone"}, batch : Seq(Nat), item : Item]
    /\ qTerminating \in BOOLEAN /\ mixed \in BOOLEAN /\ items \in 0 .. MaxItem
    /\ queued \in Seq(Nat) /\ sent \in Seq(Nat)

\* A message is in one place at a time, and its number is its own.
IsBusy(p) == producer[p].pc # "idle"
OnePlaceOnly ==
    /\ \A i \in 1 .. Len(qItems) : qItems[i].id <= items
    /\ \A i, j \in 1 .. Len(qItems) : i # j => qItems[i].id # qItems[j].id
    /\ \A p \in Producer : IsBusy(p) =>
          /\ producer[p].item.id <= items
          /\ \A q \in Producer : q # p /\ IsBusy(q) => producer[q].item.id # producer[p].item.id
          /\ \A i \in 1 .. Len(qItems) : qItems[i].id # producer[p].item.id
          /\ qWriter.pc = "release" => qWriter.item.id # producer[p].item.id
    /\ qWriter.pc = "release" =>
          /\ qWriter.item.id <= items
          /\ \A i \in 1 .. Len(qItems) : qItems[i].id # qWriter.item.id

\* The count is that of the messages underway, and none is underway uncounted.
CountFits ==
    /\ framing = "none" => ~mixed
    /\ ~mixed => IsFiniteSet(Units(Counted)) /\ pendingBytes = Cardinality(Units(Counted))

\* What is written, in the write loop's hands, and in the channel, as one sequence.
Hand == qWriter.batch \o (IF qWriter.pc = "release" THEN <<qWriter.item.id>> ELSE <<>>)
Ids(q) == [i \in DOMAIN q |-> q[i].id]
Waiting == Ids(qItems)
Line == (sent \o Hand) \o Waiting

\* A sequence is what another one gives when some of it is left out.
IsPartOf(s, t) ==
    /\ \A i \in 1 .. Len(s) : \E k \in 1 .. Len(t) : t[k] = s[i]
    /\ \A i, j \in 1 .. Len(s) : i < j => \E k, l \in 1 .. Len(t) : k < l /\ t[k] = s[i] /\ t[l] = s[j]
LineFits ==
    /\ qWriter.pc = "select" => qWriter.batch = <<>>
    /\ IsPartOf(Line, queued) /\ (~qTerminating => queued = Line)

\* The inductive invariant.
QueueInv == QueueTypes /\ OnePlaceOnly /\ CountFits /\ LineFits

\* A message has a size, whatever the framing.
LEMMA SizeIs == ASSUME NEW m \in Item, NEW f PROVE Size(m, f) \in Nat /\ Size(m, f) > 0
  BY DEF Item, Size

\* One more message adds its units.
LEMMA UnitsAdded ==
    ASSUME NEW S, NEW m, m \notin S, Size(m, framing) \in Nat, IsFiniteSet(Units(S))
    PROVE  /\ IsFiniteSet(Units(S \cup {m}))
           /\ Cardinality(Units(S \cup {m})) = Cardinality(Units(S)) + Size(m, framing)
  <1> DEFINE k == Size(m, framing)
             new == {m} \X (1 .. k)
  <1>1. IsFiniteSet(new) /\ Cardinality(new) = k
    <2>1. IsFiniteSet({m}) /\ Cardinality({m}) = 1
      BY FS_Singleton
    <2>2. IsFiniteSet(1 .. k) /\ Cardinality(1 .. k) = k
      BY FS_Interval
    <2>3. IsFiniteSet(new) /\ Cardinality(new) = Cardinality({m}) * Cardinality(1 .. k)
      BY <2>1, <2>2, FS_Product
    <2> HIDE DEF k, new
    <2>4. k \in Nat
      BY DEF k
    <2> QED BY <2>1, <2>2, <2>3, <2>4
  <1>2. Units(S \cup {m}) = Units(S) \cup new
    BY DEF Units
  <1>3. Units(S) \cap new = {}
    BY DEF Units
  <1> HIDE DEF k, new
  <1>4. IsFiniteSet(Units(S) \cup new)
        /\ Cardinality(Units(S) \cup new) = Cardinality(Units(S)) + Cardinality(new) - Cardinality({})
    BY <1>1, <1>3, FS_Union
  <1>5. Cardinality({}) = 0 /\ Cardinality(Units(S)) \in Nat
    BY FS_EmptySet, FS_CardinalityType
  <1>6. k \in Nat /\ k = Size(m, framing)
    BY DEF k
  <1>7. Cardinality(Units(S) \cup new) = Cardinality(Units(S)) + k
    BY <1>1, <1>4, <1>5, <1>6
  <1> QED
    BY <1>2, <1>4, <1>6, <1>7

\* One message less takes its units away.
LEMMA UnitsRemoved ==
    ASSUME NEW S, NEW m \in S, Size(m, framing) \in Nat, IsFiniteSet(Units(S))
    PROVE  /\ IsFiniteSet(Units(S \ {m}))
           /\ Less(Cardinality(Units(S)), Size(m, framing)) = Cardinality(Units(S \ {m}))
  <1> DEFINE R == S \ {m}
  <1>1. IsFiniteSet(Units(R))
    <2>1. Units(R) \subseteq Units(S)
      BY DEF Units
    <2> QED BY <2>1, FS_Subset
  <1>2. R \cup {m} = S /\ m \notin R
    OBVIOUS
  <1> HIDE DEF R
  <1>3. Cardinality(Units(S)) = Cardinality(Units(R)) + Size(m, framing)
    BY <1>1, <1>2, UnitsAdded
  <1>4. Cardinality(Units(R)) \in Nat
    BY <1>1, FS_CardinalityType
  <1> QED
    BY <1>1, <1>3, <1>4 DEF Less, R

\* The messages of a queue.
Messages(q) == {q[i] : i \in DOMAIN q}

\* What is appended to a queue is added to its messages.
LEMMA RangeOfAppend ==
    ASSUME NEW S, NEW q \in Seq(S), NEW x \in S
    PROVE  Messages(Append(q, x)) = Messages(q) \cup {x}
  <1>1. Len(q) \in Nat /\ DOMAIN Append(q, x) = 1 .. Len(q) + 1 /\ DOMAIN q = 1 .. Len(q)
    OBVIOUS
  <1>2. Append(q, x)[Len(q) + 1] = x /\ \A i \in 1 .. Len(q) : Append(q, x)[i] = q[i]
    OBVIOUS
  <1>3. ASSUME NEW i \in 1 .. Len(q) + 1 PROVE i = Len(q) + 1 \/ i \in 1 .. Len(q)
    BY <1>1
  <1>4. Len(q) + 1 \in 1 .. Len(q) + 1 /\ 1 .. Len(q) \subseteq 1 .. Len(q) + 1
    BY <1>1
  <1> QED
    BY <1>1, <1>2, <1>3, <1>4 DEF Messages

\* ... of one whose head is taken.
LEMMA RangeOfTail ==
    ASSUME NEW S, NEW q \in Seq(S), q # <<>>
    PROVE  Messages(q) = Messages(Tail(q)) \cup {Head(q)}
  <1>1. Len(q) \in Nat /\ Len(q) > 0 /\ DOMAIN q = 1 .. Len(q) /\ DOMAIN Tail(q) = 1 .. Len(q) - 1
    OBVIOUS
  <1>2. Head(q) = q[1] /\ \A i \in 1 .. Len(q) - 1 : Tail(q)[i] = q[i + 1] /\ i + 1 \in 1 .. Len(q)
    BY <1>1
  <1>3. ASSUME NEW i \in 1 .. Len(q) PROVE i = 1 \/ (i - 1 \in 1 .. Len(q) - 1 /\ Tail(q)[i - 1] = q[i])
    BY <1>1
  <1>4. 1 \in 1 .. Len(q)
    BY <1>1
  <1> DEFINE r == Tail(q)
  <1>5. r = Tail(q)
    OBVIOUS
  <1> HIDE DEF r
  <1>6. ASSUME NEW x, x \in Messages(q) PROVE x \in Messages(r) \cup {Head(q)}
    <2>1. PICK i \in 1 .. Len(q) : x = q[i]
      BY <1>1, <1>6 DEF Messages
    <2>2. i = 1 \/ (i - 1 \in DOMAIN r /\ r[i - 1] = q[i])
      BY <1>1, <1>3, <1>5
    <2> QED BY <1>2, <2>1, <2>2 DEF Messages
  <1>7. ASSUME NEW x, x \in Messages(r) \cup {Head(q)} PROVE x \in Messages(q)
    <2>1. CASE x = Head(q)
      BY <1>1, <1>2, <1>4, <2>1 DEF Messages
    <2>2. CASE x # Head(q)
      <3>1. PICK i \in DOMAIN r : x = r[i]
        BY <1>7, <2>2 DEF Messages
      <3>2. r[i] = q[i + 1] /\ i + 1 \in DOMAIN q
        BY <1>1, <1>2, <1>5, <3>1
      <3> QED BY <3>1, <3>2 DEF Messages
    <2> QED BY <2>1, <2>2
  <1> QED
    BY <1>5, <1>6, <1>7

\* A sequence is part of itself.
LEMMA PartOfItself == ASSUME NEW S, NEW s \in Seq(S) PROVE IsPartOf(s, s)
  BY DEF IsPartOf

\* What is appended to both sequences ...
LEMMA PartAppended ==
    ASSUME NEW S, NEW s \in Seq(S), NEW t \in Seq(S), NEW x \in S, IsPartOf(s, t)
    PROVE  IsPartOf(Append(s, x), Append(t, x))
  <1> DEFINE s1 == Append(s, x)
             t1 == Append(t, x)
  <1>1. /\ Len(s) \in Nat /\ Len(t) \in Nat /\ Len(s1) = Len(s) + 1 /\ Len(t1) = Len(t) + 1
        /\ s1[Len(s) + 1] = x /\ t1[Len(t) + 1] = x
        /\ \A i \in 1 .. Len(s) : s1[i] = s[i]
        /\ \A i \in 1 .. Len(t) : t1[i] = t[i]
    OBVIOUS
  <1> HIDE DEF s1, t1
  <1>2. ASSUME NEW i \in 1 .. Len(s1) PROVE \E k \in 1 .. Len(t1) : t1[k] = s1[i]
    <2>1. CASE i = Len(s) + 1
      BY <1>1, <2>1
    <2>2. CASE i # Len(s) + 1
      <3>1. i \in 1 .. Len(s)
        BY <1>1, <2>2
      <3>2. PICK k \in 1 .. Len(t) : t[k] = s[i]
        BY <3>1 DEF IsPartOf
      <3> QED BY <1>1, <3>1, <3>2
    <2> QED BY <2>1, <2>2
  <1>3. ASSUME NEW i \in 1 .. Len(s1), NEW j \in 1 .. Len(s1), i < j
        PROVE  \E k, l \in 1 .. Len(t1) : k < l /\ t1[k] = s1[i] /\ t1[l] = s1[j]
    <2>0. i \in 1 .. Len(s)
      BY <1>1, <1>3
    <2>1. CASE j = Len(s) + 1
      <3>1. PICK k \in 1 .. Len(t) : t[k] = s[i]
        BY <2>0 DEF IsPartOf
      <3>2. k \in 1 .. Len(t1) /\ Len(t) + 1 \in 1 .. Len(t1) /\ k < Len(t) + 1
        BY <1>1
      <3> QED BY <1>1, <2>0, <2>1, <3>1, <3>2
    <2>2. CASE j # Len(s) + 1
      <3>1. j \in 1 .. Len(s)
        BY <1>1, <2>2
      <3>2. PICK k, l \in 1 .. Len(t) : k < l /\ t[k] = s[i] /\ t[l] = s[j]
        BY <1>3, <2>0, <3>1 DEF IsPartOf
      <3>3. k \in 1 .. Len(t1) /\ l \in 1 .. Len(t1)
        BY <1>1
      <3> QED BY <1>1, <2>0, <3>1, <3>2, <3>3
    <2> QED BY <2>1, <2>2
  <1> QED
    BY <1>2, <1>3 DEF IsPartOf, s1, t1

\* ... and what is left out of the middle of the first one keep it a part of the second.
LEMMA PartLeftOut ==
    ASSUME NEW S, NEW h \in Seq(S), NEW q \in Seq(S), q # <<>>, NEW t \in Seq(S), IsPartOf(h \o q, t)
    PROVE  IsPartOf(h \o Tail(q), t)
  <1> DEFINE s == h \o q
             r == h \o Tail(q)
             At(i) == IF i <= Len(h) THEN i ELSE i + 1
  <1>1. /\ Len(h) \in Nat /\ Len(q) \in Nat /\ Len(q) > 0 /\ Tail(q) \in Seq(S) /\ Len(Tail(q)) = Len(q) - 1
        /\ \A i \in 1 .. Len(q) - 1 : Tail(q)[i] = q[i + 1]
    OBVIOUS
  <1>2. /\ Len(s) = Len(h) + Len(q) /\ Len(r) = Len(h) + Len(q) - 1
        /\ \A i \in 1 .. Len(h) : s[i] = h[i] /\ r[i] = h[i]
        /\ \A i \in Len(h) + 1 .. Len(h) + Len(q) : s[i] = q[i - Len(h)]
        /\ \A i \in Len(h) + 1 .. Len(h) + Len(q) - 1 : r[i] = Tail(q)[i - Len(h)]
    BY <1>1
  <1>3. ASSUME NEW i \in 1 .. Len(r) PROVE At(i) \in 1 .. Len(s) /\ s[At(i)] = r[i]
    <2>1. CASE i <= Len(h)
      BY <1>1, <1>2, <2>1
    <2>2. CASE ~(i <= Len(h))
      <3>1. i \in Len(h) + 1 .. Len(h) + Len(q) - 1 /\ i + 1 \in Len(h) + 1 .. Len(h) + Len(q)
        BY <1>1, <1>2, <2>2
      <3>2. i - Len(h) \in 1 .. Len(q) - 1 /\ (i + 1) - Len(h) = (i - Len(h)) + 1
        BY <1>1, <3>1
      <3>3. s[i + 1] = q[(i + 1) - Len(h)] /\ r[i] = Tail(q)[i - Len(h)]
        BY <1>2, <3>1
      <3>4. s[i + 1] = r[i]
        BY <1>1, <3>2, <3>3
      <3>5. i + 1 \in 1 .. Len(s)
        BY <1>1, <1>2, <3>1
      <3> QED BY <2>2, <3>4, <3>5
    <2> QED BY <2>1, <2>2
  <1>4. ASSUME NEW i \in 1 .. Len(r), NEW j \in 1 .. Len(r), i < j PROVE At(i) < At(j)
    BY <1>1, <1>2, <1>4
  <1> HIDE DEF s, r, At
  <1>5. IsPartOf(s, t)
    BY DEF s
  <1>6. ASSUME NEW i \in 1 .. Len(r) PROVE \E k \in 1 .. Len(t) : t[k] = r[i]
    <2>1. At(i) \in 1 .. Len(s) /\ s[At(i)] = r[i]
      BY <1>3
    <2> QED BY <1>5, <2>1 DEF IsPartOf
  <1>7. ASSUME NEW i \in 1 .. Len(r), NEW j \in 1 .. Len(r), i < j
        PROVE  \E k, l \in 1 .. Len(t) : k < l /\ t[k] = r[i] /\ t[l] = r[j]
    <2>1. /\ At(i) \in 1 .. Len(s) /\ s[At(i)] = r[i]
          /\ At(j) \in 1 .. Len(s) /\ s[At(j)] = r[j] /\ At(i) < At(j)
      BY <1>3, <1>4, <1>7
    <2> QED BY <1>5, <2>1 DEF IsPartOf
  <1>8. IsPartOf(r, t)
    BY <1>6, <1>7 DEF IsPartOf
  <1> QED
    BY <1>8 DEF r


\* The numbers of a queue follow it.
LEMMA IdsAre ==
    ASSUME NEW q \in Seq(Item)
    PROVE  /\ Ids(q) \in Seq(Nat) /\ Len(Ids(q)) = Len(q)
           /\ \A x \in Item : Ids(Append(q, x)) = Append(Ids(q), x.id)
           /\ q # <<>> => Ids(q) # <<>> /\ Head(Ids(q)) = Head(q).id /\ Ids(Tail(q)) = Tail(Ids(q))
  <1>1. ASSUME NEW i \in 1 .. Len(q) PROVE q[i].id \in Nat
    <2>1. q[i] \in Item
      OBVIOUS
    <2> QED BY <2>1 DEF Item
  <1>2. Ids(q) \in [1 .. Len(q) -> Nat] /\ Len(q) \in Nat
    <2>1. Len(q) \in Nat /\ DOMAIN q = 1 .. Len(q)
      OBVIOUS
    <2> QED BY <1>1, <2>1 DEF Ids
  <1>3. Ids(q) \in Seq(Nat) /\ Len(Ids(q)) = Len(q)
    BY <1>2
  <1>4. ASSUME NEW x \in Item PROVE Ids(Append(q, x)) = Append(Ids(q), x.id)
    <2> DEFINE r == Append(q, x)
               s == Append(Ids(q), x.id)
    <2>1. x.id \in Nat
      BY DEF Item
    <2>2. /\ Len(s) = Len(q) + 1 /\ s[Len(q) + 1] = x.id /\ s \in Seq(Nat)
          /\ \A i \in 1 .. Len(q) : s[i] = Ids(q)[i]
      BY <1>3, <2>1, AppendProperties
    <2>3. /\ DOMAIN r = 1 .. Len(q) + 1 /\ r[Len(q) + 1] = x
          /\ \A i \in 1 .. Len(q) : r[i] = q[i]
      BY <1>2
    <2>4. \A i \in 1 .. Len(q) : Ids(q)[i] = q[i].id
      BY <1>2 DEF Ids
    <2> HIDE DEF r, s
    <2>5. Ids(r) = [i \in 1 .. Len(q) + 1 |-> r[i].id]
      BY <2>3 DEF Ids
    <2>6. s = [i \in 1 .. Len(q) + 1 |-> s[i]]
      BY <2>2
    <2>7. ASSUME NEW i \in 1 .. Len(q) + 1 PROVE r[i].id = s[i]
      <3>1. i = Len(q) + 1 \/ i \in 1 .. Len(q)
        BY <1>2
      <3> QED BY <2>2, <2>3, <2>4, <3>1
    <2>8. Ids(r) = s
      BY <2>5, <2>6, <2>7
    <2> QED BY <2>8 DEF r, s
  <1>5. ASSUME q # <<>> PROVE Ids(q) # <<>> /\ Head(Ids(q)) = Head(q).id /\ Ids(Tail(q)) = Tail(Ids(q))
    <2> DEFINE r == Tail(q)
               s == Tail(Ids(q))
    <2>1. Len(q) > 0 /\ Ids(q) # <<>>
      BY <1>2, <1>3, <1>5
    <2>2. Head(Ids(q)) = Ids(q)[1] /\ Head(q) = q[1] /\ Ids(q)[1] = q[1].id
      BY <1>2, <2>1 DEF Ids
    <2>3. s \in Seq(Nat) /\ Len(s) = Len(q) - 1 /\ \A i \in 1 .. Len(q) - 1 : s[i] = Ids(q)[i + 1]
      BY <1>3, <2>1, HeadTailProperties
    <2>4. DOMAIN r = 1 .. Len(q) - 1 /\ \A i \in 1 .. Len(q) - 1 : r[i] = q[i + 1] /\ i + 1 \in 1 .. Len(q)
      BY <1>2, <2>1
    <2>5. \A i \in 1 .. Len(q) : Ids(q)[i] = q[i].id
      BY <1>2 DEF Ids
    <2> HIDE DEF r, s
    <2>6. Ids(r) = [i \in 1 .. Len(q) - 1 |-> r[i].id]
      BY <2>4 DEF Ids
    <2>7. s = [i \in 1 .. Len(q) - 1 |-> s[i]]
      BY <2>3
    <2>8. \A i \in 1 .. Len(q) - 1 : r[i].id = s[i]
      BY <2>3, <2>4, <2>5
    <2>9. Ids(r) = s
      BY <2>6, <2>7, <2>8
    <2> QED BY <2>1, <2>2, <2>9 DEF r, s
  <1> QED
    BY <1>3, <1>4, <1>5

\* Three pieces of a line are joined in either order.
LEMMA Joined == \A a, b, c \in Seq(Nat) : (a \o b) \o c = a \o (b \o c)
  OBVIOUS

\* A piece moves from the last part to the one before.
LEMMA PieceMoves ==
    ASSUME NEW a \in Seq(Nat), NEW b \in Seq(Nat), NEW h \in Seq(Nat), NEW r \in Seq(Nat)
    PROVE  (a \o (b \o h)) \o r = (a \o b) \o (h \o r)
  <1>1. a \o (b \o h) = (a \o b) \o h
    BY Joined, Zenon
  <1>2. a \o b \in Seq(Nat)
    OBVIOUS
  <1>3. ((a \o b) \o h) \o r = (a \o b) \o (h \o r)
    BY <1>2, Joined, Zenon
  <1> QED
    BY <1>1, <1>3, Zenon

\* A sequence is its head and its tail.
LEMMA HeadAndTail ==
    ASSUME NEW w \in Seq(Nat), w # <<>>
    PROVE  <<Head(w)>> \in Seq(Nat) /\ Tail(w) \in Seq(Nat) /\ <<Head(w)>> \o Tail(w) = w
  <1>1. Len(w) \in Nat /\ Len(w) > 0 /\ SubSeq(w, 1, Len(w)) = w
    BY SubSeqFull
  <1>2. SubSeq(w, 1, Len(w)) = <<w[1]>> \o SubSeq(w, 2, Len(w))
    <2>1. 1 \in 1 .. Len(w) /\ Len(w) \in 1 .. Len(w)
      BY <1>1
    <2>2. SubSeq(w, 1, Len(w)) = <<w[1]>> \o SubSeq(w, 1 + 1, Len(w))
      BY <2>1, SubSeqRecursiveFirst
    <2> QED BY <2>2
  <1>3. Tail(w) = SubSeq(w, 2, Len(w)) /\ Head(w) = w[1]
    BY TailIsSubSeq
  <1>4. w = <<Head(w)>> \o Tail(w)
    BY <1>1, <1>2, <1>3
  <1>5. <<Head(w)>> \in Seq(Nat) /\ Tail(w) \in Seq(Nat)
    OBVIOUS
  <1> QED
    BY <1>4, <1>5

\* The first message of what waits moves to the end of the batch ...
LEMMA HeadMoves ==
    ASSUME NEW a \in Seq(Nat), NEW b \in Seq(Nat), NEW w \in Seq(Nat), w # <<>>
    PROVE  (a \o (b \o <<Head(w)>>)) \o Tail(w) = (a \o b) \o w
  <1>1. \A h, r \in Seq(Nat) : (a \o (b \o h)) \o r = (a \o b) \o (h \o r)
    BY PieceMoves, Zenon
  <1> DEFINE h == <<Head(w)>>
             r == Tail(w)
  <1>2. h \in Seq(Nat) /\ r \in Seq(Nat) /\ h \o r = w
    BY HeadAndTail
  <1> HIDE DEF h, r
  <1>3. (a \o (b \o h)) \o r = (a \o b) \o (h \o r)
    BY <1>1, <1>2, Zenon
  <1>4. (a \o (b \o h)) \o r = (a \o b) \o w
    BY <1>2, <1>3, Zenon
  <1> QED
    BY <1>4 DEF h, r

\* The same for all sequences at once.
LEMMA HeadsMove ==
    \A a, b, w \in Seq(Nat) :
       w # <<>> => (a \o (b \o <<Head(w)>>)) \o Tail(w) = (a \o b) \o w
  BY HeadMoves, Zenon

\* ... and what is written of a batch is what is left of it no more.
LEMMA BatchSplits ==
    ASSUME NEW a \in Seq(Nat), NEW b \in Seq(Nat), NEW k \in 0 .. Len(b) - 1
    PROVE  /\ SubSeq(b, 1, k) \in Seq(Nat) /\ SubSeq(b, k + 1, Len(b)) \in Seq(Nat)
           /\ (a \o SubSeq(b, 1, k)) \o SubSeq(b, k + 1, Len(b)) = a \o b
  <1>1. SubSeq(b, 1, k) \in Seq(Nat) /\ SubSeq(b, k + 1, Len(b)) \in Seq(Nat)
    OBVIOUS
  <1>2. SubSeq(b, 1, k) \o SubSeq(b, k + 1, Len(b)) = SubSeq(b, 1, Len(b))
    <2>1. Len(b) \in Nat
      OBVIOUS
    <2>2. 1 \in 1 .. Len(b) + 1 /\ k \in 1 - 1 .. Len(b) /\ Len(b) \in k .. Len(b)
      BY <2>1
    <2> QED BY <2>2, ConcatAdjacentSubSeq
  <1>3. SubSeq(b, 1, Len(b)) = b
    BY SubSeqFull
  <1> DEFINE b1 == SubSeq(b, 1, k)
             b2 == SubSeq(b, k + 1, Len(b))
  <1>4. b1 \in Seq(Nat) /\ b2 \in Seq(Nat) /\ b1 \o b2 = b
    BY <1>1, <1>2, <1>3
  <1> HIDE DEF b1, b2
  <1>5. (a \o b1) \o b2 = a \o b
    BY <1>4, Joined, Zenon
  <1> QED
    BY <1>1, <1>5 DEF b1, b2

\* The invariant holds at the start.
LEMMA QueueInitInv == QueueInit => QueueInv
  <1> SUFFICES ASSUME QueueInit PROVE QueueInv
    OBVIOUS
  <1> USE DEF QueueInit
  <1>1. QueueTypes
    <2>1. IdleProducer.item \in Item /\ IdleProducer.item = Resting.item /\ <<>> \in Seq(Item) /\ <<>> \in Seq(Nat)
      BY QueueAssumption DEF IdleProducer, Resting, Item
    <2>2. IdleProducer \in [pc : {"idle", "reserve", "send"}, item : Item]
      BY <2>1 DEF IdleProducer
    <2>3. Resting \in [pc : {"select", "release", "gather", "write", "gone"}, batch : Seq(Nat), item : Item]
      BY <2>1 DEF Resting
    <2>4. 0 \in 0 .. ByteLimit /\ 0 \in 0 .. MaxItem
      BY QueueAssumption
    <2> QED BY <2>1, <2>2, <2>3, <2>4 DEF QueueTypes
  <1>2. OnePlaceOnly
    BY DEF OnePlaceOnly, IsBusy, IdleProducer, Resting
  <1>3. CountFits
    <2>1. Counted = {}
      BY DEF Counted, IdleProducer, Resting
    <2>2. Units({}) = {}
      BY DEF Units
    <2> QED BY <2>1, <2>2, FS_EmptySet DEF CountFits
  <1>4. LineFits
    <2>1. Line = <<>>
      BY DEF Line, Hand, Waiting, Ids, Resting
    <2> QED BY <2>1 DEF LineFits, IsPartOf, Resting
  <1> QED
    BY <1>1, <1>2, <1>3, <1>4 DEF QueueInv


\* What is given back is never more than what was counted.
LEMMA LessIs ==
    ASSUME NEW L \in Nat, NEW b \in 0 .. L, NEW k \in Nat PROVE Less(b, k) \in 0 .. L
  BY DEF Less

\* What a producer is doing.
ProducerState == [pc : {"idle", "reserve", "send"}, item : Item]

\* Types are kept by every step.
LEMMA QueueTypesStep == ASSUME QueueInv, QueueNext PROVE QueueTypes'
  <1>0. QueueTypes /\ LineFits
    BY DEF QueueInv
  <1>a. \A p \in Producer : producer[p] \in ProducerState
    BY <1>0 DEF QueueTypes, ProducerState
  <1>b. IdleProducer \in ProducerState /\ IdleProducer.item \in Item
    BY QueueAssumption DEF ProducerState, IdleProducer, Item
  <1>c. \A p \in Producer : producer[p].item \in Item /\ [producer[p] EXCEPT !.pc = "send"] \in ProducerState
    BY <1>a DEF ProducerState
  <1>d. qWriter.item \in Item /\ qWriter.item.id \in Nat /\ qWriter.batch \in Seq(Nat)
    BY <1>0 DEF QueueTypes, Item
  <1>e. \A m \in Item : Less(pendingBytes, Size(m, framing)) \in 0 .. ByteLimit
    <2>1. ByteLimit \in Nat /\ pendingBytes \in 0 .. ByteLimit
      BY <1>0, QueueAssumption DEF QueueTypes
    <2> QED BY <2>1, SizeIs, LessIs
  <1>1. ASSUME NEW p \in Producer, queueOut(p) PROVE QueueTypes'
    <2>1. PICK raw \in BOOLEAN :
            producer' = [producer EXCEPT ![p] = [pc |-> "reserve", item |-> [id |-> items', raw |-> raw]]]
      BY <1>1 DEF queueOut
    <2>2. items' \in 0 .. MaxItem
      BY <1>0, <1>1, QueueAssumption DEF queueOut, QueueTypes
    <2>3. [pc |-> "reserve", item |-> [id |-> items', raw |-> raw]] \in ProducerState
      BY <2>2 DEF ProducerState, Item
    <2>4. producer' \in [Producer -> ProducerState]
      BY <1>0, <2>1, <2>3 DEF QueueTypes, ProducerState
    <2> QED BY <1>0, <1>1, <2>2, <2>4 DEF queueOut, QueueTypes, ProducerState
  <1>2. ASSUME NEW p \in Producer, reserveOutbound(p) PROVE QueueTypes'
    <2> DEFINE size == Size(producer[p].item, framing)
    <2>1. size \in Nat
      BY <1>c, SizeIs
    <2> HIDE DEF size
    <2>2. pendingBytes' \in 0 .. ByteLimit
      <3>1. \/ pendingBytes' = pendingBytes
            \/ ~(size + pendingBytes > ByteLimit) /\ pendingBytes' = pendingBytes + size
        BY <1>2 DEF reserveOutbound, size
      <3> QED BY <1>0, <2>1, <3>1, QueueAssumption DEF QueueTypes
    <2>3. producer' = [producer EXCEPT ![p] = IdleProducer]
          \/ producer' = [producer EXCEPT ![p] = [producer[p] EXCEPT !.pc = "send"]]
      BY <1>2 DEF reserveOutbound
    <2>4. producer' \in [Producer -> ProducerState]
      BY <1>0, <1>b, <1>c, <2>3 DEF QueueTypes, ProducerState
    <2> QED BY <1>0, <1>2, <2>2, <2>4 DEF reserveOutbound, QueueTypes, ProducerState
  <1>3. ASSUME NEW p \in Producer, send(p) PROVE QueueTypes'
    <2>1. producer' \in [Producer -> ProducerState]
      BY <1>0, <1>3, <1>b DEF send, QueueTypes, ProducerState
    <2>2. pendingBytes' \in 0 .. ByteLimit
      BY <1>0, <1>3, <1>c, <1>e DEF send, release, QueueTypes
    <2>3. qItems' \in Seq(Item) /\ queued' \in Seq(Nat)
      <3>1. producer[p].item \in Item
        BY <1>c
      <3>3. producer[p].item.id \in Nat
        BY <3>1 DEF Item
      <3>2. Append(qItems, producer[p].item) \in Seq(Item) /\ Append(queued, producer[p].item.id) \in Seq(Nat)
        BY <1>0, <3>1, <3>3, AppendProperties DEF QueueTypes
      <3> QED BY <1>0, <1>3, <3>2 DEF send, QueueTypes
    <2> QED BY <1>0, <1>3, <2>1, <2>2, <2>3 DEF send, QueueTypes, ProducerState
  <1>4. CASE hello
    BY <1>0, <1>4 DEF hello, QueueTypes
  <1>5. CASE writeLoopTakes \/ batchTakes
    <2>1. PICK b \in {<<>>, qWriter.batch} : Take("release", b)
      BY <1>5 DEF writeLoopTakes, batchTakes
    <2>2. qItems' \in Seq(Item) /\ Head(qItems) \in Item
      BY <1>0, <2>1, HeadTailProperties DEF Take, QueueTypes
    <2>3. b \in Seq(Nat)
      <3>1. <<>> \in Seq(Nat) /\ qWriter.batch \in Seq(Nat)
        BY <1>d
      <3> QED BY <3>1
    <2>4. [pc |-> "release", batch |-> b, item |-> Head(qItems)]
            \in [pc : {"select", "release", "gather", "write", "gone"}, batch : Seq(Nat), item : Item]
      BY <2>2, <2>3
    <2> QED BY <1>0, <2>1, <2>2, <2>4 DEF Take, QueueTypes
  <1>6. CASE releaseOutbound
    <2>1. pendingBytes' \in 0 .. ByteLimit
      BY <1>6, <1>d, <1>e DEF releaseOutbound, release
    <2>2. Append(qWriter.batch, qWriter.item.id) \in Seq(Nat)
      BY <1>d, AppendProperties
    <2>3. qWriter' \in [pc : {"select", "release", "gather", "write", "gone"}, batch : Seq(Nat), item : Item]
      BY <1>0, <1>6, <2>2 DEF releaseOutbound, QueueTypes
    <2> QED BY <1>0, <1>6, <2>1, <2>3 DEF releaseOutbound, QueueTypes
  <1>7. CASE flush
    <2>1. sent \o qWriter.batch \in Seq(Nat) /\ Len(qWriter.batch) \in Nat
      BY <1>0, <1>d, ConcatProperties DEF QueueTypes
    <2>2. Resting \in [pc : {"select", "release", "gather", "write", "gone"}, batch : Seq(Nat), item : Item]
      BY <1>b DEF Resting
    <2>3. CASE sent' = sent \o qWriter.batch /\ qWriter' = Resting
      BY <1>0, <1>7, <2>1, <2>2, <2>3 DEF flush, QueueTypes
    <2>4. ASSUME NEW k \in 0 .. Len(qWriter.batch) - 1,
                 sent' = sent \o SubSeq(qWriter.batch, 1, k),
                 qWriter' = [qWriter EXCEPT !.pc = "gone", !.batch = SubSeq(@, k + 1, Len(@))]
          PROVE  QueueTypes'
      <3>1. SubSeq(qWriter.batch, 1, k) \in Seq(Nat)
            /\ SubSeq(qWriter.batch, k + 1, Len(qWriter.batch)) \in Seq(Nat)
        BY <1>d, BatchSplits
      <3>2. sent' \in Seq(Nat)
        BY <1>0, <2>4, <3>1, ConcatProperties DEF QueueTypes
      <3>3. qWriter' \in [pc : {"select", "release", "gather", "write", "gone"}, batch : Seq(Nat), item : Item]
        BY <1>0, <2>4, <3>1 DEF QueueTypes
      <3> QED BY <1>0, <1>7, <3>2, <3>3 DEF flush, QueueTypes
    <2> QED BY <1>7, <2>3, <2>4 DEF flush
  <1>8. CASE terminate
    BY <1>0, <1>8 DEF terminate, QueueTypes
  <1>9. CASE purgeChannels
    <2>1. qItems' \in Seq(Item) /\ Head(qItems) \in Item
      BY <1>0, <1>9, HeadTailProperties DEF purgeChannels, QueueTypes
    <2>2. pendingBytes' \in 0 .. ByteLimit
      BY <1>9, <1>e, <2>1 DEF purgeChannels, release
    <2> QED BY <1>0, <1>9, <2>1, <2>2 DEF purgeChannels, QueueTypes
  <1> QED
    BY <1>1, <1>2, <1>3, <1>4, <1>5, <1>6, <1>7, <1>8, <1>9 DEF QueueNext


\* What is left of the channel when its first message is taken.
LEMMA TailIs ==
    ASSUME NEW q \in Seq(Item), q # <<>>
    PROVE  /\ Head(q) = q[1] /\ 1 \in 1 .. Len(q)
           /\ \A i \in 1 .. Len(Tail(q)) : i + 1 \in 1 .. Len(q) /\ i + 1 # 1 /\ Tail(q)[i] = q[i + 1]
           /\ \A i, j \in 1 .. Len(Tail(q)) : i # j => i + 1 # j + 1
  <1>1. Len(q) \in Nat /\ Len(q) > 0 /\ Len(Tail(q)) = Len(q) - 1
    OBVIOUS
  <1> QED
    BY <1>1

\* A message stays in one place.
LEMMA OnePlaceStep == ASSUME QueueInv, QueueNext PROVE OnePlaceOnly'
  <1>0. QueueTypes /\ OnePlaceOnly
    BY DEF QueueInv
  <1>a. \A i \in 1 .. Len(qItems) : qItems[i].id \in Nat
    <2>1. ASSUME NEW i \in 1 .. Len(qItems) PROVE qItems[i].id \in Nat
      <3>1. qItems[i] \in Item
        BY <1>0 DEF QueueTypes
      <3> QED BY <3>1 DEF Item
    <2> QED BY <2>1
  <1>b. \A p \in Producer : producer[p].item.id \in Nat /\ producer[p].item \in Item
    BY <1>0 DEF QueueTypes, Item
  <1>c. qWriter.item.id \in Nat /\ items \in Nat
    BY <1>0, QueueAssumption DEF QueueTypes, Item
  <1>1. ASSUME NEW p \in Producer, queueOut(p) PROVE OnePlaceOnly'
    <2>1. PICK raw \in BOOLEAN :
            producer' = [producer EXCEPT ![p] = [pc |-> "reserve", item |-> [id |-> items', raw |-> raw]]]
      BY <1>1 DEF queueOut
    <2>2. producer'[p].item.id = items + 1 /\ \A q \in Producer : q # p => producer'[q] = producer[q]
      BY <1>0, <1>1, <2>1 DEF QueueTypes, queueOut
    <2>3. items' = items + 1 /\ qItems' = qItems /\ qWriter' = qWriter
      BY <1>1 DEF queueOut
    <2>4. \A n \in Nat : n <= items => n <= items + 1 /\ n # items + 1
      BY <1>c
    <2>5. \A i \in 1 .. Len(qItems) : qItems[i].id <= items + 1 /\ qItems[i].id # items + 1
      BY <1>0, <1>a, <2>4 DEF OnePlaceOnly
    <2>6. \A q \in Producer :
              q # p /\ IsBusy(q) => producer[q].item.id <= items + 1 /\ producer[q].item.id # items + 1
      BY <1>0, <1>b, <2>4 DEF OnePlaceOnly
    <2>7. qWriter.pc = "release" => qWriter.item.id <= items + 1 /\ qWriter.item.id # items + 1
      BY <1>0, <1>c, <2>4 DEF OnePlaceOnly
    <2>8. items + 1 <= items + 1
      BY <1>c
    <2> QED BY <1>0, <2>2, <2>3, <2>5, <2>6, <2>7, <2>8 DEF OnePlaceOnly, IsBusy
  <1>2. ASSUME NEW p \in Producer, reserveOutbound(p) PROVE OnePlaceOnly'
    <2>1. producer'[p] = IdleProducer \/ producer'[p].item = producer[p].item
      BY <1>0, <1>2 DEF reserveOutbound, QueueTypes
    <2>2. \A q \in Producer : q # p => producer'[q] = producer[q]
      BY <1>0, <1>2 DEF reserveOutbound, QueueTypes
    <2>3. IsBusy(p) /\ items' = items /\ qItems' = qItems /\ qWriter' = qWriter
      BY <1>2 DEF reserveOutbound, IsBusy
    <2>4. \A q \in Producer : producer'[q].pc # "idle" => IsBusy(q) /\ producer'[q].item = producer[q].item
      BY <2>1, <2>2, <2>3 DEF IsBusy, IdleProducer
    <2> QED BY <1>0, <2>3, <2>4 DEF OnePlaceOnly, IsBusy
  <1>3. ASSUME NEW p \in Producer, send(p) PROVE OnePlaceOnly'
    <2>1. producer'[p] = IdleProducer /\ \A q \in Producer : q # p => producer'[q] = producer[q]
      BY <1>0, <1>3 DEF send, QueueTypes
    <2>2. IsBusy(p) /\ items' = items /\ qWriter' = qWriter
      BY <1>3 DEF send, IsBusy
    <2>3. \A q \in Producer : producer'[q].pc # "idle" => q # p /\ IsBusy(q) /\ producer'[q] = producer[q]
      BY <2>1 DEF IsBusy, IdleProducer
    <2>4. CASE qItems' = qItems
      BY <1>0, <2>2, <2>3, <2>4 DEF OnePlaceOnly, IsBusy
    <2>5. CASE qItems' = Append(qItems, producer[p].item)
      <3> DEFINE r == Append(qItems, producer[p].item)
      <3>1. /\ \A i \in 1 .. Len(qItems) : r[i] = qItems[i]
            /\ r[Len(qItems) + 1] = producer[p].item
            /\ \A i \in 1 .. Len(r) : i \in 1 .. Len(qItems) \/ i = Len(qItems) + 1
        <4>1. qItems \in Seq(Item) /\ producer[p].item \in Item
          BY <1>0, <1>b DEF QueueTypes
        <4> QED BY <4>1
      <3>2. \A i \in 1 .. Len(qItems) : qItems[i].id # producer[p].item.id /\ qItems[i].id <= items
        BY <1>0, <2>2 DEF OnePlaceOnly
      <3>3. producer[p].item.id <= items
        BY <1>0, <2>2 DEF OnePlaceOnly
      <3> HIDE DEF r
      <3>4. \A i \in 1 .. Len(r) : r[i].id <= items
        BY <3>1, <3>2, <3>3
      <3>5. \A i, j \in 1 .. Len(qItems) : i # j => qItems[i].id # qItems[j].id
        BY <1>0 DEF OnePlaceOnly
      <3>6. \A i, j \in 1 .. Len(r) : i # j => r[i].id # r[j].id
        BY <3>1, <3>2, <3>5
      <3>7. \A q \in Producer : q # p /\ IsBusy(q) => \A i \in 1 .. Len(r) : r[i].id # producer[q].item.id
        BY <1>0, <2>2, <3>1 DEF OnePlaceOnly
      <3>8. qWriter.pc = "release" => \A i \in 1 .. Len(r) : r[i].id # qWriter.item.id
        BY <1>0, <2>2, <3>1 DEF OnePlaceOnly
      <3>9. qItems' = r
        BY <2>5 DEF r
      <3> QED BY <1>0, <2>2, <2>3, <3>4, <3>6, <3>7, <3>8, <3>9 DEF OnePlaceOnly, IsBusy
    <2> QED BY <1>3, <2>4, <2>5 DEF send
  <1>4. CASE hello \/ terminate
    BY <1>0, <1>4 DEF hello, terminate, OnePlaceOnly, IsBusy
  <1>5. CASE writeLoopTakes \/ batchTakes \/ purgeChannels
    <2>1. /\ qItems # <<>> /\ qItems' = Tail(qItems) /\ items' = items /\ producer' = producer
          /\ qWriter' = qWriter \/ (qWriter.pc # "release" /\ qWriter'.item = Head(qItems))
      BY <1>5 DEF writeLoopTakes, batchTakes, purgeChannels, Take
    <2> DEFINE r == Tail(qItems)
    <2>2. /\ Head(qItems) = qItems[1] /\ 1 \in 1 .. Len(qItems)
          /\ \A i \in 1 .. Len(r) : i + 1 \in 1 .. Len(qItems) /\ i + 1 # 1 /\ r[i] = qItems[i + 1]
          /\ \A i, j \in 1 .. Len(r) : i # j => i + 1 # j + 1
      BY <1>0, <2>1, TailIs DEF QueueTypes
    <2> HIDE DEF r
    <2>3. \A i \in 1 .. Len(r) : r[i].id <= items /\ r[i].id # Head(qItems).id
      BY <1>0, <2>2 DEF OnePlaceOnly
    <2>4. ASSUME NEW i \in 1 .. Len(r), NEW j \in 1 .. Len(r), i # j PROVE r[i].id # r[j].id
      <3>1. \A k, l \in 1 .. Len(qItems) : k # l => qItems[k].id # qItems[l].id
        BY <1>0 DEF OnePlaceOnly
      <3>2. r[i] = qItems[i + 1] /\ r[j] = qItems[j + 1]
        BY <2>2
      <3>3. i + 1 \in 1 .. Len(qItems) /\ j + 1 \in 1 .. Len(qItems) /\ i + 1 # j + 1
        BY <2>2, <2>4
      <3> QED BY <3>1, <3>2, <3>3
    <2>5. \A q \in Producer : IsBusy(q) =>
            Head(qItems).id # producer[q].item.id /\ \A i \in 1 .. Len(r) : r[i].id # producer[q].item.id
      BY <1>0, <2>2 DEF OnePlaceOnly
    <2>6. qWriter.pc = "release" => \A i \in 1 .. Len(r) : r[i].id # qWriter.item.id
      BY <1>0, <2>2 DEF OnePlaceOnly
    <2>7. Head(qItems).id <= items
      BY <1>0, <2>2 DEF OnePlaceOnly
    <2>8. qItems' = r
      BY <2>1 DEF r
    <2>9. CASE qWriter' = qWriter
      BY <1>0, <2>1, <2>3, <2>4, <2>5, <2>6, <2>8, <2>9 DEF OnePlaceOnly, IsBusy
    <2>10. CASE qWriter'.item = Head(qItems)
      BY <1>0, <2>1, <2>3, <2>4, <2>5, <2>7, <2>8, <2>10 DEF OnePlaceOnly, IsBusy
    <2> QED BY <2>1, <2>9, <2>10
  <1>6. CASE releaseOutbound
    <2>1. qWriter'.pc # "release" /\ items' = items /\ qItems' = qItems /\ producer' = producer
      BY <1>0, <1>6 DEF releaseOutbound, QueueTypes
    <2> QED BY <1>0, <2>1 DEF OnePlaceOnly, IsBusy
  <1>7. CASE flush
    <2>1. items' = items /\ qItems' = qItems /\ producer' = producer
      BY <1>7 DEF flush
    <2>2. qWriter' = Resting \/ \E b : qWriter' = [qWriter EXCEPT !.pc = "gone", !.batch = b]
      BY <1>7, Zenon DEF flush
    <2>3. qWriter'.pc # "release"
      <3>1. CASE qWriter' = Resting
        BY <3>1 DEF Resting
      <3>2. ASSUME NEW b, qWriter' = [qWriter EXCEPT !.pc = "gone", !.batch = b] PROVE qWriter'.pc = "gone"
        BY <1>0, <3>2 DEF QueueTypes
      <3> QED BY <2>2, <3>1, <3>2
    <2> QED BY <1>0, <2>1, <2>3 DEF OnePlaceOnly, IsBusy
  <1> QED
    BY <1>1, <1>2, <1>3, <1>4, <1>5, <1>6, <1>7 DEF QueueNext


\* Who is counted: the three places.
InChannel == Messages(qItems)
Senders == {q \in Producer : producer[q].pc = "send"}
Sending == {producer[p].item : p \in Senders}
Released == IF qWriter.pc = "release" THEN {qWriter.item} ELSE {}

\* What is counted is in the channel, being sent, or being released.
LEMMA CountedIs ==
    /\ Counted = (InChannel \cup Sending) \cup Released
    /\ Counted' = (InChannel' \cup Sending') \cup Released'
  BY DEF Counted, InChannel, Messages, Sending, Senders, Released

\* The count follows what is counted.
LEMMA CountMoves ==
    ASSUME QueueInv, framing' = framing, mixed' = mixed, NEW m \in Item,
           \/ Counted' = Counted /\ pendingBytes' = pendingBytes
           \/ /\ Counted' = Counted \cup {m} /\ m \notin Counted
              /\ pendingBytes' = pendingBytes + Size(m, framing)
           \/ /\ Counted' = Counted \ {m} /\ m \in Counted
              /\ pendingBytes' = Less(pendingBytes, Size(m, framing))
    PROVE  CountFits'
  <1>0. CountFits
    BY DEF QueueInv
  <1>1. framing' = "none" => ~mixed'
    BY <1>0 DEF CountFits
  <1>2. ASSUME ~mixed PROVE IsFiniteSet(Units(Counted))' /\ pendingBytes' = Cardinality(Units(Counted))'
    <2> DEFINE C == Counted
               D == Counted'
    <2>1. Units(Counted)' = Units(D)
      BY DEF Units
    <2>2. IsFiniteSet(Units(C)) /\ pendingBytes = Cardinality(Units(C)) /\ Size(m, framing) \in Nat
      BY <1>0, <1>2, SizeIs DEF CountFits
    <2>3. \/ D = C /\ pendingBytes' = pendingBytes
          \/ D = C \cup {m} /\ m \notin C /\ pendingBytes' = pendingBytes + Size(m, framing)
          \/ D = C \ {m} /\ m \in C /\ pendingBytes' = Less(pendingBytes, Size(m, framing))
      OBVIOUS
    <2> HIDE DEF C, D
    <2>4. IsFiniteSet(Units(D)) /\ pendingBytes' = Cardinality(Units(D))
      <3>1. CASE D = C /\ pendingBytes' = pendingBytes
        BY <2>2, <3>1
      <3>2. CASE D = C \cup {m} /\ m \notin C /\ pendingBytes' = pendingBytes + Size(m, framing)
        BY <2>2, <3>2, UnitsAdded
      <3>3. CASE D = C \ {m} /\ m \in C /\ pendingBytes' = Less(pendingBytes, Size(m, framing))
        BY <2>2, <3>3, UnitsRemoved
      <3> QED BY <2>3, <3>1, <3>2, <3>3
    <2>5. /\ IsFiniteSet(Units(Counted))' = IsFiniteSet(Units(D))
          /\ Cardinality(Units(Counted))' = Cardinality(Units(D))
      BY <2>1
    <2> QED BY <2>4, <2>5
  <1> QED
    BY <1>1, <1>2 DEF CountFits

\* The count follows what the producers do ...
LEMMA CountProducers ==
    ASSUME QueueInv, NEW p \in Producer, queueOut(p) \/ reserveOutbound(p) \/ send(p) PROVE CountFits'
  <1>0. QueueTypes /\ OnePlaceOnly
    BY DEF QueueInv
  <1> DEFINE m == producer[p].item
  <1>a. m \in Item
    BY <1>0 DEF QueueTypes
  <1>b. framing' = framing /\ mixed' = mixed /\ Released' = Released
    BY DEF queueOut, reserveOutbound, send, Released
  <1>c. \A q \in Producer : q # p => producer'[q] = producer[q]
    BY <1>0 DEF QueueTypes, queueOut, reserveOutbound, send
  <1>1. ASSUME qItems' = qItems, producer'[p].pc # "send", producer[p].pc # "send", pendingBytes' = pendingBytes
        PROVE  CountFits'
    <2>1. InChannel' = InChannel
      BY <1>1 DEF InChannel
    <2>2. Senders' = Senders /\ \A q \in Senders : producer'[q] = producer[q]
      BY <1>1, <1>c DEF Senders
    <2>3. Sending' = Sending
      BY <2>2 DEF Sending
    <2>4. Counted' = Counted
      BY <1>b, <2>1, <2>3, CountedIs
    <2> QED BY <1>1, <1>a, <1>b, <2>4, CountMoves
  <1>2. ASSUME queueOut(p) PROVE CountFits'
    BY <1>0, <1>1, <1>2 DEF queueOut, QueueTypes
  <1>3. ASSUME reserveOutbound(p) PROVE CountFits'
    <2>1. CASE producer' = [producer EXCEPT ![p] = IdleProducer] /\ pendingBytes' = pendingBytes
      <3>1. qItems' = qItems /\ producer[p].pc = "reserve"
        BY <1>3 DEF reserveOutbound
      <3>2. producer'[p].pc = "idle"
        BY <1>0, <2>1 DEF QueueTypes, IdleProducer
      <3> QED BY <1>1, <2>1, <3>1, <3>2
    <2>2. CASE producer' = [producer EXCEPT ![p].pc = "send"] /\ pendingBytes' = pendingBytes + Size(m, framing)
      <3>1. qItems' = qItems /\ producer[p].pc = "reserve"
        BY <1>3 DEF reserveOutbound
      <3>2. producer'[p].pc = "send" /\ producer'[p].item = m
        BY <1>0, <2>2 DEF QueueTypes
      <3>3. Senders' = Senders \cup {p} /\ p \notin Senders /\ \A q \in Senders : producer'[q] = producer[q]
        BY <1>c, <3>1, <3>2 DEF Senders
      <3>4. Sending' = Sending \cup {m}
        BY <3>2, <3>3 DEF Sending
      <3>5. InChannel' = InChannel
        BY <3>1 DEF InChannel
      <3>6. Counted' = Counted \cup {m}
        BY <1>b, <3>4, <3>5, CountedIs
      <3>7. m \notin InChannel /\ m \notin Sending /\ m \notin Released
        <4>1. IsBusy(p) /\ \A q \in Senders : q \in Producer /\ q # p /\ IsBusy(q)
          BY <3>1 DEF IsBusy, Senders
        <4>2. m \notin InChannel
          <5>1. DOMAIN qItems = 1 .. Len(qItems)
            BY <1>0 DEF QueueTypes
          <5> QED BY <1>0, <4>1, <5>1 DEF OnePlaceOnly, InChannel, Messages
        <4>3. m \notin Sending
          BY <1>0, <4>1 DEF OnePlaceOnly, Sending
        <4>4. m \notin Released
          BY <1>0, <4>1 DEF OnePlaceOnly, Released
        <4> QED BY <4>2, <4>3, <4>4
      <3>8. m \notin Counted
        BY <3>7, CountedIs
      <3> QED BY <1>a, <1>b, <2>2, <3>6, <3>8, CountMoves
    <2> QED BY <1>3, <2>1, <2>2 DEF reserveOutbound
  <1>4. ASSUME send(p) PROVE CountFits'
    <2>1. producer[p].pc = "send" /\ producer'[p].pc = "idle"
      BY <1>0, <1>4 DEF send, QueueTypes, IdleProducer
    <2>2. Senders' = Senders \ {p} /\ p \in Senders /\ \A q \in Senders' : producer'[q] = producer[q]
      BY <1>c, <2>1 DEF Senders
    <2>3. Sending = Sending' \cup {m}
      <3>1. Sending' = {producer[q].item : q \in Senders \ {p}}
        BY <2>2 DEF Sending
      <3> QED BY <2>2, <3>1 DEF Sending
    <2>4. CASE qItems' = Append(qItems, m) /\ pendingBytes' = pendingBytes
      <3>1. InChannel' = InChannel \cup {m}
        <4>1. qItems \in Seq(Item)
          BY <1>0 DEF QueueTypes
        <4>2. Messages(Append(qItems, m)) = Messages(qItems) \cup {m}
          BY <1>a, <4>1, RangeOfAppend
        <4> QED BY <2>4, <4>2 DEF InChannel
      <3>2. Counted' = Counted
        BY <1>b, <2>3, <3>1, CountedIs
      <3> QED BY <1>a, <1>b, <2>4, <3>2, CountMoves
    <2>5. CASE qItems' = qItems /\ pendingBytes' = Less(pendingBytes, Size(m, framing))
      <3>1. InChannel' = InChannel
        BY <2>5 DEF InChannel
      <3>2. m \notin InChannel /\ m \notin Sending' /\ m \notin Released
        <4>1. IsBusy(p) /\ \A q \in Senders' : q \in Producer /\ q # p /\ IsBusy(q)
          BY <2>1, <2>2 DEF IsBusy, Senders
        <4>2. m \notin InChannel
          <5>1. DOMAIN qItems = 1 .. Len(qItems)
            BY <1>0 DEF QueueTypes
          <5> QED BY <1>0, <4>1, <5>1 DEF OnePlaceOnly, InChannel, Messages
        <4>3. m \notin Sending'
          <5>1. \A q \in Senders' : producer'[q].item = producer[q].item /\ producer[q].item # m
            BY <1>0, <2>2, <4>1 DEF OnePlaceOnly
          <5> QED BY <5>1 DEF Sending
        <4>4. m \notin Released
          BY <1>0, <4>1 DEF OnePlaceOnly, Released
        <4> QED BY <4>2, <4>3, <4>4
      <3>3. Counted' = Counted \ {m} /\ m \in Counted
        BY <1>b, <2>3, <3>1, <3>2, CountedIs
      <3> QED BY <1>a, <1>b, <2>5, <3>3, CountMoves
    <2> QED BY <1>4, <2>4, <2>5 DEF send, release
  <1> QED
    BY <1>2, <1>3, <1>4


\* ... and what the write loop, the clean-up and the client's hi do.
LEMMA CountStep == ASSUME QueueInv, QueueNext PROVE CountFits'
  <1>0. QueueTypes /\ OnePlaceOnly /\ CountFits
    BY DEF QueueInv
  <1>a. qWriter.item \in Item /\ DOMAIN qItems = 1 .. Len(qItems)
    BY <1>0 DEF QueueTypes
  <1>b. ASSUME producer' = producer PROVE Senders' = Senders /\ Sending' = Sending
    BY <1>b DEF Senders, Sending
  <1>c. ASSUME qItems # <<>>
        PROVE  /\ InChannel = Messages(Tail(qItems)) \cup {Head(qItems)} /\ Head(qItems) \in Item
               /\ Head(qItems) \notin Messages(Tail(qItems)) /\ Head(qItems) \notin Sending
               /\ Head(qItems) \notin Released
    <2> DEFINE r == Tail(qItems)
    <2>0. qItems \in Seq(Item)
      BY <1>0 DEF QueueTypes
    <2>1. InChannel = Messages(r) \cup {Head(qItems)}
      BY <1>c, <2>0, RangeOfTail DEF InChannel
    <2>2. /\ Head(qItems) = qItems[1] /\ 1 \in 1 .. Len(qItems)
          /\ \A i \in 1 .. Len(r) : i + 1 \in 1 .. Len(qItems) /\ i + 1 # 1 /\ r[i] = qItems[i + 1]
      BY <1>c, <2>0, TailIs
    <2>3. DOMAIN r = 1 .. Len(r) /\ Head(qItems) \in Item
      BY <1>c, <2>0
    <2> HIDE DEF r
    <2>4. \A i \in 1 .. Len(r) : r[i].id # Head(qItems).id
      BY <1>0, <2>2 DEF OnePlaceOnly
    <2>5. Head(qItems) \notin Messages(r)
      BY <2>3, <2>4 DEF Messages
    <2>6. Head(qItems) \notin Sending
      <3>1. \A q \in Senders : q \in Producer /\ IsBusy(q)
        BY DEF Senders, IsBusy
      <3>2. \A q \in Senders : producer[q].item.id # Head(qItems).id
        BY <1>0, <2>2, <3>1 DEF OnePlaceOnly
      <3> QED BY <3>2 DEF Sending
    <2>7. Head(qItems) \notin Released
      BY <1>0, <2>2 DEF OnePlaceOnly, Released
    <2> QED BY <2>1, <2>3, <2>5, <2>6, <2>7 DEF r
  <1>1. ASSUME NEW p \in Producer, queueOut(p) \/ reserveOutbound(p) \/ send(p) PROVE CountFits'
    BY <1>1, CountProducers
  <1>2. CASE hello
    <2>1. framing' # "none" /\ pendingBytes' = pendingBytes /\ mixed' = (pendingBytes > 0) /\ ~mixed
      BY <1>0, <1>2 DEF hello, CountFits
    <2>2. ASSUME ~mixed' PROVE IsFiniteSet(Units(Counted))' /\ pendingBytes' = Cardinality(Units(Counted))'
      <3>0. pendingBytes = 0
        <4>1. ~(pendingBytes > 0)
          BY <2>1, <2>2, Zenon
        <4>2. pendingBytes \in 0 .. ByteLimit
          BY <1>0 DEF QueueTypes
        <4> QED BY <4>1, <4>2, QueueAssumption
      <3>1. pendingBytes = 0 /\ IsFiniteSet(Units(Counted)) /\ Cardinality(Units(Counted)) = 0
        BY <1>0, <2>1, <3>0 DEF CountFits
      <3>2. Units(Counted) = {}
        BY <3>1, FS_EmptySet
      <3>3. Counted \subseteq Item
        <4>1. InChannel \subseteq Item
          BY <1>0 DEF QueueTypes, InChannel, Messages
        <4>2. Sending \subseteq Item
          BY <1>0 DEF QueueTypes, Sending, Senders
        <4>3. Released \subseteq Item
          BY <1>a DEF Released
        <4> QED BY <4>1, <4>2, <4>3, CountedIs
      <3>4. ASSUME NEW m \in Counted PROVE FALSE
        <4>1. Size(m, framing) \in Nat /\ Size(m, framing) > 0
          BY <3>3, SizeIs
        <4>2. 1 \in 1 .. Size(m, framing)
          BY <4>1
        <4>3. <<m, 1>> \in Units(Counted)
          BY <4>2 DEF Units
        <4> QED BY <3>2, <4>3
      <3>5. Counted' = {}
        <4>1. InChannel' = InChannel /\ Sending' = Sending /\ Released' = Released
          BY <1>2 DEF hello, InChannel, Sending, Senders, Released
        <4> QED BY <3>4, <4>1, CountedIs
      <3>6. Units(Counted)' = {}
        BY <3>5 DEF Units
      <3> QED BY <2>1, <3>1, <3>6, FS_EmptySet
    <2> QED BY <2>1, <2>2 DEF CountFits
  <1>3. CASE writeLoopTakes \/ batchTakes
    <2>1. /\ qItems # <<>> /\ qItems' = Tail(qItems) /\ producer' = producer /\ qWriter.pc # "release"
          /\ qWriter'.pc = "release" /\ qWriter'.item = Head(qItems)
          /\ framing' = framing /\ mixed' = mixed /\ pendingBytes' = pendingBytes
      BY <1>3 DEF writeLoopTakes, batchTakes, Take
    <2>2. InChannel' = Messages(Tail(qItems)) /\ Released = {} /\ Released' = {Head(qItems)}
      BY <2>1 DEF InChannel, Released
    <2>3. Counted' = Counted
      BY <1>b, <1>c, <2>1, <2>2, CountedIs
    <2> QED BY <1>a, <2>1, <2>3, CountMoves
  <1>4. CASE releaseOutbound
    <2> DEFINE m == qWriter.item
    <2>1. /\ qItems' = qItems /\ producer' = producer /\ qWriter.pc = "release" /\ qWriter'.pc # "release"
          /\ framing' = framing /\ mixed' = mixed /\ pendingBytes' = Less(pendingBytes, Size(m, framing))
      BY <1>0, <1>4 DEF releaseOutbound, release, QueueTypes
    <2>2. InChannel' = InChannel /\ Released = {m} /\ Released' = {}
      BY <2>1 DEF InChannel, Released
    <2>3. m \notin InChannel
      BY <1>0, <1>a, <2>1 DEF OnePlaceOnly, InChannel, Messages
    <2>4. m \notin Sending
      <3>1. \A q \in Senders : q \in Producer /\ IsBusy(q)
        BY DEF Senders, IsBusy
      <3>2. \A q \in Senders : producer[q].item.id # m.id
        BY <1>0, <2>1, <3>1 DEF OnePlaceOnly
      <3> QED BY <3>2 DEF Sending
    <2>5. Counted' = Counted \ {m} /\ m \in Counted
      BY <1>b, <2>1, <2>2, <2>3, <2>4, CountedIs
    <2> QED BY <1>a, <2>1, <2>5, CountMoves
  <1>5. CASE flush
    <2>1. /\ qItems' = qItems /\ producer' = producer /\ qWriter.pc # "release"
          /\ framing' = framing /\ mixed' = mixed /\ pendingBytes' = pendingBytes
      BY <1>5 DEF flush
    <2>2. qWriter' = Resting \/ \E b : qWriter' = [qWriter EXCEPT !.pc = "gone", !.batch = b]
      BY <1>5, Zenon DEF flush
    <2>3. qWriter'.pc # "release"
      <3>1. CASE qWriter' = Resting
        BY <3>1 DEF Resting
      <3>2. ASSUME NEW b, qWriter' = [qWriter EXCEPT !.pc = "gone", !.batch = b] PROVE qWriter'.pc = "gone"
        BY <1>0, <3>2 DEF QueueTypes
      <3> QED BY <2>2, <3>1, <3>2
    <2>4. InChannel' = InChannel /\ Released = {} /\ Released' = {}
      BY <2>1, <2>3 DEF InChannel, Released
    <2>5. Counted' = Counted
      BY <1>b, <2>1, <2>4, CountedIs
    <2> QED BY <1>a, <2>1, <2>5, CountMoves
  <1>6. CASE terminate
    <2>1. Counted' = Counted
      BY <1>6 DEF terminate, Counted
    <2>2. framing' = framing /\ mixed' = mixed /\ pendingBytes' = pendingBytes
      BY <1>6 DEF terminate
    <2> QED BY <1>a, <2>1, <2>2, CountMoves
  <1>7. CASE purgeChannels
    <2> DEFINE m == Head(qItems)
    <2>1. /\ qItems # <<>> /\ qItems' = Tail(qItems) /\ producer' = producer /\ qWriter' = qWriter
          /\ framing' = framing /\ mixed' = mixed /\ pendingBytes' = Less(pendingBytes, Size(m, framing))
      BY <1>7 DEF purgeChannels, release
    <2>2. InChannel' = Messages(Tail(qItems)) /\ Released' = Released
      BY <2>1 DEF InChannel, Released
    <2>3. Counted' = Counted \ {m} /\ m \in Counted
      BY <1>b, <1>c, <2>1, <2>2, CountedIs
    <2> QED BY <1>c, <2>1, <2>3, CountMoves
  <1> QED
    BY <1>1, <1>2, <1>3, <1>4, <1>5, <1>6, <1>7 DEF QueueNext


\* The line is the same, or grows with what was queued, or loses what the clean-up takes.
LEMMA LineKept ==
    ASSUME QueueInv, queued' = queued, Line' = Line, ~qTerminating' => ~qTerminating,
           qWriter'.pc = "select" => qWriter'.batch = <<>>
    PROVE  LineFits'
  <1>1. LineFits
    BY DEF QueueInv
  <1> QED
    BY <1>1 DEF LineFits, IsPartOf

\* The line is one of numbers.
LEMMA LineIs ==
    ASSUME QueueInv
    PROVE  /\ sent \in Seq(Nat) /\ qWriter.batch \in Seq(Nat) /\ qWriter.item.id \in Nat
           /\ Hand \in Seq(Nat) /\ Waiting \in Seq(Nat) /\ sent \o Hand \in Seq(Nat) /\ Line \in Seq(Nat)
           /\ queued \in Seq(Nat) /\ qItems \in Seq(Item)
  <1>1. /\ sent \in Seq(Nat) /\ qWriter.batch \in Seq(Nat) /\ qWriter.item.id \in Nat
        /\ queued \in Seq(Nat) /\ qItems \in Seq(Item)
    BY DEF QueueInv, QueueTypes, Item
  <1>2. Hand \in Seq(Nat)
    <2>1. <<>> \in Seq(Nat) /\ <<qWriter.item.id>> \in Seq(Nat)
      BY <1>1
    <2>2. qWriter.batch \o <<>> \in Seq(Nat) /\ qWriter.batch \o <<qWriter.item.id>> \in Seq(Nat)
      BY <1>1, <2>1, ConcatProperties
    <2> QED BY <2>2 DEF Hand
  <1>3. Waiting \in Seq(Nat)
    BY <1>1, IdsAre DEF Waiting
  <1>4. sent \o Hand \in Seq(Nat)
    BY <1>1, <1>2, ConcatProperties
  <1>5. Line \in Seq(Nat)
    BY <1>3, <1>4, ConcatProperties DEF Line
  <1> QED
    BY <1>1, <1>2, <1>3, <1>4, <1>5

\* What is appended to what waits is appended to the line.
LEMMA LineGrows ==
    ASSUME NEW h \in Seq(Nat), NEW w \in Seq(Nat), NEW x \in Nat
    PROVE  h \o Append(w, x) = Append(h \o w, x)
  OBVIOUS

\* What was written and gathered stays part of what was queued, and nothing is skipped before
\* the clean-up.
LEMMA LineStep == ASSUME QueueInv, QueueNext PROVE LineFits'
  <1>0. LineFits
    BY DEF QueueInv
  <1>a. /\ sent \in Seq(Nat) /\ qWriter.batch \in Seq(Nat) /\ qWriter.item.id \in Nat
        /\ Hand \in Seq(Nat) /\ Waiting \in Seq(Nat) /\ sent \o Hand \in Seq(Nat) /\ Line \in Seq(Nat)
        /\ queued \in Seq(Nat) /\ qItems \in Seq(Item)
    BY LineIs
  <1>b. ASSUME sent' = sent, qWriter' = qWriter, qItems' = qItems, queued' = queued,
               ~qTerminating' => ~qTerminating
        PROVE  LineFits'
    <2>1. Line' = Line
      BY <1>b DEF Line, Hand, Waiting
    <2> QED BY <1>0, <1>b, <2>1, LineKept DEF LineFits
  <1>1. ASSUME NEW p \in Producer, queueOut(p) \/ reserveOutbound(p) PROVE LineFits'
    BY <1>b, <1>1 DEF queueOut, reserveOutbound
  <1>2. ASSUME NEW p \in Producer, send(p) PROVE LineFits'
    <2> DEFINE m == producer[p].item
    <2>1. sent' = sent /\ qWriter' = qWriter /\ qTerminating' = qTerminating
      BY <1>2 DEF send
    <2>2. m \in Item /\ m.id \in Nat
      <3>1. m \in Item
        BY DEF QueueInv, QueueTypes
      <3> QED BY <3>1 DEF Item
    <2>3. CASE qItems' = qItems /\ queued' = queued
      BY <1>b, <2>1, <2>3
    <2>4. CASE qItems' = Append(qItems, m) /\ queued' = Append(queued, m.id)
      <3>1. Hand' = Hand
        BY <2>1 DEF Hand
      <3>2. Waiting' = Append(Waiting, m.id)
        <4>1. Ids(qItems)' = Ids(qItems')
          BY DEF Ids
        <4>2. Ids(Append(qItems, m)) = Append(Ids(qItems), m.id)
          BY <1>a, <2>2, IdsAre
        <4> QED BY <2>4, <4>1, <4>2 DEF Waiting
      <3>3. Line' = Append(Line, m.id)
        <4> DEFINE h == sent \o Hand
                   x == m.id
        <4>1. Line = h \o Waiting /\ Line' = h \o Append(Waiting, x)
          BY <2>1, <3>1, <3>2 DEF Line
        <4>2. h \in Seq(Nat) /\ x \in Nat
          BY <1>a, <2>2
        <4> HIDE DEF h, x
        <4>3. h \o Append(Waiting, x) = Append(h \o Waiting, x)
          <5>1. Waiting \in Seq(Nat)
            BY <1>a
          <5> HIDE DEF Waiting
          <5> QED BY <4>2, <5>1, LineGrows
        <4>4. Line' = Append(Line, x)
          BY <4>1, <4>3
        <4> QED BY <4>4 DEF x
      <3>4. IsPartOf(Append(Line, m.id), Append(queued, m.id))
        <4> DEFINE x == m.id
        <4>1. x \in Nat /\ IsPartOf(Line, queued)
          BY <1>0, <2>2 DEF LineFits
        <4> HIDE DEF x
        <4>2. IsPartOf(Append(Line, x), Append(queued, x))
          BY <1>a, <4>1, PartAppended
        <4> QED BY <4>2 DEF x
      <3>5. IsPartOf(Line, queued)' = IsPartOf(Line', queued')
        BY DEF IsPartOf
      <3> QED BY <1>0, <2>1, <2>4, <3>3, <3>4, <3>5 DEF LineFits
    <2> QED BY <1>2, <2>3, <2>4 DEF send
  <1>3. CASE hello
    BY <1>b, <1>3 DEF hello
  <1>4. CASE writeLoopTakes \/ batchTakes
    <2>1. /\ qItems # <<>> /\ qItems' = Tail(qItems) /\ sent' = sent /\ queued' = queued
          /\ qTerminating' = qTerminating
          /\ qWriter'.pc = "release" /\ qWriter'.item = Head(qItems) /\ qWriter'.batch = qWriter.batch
          /\ qWriter.pc # "release"
      <3>1. qWriter.pc = "select" => qWriter.batch = <<>>
        BY <1>0 DEF LineFits
      <3> QED BY <1>4, <3>1 DEF writeLoopTakes, batchTakes, Take
    <2> DEFINE w == Waiting
               b == qWriter.batch
    <2>2. w # <<>> /\ Head(w) = Head(qItems).id /\ Waiting' = Tail(w)
      <3>1. Waiting' = Ids(Tail(qItems))
        BY <2>1 DEF Waiting, Ids
      <3> QED BY <1>a, <2>1, <3>1, IdsAre DEF Waiting
    <2>3. Hand' = b \o <<Head(w)>>
      BY <2>1, <2>2 DEF Hand
    <2>4. Hand = b
      BY <1>a, <2>1 DEF Hand
    <2>5. Line = (sent \o b) \o w /\ Line' = (sent \o (b \o <<Head(w)>>)) \o Tail(w)
      BY <2>1, <2>2, <2>3, <2>4 DEF Line
    <2>6. sent \in Seq(Nat) /\ b \in Seq(Nat) /\ w \in Seq(Nat) /\ w # <<>>
      BY <1>a, <2>2
    <2> HIDE DEF w, b
    <2>7. (sent \o (b \o <<Head(w)>>)) \o Tail(w) = (sent \o b) \o w
      BY <2>6, HeadsMove, Zenon
    <2> QED BY <2>1, <2>5, <2>7, LineKept
  <1>5. CASE releaseOutbound
    <2>1. /\ qItems' = qItems /\ sent' = sent /\ queued' = queued /\ qTerminating' = qTerminating
          /\ qWriter.pc = "release" /\ qWriter'.pc \in {"gather", "write"}
          /\ qWriter'.batch = Append(qWriter.batch, qWriter.item.id)
      BY <1>5 DEF releaseOutbound, QueueInv, QueueTypes
    <2>2. Hand = qWriter.batch \o <<qWriter.item.id>> /\ Hand' = Append(qWriter.batch, qWriter.item.id) \o <<>>
      BY <2>1 DEF Hand
    <2> DEFINE b == qWriter.batch
               x == qWriter.item.id
    <2>3. b \in Seq(Nat) /\ x \in Nat /\ Hand = b \o <<x>> /\ Hand' = Append(b, x) \o <<>>
      BY <1>a, <2>2
    <2> HIDE DEF b, x
    <2>4. Append(b, x) \o <<>> = b \o <<x>>
      BY <2>3
    <2>5. Hand' = Hand
      BY <2>3, <2>4
    <2>6. Line' = Line
      BY <2>1, <2>5 DEF Line, Waiting, Ids
    <2> QED BY <2>1, <2>6, LineKept
  <1>6. CASE flush
    <2>1. qItems' = qItems /\ queued' = queued /\ qTerminating' = qTerminating /\ qWriter.pc # "release"
      BY <1>6 DEF flush
    <2>2. Waiting' = Waiting
      BY <2>1 DEF Waiting, Ids
    <2> DEFINE b == qWriter.batch
    <2>3. Hand = b /\ b \in Seq(Nat)
      BY <1>a, <2>1 DEF Hand
    <2>4. CASE sent' = sent \o qWriter.batch /\ qWriter' = Resting
      <3>1. Hand' = <<>> /\ qWriter'.batch = <<>>
        BY <2>4 DEF Hand, Resting
      <3>2. (sent \o b) \o <<>> = sent \o b
        <4>1. sent \o b \in Seq(Nat)
          BY <1>a, <2>3
        <4> QED BY <4>1, ConcatEmptySeq
      <3>3. Line' = Line
        BY <2>2, <2>3, <2>4, <3>1, <3>2 DEF Line
      <3> QED BY <2>1, <3>1, <3>3, LineKept
    <2>5. ASSUME NEW k \in 0 .. Len(b) - 1, sent' = sent \o SubSeq(b, 1, k),
                 qWriter' = [qWriter EXCEPT !.pc = "gone", !.batch = SubSeq(@, k + 1, Len(@))]
          PROVE  LineFits'
      <3> DEFINE c == SubSeq(b, k + 1, Len(b))
      <3>1. qWriter'.pc = "gone" /\ qWriter'.batch = c
        BY <2>5 DEF QueueInv, QueueTypes
      <3>2. c \in Seq(Nat) /\ (sent \o SubSeq(b, 1, k)) \o c = sent \o b
        BY <1>a, <2>3, BatchSplits
      <3> HIDE DEF c
      <3>3. Hand' = c
        BY <3>1, <3>2 DEF Hand
      <3>4. Line' = Line
        BY <2>2, <2>3, <2>5, <3>2, <3>3 DEF Line
      <3> QED BY <2>1, <3>1, <3>4, LineKept
    <2> QED BY <1>6, <2>4, <2>5 DEF flush
  <1>7. CASE terminate
    BY <1>b, <1>7 DEF terminate
  <1>8. CASE purgeChannels
    <2>1. /\ qTerminating' /\ qItems # <<>> /\ qItems' = Tail(qItems) /\ sent' = sent /\ qWriter' = qWriter
          /\ queued' = queued
      BY <1>8 DEF purgeChannels
    <2>2. Waiting # <<>> /\ Waiting' = Tail(Waiting)
      <3>1. Waiting' = Ids(Tail(qItems))
        BY <2>1 DEF Waiting, Ids
      <3> QED BY <1>a, <2>1, <3>1, IdsAre DEF Waiting
    <2> DEFINE h == sent \o Hand
    <2>3. Line = h \o Waiting /\ Line' = h \o Tail(Waiting) /\ h \in Seq(Nat)
      <3>1. Hand' = Hand
        BY <2>1 DEF Hand
      <3> QED BY <1>a, <2>1, <2>2, <3>1 DEF Line
    <2> HIDE DEF h
    <2>4. IsPartOf(h \o Waiting, queued)
      BY <1>0, <2>3 DEF LineFits
    <2>5. IsPartOf(h \o Tail(Waiting), queued)
      BY <1>a, <2>2, <2>3, <2>4, PartLeftOut
    <2>6. IsPartOf(Line, queued)' = IsPartOf(Line', queued')
      BY DEF IsPartOf
    <2> QED BY <1>0, <2>1, <2>3, <2>5, <2>6 DEF LineFits
  <1> QED
    BY <1>1, <1>2, <1>3, <1>4, <1>5, <1>6, <1>7, <1>8 DEF QueueNext

\* Every step keeps the invariant.
LEMMA QueueStepInv == QueueInv /\ [QueueNext]_queueVars => QueueInv'
  <1>1. ASSUME QueueInv, QueueNext PROVE QueueInv'
    BY <1>1, QueueTypesStep, OnePlaceStep, CountStep, LineStep DEF QueueInv
  <1>2. ASSUME QueueInv, UNCHANGED queueVars PROVE QueueInv'
    <2>1. QueueTypes' /\ OnePlaceOnly'
      BY <1>2 DEF QueueInv, QueueTypes, OnePlaceOnly, IsBusy, queueVars
    <2>2. CountFits'
      BY <1>2 DEF QueueInv, CountFits, Counted, Units, Size, queueVars
    <2>3. LineFits'
      <3>1. Line' = Line /\ queued' = queued /\ qTerminating' = qTerminating /\ qWriter' = qWriter
        BY <1>2 DEF Line, Hand, Waiting, Ids, queueVars
      <3>2. LineFits
        BY <1>2 DEF QueueInv
      <3> QED BY <1>2, <3>1, <3>2, LineKept DEF LineFits
    <2> QED BY <2>1, <2>2, <2>3 DEF QueueInv
  <1> QED
    BY <1>1, <1>2

\* What the runs check follows from the invariant.
LEMMA QueueImplies == QueueInv => QueueSafe
  <1> SUFFICES ASSUME QueueInv PROVE QueueSafe
    OBVIOUS
  <1>1. PendingIsSum
    BY DEF QueueInv, CountFits, PendingIsSum
  <1>2. WireInOrder
    <2>1. ASSUME NEW i \in DOMAIN sent, NEW j \in DOMAIN sent, i < j
          PROVE  \E k, l \in DOMAIN queued : k < l /\ queued[k] = sent[i] /\ queued[l] = sent[j]
      <3>1. /\ DOMAIN sent = 1 .. Len(sent) /\ DOMAIN queued = 1 .. Len(queued)
            /\ \A n \in 1 .. Len(sent) : n \in 1 .. Len(Line) /\ Line[n] = sent[n]
        <4>1. sent \in Seq(Nat) /\ Hand \in Seq(Nat) /\ Waiting \in Seq(Nat) /\ queued \in Seq(Nat)
          BY LineIs
        <4> HIDE DEF Hand, Waiting
        <4> QED BY <4>1 DEF Line
      <3>2. IsPartOf(Line, queued)
        BY DEF QueueInv, LineFits
      <3>4. i \in 1 .. Len(Line) /\ j \in 1 .. Len(Line)
        BY <3>1
      <3>3. PICK k, l \in 1 .. Len(queued) : k < l /\ queued[k] = Line[i] /\ queued[l] = Line[j]
        BY <2>1, <3>2, <3>4 DEF IsPartOf
      <3> QED BY <3>1, <3>3
    <2>2. ~qTerminating => queued = Line
      BY DEF QueueInv, LineFits
    <2> QED BY <2>1, <2>2 DEF WireInOrder, Line, Hand, Waiting, Ids
  <1> QED
    BY <1>1, <1>2 DEF QueueSafe

\* The bytes counted are those of the messages underway, and the connection carries the
\* messages in the order in which they were queued: for any number of producers and
\* messages, and any limits (queueOut, reserveOutbound, writeLoop, purgeChannels).
THEOREM QueueIsSafe == QueueSpec => []QueueSafe
  BY QueueInitInv, QueueStepInv, QueueImplies, PTL DEF QueueSpec

-----------------------------------------------------------------------------
(* Sessions behind a proxy (ProxyTopics).                                  *)
(*                                                                         *)
(* A multiplex session holds places 1 .. n for a user. Each step of the    *)
(* master adds or takes places of one multiplex session and changes the    *)
(* count by as many; only an eviction sets it, and then no places are left *)
(* unless a session had held more than one.                                *)

\* What goes from the master to the proxy, and what waits at the master.
Message ==
    [kind : {"join", "leave"}, sess : PxSession, ok : BOOLEAN] \cup [kind : {"evicted"}, user : User]
Joining == [sess : PxSession, mux : Mux]
Leaving == [kind : {"leave", "nil"}, sess : PxSession, mux : Mux] \cup [kind : {"mux"}, mux : Mux]

\* Types of the variables that the argument is about: those of the proxy's node, the requests and
\* answers underway, and the topic.
ClientTypes ==
    /\ sessState \in [PxSession -> {"live", "terminating", "ended"}]
    /\ proxySess \subseteq PxSession /\ proxyUnreg \subseteq [sess : PxSession, init : BOOLEAN]
CallTypes ==
    /\ mux \in 0 .. MaxMux /\ muxMade \in 0 .. MaxMux
    /\ masterReg \in Seq(Joining) /\ masterUnreg \in Seq(Leaving) /\ muxOut \in [Mux -> Seq(Message)]
TopicTypes ==
    /\ attachedMux \subseteq Mux /\ muids \in [Mux -> [User -> Nat]] /\ online \in [User -> Int]
    /\ twice \subseteq User
ProxyTypes == ClientTypes /\ CallTypes /\ TopicTypes /\ proxyIn \in Seq(Message)

\* A session of the proxy has the topic among its subscriptions, with the queues of this proxy,
\* unless a message of an earlier eviction has taken it.
SubbedToo == proxySess \ lateDetached \subseteq subbed \ oldSub

\* The places of a user are finitely many, and as many as the user is counted for, or more.
Fits(u) ==
    /\ IsFiniteSet(Places(u)) /\ online[u] <= Cardinality(Places(u))
    /\ u \notin twice => online[u] = Cardinality(Places(u))
OnlineFits == \A u \in User : Fits(u)

\* The inductive invariant.
ProxyInv == ProxyTypes /\ SubbedToo /\ EndedIsLeaving /\ OnlineFits

\* How many places a multiplex session holds for a user, and all places.
HeldBy(A, M, m, u) == IF m \in A THEN M[m][u] ELSE 0
PlacesIn(A, M, u) == UNION {{m} \X (1 .. M[m][u]) : m \in A}

\* A place is that of a session that holds as many.
LEMMA PlaceIs ==
    ASSUME NEW A \in SUBSET Mux, NEW M \in [Mux -> [User -> Nat]], NEW u \in User
    PROVE  /\ \A m, k : <<m, k>> \in PlacesIn(A, M, u) <=> m \in Mux /\ k \in 1 .. HeldBy(A, M, m, u)
           /\ \A x \in PlacesIn(A, M, u) : \E m, k : x = <<m, k>>
           /\ \A m \in Mux : HeldBy(A, M, m, u) \in Nat
  <1>1. \A m \in Mux : M[m][u] \in Nat /\ HeldBy(A, M, m, u) \in Nat
    BY DEF HeldBy
  <1>2. ASSUME NEW m, NEW k, <<m, k>> \in PlacesIn(A, M, u) PROVE m \in Mux /\ k \in 1 .. HeldBy(A, M, m, u)
    BY <1>2 DEF PlacesIn, HeldBy
  <1>3. ASSUME NEW m \in Mux, NEW k \in 1 .. HeldBy(A, M, m, u) PROVE <<m, k>> \in PlacesIn(A, M, u)
    <2>1. m \in A
      BY <1>3 DEF HeldBy
    <2> QED BY <1>3, <2>1 DEF PlacesIn, HeldBy
  <1>4. \A x \in PlacesIn(A, M, u) : \E m, k : x = <<m, k>>
    BY DEF PlacesIn
  <1> QED
    BY <1>1, <1>2, <1>3, <1>4

\* Sessions that hold as much have the same places.
LEMMA PlacesSame ==
    ASSUME NEW A \in SUBSET Mux, NEW M \in [Mux -> [User -> Nat]], NEW u \in User,
           NEW B \in SUBSET Mux, NEW N \in [Mux -> [User -> Nat]],
           \A m \in Mux : HeldBy(B, N, m, u) = HeldBy(A, M, m, u)
    PROVE  PlacesIn(B, N, u) = PlacesIn(A, M, u)
  <1>1. ASSUME NEW m, NEW k PROVE <<m, k>> \in PlacesIn(B, N, u) <=> <<m, k>> \in PlacesIn(A, M, u)
    <2>1. <<m, k>> \in PlacesIn(A, M, u) <=> m \in Mux /\ k \in 1 .. HeldBy(A, M, m, u)
      BY PlaceIs
    <2>2. <<m, k>> \in PlacesIn(B, N, u) <=> m \in Mux /\ k \in 1 .. HeldBy(B, N, m, u)
      BY PlaceIs
    <2> QED BY <2>1, <2>2
  <1>2. /\ \A x \in PlacesIn(A, M, u) : \E m, k : x = <<m, k>>
        /\ \A x \in PlacesIn(B, N, u) : \E m, k : x = <<m, k>>
    BY PlaceIs
  <1>3. ASSUME NEW x PROVE x \in PlacesIn(B, N, u) <=> x \in PlacesIn(A, M, u)
    <2>1. ASSUME NEW m, NEW k, x = <<m, k>> PROVE x \in PlacesIn(B, N, u) <=> x \in PlacesIn(A, M, u)
      BY Zenon, <1>1, <2>1
    <2>2. CASE \E m, k : x = <<m, k>>
      BY Zenon, <2>1, <2>2
    <2>3. CASE ~\E m, k : x = <<m, k>>
      BY Zenon, <1>2, <2>3
    <2> QED BY <2>2, <2>3
  <1> QED
    BY <1>3

\* Sessions that hold nothing have no places.
LEMMA PlacesNone ==
    ASSUME NEW A \in SUBSET Mux, NEW M \in [Mux -> [User -> Nat]], NEW u \in User,
           \A m \in Mux : HeldBy(A, M, m, u) = 0
    PROVE  PlacesIn(A, M, u) = {}
  <1>1. ASSUME NEW x \in PlacesIn(A, M, u) PROVE FALSE
    <2>1. PICK m, k : x = <<m, k>>
      BY PlaceIs
    <2>2. m \in Mux /\ k \in 1 .. HeldBy(A, M, m, u)
      BY <2>1, PlaceIs
    <2>3. k \in 1 .. 0
      BY <2>2
    <2> QED BY <2>3
  <1> QED
    BY <1>1

\* One session holds fewer places, the others as many: its places beyond are those that go.
LEMMA PlacesSplit ==
    ASSUME NEW A \in SUBSET Mux, NEW M \in [Mux -> [User -> Nat]], NEW u \in User,
           NEW B \in SUBSET Mux, NEW N \in [Mux -> [User -> Nat]], NEW c \in Mux,
           \A m \in Mux : m # c => HeldBy(B, N, m, u) = HeldBy(A, M, m, u),
           HeldBy(B, N, c, u) <= HeldBy(A, M, c, u)
    PROVE  LET beyond == {c} \X (HeldBy(B, N, c, u) + 1 .. HeldBy(A, M, c, u))
           IN  /\ PlacesIn(A, M, u) = PlacesIn(B, N, u) \cup beyond
               /\ PlacesIn(B, N, u) \cap beyond = {}
  <1> DEFINE a == HeldBy(A, M, c, u)
             b == HeldBy(B, N, c, u)
             P == PlacesIn(A, M, u)
             Q == PlacesIn(B, N, u)
             beyond == {c} \X (b + 1 .. a)
  <1>1. /\ \A m, k : <<m, k>> \in P <=> m \in Mux /\ k \in 1 .. HeldBy(A, M, m, u)
        /\ \A x \in P : \E m, k : x = <<m, k>>
    BY PlaceIs
  <1>2. /\ \A m, k : <<m, k>> \in Q <=> m \in Mux /\ k \in 1 .. HeldBy(B, N, m, u)
        /\ \A x \in Q : \E m, k : x = <<m, k>>
    BY PlaceIs
  <1>3. \A m, k : <<m, k>> \in beyond <=> m = c /\ k \in b + 1 .. a
    OBVIOUS
  <1>4. \A x \in beyond : \E m, k : x = <<m, k>>
    OBVIOUS
  <1>5. a \in Nat /\ b \in Nat /\ b <= a
    BY PlaceIs
  <1> HIDE DEF P, Q, beyond
  <1>6. ASSUME NEW m, NEW k PROVE <<m, k>> \in P <=> <<m, k>> \in Q \/ <<m, k>> \in beyond
    <2>1. CASE m = c
      <3>1. <<m, k>> \in P <=> k \in 1 .. a
        BY <1>1, <2>1
      <3>2. <<m, k>> \in Q <=> k \in 1 .. b
        BY <1>2, <2>1
      <3>3. <<m, k>> \in beyond <=> k \in b + 1 .. a
        BY <1>3, <2>1
      <3> HIDE DEF a, b
      <3>4. k \in 1 .. a <=> k \in 1 .. b \/ k \in b + 1 .. a
        BY <1>5
      <3> QED BY <3>1, <3>2, <3>3, <3>4
    <2>2. CASE m # c
      <3>1. <<m, k>> \notin beyond
        BY <1>3, <2>2
      <3>2. CASE m \in Mux
        <4>1. HeldBy(B, N, m, u) = HeldBy(A, M, m, u)
          BY <2>2, <3>2
        <4> QED BY <1>1, <1>2, <3>1, <4>1
      <3>3. CASE m \notin Mux
        BY <1>1, <1>2, <3>1, <3>3
      <3> QED BY <3>2, <3>3
    <2> QED BY <2>1, <2>2
  <1>7. ASSUME NEW x \in Q, x \in beyond PROVE FALSE
    <2>1. PICK m, k : x = <<m, k>>
      BY <1>2
    <2>2. m = c /\ k \in b + 1 .. a
      BY <1>3, <1>7, <2>1
    <2>3. k \in 1 .. b
      BY <1>2, <2>1, <2>2
    <2> HIDE DEF a, b
    <2> QED BY <1>5, <2>2, <2>3
  <1>8. P = Q \cup beyond
    BY <1>1, <1>2, <1>4, <1>6
  <1> QED
    BY <1>7, <1>8 DEF P, Q, beyond

\* As many go as it holds fewer.
LEMMA PlacesFewer ==
    ASSUME NEW A \in SUBSET Mux, NEW M \in [Mux -> [User -> Nat]], NEW u \in User,
           NEW B \in SUBSET Mux, NEW N \in [Mux -> [User -> Nat]], NEW c \in Mux,
           \A m \in Mux : m # c => HeldBy(B, N, m, u) = HeldBy(A, M, m, u),
           HeldBy(B, N, c, u) <= HeldBy(A, M, c, u)
    PROVE  /\ IsFiniteSet(PlacesIn(A, M, u)) <=> IsFiniteSet(PlacesIn(B, N, u))
           /\ IsFiniteSet(PlacesIn(A, M, u)) =>
                 Cardinality(PlacesIn(A, M, u))
                     = Cardinality(PlacesIn(B, N, u)) + (HeldBy(A, M, c, u) - HeldBy(B, N, c, u))
  <1> DEFINE a == HeldBy(A, M, c, u)
             b == HeldBy(B, N, c, u)
             P == PlacesIn(A, M, u)
             Q == PlacesIn(B, N, u)
             beyond == {c} \X (b + 1 .. a)
  <1>1. P = Q \cup beyond /\ Q \cap beyond = {}
    BY PlacesSplit
  <1>2. a \in Nat /\ b \in Nat /\ b <= a
    BY PlaceIs
  <1>3. IsFiniteSet(beyond) /\ Cardinality(beyond) = a - b
    <2> HIDE DEF a, b
    <2>1. IsFiniteSet({c}) /\ Cardinality({c}) = 1
      BY FS_Singleton
    <2>2. IsFiniteSet(b + 1 .. a) /\ Cardinality(b + 1 .. a) = a - b
      <3>1. b + 1 \in Int /\ a \in Int
        BY <1>2
      <3>2. IsFiniteSet(b + 1 .. a) /\ Cardinality(b + 1 .. a) = IF b + 1 > a THEN 0 ELSE a - (b + 1) + 1
        BY <3>1, FS_Interval
      <3> QED BY <1>2, <3>2
    <2>3. IsFiniteSet(beyond) /\ Cardinality(beyond) = Cardinality({c}) * Cardinality(b + 1 .. a)
      BY <2>1, <2>2, FS_Product
    <2>4. a - b \in Nat
      BY <1>2
    <2> HIDE DEF beyond
    <2> QED BY <2>1, <2>2, <2>3, <2>4
  <1> HIDE DEF P, Q, beyond, a, b
  <1>4. ASSUME IsFiniteSet(P) PROVE IsFiniteSet(Q)
    <2>1. Q \subseteq P
      BY <1>1
    <2> QED BY <1>4, <2>1, FS_Subset
  <1>5. ASSUME IsFiniteSet(Q) PROVE IsFiniteSet(P) /\ Cardinality(P) = Cardinality(Q) + (a - b)
    <2>1. /\ IsFiniteSet(Q \cup beyond)
          /\ Cardinality(Q \cup beyond) = Cardinality(Q) + Cardinality(beyond) - Cardinality(Q \cap beyond)
      BY <1>3, <1>5, FS_Union
    <2>2. Cardinality({}) = 0 /\ Cardinality(Q) \in Nat
      BY <1>5, FS_EmptySet, FS_CardinalityType
    <2>3. IsFiniteSet(P) /\ Cardinality(P) = Cardinality(Q) + Cardinality(beyond) - 0
      BY <1>1, <2>1, <2>2
    <2> QED BY <1>2, <1>3, <2>2, <2>3
  <1> QED
    BY <1>4, <1>5 DEF P, Q, a, b


\* The invariant holds at the start.
LEMMA ProxyInitInv == ProxyInit => ProxyInv
  <1> SUFFICES ASSUME ProxyInit PROVE ProxyInv
    OBVIOUS
  <1> USE DEF ProxyInit
  <1>1. ClientTypes /\ proxyIn \in Seq(Message)
    BY DEF ClientTypes
  <1>2. CallTypes
    <2>1. <<>> \in Seq(Joining) /\ <<>> \in Seq(Leaving) /\ <<>> \in Seq(Message)
      OBVIOUS
    <2>2. mux \in 0 .. MaxMux /\ muxMade \in 0 .. MaxMux
      BY ProxyAssumption
    <2>3. muxOut \in [Mux -> Seq(Message)]
      BY <2>1
    <2> QED BY <2>1, <2>2, <2>3 DEF CallTypes
  <1>3. TopicTypes
    <2>1. NoUsers \in [User -> Nat] /\ NoUsers \in [User -> Int]
      BY DEF NoUsers
    <2> HIDE DEF NoUsers
    <2> QED BY <2>1 DEF TopicTypes
  <1>4. SubbedToo /\ EndedIsLeaving
    BY DEF SubbedToo, EndedIsLeaving
  <1>5. OnlineFits
    <2>1. \A u \in User : Places(u) = {} /\ online[u] = 0
      BY DEF Places, NoUsers
    <2> HIDE DEF ProxyInit
    <2> QED BY <2>1, FS_EmptySet DEF OnlineFits, Fits
  <1> QED
    BY <1>1, <1>2, <1>3, <1>4, <1>5 DEF ProxyInv, ProxyTypes

\* The number of a multiplex session.
LEMMA MuxIs == ASSUME CallTypes, MuxOf <= MaxMux PROVE MuxOf \in Mux
  BY ProxyAssumption DEF CallTypes, MuxOf, Mux

\* The messages that can be sent.
LEMMA MessageIs ==
    ASSUME NEW s \in PxSession
    PROVE  /\ \A ok \in BOOLEAN : /\ [kind |-> "join", sess |-> s, ok |-> ok] \in Message
                                  /\ [kind |-> "leave", sess |-> s, ok |-> ok] \in Message
           /\ [kind |-> "evicted", user |-> PxUser[s]] \in Message
           /\ \A m \in Mux : /\ [sess |-> s, mux |-> m] \in Joining
                             /\ [kind |-> "leave", sess |-> s, mux |-> m] \in Leaving
                             /\ [kind |-> "nil", sess |-> s, mux |-> m] \in Leaving
                             /\ [kind |-> "mux", mux |-> m] \in Leaving
  BY DEF Message, Joining, Leaving, User

\* A message for the queue of a multiplex session.
LEMMA QueueToIs ==
    ASSUME CallTypes, NEW m \in Mux, NEW msg \in Message, QueueTo(m, msg) PROVE muxOut' \in [Mux -> Seq(Message)]
  <1>1. Append(muxOut[m], msg) \in Seq(Message)
    <2>1. muxOut[m] \in Seq(Message)
      BY DEF CallTypes
    <2> QED BY <2>1
  <1> QED
    BY <1>1 DEF CallTypes, QueueTo

\* What the calls of the proxy do at the master.
Calls(s) ==
    \/ TopicMasterJoin(s) \/ TopicMasterLeave("leave", s) \/ TopicMasterLeave("nil", s) \/ CallFails
    \/ UNCHANGED <<masterVars, muxOut>>

\* They keep the types.
LEMMA CallsAre == ASSUME CallTypes, NEW s \in PxSession, Calls(s) PROVE CallTypes'
  <1>1. CASE TopicMasterJoin(s)
    <2>1. MuxOf \in Mux /\ mux' = MuxOf /\ muxMade' \in {muxMade, MuxOf} /\ masterUnreg' = masterUnreg
      BY <1>1, MuxIs DEF TopicMasterJoin, GetMux
    <2>2. MuxOf \in 0 .. MaxMux
      BY <2>1, ProxyAssumption DEF Mux
    <2>3. masterReg' \in Seq(Joining) /\ muxOut' \in [Mux -> Seq(Message)]
      <3>1. CASE masterReg' = Append(masterReg, [sess |-> s, mux |-> MuxOf]) /\ muxOut' = muxOut
        <4>1. [sess |-> s, mux |-> MuxOf] \in Joining
          BY <2>1, MessageIs
        <4>2. Append(masterReg, [sess |-> s, mux |-> MuxOf]) \in Seq(Joining)
          BY <4>1 DEF CallTypes
        <4> QED BY <3>1, <4>2 DEF CallTypes
      <3>2. CASE masterReg' = masterReg /\ QueueTo(MuxOf, [kind |-> "join", sess |-> s, ok |-> FALSE])
        <4>1. [kind |-> "join", sess |-> s, ok |-> FALSE] \in Message
          BY MessageIs
        <4> QED BY <2>1, <3>2, <4>1, QueueToIs DEF CallTypes
      <3> QED BY <1>1, <3>1, <3>2 DEF TopicMasterJoin
    <2> QED BY <2>1, <2>2, <2>3 DEF CallTypes
  <1>2. ASSUME NEW kind \in {"leave", "nil"}, TopicMasterLeave(kind, s) PROVE CallTypes'
    <2>1. /\ MuxOf \in Mux /\ mux' = MuxOf /\ muxMade' \in {muxMade, MuxOf}
          /\ masterReg' = masterReg /\ muxOut' = muxOut
      BY <1>2, MuxIs DEF TopicMasterLeave, GetMux
    <2>2. MuxOf \in 0 .. MaxMux
      BY <2>1, ProxyAssumption DEF Mux
    <2>3. masterUnreg' \in Seq(Leaving)
      <3>1. [kind |-> kind, sess |-> s, mux |-> MuxOf] \in Leaving
        BY <2>1 DEF Leaving
      <3>2. Append(masterUnreg, [kind |-> kind, sess |-> s, mux |-> MuxOf]) \in Seq(Leaving)
        BY <3>1 DEF CallTypes
      <3> QED BY <1>2, <3>2 DEF TopicMasterLeave
    <2> QED BY <2>1, <2>2, <2>3 DEF CallTypes
  <1>3. CASE CallFails \/ UNCHANGED <<masterVars, muxOut>>
    BY <1>3 DEF CallFails, CallTypes, masterVars
  <1> QED
    BY <1>1, <1>2, <1>3 DEF Calls

\* A step that leaves the topic alone.
LEMMA TopicKept ==
    ASSUME ProxyInv, UNCHANGED <<topicVars, twice>> PROVE TopicTypes' /\ OnlineFits'
  <1>1. TopicTypes'
    BY DEF ProxyInv, ProxyTypes, TopicTypes, topicVars
  <1>2. OnlineFits'
    BY DEF ProxyInv, OnlineFits, Fits, Places, topicVars
  <1> QED
    BY <1>1, <1>2

\* A step that leaves the proxy's node alone, but for answers.
LEMMA ProxyKept ==
    ASSUME ProxyInv, UNCHANGED <<sessState, subbed, oldSub, lateDetached, proxySess, proxyUnreg>>
    PROVE  ClientTypes' /\ SubbedToo' /\ EndedIsLeaving'
  BY DEF ProxyInv, ProxyTypes, ClientTypes, SubbedToo, EndedIsLeaving

\* The steps of clients and sessions.
LEMMA ClientStep ==
    ASSUME ProxyInv, NEW s \in PxSession,
           proxiedSubscribe(s) \/ proxiedLeave(s) \/ proxiedDetach(s) \/ terminating(s) \/ proxiedCleanUp(s)
           \/ proxyJoin(s)
    PROVE  ProxyInv'
  <1>0. ClientTypes /\ CallTypes /\ TopicTypes /\ proxyIn \in Seq(Message) /\ SubbedToo /\ EndedIsLeaving
    BY DEF ProxyInv, ProxyTypes
  <1>1. TopicTypes' /\ OnlineFits'
    <2>1. UNCHANGED <<topicVars, twice>>
      BY DEF proxiedSubscribe, proxiedLeave, proxiedDetach, terminating, proxiedCleanUp, proxyJoin
    <2> QED BY <2>1, TopicKept
  <1>2. CallTypes' /\ proxyIn' \in Seq(Message)
    <2>1. Calls(s) /\ proxyIn' = proxyIn
      BY DEF proxiedSubscribe, proxiedLeave, proxiedDetach, terminating, proxiedCleanUp, proxyJoin, Calls, muxVars
    <2> QED BY <1>0, <2>1, CallsAre
  <1>3. ClientTypes' /\ SubbedToo' /\ EndedIsLeaving'
    <2>1. CASE proxiedSubscribe(s) \/ proxyJoin(s)
      <3>1. UNCHANGED <<sessState, subbed, oldSub, lateDetached, proxySess, proxyUnreg>>
        BY <2>1 DEF proxiedSubscribe, proxyJoin, proxyVars, subVars
      <3> QED BY <3>1, ProxyKept
    <2>2. CASE proxiedLeave(s)
      <3>1. [sess |-> s, init |-> TRUE] \in [sess : PxSession, init : BOOLEAN]
        OBVIOUS
      <3>2. /\ UNCHANGED <<sessState, subbed, oldSub, lateDetached, proxySess>>
            /\ proxyUnreg \subseteq proxyUnreg'
            /\ proxyUnreg' \subseteq proxyUnreg \cup {[sess |-> s, init |-> TRUE]}
        BY <2>2 DEF proxiedLeave, Asked, subVars
      <3> HIDE DEF proxiedLeave
      <3> QED BY <1>0, <3>1, <3>2 DEF ClientTypes, SubbedToo, EndedIsLeaving
    <2>3. CASE terminating(s)
      <3>1. UNCHANGED <<subbed, oldSub, lateDetached, proxySess, proxyUnreg>> /\ sessState' = [sessState EXCEPT ![s] = "terminating"]
        BY <2>3 DEF terminating, proxyVars
      <3>2. \A t \in PxSession : sessState'[t] = "ended" => sessState[t] = "ended"
        BY <1>0, <3>1 DEF ClientTypes
      <3> QED BY <1>0, <3>1, <3>2 DEF ClientTypes, SubbedToo, EndedIsLeaving
    <2>4. CASE proxiedCleanUp(s)
      <3>1. /\ UNCHANGED <<subbed, oldSub, lateDetached, proxySess>>
            /\ sessState' = [sessState EXCEPT ![s] = "ended"]
            /\ proxyUnreg \subseteq proxyUnreg'
            /\ proxyUnreg' \subseteq proxyUnreg \cup {[sess |-> s, init |-> FALSE]}
            /\ s \in subbed \ oldSub => [sess |-> s, init |-> FALSE] \in proxyUnreg'
        BY <2>4 DEF proxiedCleanUp, Asked, subVars
      <3>2. \A t \in PxSession : t # s => sessState'[t] = sessState[t]
        BY <1>0, <3>1 DEF ClientTypes
      <3>3. [sess |-> s, init |-> FALSE] \in [sess : PxSession, init : BOOLEAN]
        OBVIOUS
      <3>4. ClientTypes' /\ SubbedToo'
        BY <1>0, <3>1, <3>3 DEF ClientTypes, SubbedToo
      <3>5. ASSUME NEW t \in proxySess \ lateDetached, sessState'[t] = "ended"
            PROVE  [sess |-> t, init |-> FALSE] \in proxyUnreg'
        <4>1. CASE t = s
          BY <1>0, <3>1, <4>1 DEF SubbedToo
        <4>2. CASE t # s
          BY <1>0, <3>1, <3>2, <3>5, <4>2 DEF ClientTypes, EndedIsLeaving
        <4> QED BY <4>1, <4>2
      <3> QED BY <3>1, <3>4, <3>5 DEF EndedIsLeaving
    <2>5. CASE proxiedDetach(s)
      <3>1. /\ UNCHANGED <<sessState, proxySess, proxyUnreg>> /\ subbed' = subbed \ {s} /\ oldSub' = oldSub \ {s}
            /\ lateDetached' = lateDetached \cup ({s} \cap proxySess)
        BY <2>5 DEF proxiedDetach, proxyVars
      <3> QED BY <1>0, <3>1 DEF ClientTypes, SubbedToo, EndedIsLeaving
    <2> QED BY <2>1, <2>2, <2>3, <2>4, <2>5
  <1> QED
    BY <1>1, <1>2, <1>3 DEF ProxyInv, ProxyTypes


\* The steps of the proxy topic.
LEMMA ProxyStep ==
    ASSUME ProxyInv,
           \/ \E r \in proxyUnreg : handleProxyLeaveRequest(r)
           \/ topicProxyGone \/ proxyMasterResponse \/ proxyTimeout \/ proxyExit
    PROVE  ProxyInv'
  <1>0. ClientTypes /\ CallTypes /\ TopicTypes /\ proxyIn \in Seq(Message) /\ SubbedToo /\ EndedIsLeaving
    BY DEF ProxyInv, ProxyTypes
  <1>1. TopicTypes' /\ OnlineFits'
    <2>1. UNCHANGED <<topicVars, twice>>
      BY DEF handleProxyLeaveRequest, topicProxyGone, proxyMasterResponse, proxyTimeout, proxyExit
    <2> QED BY <2>1, TopicKept
  <1>2. ASSUME NEW r \in proxyUnreg, handleProxyLeaveRequest(r) PROVE ProxyInv'
    <2>0. r.sess \in PxSession /\ r \in [sess : PxSession, init : BOOLEAN]
      BY <1>0 DEF ClientTypes
    <2>1. CallTypes' /\ proxyIn' = proxyIn
      <3>1. Calls(r.sess) /\ proxyIn' = proxyIn
        BY <1>2 DEF handleProxyLeaveRequest, Calls
      <3> QED BY <1>0, <2>0, <3>1, CallsAre
    <2>2. /\ proxyUnreg' = proxyUnreg \ {r} /\ proxySess' = proxySess \ {r.sess} /\ sessState' = sessState
          /\ subbed \ {r.sess} \subseteq subbed' /\ oldSub' \subseteq oldSub
          /\ lateDetached \ {r.sess} \subseteq lateDetached'
      BY <1>2 DEF handleProxyLeaveRequest
    <2>3. ClientTypes' /\ SubbedToo'
      BY <1>0, <2>2 DEF ClientTypes, SubbedToo
    <2>4. EndedIsLeaving'
      <3>1. ASSUME NEW s \in (proxySess \ lateDetached)', sessState'[s] = "ended"
            PROVE  [sess |-> s, init |-> FALSE] \in proxyUnreg'
        <4>1. s # r.sess /\ [sess |-> s, init |-> FALSE] \in proxyUnreg
          BY <1>0, <2>2, <3>1 DEF EndedIsLeaving
        <4>2. [sess |-> s, init |-> FALSE] # r
          BY <4>1
        <4> QED BY <2>2, <4>1, <4>2
      <3> QED BY <3>1 DEF EndedIsLeaving
    <2> QED BY <1>0, <1>1, <2>1, <2>3, <2>4 DEF ProxyInv, ProxyTypes
  <1>3. CASE topicProxyGone
    <2>1. UNCHANGED <<sessState, subbed, oldSub, lateDetached, proxySess, proxyUnreg, proxyIn>> /\ UNCHANGED <<masterVars, muxOut>>
      BY <1>3 DEF topicProxyGone, clientVars, CallFails, masterVars
    <2>2. CallTypes'
      BY <1>0, <2>1 DEF CallTypes, masterVars
    <2> QED BY <1>0, <1>1, <2>1, <2>2, ProxyKept DEF ProxyInv, ProxyTypes
  <1>4. CASE proxyMasterResponse
    <2> DEFINE msg == Head(proxyIn)
    <2>1. msg \in Message /\ proxyIn' \in Seq(Message)
      <3>1. proxyIn # <<>> /\ proxyIn' = Tail(proxyIn)
        BY <1>4 DEF proxyMasterResponse
      <3> QED BY <1>0, <3>1
    <2>2. sessState' = sessState /\ proxyUnreg' = proxyUnreg
      BY <1>4 DEF proxyMasterResponse
    <2>3. CASE msg.kind = "join" /\ msg.ok
      <3> DEFINE s == msg.sess
      <3>1. s \in PxSession
        BY <2>1, <2>3 DEF Message
      <3>2. joinAnswered(s)
        BY <1>4, <2>3 DEF proxyMasterResponse
      <3> HIDE DEF s, msg
      <3>3. CallTypes'
        <4>1. Calls(s)
          BY <3>2 DEF joinAnswered, Calls
        <4> QED BY <1>0, <3>1, <4>1, CallsAre
      <3>4. \/ /\ Found(s) /\ proxySess' = proxySess \cup {s} /\ subbed' = subbed \cup {s}
               /\ oldSub' = oldSub \ {s} /\ lateDetached' = lateDetached \ {s}
            \/ UNCHANGED <<proxySess, subbed, oldSub, lateDetached>>
        BY <3>2 DEF joinAnswered, Added
      <3>5. ClientTypes' /\ SubbedToo'
        BY <1>0, <2>2, <3>1, <3>4 DEF ClientTypes, SubbedToo
      <3>6. EndedIsLeaving'
        BY <1>0, <2>2, <3>4 DEF EndedIsLeaving, Found
      <3> QED BY <1>1, <2>1, <3>3, <3>5, <3>6 DEF ProxyInv, ProxyTypes
    <2>4. CASE ~(msg.kind = "join" /\ msg.ok)
      <3>1. otherAnswered(msg) /\ UNCHANGED <<masterVars, muxOut>>
        BY <1>4, <2>4 DEF proxyMasterResponse
      <3> HIDE DEF msg
      <3>2. PICK out : /\ proxySess' = proxySess \ out
                       /\ lateDetached' = lateDetached \ out /\ UNCHANGED <<subbed, oldSub>>
        BY <3>1 DEF otherAnswered
      <3>3. ClientTypes' /\ SubbedToo' /\ EndedIsLeaving'
        BY <1>0, <2>2, <3>2 DEF ClientTypes, SubbedToo, EndedIsLeaving
      <3>4. CallTypes'
        BY <1>0, <3>1 DEF CallTypes, masterVars
      <3> QED BY <1>1, <2>1, <3>3, <3>4 DEF ProxyInv, ProxyTypes
    <2> QED BY <2>3, <2>4
  <1>5. CASE proxyTimeout
    <2>1. UNCHANGED <<sessState, subbed, oldSub, lateDetached, proxySess, proxyUnreg, proxyIn>> /\ UNCHANGED <<masterVars, muxOut>>
      BY <1>5 DEF proxyTimeout, clientVars, muxVars
    <2>2. CallTypes'
      BY <1>0, <2>1 DEF CallTypes, masterVars
    <2> QED BY <1>0, <1>1, <2>1, <2>2, ProxyKept DEF ProxyInv, ProxyTypes
  <1>6. CASE proxyExit
    <2>1. /\ sessState' = sessState /\ proxySess' = {} /\ proxyUnreg' = {} /\ proxyIn' = <<>>
          /\ UNCHANGED <<masterVars, muxOut>>
      BY <1>6 DEF proxyExit, muxVars
    <2>2. CallTypes'
      BY <1>0, <2>1 DEF CallTypes, masterVars
    <2>3. ClientTypes' /\ SubbedToo' /\ EndedIsLeaving' /\ proxyIn' \in Seq(Message)
      BY <1>0, <2>1 DEF ClientTypes, SubbedToo, EndedIsLeaving
    <2> QED BY <1>1, <2>2, <2>3 DEF ProxyInv, ProxyTypes
  <1> QED
    BY <1>2, <1>3, <1>4, <1>5, <1>6

\* The write loop of a multiplex session.
LEMMA WriteLoopStep == ASSUME ProxyInv, NEW m \in Mux, clusterWriteLoop(m) PROVE ProxyInv'
  <1>0. ClientTypes /\ CallTypes /\ TopicTypes /\ proxyIn \in Seq(Message)
    BY DEF ProxyInv, ProxyTypes
  <1>1. UNCHANGED <<sessState, subbed, oldSub, lateDetached, proxySess, proxyUnreg>> /\ UNCHANGED <<topicVars, twice>>
        /\ muxMade' = muxMade /\ masterReg' = masterReg
    BY DEF clusterWriteLoop, clientVars, proxyVars
  <1>2. mux' \in 0 .. MaxMux /\ masterUnreg' \in Seq(Leaving)
    <2>1. [kind |-> "mux", mux |-> m] \in Leaving
      BY DEF Leaving
    <2>2. Append(masterUnreg, [kind |-> "mux", mux |-> m]) \in Seq(Leaving)
      BY <1>0, <2>1 DEF CallTypes
    <2>3. endMux(m) \/ (mux' = mux /\ masterUnreg' = masterUnreg)
      BY DEF clusterWriteLoop, writeOne, stopOrDetach, writeRests, writeRested
    <2>4. mux' \in {0, mux} /\ masterUnreg' \in {masterUnreg, Append(masterUnreg, [kind |-> "mux", mux |-> m])}
      BY <2>3 DEF endMux
    <2>5. mux' \in 0 .. MaxMux
      BY <1>0, <2>4, ProxyAssumption DEF CallTypes
    <2>6. masterUnreg' \in Seq(Leaving)
      <3>1. masterUnreg \in Seq(Leaving)
        BY <1>0 DEF CallTypes
      <3> QED BY <2>2, <2>4, <3>1
    <2> QED BY <2>5, <2>6
  <1>3. muxOut' \in [Mux -> Seq(Message)] /\ proxyIn' \in Seq(Message)
    <2>1. muxOut[m] \in Seq(Message)
      BY <1>0 DEF CallTypes
    <2>2. CASE writeOne(m)
      <3>1. Tail(muxOut[m]) \in Seq(Message) /\ Head(muxOut[m]) \in Message
        BY <2>1, <2>2 DEF writeOne
      <3>2. Append(proxyIn, Head(muxOut[m])) \in Seq(Message)
        BY <1>0, <3>1
      <3>3. muxOut' = [muxOut EXCEPT ![m] = Tail(muxOut[m])]
            /\ proxyIn' \in {proxyIn, Append(proxyIn, Head(muxOut[m]))}
        BY <2>2 DEF writeOne
      <3> QED BY <1>0, <3>1, <3>2, <3>3 DEF CallTypes
    <2>3. CASE UNCHANGED <<muxOut, proxyIn>>
      BY <1>0, <2>3 DEF CallTypes
    <2> QED BY <2>2, <2>3 DEF clusterWriteLoop, stopOrDetach, writeRests, writeRested
  <1>4. CallTypes'
    BY <1>0, <1>1, <1>2, <1>3 DEF CallTypes
  <1> QED
    BY <1>1, <1>3, <1>4, TopicKept, ProxyKept DEF ProxyInv, ProxyTypes


\* Places are those of the map.
LEMMA PlacesAre ==
    /\ \A u : Places(u) = PlacesIn(attachedMux, muids, u)
    /\ \A u : Places(u)' = PlacesIn(attachedMux', muids', u)
  BY DEF Places, PlacesIn

\* The users of a multiplex session.
HeldNow(m, u) == HeldBy(attachedMux, muids, m, u)
HeldNext(m, u) == HeldBy(attachedMux', muids', m, u)

\* One multiplex session holds one more or some less for one user, who is counted for that.
LEMMA OnlineMoves ==
    ASSUME ProxyInv, TopicTypes', twice' = twice, NEW u \in User, NEW c \in Mux,
           \A m \in Mux : m # c => HeldNext(m, u) = HeldNow(m, u),
           online'[u] = online[u] + (HeldNext(c, u) - HeldNow(c, u))
    PROVE  Fits(u)'
  <1> DEFINE A == attachedMux
             M == muids
             B == attachedMux'
             N == muids'
             P == PlacesIn(A, M, u)
             Q == PlacesIn(B, N, u)
             a == HeldBy(A, M, c, u)
             b == HeldBy(B, N, c, u)
  <1>1. /\ A \in SUBSET Mux /\ M \in [Mux -> [User -> Nat]]
        /\ B \in SUBSET Mux /\ N \in [Mux -> [User -> Nat]]
    BY DEF ProxyInv, ProxyTypes, TopicTypes
  <1>2. /\ \A m \in Mux : m # c => HeldBy(B, N, m, u) = HeldBy(A, M, m, u)
        /\ online'[u] = online[u] + (b - a)
    BY DEF HeldNow, HeldNext
  <1>3. IsFiniteSet(P) /\ online[u] <= Cardinality(P) /\ (u \notin twice => online[u] = Cardinality(P))
    BY PlacesAre DEF ProxyInv, OnlineFits, Fits
  <1>0. online[u] \in Int
    BY DEF ProxyInv, ProxyTypes, TopicTypes
  <1>4. Places(u)' = Q /\ IsFiniteSet(Places(u))' = IsFiniteSet(Q) /\ Cardinality(Places(u))' = Cardinality(Q)
    BY PlacesAre
  <1> HIDE DEF A, B, M, N
  <1>5. a \in Nat /\ b \in Nat
    BY <1>1, PlaceIs
  <1>6. \A m \in Mux : m # c => HeldBy(A, M, m, u) = HeldBy(B, N, m, u)
    BY <1>2
  <1>7. b <= a => IsFiniteSet(Q) /\ Cardinality(P) = Cardinality(Q) + (a - b)
    BY <1>1, <1>2, <1>3, PlacesFewer
  <1>8. a <= b => IsFiniteSet(Q) /\ Cardinality(Q) = Cardinality(P) + (b - a)
    BY <1>1, <1>3, <1>6, PlacesFewer
  <1>9. IsFiniteSet(Q)
    <2> HIDE DEF a, b, P, Q
    <2> QED BY <1>5, <1>7, <1>8
  <1>10. Cardinality(P) \in Nat /\ Cardinality(Q) \in Nat
    BY <1>3, <1>9, FS_CardinalityType
  <1>11. Cardinality(Q) = Cardinality(P) + (b - a)
    <2> HIDE DEF a, b, P, Q
    <2> QED BY <1>5, <1>7, <1>8, <1>10
  <1> HIDE DEF P, Q, a, b
  <1>12. online'[u] <= Cardinality(Q) /\ (u \notin twice' => online'[u] = Cardinality(Q))
    BY <1>0, <1>2, <1>3, <1>5, <1>10, <1>11
  <1> QED
    BY <1>4, <1>9, <1>12 DEF Fits

\* ... and the others are counted as before.
LEMMA OnlineSame ==
    ASSUME ProxyInv, TopicTypes', twice' = twice, NEW u \in User,
           \A m \in Mux : HeldNext(m, u) = HeldNow(m, u), online'[u] = online[u]
    PROVE  Fits(u)'
  <1> DEFINE A == attachedMux
             M == muids
             B == attachedMux'
             N == muids'
  <1>1. /\ A \in SUBSET Mux /\ M \in [Mux -> [User -> Nat]]
        /\ B \in SUBSET Mux /\ N \in [Mux -> [User -> Nat]]
    BY DEF ProxyInv, ProxyTypes, TopicTypes
  <1>2. \A m \in Mux : HeldBy(B, N, m, u) = HeldBy(A, M, m, u)
    BY DEF HeldNow, HeldNext
  <1>3. Places(u) = PlacesIn(A, M, u) /\ Places(u)' = PlacesIn(B, N, u)
    BY PlacesAre
  <1> HIDE DEF A, B, M, N
  <1>4. Places(u)' = Places(u)
    BY <1>1, <1>2, <1>3, PlacesSame
  <1>5. Fits(u)
    BY DEF ProxyInv, OnlineFits
  <1>6. IsFiniteSet(Places(u))' = IsFiniteSet(Places(u)) /\ Cardinality(Places(u))' = Cardinality(Places(u))
    BY <1>4
  <1> QED
    BY <1>5, <1>6 DEF Fits

\* A join at the master: one place more for the user.
LEMMA RegisterStep == ASSUME ProxyInv, masterRegister PROVE ProxyInv'
  <1>0. ClientTypes /\ CallTypes /\ TopicTypes /\ proxyIn \in Seq(Message)
    BY DEF ProxyInv, ProxyTypes
  <1>1. /\ UNCHANGED <<sessState, subbed, oldSub, lateDetached, proxySess, proxyUnreg, proxyIn, mux, muxMade, masterUnreg, twice>>
        /\ masterReg # <<>> /\ masterReg' = Tail(masterReg)
    BY DEF masterRegister, clientVars, proxyVars
  <1>2. Head(masterReg) \in Joining /\ Tail(masterReg) \in Seq(Joining)
    BY <1>0, <1>1 DEF CallTypes
  <1>3. PICK s \in PxSession, m \in Mux : s = Head(masterReg).sess /\ m = Head(masterReg).mux
    BY <1>2 DEF Joining
  <1> DEFINE u == PxUser[s]
             held == IF m \in attachedMux THEN muids[m] ELSE NoUsers
  <1>4. u \in User
    BY DEF User
  <1>5. PICK ok \in BOOLEAN : QueueTo(m, [kind |-> "join", sess |-> s, ok |-> ok])
    BY <1>3 DEF masterRegister
  <1>6. CallTypes'
    <2>1. [kind |-> "join", sess |-> s, ok |-> ok] \in Message
      BY MessageIs
    <2>2. muxOut' \in [Mux -> Seq(Message)]
      BY <1>0, <1>5, <2>1, QueueToIs
    <2> QED BY <1>0, <1>1, <1>2, <2>2 DEF CallTypes
  <1>7. TopicTypes' /\ OnlineFits'
    <2>1. CASE UNCHANGED topicVars
      BY <1>1, <2>1, TopicKept
    <2>2. CASE /\ attachedMux' = attachedMux \cup {m}
               /\ muids' = [muids EXCEPT ![m] = [held EXCEPT ![u] = @ + 1]]
               /\ online' = [online EXCEPT ![u] = @ + 1]
      <3>1. held \in [User -> Nat]
        BY <1>0 DEF TopicTypes, NoUsers
      <3>2. \A v \in User : HeldNow(m, v) = held[v]
        BY DEF HeldNow, HeldBy, NoUsers
      <3> HIDE DEF u, held
      <3>3. [held EXCEPT ![u] = @ + 1] \in [User -> Nat]
        BY <1>4, <3>1
      <3>4. TopicTypes'
        <4>1. muids' \in [Mux -> [User -> Nat]]
          BY <1>0, <2>2, <3>3 DEF TopicTypes
        <4>2. online' \in [User -> Int]
          BY <1>0, <1>4, <2>2 DEF TopicTypes
        <4> QED BY <1>0, <1>1, <2>2, <4>1, <4>2 DEF TopicTypes
      <3>5. ASSUME NEW v \in User
            PROVE  /\ \A n \in Mux : n # m => HeldNext(n, v) = HeldNow(n, v)
                   /\ HeldNext(m, v) = IF v = u THEN held[v] + 1 ELSE held[v]
                   /\ online'[v] = IF v = u THEN online[v] + 1 ELSE online[v]
        <4>1. \A n \in Mux : n # m => muids'[n] = muids[n] /\ (n \in attachedMux' <=> n \in attachedMux)
          BY <1>0, <2>2 DEF TopicTypes
        <4>2. m \in attachedMux' /\ muids'[m] = [held EXCEPT ![u] = @ + 1]
          BY <1>0, <2>2 DEF TopicTypes
        <4>3. online'[v] = IF v = u THEN online[v] + 1 ELSE online[v]
          BY <1>0, <1>4, <2>2 DEF TopicTypes
        <4> QED BY <1>4, <3>1, <4>1, <4>2, <4>3 DEF HeldNext, HeldNow, HeldBy
      <3>6. ASSUME NEW v \in User
            PROVE  Fits(v)'
        <4>1. /\ \A n \in Mux : n # m => HeldNext(n, v) = HeldNow(n, v)
              /\ HeldNext(m, v) = IF v = u THEN held[v] + 1 ELSE held[v]
              /\ online'[v] = IF v = u THEN online[v] + 1 ELSE online[v]
              /\ HeldNow(m, v) = held[v]
          BY <3>2, <3>5
        <4>2. held[v] \in Nat /\ online[v] \in Int
          BY <1>0, <3>1 DEF TopicTypes
        <4>3. online'[v] = online[v] + (HeldNext(m, v) - HeldNow(m, v))
          BY <4>1, <4>2
        <4>4. twice' = twice
          BY <1>1
        <4> QED BY <3>4, <4>1, <4>3, <4>4, OnlineMoves
      <3> QED BY <3>4, <3>6 DEF OnlineFits
    <2> QED BY <1>3, <2>1, <2>2 DEF masterRegister
  <1> QED
    BY <1>0, <1>1, <1>6, <1>7, ProxyKept DEF ProxyInv, ProxyTypes

\* A multiplex session as a whole leaves, and the users are counted for its places no more.
LEMMA LeaveAllFits ==
    ASSUME ProxyInv, NEW m \in Mux, leaveAll(m), twice' = twice PROVE TopicTypes' /\ OnlineFits'
  <1>0. TopicTypes
    BY DEF ProxyInv, ProxyTypes
  <1>1. /\ attachedMux' = attachedMux \ {m} /\ muids' = [muids EXCEPT ![m] = NoUsers]
        /\ online' = [u \in User |-> IF m \in attachedMux THEN online[u] - muids[m][u] ELSE online[u]]
    BY DEF leaveAll
  <1>2. NoUsers \in [User -> Nat]
    BY DEF NoUsers
  <1>3. \A u \in User : online[u] \in Int /\ muids[m][u] \in Nat
    BY <1>0 DEF TopicTypes
  <1> HIDE DEF NoUsers
  <1>4. TopicTypes'
    <2>1. muids' \in [Mux -> [User -> Nat]]
      BY <1>0, <1>1, <1>2 DEF TopicTypes
    <2>2. online' \in [User -> Int]
      BY <1>1, <1>3
    <2> QED BY <1>0, <1>1, <2>1, <2>2 DEF TopicTypes
  <1>5. ASSUME NEW u \in User
        PROVE  Fits(u)'
    <2>1. \A n \in Mux : n # m => muids'[n] = muids[n] /\ (n \in attachedMux' <=> n \in attachedMux)
      BY <1>0, <1>1 DEF TopicTypes
    <2>2. \A n \in Mux : n # m => HeldNext(n, u) = HeldNow(n, u)
      BY <2>1 DEF HeldNext, HeldNow, HeldBy
    <2>3. HeldNext(m, u) = 0
      BY <1>1 DEF HeldNext, HeldBy
    <2>4. online'[u] = online[u] - HeldNow(m, u) /\ HeldNow(m, u) \in Nat
      BY <1>1, <1>3 DEF HeldNow, HeldBy
    <2>5. online'[u] = online[u] + (HeldNext(m, u) - HeldNow(m, u))
      BY <1>3, <2>3, <2>4
    <2> QED BY <1>4, <2>2, <2>5, OnlineMoves
  <1> QED
    BY <1>4, <1>5 DEF OnlineFits

\* One place of a user goes, and the session with the last one.
LEMMA FewerIs ==
    ASSUME TopicTypes, NEW m \in Mux, NEW u \in User, Holds(m, u)
    PROVE  /\ OneFewer(m, u) \in [User -> Nat] /\ OneFewer(m, u)[u] = muids[m][u] - 1 /\ m \in attachedMux
           /\ \A v \in User : v # u => OneFewer(m, u)[v] = muids[m][v]
           /\ Empties(m, u) => \A v \in User : OneFewer(m, u)[v] = 0
           /\ muids[m][u] \in Nat /\ muids[m][u] > 0
  <1>1. muids[m] \in [User -> Nat] /\ muids[m][u] > 0 /\ muids[m][u] \in Nat /\ m \in attachedMux
    BY DEF TopicTypes, Holds
  <1>2. muids[m][u] - 1 \in Nat
    BY <1>1
  <1> QED
    BY <1>1, <1>2 DEF OneFewer, Empties, NoUsers

\* A leave of one session: one place less.
LEMMA LeaveOneFits ==
    ASSUME ProxyInv, NEW m \in Mux, NEW s \in PxSession, leaveOne(m, s), twice' = twice
    PROVE  TopicTypes' /\ OnlineFits' /\ muxOut' \in [Mux -> Seq(Message)]
  <1>0. TopicTypes /\ CallTypes
    BY DEF ProxyInv, ProxyTypes
  <1> DEFINE u == PxUser[s]
  <1>1. u \in User
    BY DEF User
  <1>2. CASE ~Holds(m, u)
    <2>1. UNCHANGED <<topicVars, twice>> /\ muxOut' = muxOut
      BY <1>2 DEF leaveOne
    <2> QED BY <1>0, <2>1, TopicKept DEF CallTypes
  <1>3. CASE Holds(m, u)
    <2>1. /\ muids' = [muids EXCEPT ![m] = OneFewer(m, u)]
          /\ attachedMux' = IF Empties(m, u) THEN attachedMux \ {m} ELSE attachedMux
          /\ online' = [online EXCEPT ![u] = @ - 1]
          /\ QueueTo(m, [kind |-> "leave", sess |-> s, ok |-> TRUE])
      BY <1>3 DEF leaveOne
    <2>2. muxOut' \in [Mux -> Seq(Message)]
      <3>1. [kind |-> "leave", sess |-> s, ok |-> TRUE] \in Message
        BY MessageIs
      <3> QED BY <1>0, <2>1, <3>1, QueueToIs
    <2> HIDE DEF u
    <2>3. /\ OneFewer(m, u) \in [User -> Nat] /\ OneFewer(m, u)[u] = muids[m][u] - 1 /\ m \in attachedMux
          /\ \A v \in User : v # u => OneFewer(m, u)[v] = muids[m][v]
          /\ Empties(m, u) => \A v \in User : OneFewer(m, u)[v] = 0
          /\ muids[m][u] \in Nat /\ muids[m][u] > 0
      BY <1>0, <1>1, <1>3, FewerIs
    <2>4. TopicTypes'
      <3>1. muids' \in [Mux -> [User -> Nat]]
        BY <1>0, <2>1, <2>3 DEF TopicTypes
      <3>2. online' \in [User -> Int]
        BY <1>0, <1>1, <2>1 DEF TopicTypes
      <3>3. attachedMux' \subseteq Mux /\ twice' \subseteq User
        BY <1>0, <2>1 DEF TopicTypes
      <3> QED BY <3>1, <3>2, <3>3 DEF TopicTypes
    <2>5. ASSUME NEW v \in User
          PROVE  Fits(v)'
      <3>1. \A n \in Mux : n # m => muids'[n] = muids[n] /\ (n \in attachedMux' <=> n \in attachedMux)
        BY <1>0, <2>1 DEF TopicTypes
      <3>2. \A n \in Mux : n # m => HeldNext(n, v) = HeldNow(n, v)
        BY <3>1 DEF HeldNext, HeldNow, HeldBy
      <3>3. HeldNext(m, v) = OneFewer(m, u)[v]
        <4>1. muids'[m] = OneFewer(m, u)
          BY <1>0, <2>1 DEF TopicTypes
        <4> QED BY <2>1, <2>3, <4>1 DEF HeldNext, HeldBy
      <3>4. HeldNow(m, v) = muids[m][v] /\ muids[m][v] \in Nat /\ online[v] \in Int
        BY <1>0, <2>3 DEF HeldNow, HeldBy, TopicTypes
      <3>5. online'[v] = IF v = u THEN online[v] - 1 ELSE online[v]
        BY <1>0, <1>1, <2>1 DEF TopicTypes
      <3>6. OneFewer(m, u)[v] = IF v = u THEN muids[m][v] - 1 ELSE muids[m][v]
        BY <2>3
      <3>7. online'[v] = online[v] + (HeldNext(m, v) - HeldNow(m, v))
        BY <3>3, <3>4, <3>5, <3>6
      <3> QED BY <2>4, <3>2, <3>7, OnlineMoves
    <2> QED BY <2>2, <2>4, <2>5 DEF OnlineFits
  <1> QED
    BY <1>2, <1>3


\* A leave at the master.
LEMMA UnregisterStep == ASSUME ProxyInv, masterUnregister PROVE ProxyInv'
  <1>0. ClientTypes /\ CallTypes /\ TopicTypes /\ proxyIn \in Seq(Message)
    BY DEF ProxyInv, ProxyTypes
  <1> DEFINE r == Head(masterUnreg)
  <1>1. /\ UNCHANGED <<sessState, subbed, oldSub, lateDetached, proxySess, proxyUnreg, proxyIn, mux, muxMade, masterReg, twice>>
        /\ masterUnreg # <<>> /\ masterUnreg' = Tail(masterUnreg)
        /\ \/ r.kind = "nil" /\ UNCHANGED <<topicVars, muxOut>>
           \/ r.kind = "leave" /\ leaveOne(r.mux, r.sess)
           \/ r.kind = "mux" /\ leaveAll(r.mux) /\ UNCHANGED muxOut
    BY DEF masterUnregister, clientVars, proxyVars
  <1>2. r \in Leaving /\ Tail(masterUnreg) \in Seq(Leaving)
    BY <1>0, <1>1 DEF CallTypes
  <1> HIDE DEF r
  <1>3. r.mux \in Mux /\ (r.kind = "leave" => r.sess \in PxSession)
    BY <1>2 DEF Leaving
  <1>4. TopicTypes' /\ OnlineFits' /\ muxOut' \in [Mux -> Seq(Message)]
    <2>1. CASE UNCHANGED <<topicVars, muxOut>>
      BY <1>0, <1>1, <2>1, TopicKept DEF CallTypes
    <2>2. CASE r.kind = "leave" /\ leaveOne(r.mux, r.sess)
      BY <1>1, <1>3, <2>2, LeaveOneFits
    <2>3. CASE leaveAll(r.mux) /\ UNCHANGED muxOut
      BY <1>0, <1>1, <1>3, <2>3, LeaveAllFits DEF CallTypes
    <2> QED BY <1>1, <2>1, <2>2, <2>3
  <1>5. CallTypes'
    BY <1>0, <1>1, <1>2, <1>4 DEF CallTypes
  <1> QED
    BY <1>0, <1>1, <1>4, <1>5, ProxyKept DEF ProxyInv, ProxyTypes

\* A multiplex session is dropped.
LEMMA DropStep == ASSUME ProxyInv, NEW m \in Mux, dropSession(m) PROVE ProxyInv'
  <1>1. /\ UNCHANGED <<sessState, subbed, oldSub, lateDetached, proxySess, proxyUnreg, proxyIn, twice>>
        /\ UNCHANGED <<masterVars, muxOut>> /\ leaveAll(m)
    BY DEF dropSession, clientVars, proxyVars
  <1>2. TopicTypes' /\ OnlineFits'
    BY <1>1, LeaveAllFits
  <1>3. CallTypes'
    BY <1>1 DEF ProxyInv, ProxyTypes, CallTypes, masterVars
  <1> QED
    BY <1>1, <1>2, <1>3, ProxyKept DEF ProxyInv, ProxyTypes

\* An eviction takes one place of the user from each multiplex session. If none held more than
\* one, there are no places of the user left.
LEMMA EvictStep == ASSUME ProxyInv, NEW u \in User, evictUser(u) PROVE ProxyInv'
  <1>0. ClientTypes /\ CallTypes /\ TopicTypes /\ proxyIn \in Seq(Message) /\ OnlineFits
    BY DEF ProxyInv, ProxyTypes
  <1>1. /\ UNCHANGED <<sessState, subbed, oldSub, lateDetached, proxySess, proxyUnreg, proxyIn>> /\ UNCHANGED masterVars
        /\ online' = [online EXCEPT ![u] = 0]
        /\ muids' = [m \in Mux |-> IF Holds(m, u) THEN OneFewer(m, u) ELSE muids[m]]
        /\ attachedMux' = {m \in attachedMux : ~Empties(m, u)}
        /\ muxOut' = [m \in Mux |-> IF Holds(m, u) THEN Append(muxOut[m], [kind |-> "evicted", user |-> u])
                                                   ELSE muxOut[m]]
        /\ twice' = IF \E m \in Mux : Holds(m, u) /\ muids[m][u] > 1 THEN twice \cup {u} ELSE twice
    BY DEF evictUser, clientVars, proxyVars
  <1>2. ASSUME NEW m \in Mux, Holds(m, u)
        PROVE  /\ OneFewer(m, u) \in [User -> Nat] /\ OneFewer(m, u)[u] = muids[m][u] - 1 /\ m \in attachedMux
               /\ \A v \in User : v # u => OneFewer(m, u)[v] = muids[m][v]
               /\ Empties(m, u) => \A v \in User : OneFewer(m, u)[v] = 0
               /\ muids[m][u] \in Nat /\ muids[m][u] > 0
    BY <1>0, <1>2, FewerIs
  <1>3. CallTypes'
    <2>1. muxOut' \in [Mux -> Seq(Message)]
      <3>1. [kind |-> "evicted", user |-> u] \in Message
        BY DEF Message
      <3>2. \A m \in Mux : muxOut[m] \in Seq(Message)
        BY <1>0 DEF CallTypes
      <3>3. \A m \in Mux : Append(muxOut[m], [kind |-> "evicted", user |-> u]) \in Seq(Message)
        BY <3>1, <3>2
      <3> QED BY <1>1, <3>2, <3>3
    <2> QED BY <1>0, <1>1, <2>1 DEF CallTypes, masterVars
  <1>4. TopicTypes'
    <2>1. \A m \in Mux : muids[m] \in [User -> Nat]
      BY <1>0 DEF TopicTypes
    <2>2. muids' \in [Mux -> [User -> Nat]]
      BY <1>1, <1>2, <2>1
    <2>3. online' \in [User -> Int]
      BY <1>0, <1>1 DEF TopicTypes
    <2>4. attachedMux' \subseteq Mux /\ twice' \subseteq User
      BY <1>0, <1>1 DEF TopicTypes
    <2> QED BY <2>2, <2>3, <2>4 DEF TopicTypes
  <1> DEFINE A == attachedMux
             M == muids
             B == attachedMux'
             N == muids'
  <1>5. /\ A \in SUBSET Mux /\ M \in [Mux -> [User -> Nat]]
        /\ B \in SUBSET Mux /\ N \in [Mux -> [User -> Nat]]
    BY <1>0, <1>4 DEF TopicTypes
  <1>6. ASSUME NEW m \in Mux, NEW v \in User, v # u PROVE HeldBy(B, N, m, v) = HeldBy(A, M, m, v)
    <2>1. CASE Holds(m, u)
      <3>1. N[m] = OneFewer(m, u) /\ (m \in B <=> ~Empties(m, u))
        BY <1>1, <1>2, <2>1
      <3>2. OneFewer(m, u)[v] = M[m][v] /\ m \in A /\ (Empties(m, u) => M[m][v] = 0)
        BY <1>2, <1>6, <2>1
      <3> HIDE DEF A, B, M, N
      <3> QED BY <3>1, <3>2 DEF HeldBy
    <2>2. CASE ~Holds(m, u)
      <3>1. N[m] = M[m] /\ (m \in B <=> m \in A)
        BY <1>1, <2>2 DEF Empties
      <3> HIDE DEF A, B, M, N
      <3> QED BY <3>1 DEF HeldBy
    <2> QED BY <2>1, <2>2
  <1>7. ASSUME NEW m \in Mux
        PROVE  /\ HeldBy(B, N, m, u) <= HeldBy(A, M, m, u)
               /\ u \notin twice' => HeldBy(B, N, m, u) = 0
    <2>1. CASE Holds(m, u)
      <3>1. N[m] = OneFewer(m, u) /\ (m \in B <=> ~Empties(m, u))
        BY <1>1, <1>2, <2>1
      <3>2. OneFewer(m, u)[u] = M[m][u] - 1 /\ m \in A /\ M[m][u] \in Nat /\ M[m][u] > 0
        BY <1>2, <2>1
      <3>3. u \notin twice' => ~(M[m][u] > 1)
        BY <1>1, <2>1, Zenon
      <3> HIDE DEF A, B, M, N
      <3> QED BY <3>1, <3>2, <3>3 DEF HeldBy
    <2>2. CASE ~Holds(m, u)
      <3>1. N[m] = M[m] /\ (m \in B <=> m \in A)
        BY <1>1, <2>2 DEF Empties
      <3>2. M[m][u] \in Nat /\ (m \in A => ~(M[m][u] > 0))
        BY <1>0, <2>2 DEF Holds, TopicTypes
      <3> HIDE DEF A, B, M, N
      <3> QED BY <3>1, <3>2 DEF HeldBy
    <2> QED BY <2>1, <2>2
  <1>8. \A v : Places(v) = PlacesIn(A, M, v) /\ Places(v)' = PlacesIn(B, N, v)
    BY PlacesAre
  <1>9. /\ \A v \in User : /\ IsFiniteSet(PlacesIn(A, M, v)) /\ online[v] <= Cardinality(PlacesIn(A, M, v))
                           /\ v \notin twice => online[v] = Cardinality(PlacesIn(A, M, v))
        /\ twice \subseteq twice'
        /\ \A v \in User : v # u => online'[v] = online[v]
        /\ online'[u] = 0
    BY <1>0, <1>1, <1>8 DEF OnlineFits, Fits, TopicTypes
  <1> HIDE DEF A, B, M, N
  <1>10. ASSUME NEW v \in User, v # u
         PROVE  /\ IsFiniteSet(PlacesIn(B, N, v)) /\ online'[v] <= Cardinality(PlacesIn(B, N, v))
                /\ v \notin twice' => online'[v] = Cardinality(PlacesIn(B, N, v))
    <2>1. \A m \in Mux : HeldBy(B, N, m, v) = HeldBy(A, M, m, v)
      BY <1>6, <1>10
    <2>2. PlacesIn(B, N, v) = PlacesIn(A, M, v)
      BY <1>5, <2>1, PlacesSame
    <2> QED BY <1>9, <1>10, <2>2
  <1>11. /\ IsFiniteSet(PlacesIn(B, N, u)) /\ online'[u] <= Cardinality(PlacesIn(B, N, u))
         /\ u \notin twice' => online'[u] = Cardinality(PlacesIn(B, N, u))
    <2>1. PlacesIn(B, N, u) \subseteq PlacesIn(A, M, u)
      <3>1. ASSUME NEW x \in PlacesIn(B, N, u) PROVE x \in PlacesIn(A, M, u)
        <4>0. \A y \in PlacesIn(B, N, u) : \E m, k : y = <<m, k>>
          BY <1>5, PlaceIs, Zenon
        <4>1. PICK m, k : x = <<m, k>>
          BY <4>0
        <4>2. m \in Mux /\ k \in 1 .. HeldBy(B, N, m, u)
          BY <1>5, <4>1, PlaceIs
        <4>3. HeldBy(B, N, m, u) \in Nat /\ HeldBy(A, M, m, u) \in Nat /\ HeldBy(B, N, m, u) <= HeldBy(A, M, m, u)
          BY <1>5, <1>7, <4>2, PlaceIs
        <4>4. k \in 1 .. HeldBy(A, M, m, u)
          BY <4>2, <4>3
        <4> QED BY <1>5, <4>1, <4>2, <4>4, PlaceIs
      <3> QED BY <3>1
    <2>2. IsFiniteSet(PlacesIn(B, N, u))
      BY <1>9, <2>1, FS_Subset
    <2>3. ASSUME u \notin twice' PROVE PlacesIn(B, N, u) = {}
      BY <1>5, <1>7, <2>3, PlacesNone
    <2>4. Cardinality(PlacesIn(B, N, u)) \in Nat
      BY <2>2, FS_CardinalityType
    <2>5. u \notin twice' => Cardinality(PlacesIn(B, N, u)) = 0
      BY <2>3, FS_EmptySet
    <2> QED BY <1>9, <2>2, <2>4, <2>5
  <1>12. OnlineFits'
    <2>1. ASSUME NEW v \in User
          PROVE  Fits(v)'
      <3>1. Places(v)' = PlacesIn(B, N, v)
        BY <1>8
      <3>2. /\ IsFiniteSet(PlacesIn(B, N, v)) /\ online'[v] <= Cardinality(PlacesIn(B, N, v))
            /\ v \notin twice' => online'[v] = Cardinality(PlacesIn(B, N, v))
        BY <1>10, <1>11
      <3> QED BY <3>1, <3>2 DEF Fits
    <2> QED BY <2>1 DEF OnlineFits
  <1>13. ClientTypes' /\ SubbedToo' /\ EndedIsLeaving' /\ proxyIn' \in Seq(Message)
    BY <1>0, <1>1, ProxyKept
  <1> QED
    BY <1>3, <1>4, <1>12, <1>13 DEF ProxyInv, ProxyTypes

\* Every step keeps the invariant.
LEMMA ProxyStepInv == ProxyInv /\ [ProxyNext]_proxyTopicVars => ProxyInv'
  <1>1. ASSUME ProxyInv, ProxyNext PROVE ProxyInv'
    BY <1>1, ClientStep, ProxyStep, RegisterStep, UnregisterStep, EvictStep, DropStep, WriteLoopStep DEF ProxyNext
  <1>2. ASSUME ProxyInv, UNCHANGED proxyTopicVars PROVE ProxyInv'
    <2>1. TopicTypes' /\ OnlineFits'
      BY <1>2, TopicKept DEF proxyTopicVars
    <2>2. ClientTypes' /\ SubbedToo' /\ EndedIsLeaving'
      BY <1>2, ProxyKept DEF proxyTopicVars, clientVars, proxyVars
    <2>3. CallTypes' /\ proxyIn' \in Seq(Message)
      BY <1>2 DEF ProxyInv, ProxyTypes, CallTypes, proxyTopicVars, masterVars, muxVars
    <2> QED BY <2>1, <2>2, <2>3 DEF ProxyInv, ProxyTypes
  <1> QED
    BY <1>1, <1>2

\* A user is never counted online more often than multiplex sessions hold the user, and exactly
\* as often unless it was evicted while one held it more than once; and a session that ended is
\* kept by the proxy only while its leave is queued, unless the late message of an earlier
\* eviction took its subscription: for any number of sessions, users, multiplex sessions and
\* failed calls (Topic.runProxy, runLocal, clusterWriteLoop, the write loop of a session).
THEOREM ProxyIsSafe == ProxySpec => []ProxySafe
  <1>1. ProxyInv => ProxySafe
    BY DEF ProxyInv, ProxySafe, OnlineIsHeld, OnlineFits, Fits
  <1> QED
    BY <1>1, ProxyInitInv, ProxyStepInv, PTL DEF ProxySpec
=============================================================================
