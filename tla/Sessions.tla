------------------------------ MODULE Sessions ------------------------------
(***************************************************************************)
(* The sessions of one user on one node, the SessionStore and those who    *)
(* end sessions: the client, a failed write, expiry, the eviction of the   *)
(* user and the shutdown of the server.                                    *)
(*                                                                         *)
(* A WebSocket session (a gRPC session works alike) has a read loop that   *)
(* serves the client and cleans up, and a write loop; a long-polling one   *)
(* has neither, only the requests that its client makes. Both are told to  *)
(* stop through a channel of capacity one. What SessionStore does under    *)
(* its lock is one step, unless it waits for such a channel.               *)
(***************************************************************************)
EXTENDS Naturals, Sequences, FiniteSets
SE == INSTANCE SequencesExt

CONSTANTS
    WebSession, PollSession, \* sessions that may be opened
    MaxEvict,                \* bound: evictions, shutdowns and changes of the account
    Expiry                   \* a long-polling session may be idle for longer than its lifetime

ASSUME SessionsAssumption ==
    /\ WebSession \cap PollSession = {} /\ {"none", "node"} \cap (WebSession \cup PollSession) = {}
    /\ MaxEvict \in Nat /\ Expiry \in BOOLEAN

Sess == WebSession \cup PollSession

VARIABLES
    sessCache, uidCache, \* the SessionStore: all sessions, and those of the user
    locker,     \* who holds the lock of the store while it stops sessions, or "none"
    toStop,     \* the sessions it still has to tell, in the order of its loop
    loop,       \* what the read loop of a session, or its clean-up, is about
    writer,     \* the write loop runs
    stop,       \* the stop channel is full
    uid,        \* the session is authenticated
    login,      \* a login has found the account in order
    joined,     \* topics know the session
    poll,       \* what the polling request of a session is about
    expires,    \* the sessions that the opener of a session cleans up
    account,    \* the state of the account in the database
    suspension, \* a suspension of the account is under way
    evictions,
    evicted     \* sessions that an eviction which has returned was to reach

storeVars == <<sessCache, uidCache>>
lockVars == <<locker, toStop>>
userVars == <<account, suspension, evictions, evicted>>
sessionVars == <<storeVars, lockVars, loop, writer, stop, uid, login, joined, poll, expires, userVars>>

Unlocked == locker = "none"

\* SessionStore.Delete.
Delete(s) == sessCache' = sessCache \ {s} /\ uidCache' = uidCache \ {s}

-----------------------------------------------------------------------------
(* Opening. *)

\* Polling sessions that have not been touched for their lifetime. Requests are shorter.
IdlePolls == IF Expiry THEN {s \in PollSession \cap sessCache : poll[s] = "none" /\ ~login[s]} ELSE {}

\* NewSession: the opener also takes the expired sessions out of the cache, and out of the
\* list by which they are found, but leaves them in the index of their user.
NewSession(s) ==
    /\ loop[s] = "none" /\ Unlocked
    /\ \E old \in SUBSET IdlePolls :
          /\ sessCache' = (sessCache \cup {s}) \ old
          /\ loop' = [x \in Sess |->
                CASE x = s -> IF s \in WebSession THEN "opening" ELSE "open"
                  [] x \in old -> "expired"
                  [] OTHER -> loop[x]]
          /\ expires' = [expires EXCEPT ![s] = old]
    /\ UNCHANGED <<uidCache, lockVars, writer, stop, uid, login, joined, poll, userVars>>

\* The loops of a WebSocket session start when NewSession has returned.
SessionStarts(s) ==
    /\ loop[s] = "opening" /\ \A x \in expires[s] : loop[x] = "gone"
    /\ loop' = [loop EXCEPT ![s] = "open"]
    /\ writer' = [writer EXCEPT ![s] = TRUE]
    /\ UNCHANGED <<storeVars, lockVars, stop, uid, login, joined, poll, expires, userVars>>

-----------------------------------------------------------------------------
(* What the client asks for. *)

\* A request reaches the session: its read loop runs, or SessionStore.Get finds it.
Reachable(s) == loop[s] = "open" /\ ~login[s] /\ (s \in PollSession => Unlocked /\ s \in sessCache)

\* A login of a session without a user, checked against the state of the account.
LoginChecked(s) ==
    /\ Reachable(s) /\ ~uid[s] /\ account = "ok"
    /\ login' = [login EXCEPT ![s] = TRUE]
    /\ UNCHANGED <<storeVars, lockVars, loop, writer, stop, uid, joined, poll, expires, userVars>>

\* Faulty variant: the session is not entered in the index of its user.
SetSessionUidAlone(s) ==
    /\ login[s] /\ Unlocked
    /\ login' = [login EXCEPT ![s] = FALSE]
    /\ uid' = [uid EXCEPT ![s] = TRUE]
    /\ UNCHANGED <<storeVars, lockVars, loop, writer, stop, joined, poll, expires, userVars>>

\* onLogin binds the session to the user. (It also sets the user a moment before it waits for
\* the lock, which only matters to Delete, and that is called from the same loop.)
SetSessionUid(s) ==
    /\ login[s] /\ Unlocked
    /\ login' = [login EXCEPT ![s] = FALSE]
    /\ uid' = [uid EXCEPT ![s] = TRUE]
    /\ uidCache' = uidCache \cup {s}
    /\ UNCHANGED <<sessCache, lockVars, loop, writer, stop, joined, poll, expires, userVars>>

\* A subscription: a topic adds the session.
Attach(s) ==
    /\ Reachable(s) /\ uid[s] /\ ~joined[s]
    /\ joined' = [joined EXCEPT ![s] = TRUE]
    /\ UNCHANGED <<storeVars, lockVars, loop, writer, stop, uid, login, poll, expires, userVars>>

\* serveLongPoll without a payload.
PollBegins(s) ==
    /\ s \in PollSession /\ loop[s] = "open" /\ s \in sessCache /\ Unlocked /\ poll[s] = "none"
    /\ poll' = [poll EXCEPT ![s] = "polling"]
    /\ UNCHANGED <<storeVars, lockVars, loop, writer, stop, uid, login, joined, expires, userVars>>

\* writeOnce ends with a message, an empty answer or a client that left ...
PollEnds(s) ==
    /\ poll[s] = "polling"
    /\ poll' = [poll EXCEPT ![s] = "none"]
    /\ UNCHANGED <<storeVars, lockVars, loop, writer, stop, uid, login, joined, expires, userVars>>

\* ... or with the request to stop, after which it deletes the session.
PollStops(s) ==
    /\ poll[s] = "polling" /\ stop[s]
    /\ poll' = [poll EXCEPT ![s] = "deleting"]
    /\ stop' = [stop EXCEPT ![s] = FALSE]
    /\ UNCHANGED <<storeVars, lockVars, loop, writer, uid, login, joined, expires, userVars>>

PollDeletes(s) ==
    /\ poll[s] = "deleting" /\ Unlocked
    /\ Delete(s)
    /\ poll' = [poll EXCEPT ![s] = "none"]
    /\ UNCHANGED <<lockVars, loop, writer, stop, uid, login, joined, expires, userVars>>

-----------------------------------------------------------------------------
(* The end of a session. *)

\* The write loop is told to stop, or a write fails. It closes the connection.
WriterStops(s) ==
    /\ writer[s] /\ stop[s]
    /\ stop' = [stop EXCEPT ![s] = FALSE]
    /\ writer' = [writer EXCEPT ![s] = FALSE]
    /\ UNCHANGED <<storeVars, lockVars, loop, uid, login, joined, poll, expires, userVars>>

WriteFails(s) ==
    /\ writer[s]
    /\ writer' = [writer EXCEPT ![s] = FALSE]
    /\ UNCHANGED <<storeVars, lockVars, loop, stop, uid, login, joined, poll, expires, userVars>>

\* The connection is closed, by the client or by the write loop. cleanUp: the terminating
\* flag is raised and the channels are emptied. An expired session has no loops to end.
Purge(s) ==
    /\ \/ s \in WebSession /\ loop[s] = "open" /\ ~login[s]
       \/ loop[s] = "expired"
    /\ loop' = [loop EXCEPT ![s] = IF s \in WebSession THEN "delete" ELSE "unsub"]
    /\ stop' = [stop EXCEPT ![s] = FALSE]
    /\ UNCHANGED <<storeVars, lockVars, writer, uid, login, joined, poll, expires, userVars>>

\* Faulty variant: the write loop is told to stop before the session has left the store.
cleanUpStopsFirst(s) ==
    /\ loop[s] = "delete" /\ Unlocked /\ ~stop[s]
    /\ Delete(s)
    /\ stop' = [stop EXCEPT ![s] = TRUE]
    /\ loop' = [loop EXCEPT ![s] = "unsub"]
    /\ UNCHANGED <<lockVars, writer, uid, login, joined, poll, expires, userVars>>

cleanUpDeletes(s) ==
    /\ loop[s] = "delete" /\ Unlocked
    /\ Delete(s)
    /\ loop' = [loop EXCEPT ![s] = "unsub"]
    /\ UNCHANGED <<lockVars, writer, stop, uid, login, joined, poll, expires, userVars>>

unsubAll(s) ==
    /\ loop[s] = "unsub"
    /\ joined' = [joined EXCEPT ![s] = FALSE]
    /\ loop' = [loop EXCEPT ![s] = "stop"]
    /\ UNCHANGED <<storeVars, lockVars, writer, stop, uid, login, poll, expires, userVars>>

\* The last step of cleanUp tells the write loop to stop: it waits for room in the channel.
stopSession(s) ==
    /\ loop[s] = "stop" /\ ~stop[s]
    /\ stop' = [stop EXCEPT ![s] = TRUE]
    /\ loop' = [loop EXCEPT ![s] = "gone"]
    /\ UNCHANGED <<storeVars, lockVars, writer, uid, login, joined, poll, expires, userVars>>

-----------------------------------------------------------------------------
(* Eviction and shutdown. *)

\* The lock is taken for a loop over the sessions.
Lock(who, sessions) ==
    /\ Unlocked /\ evictions < MaxEvict
    /\ evictions' = evictions + 1
    /\ locker' = who
    /\ toStop' \in SE!SetToSeqs(sessions)

\* EvictUser for another node's announcement, or for the suspension of the account.
EvictUser ==
    /\ Lock("node", uidCache)
    /\ \/ account = "ok" /\ suspension = "none" /\ suspension' = "evict"
       \/ UNCHANGED suspension
    /\ UNCHANGED <<storeVars, loop, writer, stop, uid, login, joined, poll, expires, account, evicted>>

\* changeUserState writes the state after the eviction has returned.
UpdateState ==
    /\ suspension = "update"
    /\ account' = "suspended" /\ suspension' = "none"
    /\ UNCHANGED <<storeVars, lockVars, loop, writer, stop, uid, login, joined, poll, expires,
                   evictions, evicted>>

\* replyDelUser spares the session that asked until it has its answer. (The records it deletes
\* in the database are left out.)
replyDelUser(s) ==
    /\ s \in WebSession /\ loop[s] = "open" /\ uid[s] /\ ~login[s]
    /\ Lock(s, uidCache \ {s})
    /\ loop' = [loop EXCEPT ![s] = "evicting"]
    /\ UNCHANGED <<storeVars, writer, stop, uid, login, joined, poll, expires, account, suspension, evicted>>

\* ... and goes on when the account could not be deleted,
deletionFails(s) ==
    /\ loop[s] = "deleted"
    /\ loop' = [loop EXCEPT ![s] = "open"]
    /\ UNCHANGED <<storeVars, lockVars, writer, stop, uid, login, joined, poll, expires, userVars>>

\* ... or else stops itself.
stopSelf(s) ==
    /\ loop[s] = "deleted" /\ ~stop[s]
    /\ stop' = [stop EXCEPT ![s] = TRUE]
    /\ loop' = [loop EXCEPT ![s] = "open"]
    /\ UNCHANGED <<storeVars, lockVars, writer, uid, login, joined, poll, expires, userVars>>

Shutdown ==
    /\ Lock("node", sessCache)
    /\ UNCHANGED <<storeVars, loop, writer, stop, uid, login, joined, poll, expires, account,
                   suspension, evicted>>

\* One session is told to stop; the loop waits for room in its channel.
TellToStop ==
    /\ toStop # <<>> /\ ~stop[Head(toStop)]
    /\ stop' = [stop EXCEPT ![Head(toStop)] = TRUE]
    /\ toStop' = Tail(toStop)
    /\ UNCHANGED <<storeVars, locker, loop, writer, uid, login, joined, poll, expires, userVars>>

\* The loop is over and the lock free. Of the user's sessions the one that asked was spared.
Unlock ==
    /\ ~Unlocked /\ toStop = <<>>
    /\ locker' = "none"
    /\ evicted' = evicted \cup ({s \in sessCache : uid[s]} \ {locker})
    /\ loop' = [s \in Sess |-> IF s = locker THEN "deleted" ELSE loop[s]]
    /\ suspension' = IF suspension = "evict" THEN "update" ELSE suspension
    /\ UNCHANGED <<storeVars, toStop, writer, stop, uid, login, joined, poll, expires, account,
                   evictions>>

-----------------------------------------------------------------------------
SessionsInit ==
    /\ sessCache = {} /\ uidCache = {} /\ locker = "none" /\ toStop = <<>>
    /\ loop = [s \in Sess |-> "none"] /\ writer = [s \in Sess |-> FALSE]
    /\ stop = [s \in Sess |-> FALSE] /\ uid = [s \in Sess |-> FALSE]
    /\ login = [s \in Sess |-> FALSE] /\ joined = [s \in Sess |-> FALSE]
    /\ poll = [s \in Sess |-> "none"] /\ expires = [s \in Sess |-> {}]
    /\ account = "ok" /\ suspension = "none" /\ evictions = 0 /\ evicted = {}

\* The steps of a session that nothing but the store's lock or a full channel holds up.
sessionStep(s) ==
    \/ SessionStarts(s) \/ SetSessionUid(s) \/ PollDeletes(s) \/ WriterStops(s)
    \/ (~writer[s] /\ Purge(s)) \/ cleanUpDeletes(s) \/ unsubAll(s) \/ stopSession(s) \/ stopSelf(s)

SessionsNext ==
    \/ \E s \in Sess :
          \/ NewSession(s) \/ SessionStarts(s) \/ LoginChecked(s) \/ SetSessionUid(s) \/ Attach(s)
          \/ PollBegins(s) \/ PollEnds(s) \/ PollStops(s) \/ PollDeletes(s)
          \/ WriterStops(s) \/ WriteFails(s) \/ Purge(s) \/ cleanUpDeletes(s) \/ unsubAll(s)
          \/ stopSession(s) \/ replyDelUser(s) \/ stopSelf(s) \/ deletionFails(s)
    \/ EvictUser \/ Shutdown \/ TellToStop \/ Unlock \/ UpdateState

\* Goroutines run. Nothing makes a client poll, or a connection fail.
SessionsFairness ==
    /\ \A s \in Sess : WF_sessionVars(sessionStep(s))
    /\ WF_sessionVars(TellToStop \/ Unlock \/ UpdateState)
SessionsSpec == SessionsInit /\ [][SessionsNext]_sessionVars /\ SessionsFairness

-----------------------------------------------------------------------------
SessionsTypeOK ==
    /\ sessCache \subseteq Sess /\ uidCache \subseteq Sess /\ evicted \subseteq Sess
    /\ locker \in WebSession \cup {"none", "node"} /\ toStop \in Seq(Sess)
    /\ loop \in [Sess -> {"none", "opening", "open", "evicting", "deleted", "expired", "delete",
                          "unsub", "stop", "gone"}]
    /\ {writer, stop, uid, login, joined} \subseteq [Sess -> BOOLEAN]
    /\ poll \in [Sess -> {"none", "polling", "deleting"}]
    /\ expires \in [Sess -> SUBSET PollSession]
    /\ account \in {"ok", "suspended"} /\ suspension \in {"none", "evict", "update"}
    /\ evictions \in 0 .. MaxEvict

Ending(s) == loop[s] \in {"expired", "delete", "unsub", "stop", "gone"}

(* Whoever was logged in when the user was evicted (EvictUser, Shutdown) is on the way out: *)
(* told to stop, without its write loop, cleaning up, or no longer in the store. No order  *)
(* of logins, disconnects and clean-ups of the user's other sessions hides a session from  *)
(* the index that EvictUser walks.                                                         *)
EvictedIsStopped ==
    \A s \in evicted :
        \/ stop[s] \/ Ending(s) \/ s \notin sessCache \/ poll[s] = "deleting"
        \/ s \in WebSession /\ ~writer[s]

(* A session that has finished cleanUp is neither in the cache nor known to a topic, and a *)
(* WebSocket session is not in the index of its user either, whatever happened to it while *)
(* it was cleaning up.                                                                     *)
GoneIsForgotten ==
    \A s \in Sess : loop[s] = "gone" =>
        s \notin sessCache /\ ~joined[s] /\ (s \in WebSession => s \notin uidCache)

SessionsSafe == EvictedIsStopped /\ GoneIsForgotten

(* A WebSocket session that was evicted leaves the store and its topics, although the      *)
(* eviction, its write loop and its clean-up wait for each other's channels and locks.     *)
EvictedIsGone ==
    \A s \in WebSession : s \in evicted ~> s \notin sessCache /\ ~joined[s]

(* The comment on the channel (sessionstore.go, NewSession) says that its capacity of one  *)
(* keeps a shutdown from blocking: then nobody holds the lock of the store for ever.       *)
StoreIsReleased == []<>Unlocked

(* A suspended account has no session that stays (changeUserState evicts them all). It     *)
(* does not hold: a login that was checked before the state is written ends after it.      *)
SuspendedIsOut ==
    account = "suspended" => \A s \in sessCache \cap WebSession : uid[s] => s \in evicted
=============================================================================
