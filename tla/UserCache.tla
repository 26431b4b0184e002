----------------------------- MODULE UserCache -----------------------------
(***************************************************************************)
(* The cache of unread counters (userUpdater). Topics send it requests     *)
(* through a queue that drops what does not fit; a counter that is not     *)
(* known yet is read from the database by a goroutine while updates of it  *)
(* wait in a buffer and push receipts wait for the number they carry.      *)
(*                                                                         *)
(* One topic actor saves first and sends its requests after; the rows'     *)
(* unread number is what the database would answer.                        *)
(***************************************************************************)
EXTENDS Integers, Sequences, FiniteSets

CONSTANTS
    CUser,         \* members of the topic
    UpdateQueue,   \* capacity of usersUpdate
    MaxReceipt,    \* bound: push receipts
    MaxUnread,     \* bound: unread messages
    MaxLoad,       \* bound: loads and ends of the topic, and deleted users
    MaxReadFault   \* bound: reads of the database that fail

ASSUME CacheAssumption ==
    /\ IsFiniteSet(CUser) /\ UpdateQueue \in Nat \ {0}
    /\ {MaxReceipt, MaxUnread, MaxLoad, MaxReadFault} \subseteq Nat

VARIABLES
    unreadRows,  \* unread messages of each user in the database
    toSend,      \* requests the topic has still to put into the queue
    updates,     \* usersUpdate
    topicUp,     \* the topic is loaded
    usersCache,  \* unread (negative: not known) and topics of each user in the cache
    buffers,     \* perUserBuffers: whether updates wait for a read, and their sum
    waiting,     \* perUserPendingReceipts
    pending,     \* receiptQueue: pendingIOs of each receipt that is not sent
    reads,       \* reads of the database: users, and the counts or an error once read
    pushed,      \* receipts handed to push.Push, with the numbers they carry
    receipts, readFaults, loads,
    initialised, \* history: a counter was set although it was known
    outage       \* history: a request was dropped or a read failed

cacheVars == <<unreadRows, toSend, updates, topicUp, usersCache, buffers, waiting, pending,
               reads, pushed, receipts, readFaults, loads, initialised, outage>>

NotCached == [unread |-> -1, topics |-> 0]
InCache(u) == usersCache[u].topics > 0
NoBuffer == [on |-> FALSE, sum |-> 0]
NotRead == [u \in {} |-> 0]

CountTopic(add) == [kind |-> "topic", inc |-> add]
Delta(u, n) == [kind |-> "unread", user |-> u, val |-> n]
RemoveUser(u) == [kind |-> "gone", user |-> u]
Receipt(r, to, n) == [kind |-> "push", id |-> r, to |-> to, val |-> n]

-----------------------------------------------------------------------------
(* The topic: it saves, then sends.                                        *)

\* usersRegisterTopic when the topic is loaded and when it ends.
usersRegisterTopic ==
    /\ toSend = <<>> /\ topicUp' = ~topicUp
    /\ loads < MaxLoad /\ loads' = loads + 1
    /\ toSend' = <<CountTopic(topicUp')>>
    /\ UNCHANGED <<unreadRows, updates, usersCache, buffers, waiting, pending, reads, pushed,
                   receipts, readFaults, initialised, outage>>

\* The account of a user is deleted: the user is taken out, whatever topics are counted.
usersRemoveUser(u) ==
    /\ toSend = <<>> /\ toSend' = <<RemoveUser(u)>>
    /\ loads < MaxLoad /\ loads' = loads + 1
    /\ UNCHANGED <<unreadRows, updates, topicUp, usersCache, buffers, waiting, pending, reads,
                   pushed, receipts, readFaults, initialised, outage>>

\* A message: saved for everybody, then one receipt that counts it for all.
pushForData ==
    /\ topicUp /\ toSend = <<>> /\ receipts < MaxReceipt
    /\ \A u \in CUser : unreadRows[u] < MaxUnread
    /\ unreadRows' = [u \in CUser |-> unreadRows[u] + 1]
    /\ receipts' = receipts + 1
    /\ toSend' = <<Receipt(receipts + 1, CUser, 1)>>
    /\ UNCHANGED <<loads, updates, topicUp, usersCache, buffers, waiting, pending, reads, pushed,
                   readFaults, initialised, outage>>

\* A user reads n messages: saved, then a silent push, then the counter.
noteRead(u, n) ==
    /\ topicUp /\ toSend = <<>> /\ receipts < MaxReceipt
    /\ n \in 1..unreadRows[u]
    /\ unreadRows' = [unreadRows EXCEPT ![u] = @ - n]
    /\ receipts' = receipts + 1
    /\ toSend' = <<Receipt(receipts + 1, {u}, 0), Delta(u, -n)>>
    /\ UNCHANGED <<loads, updates, topicUp, usersCache, buffers, waiting, pending, reads, pushed,
                   readFaults, initialised, outage>>

\* The request goes into the queue, or is dropped when the queue is full.
sendRequest ==
    /\ toSend # <<>>
    /\ toSend' = Tail(toSend)
    /\ IF Len(updates) < UpdateQueue
       THEN updates' = Append(updates, Head(toSend)) /\ UNCHANGED outage
       ELSE outage' = TRUE /\ UNCHANGED updates
    /\ UNCHANGED <<loads, unreadRows, topicUp, usersCache, buffers, waiting, pending, reads, pushed,
                   receipts, readFaults, initialised>>

-----------------------------------------------------------------------------
(* userUpdater.                                                            *)

Known(u) == InCache(u) /\ usersCache[u].unread >= 0
\* A counter that is not known is read, unless a read of it is under way.
Starts(u) == InCache(u) /\ usersCache[u].unread < 0 /\ ~buffers[u].on

\* unreadUpdater for users and one increment: cache, buffers and a new read.
UpdatedCache(us, n) == [u \in CUser |->
    IF u \in us /\ Known(u) THEN [usersCache[u] EXCEPT !.unread = @ + n] ELSE usersCache[u]]
UpdatedBuffers(us, n) == [u \in CUser |->
    IF u \notin us \/ ~InCache(u) \/ Known(u) THEN buffers[u]
    ELSE IF Starts(u) THEN [on |-> TRUE, sum |-> 0] ELSE [buffers[u] EXCEPT !.sum = @ + n]]
\* (A read for every counter that is not known, whether one is under way or not, is a mutant.)
NewReadAlways(us) ==
    LET asked == {u \in us : InCache(u) /\ ~Known(u)} IN
    IF asked = {} THEN {} ELSE {[users |-> asked, state |-> "asked", counts |-> NotRead]}
NewRead(us) ==
    LET asked == {u \in us : Starts(u)} IN
    IF asked = {} THEN {} ELSE {[users |-> asked, state |-> "asked", counts |-> NotRead]}

unreadUpdater(us, n) ==
    /\ usersCache' = UpdatedCache(us, n)
    /\ buffers' = UpdatedBuffers(us, n)
    /\ reads' = reads \union NewRead(us)

Carried(cache, us) == [u \in {v \in us : cache[v].topics > 0 /\ cache[v].unread >= 0} |-> cache[u].unread]

updateUnread ==
    /\ updates # <<>> /\ Head(updates).kind = "unread"
    /\ unreadUpdater({Head(updates).user}, Head(updates).val)
    /\ updates' = Tail(updates)
    /\ UNCHANGED <<loads, unreadRows, toSend, topicUp, waiting, pending, pushed, receipts, readFaults,
                   initialised, outage>>

\* A receipt is sent when the counters of all its users are known.
updatePush ==
    LET r == Head(updates)
        held == {u \in r.to : InCache(u) /\ ~Known(u)}
    IN  /\ updates # <<>> /\ r.kind = "push"
        /\ unreadUpdater(r.to, r.val)
        /\ updates' = Tail(updates)
        /\ IF held = {}
           THEN /\ pushed' = pushed \union {[id |-> r.id, unread |-> Carried(usersCache', r.to)]}
                /\ UNCHANGED <<waiting, pending>>
           ELSE /\ waiting' = [u \in CUser |-> IF u \in held THEN waiting[u] \union {r.id} ELSE waiting[u]]
                /\ pending' = pending \union {[id |-> r.id, to |-> r.to, ios |-> Cardinality(held)]}
                /\ UNCHANGED pushed
        /\ UNCHANGED <<loads, unreadRows, toSend, topicUp, receipts, readFaults, initialised, outage>>

\* The topic's members are counted in or out; the last topic takes the user out.
updateTopic ==
    LET r == Head(updates)
        entry(u) == IF r.inc THEN [usersCache[u] EXCEPT !.topics = @ + 1]
                    ELSE IF usersCache[u].topics > 1 THEN [usersCache[u] EXCEPT !.topics = @ - 1]
                    ELSE NotCached
    IN  /\ updates # <<>> /\ r.kind = "topic"
        /\ usersCache' = [u \in CUser |-> entry(u)]
        /\ updates' = Tail(updates)
        /\ UNCHANGED <<loads, unreadRows, toSend, topicUp, buffers, waiting, pending, reads, pushed,
                       receipts, readFaults, initialised, outage>>

updateGone ==
    /\ updates # <<>> /\ Head(updates).kind = "gone"
    /\ usersCache' = [usersCache EXCEPT ![Head(updates).user] = NotCached]
    /\ updates' = Tail(updates)
    /\ UNCHANGED <<loads, unreadRows, toSend, topicUp, buffers, waiting, pending, reads, pushed,
                   receipts, readFaults, initialised, outage>>

-----------------------------------------------------------------------------
\* GetUnreadCount in its goroutine: the numbers of one moment, or an error.
readRows(d) ==
    /\ d.state = "asked"
    /\ \/ /\ reads' = (reads \ {d}) \union
                {[d EXCEPT !.state = "read", !.counts = [u \in d.users |-> unreadRows[u]]]}
          /\ UNCHANGED <<readFaults, outage>>
       \/ /\ readFaults < MaxReadFault /\ readFaults' = readFaults + 1 /\ outage' = TRUE
          /\ reads' = (reads \ {d}) \union {[d EXCEPT !.state = "failed"]}
    /\ UNCHANGED <<loads, unreadRows, toSend, updates, topicUp, usersCache, buffers, waiting, pending,
                   pushed, receipts, initialised>>

\* A receipt waits for one read less for every user of the read that holds it. (One less for
\* the whole read is a mutant.)
ReleasedOnce(p, us) == [p EXCEPT !.ios = IF \E u \in us : p.id \in waiting[u] THEN @ - 1 ELSE @]
Released(p, us) == [p EXCEPT !.ios = @ - Cardinality({u \in us : p.id \in waiting[u]})]

\* ioDone: the buffered updates are applied to the number that was read.
ioDone(d) ==
    LET counted(u) == d.counts[u] + buffers[u].sum
        cache == [u \in CUser |-> IF u \in d.users /\ InCache(u)
                                  THEN [usersCache[u] EXCEPT !.unread = counted(u)] ELSE usersCache[u]]
        after == {Released(p, d.users) : p \in pending}
    IN  /\ d.state = "read"
        /\ initialised' = (initialised \/ \E u \in d.users : Known(u))
        /\ usersCache' = cache
        /\ waiting' = [u \in CUser |-> IF u \in d.users THEN {} ELSE waiting[u]]
        /\ pending' = {p \in after : p.ios > 0}
        /\ pushed' = pushed \union
               {[id |-> p.id, unread |-> Carried(cache, p.to)] : p \in {q \in after : q.ios = 0}}
        /\ buffers' = [u \in CUser |-> IF u \in d.users THEN NoBuffer ELSE buffers[u]]
        /\ reads' = reads \ {d}
        /\ UNCHANGED <<loads, unreadRows, toSend, updates, topicUp, receipts, readFaults, outage>>

\* After an error the counters stay unknown and the receipts wait for another read. (One
\* that leaves the buffers in place is a mutant.)
ioFailsKept(d) ==
    /\ d.state = "failed" /\ reads' = reads \ {d}
    /\ UNCHANGED <<loads, unreadRows, toSend, updates, topicUp, usersCache, buffers, waiting, pending,
                   pushed, receipts, readFaults, initialised, outage>>
ioFails(d) ==
    /\ d.state = "failed" /\ reads' = reads \ {d}
    /\ buffers' = [u \in CUser |-> IF u \in d.users THEN NoBuffer ELSE buffers[u]]
    /\ UNCHANGED <<loads, unreadRows, toSend, updates, topicUp, usersCache, waiting, pending,
                   pushed, receipts, readFaults, initialised, outage>>

UserCacheInit ==
    /\ unreadRows = [u \in CUser |-> 1]
    /\ toSend = <<>> /\ updates = <<>> /\ topicUp = FALSE
    /\ usersCache = [u \in CUser |-> NotCached]
    /\ buffers = [u \in CUser |-> NoBuffer]
    /\ waiting = [u \in CUser |-> {}]
    /\ pending = {} /\ reads = {} /\ pushed = {}
    /\ receipts = 0 /\ readFaults = 0 /\ loads = 0 /\ initialised = FALSE /\ outage = FALSE

updaterStep == updateUnread \/ updatePush \/ updateTopic \/ updateGone
               \/ (\E d \in reads : ioDone(d) \/ ioFails(d))

UserCacheNext ==
    \/ usersRegisterTopic \/ pushForData \/ sendRequest
    \/ \E u \in CUser, n \in 1..MaxUnread : noteRead(u, n)
    \/ \E u \in CUser : usersRemoveUser(u)
    \/ updaterStep \/ \E d \in reads : readRows(d)

UserCacheSpec ==
    /\ UserCacheInit /\ [][UserCacheNext]_cacheVars
    /\ WF_cacheVars(sendRequest) /\ WF_cacheVars(updaterStep)
    /\ WF_cacheVars(\E d \in reads : readRows(d))

-----------------------------------------------------------------------------
\* The queue has its capacity, a counter is never set twice (the code warns of a double
\* initialisation), and a receipt is handed to push once.
CacheTypeOK ==
    /\ Len(updates) <= UpdateQueue /\ ~initialised
    /\ \A u \in CUser : usersCache[u].topics \in 0..MaxLoad
    /\ \A p, q \in pushed : p.id = q.id => p = q

\* Updates wait in a buffer exactly while one read of the counter is under way: no buffer is
\* left behind by a failed read, by a user who left the cache or by one who came back.
BufferIsRead ==
    \A u \in CUser : Cardinality({d \in reads : u \in d.users}) = (IF buffers[u].on THEN 1 ELSE 0)

\* The receipts that wait are counted right: for as many reads as users hold them, and a
\* receipt that was pushed is held by nobody (its place in the heap is gone).
ReceiptsAreCounted ==
    /\ \A p \in pending : p.ios = Cardinality({u \in CUser : p.id \in waiting[u]}) /\ p.ios > 0
    /\ \A u \in CUser, p \in pushed : p.id \notin waiting[u]

\* Whatever is in the queue is pushed in the end, as long as no read fails.
ReceiptIsPushed ==
    \A r \in 1..MaxReceipt :
        (\E i \in DOMAIN updates : updates[i].kind = "push" /\ updates[i].id = r)
            ~> (\/ \E p \in pushed : p.id = r
                \/ readFaults > 0)

\* The number that a user's notification carries is the number of unread messages.
UnreadIsRight ==
    (toSend = <<>> /\ updates = <<>> /\ reads = {} /\ ~outage)
        => \A u \in CUser : Known(u) => usersCache[u].unread = unreadRows[u]

\* What waits for a read of the database waits for one that is under way, and is counted.
CacheSafe == BufferIsRead /\ ReceiptsAreCounted
=============================================================================
