---------------------------- MODULE SessionQueue ----------------------------
(***************************************************************************)
(* The outgoing queue of one session: topics and the read loop put         *)
(* messages into a bounded channel under a limit of bytes, the write loop  *)
(* takes them out, joins what has gathered into frames, and writes.        *)
(*                                                                         *)
(* The size of a message depends on the framing that the client and the    *)
(* server have agreed on when it is computed: once before it enters the    *)
(* channel, and once more when it has left it.                             *)
(***************************************************************************)
EXTENDS Naturals, Sequences, FiniteSets

CONSTANTS
    Producer,     \* goroutines that queue messages
    MaxItem,      \* bound: messages that are ever queued
    SendLimit, SendCap, \* items beyond which a write fails, capacity of the channel
    ByteLimit     \* sendQueueByteLimit, in units

ASSUME QueueAssumption ==
    /\ {MaxItem, SendLimit, SendCap, ByteLimit} \subseteq Nat /\ SendLimit <= SendCap

VARIABLES
    framing,     \* none before the client's hi, then single, batch or binary
    qItems,      \* the channel
    pendingBytes,
    producer,    \* what each producer is about
    qWriter,     \* the write loop
    qTerminating,
    items,       \* messages made so far
    queued,      \* history: what has entered the channel, in order
    sent,        \* history: what was written to the connection, in order
    mixed        \* history: the framing changed while the size of a message was counted

queueVars == <<framing, qItems, pendingBytes, producer, qWriter, qTerminating, items, queued, sent, mixed>>

\* A message is of more than one size: bare, in the envelope of a batch, or binary. A raw frame
\* (the answer to a probe) has one.
Size(m, f) ==
    IF m.raw THEN 1 ELSE CASE f = "batch" -> 3 [] f = "binary" -> 1 [] OTHER -> 2
Batching == framing \in {"batch", "binary"}

IdleProducer == [pc |-> "idle", item |-> [id |-> 0, raw |-> FALSE]]
Resting == [pc |-> "select", batch |-> <<>>, item |-> IdleProducer.item]
Less(bytes, size) == IF size > bytes THEN 0 ELSE bytes - size
release(m) == pendingBytes' = Less(pendingBytes, Size(m, framing))

-----------------------------------------------------------------------------
(* queueOut. *)

\* The flag is looked at first.
queueOut(p) ==
    /\ producer[p].pc = "idle" /\ ~qTerminating /\ items < MaxItem
    /\ items' = items + 1
    /\ \E raw \in BOOLEAN :
          producer' = [producer EXCEPT ![p] = [pc |-> "reserve", item |-> [id |-> items', raw |-> raw]]]
    /\ UNCHANGED <<framing, qItems, pendingBytes, qWriter, qTerminating, queued, sent, mixed>>

\* reserveOutbound: refused if the limit would be exceeded.
reserveOutbound(p) ==
    LET size == Size(producer[p].item, framing)
    IN  /\ producer[p].pc = "reserve"
        /\ IF size + pendingBytes > ByteLimit
             THEN producer' = [producer EXCEPT ![p] = IdleProducer] /\ UNCHANGED pendingBytes
             ELSE /\ producer' = [producer EXCEPT ![p].pc = "send"]
                  /\ pendingBytes' = pendingBytes + size
        /\ UNCHANGED <<framing, qItems, qWriter, qTerminating, items, queued, sent, mixed>>

\* Faulty variant: what the full channel refuses stays counted.
sendUnreleased(p) ==
    /\ producer[p].pc = "send"
    /\ IF Len(qItems) < SendCap
         THEN /\ qItems' = Append(qItems, producer[p].item)
              /\ queued' = Append(queued, producer[p].item.id)
         ELSE UNCHANGED <<qItems, queued>>
    /\ producer' = [producer EXCEPT ![p] = IdleProducer]
    /\ UNCHANGED <<framing, pendingBytes, qWriter, qTerminating, items, sent, mixed>>

\* The channel takes the message, or is full.
send(p) ==
    /\ producer[p].pc = "send"
    /\ IF Len(qItems) < SendCap
         THEN /\ qItems' = Append(qItems, producer[p].item)
              /\ queued' = Append(queued, producer[p].item.id)
              /\ UNCHANGED pendingBytes
         ELSE release(producer[p].item) /\ UNCHANGED <<qItems, queued>>
    /\ producer' = [producer EXCEPT ![p] = IdleProducer]
    /\ UNCHANGED <<framing, qWriter, qTerminating, items, sent, mixed>>

\* hello: the first accepted hi of the client decides on the framing.
hello ==
    /\ framing = "none"
    /\ framing' \in {"single", "batch", "binary"}
    /\ mixed' = (pendingBytes > 0)
    /\ UNCHANGED <<qItems, pendingBytes, producer, qWriter, qTerminating, items, queued, sent>>

-----------------------------------------------------------------------------
(* The write loop. *)

Take(pc, batch) ==
    /\ qItems # <<>>
    /\ qItems' = Tail(qItems)
    /\ qWriter' = [pc |-> pc, batch |-> batch, item |-> Head(qItems)]
    /\ UNCHANGED <<framing, pendingBytes, producer, qTerminating, items, queued, sent, mixed>>

writeLoopTakes == qWriter.pc = "select" /\ Take("release", <<>>)
batchTakes == qWriter.pc = "gather" /\ Take("release", qWriter.batch)

\* The bytes are given back. A message joins the batch, if the client takes batches and more has
\* gathered; a raw frame goes out after what was gathered before it.
releaseOutbound ==
    LET m == qWriter.item
    IN  /\ qWriter.pc = "release"
        /\ release(m)
        /\ qWriter' = [qWriter EXCEPT !.pc = IF Batching /\ ~m.raw THEN "gather" ELSE "write",
                                      !.batch = Append(@, m.id)]
        /\ UNCHANGED <<framing, qItems, producer, qTerminating, items, queued, sent, mixed>>

\* sendMessage: a backlog beyond the limit, or a failing write of any frame, ends the loop.
flush ==
    /\ qWriter.pc = "write" \/ (qWriter.pc = "gather" /\ qItems = <<>>)
    /\ \/ Len(qItems) <= SendLimit /\ sent' = sent \o qWriter.batch /\ qWriter' = Resting
       \/ \E k \in 0 .. Len(qWriter.batch) - 1 :
             /\ Len(qItems) > SendLimit => k = 0
             /\ sent' = sent \o SubSeq(qWriter.batch, 1, k)
             /\ qWriter' = [qWriter EXCEPT !.pc = "gone", !.batch = SubSeq(@, k + 1, Len(@))]
    /\ UNCHANGED <<framing, qItems, pendingBytes, producer, qTerminating, items, queued, mixed>>

\* cleanUp raises the flag ...
terminate ==
    /\ ~qTerminating /\ qTerminating' = TRUE
    /\ UNCHANGED <<framing, qItems, pendingBytes, producer, qWriter, items, queued, sent, mixed>>

\* ... and purgeChannels takes what the channel holds, beside a write loop that may still run.
purgeChannels ==
    /\ qTerminating /\ qItems # <<>>
    /\ release(Head(qItems))
    /\ qItems' = Tail(qItems)
    /\ UNCHANGED <<framing, producer, qWriter, qTerminating, items, queued, sent, mixed>>

-----------------------------------------------------------------------------
QueueInit ==
    /\ framing = "none" /\ qItems = <<>> /\ pendingBytes = 0
    /\ producer = [p \in Producer |-> IdleProducer] /\ qWriter = Resting /\ qTerminating = FALSE
    /\ items = 0 /\ queued = <<>> /\ sent = <<>> /\ mixed = FALSE

QueueNext ==
    \/ \E p \in Producer : queueOut(p) \/ reserveOutbound(p) \/ send(p)
    \/ hello \/ writeLoopTakes \/ batchTakes \/ releaseOutbound \/ flush \/ terminate \/ purgeChannels

QueueSpec == QueueInit /\ [][QueueNext]_queueVars

-----------------------------------------------------------------------------
Item == [id : 0 .. MaxItem, raw : BOOLEAN]
QueueTypeOK ==
    /\ framing \in {"none", "single", "batch", "binary"} /\ pendingBytes \in 0 .. ByteLimit
    /\ qItems \in Seq(Item) /\ Len(qItems) <= SendCap
    /\ producer \in [Producer -> [pc : {"idle", "reserve", "send"}, item : Item]]
    /\ qWriter.pc \in {"select", "release", "gather", "write", "gone"} /\ qWriter.item \in Item
    /\ {qTerminating, mixed} \subseteq BOOLEAN /\ items \in 0 .. MaxItem

\* The messages that are counted: in the channel, between count and channel, or just taken out.
Counted ==
    {qItems[i] : i \in DOMAIN qItems} \cup {producer[p].item : p \in {q \in Producer : producer[q].pc = "send"}}
        \cup (IF qWriter.pc = "release" THEN {qWriter.item} ELSE {})

\* A message stands for as many units as it is long.
Units(msgs) == UNION {{m} \X (1 .. Size(m, framing)) : m \in msgs}

(* The count of bytes is that of the messages underway, whatever producers, write loop and *)
(* purge do between counting and queueing, so that a session is never refused messages for *)
(* bytes that have left (reserveOutbound, releaseOutbound). Framing is agreed on once; a   *)
(* message counted before and released after that is given back at another size.           *)
PendingIsSum ==
    ~mixed => pendingBytes = Cardinality(Units(Counted))

(* The client gets what topics queued in the order in which they did, raw frames between   *)
(* the messages they were queued between, and before the clean-up nothing is skipped.      *)
WireInOrder ==
    LET hand == qWriter.batch \o (IF qWriter.pc = "release" THEN <<qWriter.item.id>> ELSE <<>>)
    IN  /\ \A i, j \in DOMAIN sent : i < j =>
              \E k, l \in DOMAIN queued : k < l /\ queued[k] = sent[i] /\ queued[l] = sent[j]
        /\ ~qTerminating => queued = sent \o hand \o [i \in DOMAIN qItems |-> qItems[i].id]

QueueSafe == PendingIsSum /\ WireInOrder
=============================================================================
