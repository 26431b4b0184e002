------------------------------ MODULE TopicLog ------------------------------
(***************************************************************************)
(* What a client may rely on when it publishes: every topic is one log     *)
(* that only grows at its end, a client id is in it at most once, and an   *)
(* acknowledgement tells the position of the client id in the log. Who     *)
(* owns the topic, views, epochs and topic instances do not appear.        *)
(* FencedTopics implements this specification.                             *)
(***************************************************************************)
EXTENDS Sequences, Naturals

CONSTANTS Topic, Cid

VARIABLES log, acked

logVars == <<log, acked>>

Positions(t, c) == {i \in DOMAIN log[t] : log[t][i] = c}
AckOf(t, c, i) == [topic |-> t, cid |-> c, seq |-> i]

LogInit == log = [t \in Topic |-> <<>>] /\ acked = {}

\* A new message takes the next position; its acknowledgement may get lost.
Append1(t, c) ==
    /\ Positions(t, c) = {}
    /\ log' = [log EXCEPT ![t] = Append(@, c)]
    /\ acked' \in {acked, acked \cup {AckOf(t, c, Len(log[t]) + 1)}}

\* A retry is told the position the message already has.
AckAgain(t, c) ==
    /\ \E i \in Positions(t, c) : acked' = acked \cup {AckOf(t, c, i)}
    /\ UNCHANGED log

LogNext == \E t \in Topic, c \in Cid : Append1(t, c) \/ AckAgain(t, c)

LogSpec == LogInit /\ [][LogNext]_logVars
=============================================================================
