----------------------------- MODULE MCServices -----------------------------
(* Bounded instances of the components of one server that are checked for safety. They   *)
(* share no state: a behaviour is a behaviour of one of them, chosen at the start, and   *)
(* the variables of the others keep their initial values.                                *)
EXTENDS HubLifecycle, FileProcessing, Uploads, Calls, GroupMembers, Sessions, SessionQueue,
        ProxyTopics, TLC
CONSTANTS s1, a1, b1, b2, p1, p2
VARIABLE component

MCHUser == s1 :> "u"
MCUser == a1 :> "a" @@ b1 :> "b" @@ b2 :> "b"
MCPxUser == p1 :> "u" @@ p2 :> "v"

ServicesInit ==
    /\ component \in {"hub", "files", "uploads", "calls", "group", "sessions", "queue", "proxy"}
    /\ HubInit /\ FileInit /\ UploadInit /\ CallInit /\ GroupInit
    /\ SessionsInit /\ QueueInit /\ ProxyInit
    \* One initial state of a component that is not chosen is enough.
    /\ component # "files" => content = "fine" /\ scanner
    /\ component # "uploads" => upKind = "chunks"
    /\ component # "calls" => callCat = "p2p"

Only(name) == component = name /\ UNCHANGED component

ServicesNext ==
    \/ /\ Only("hub") /\ HubNext
       /\ UNCHANGED <<fileVars, uploadVars, agoraVars, groupVars, sessionVars, queueVars, proxyTopicVars>>
    \/ /\ Only("files") /\ FileNext
       /\ UNCHANGED <<hubVars, uploadVars, agoraVars, groupVars, sessionVars, queueVars, proxyTopicVars>>
    \/ /\ Only("uploads") /\ UploadNext
       /\ UNCHANGED <<hubVars, fileVars, agoraVars, groupVars, sessionVars, queueVars, proxyTopicVars>>
    \/ /\ Only("calls") /\ CallNext
       /\ UNCHANGED <<hubVars, fileVars, uploadVars, groupVars, sessionVars, queueVars, proxyTopicVars>>
    \/ /\ Only("group") /\ GroupNext
       /\ UNCHANGED <<hubVars, fileVars, uploadVars, agoraVars, sessionVars, queueVars, proxyTopicVars>>
    \/ /\ Only("sessions") /\ SessionsNext
       /\ UNCHANGED <<hubVars, fileVars, uploadVars, agoraVars, groupVars, queueVars, proxyTopicVars>>
    \/ /\ Only("queue") /\ QueueNext
       /\ UNCHANGED <<hubVars, fileVars, uploadVars, agoraVars, groupVars, sessionVars, proxyTopicVars>>
    \/ /\ Only("proxy") /\ ProxyNext
       /\ UNCHANGED <<hubVars, fileVars, uploadVars, agoraVars, groupVars, sessionVars, queueVars>>

servicesVars == <<component, hubVars, fileVars, uploadVars, agoraVars, groupVars, sessionVars, queueVars,
                  proxyTopicVars>>
ServicesSpec == ServicesInit /\ [][ServicesNext]_servicesVars

\* The type invariant of the component that is chosen.
ServicesTypeOK ==
    /\ component = "hub" => HubTypeOK
    /\ component = "files" => FileTypeOK
    /\ component = "uploads" => UploadTypeOK
    /\ component = "calls" => CallTypeOK
    /\ component = "group" => GroupTypeOK
    /\ component = "sessions" => SessionsTypeOK
    /\ component = "queue" => QueueTypeOK
    /\ component = "proxy" => ProxyTypeOK
=============================================================================
