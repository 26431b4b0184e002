------------------------------ MODULE MCRetries ------------------------------
(* The retries of the publish path and the ends of evicted sessions. The two share no    *)
(* state: a behaviour is a behaviour of one of them, chosen at the start, under the      *)
(* fairness that its own specification states.                                           *)
EXTENDS MCFencedTopics, Sessions
VARIABLE component

RetriesInit == component \in {"topics", "sessions"} /\ RunningInit /\ SessionsInit

RetriesNext ==
    /\ UNCHANGED component
    /\ \/ component = "topics" /\ Next /\ UNCHANGED sessionVars
       \/ component = "sessions" /\ SessionsNext /\ UNCHANGED vars

RetriesFairness ==
    /\ \A p \in Proc, t \in Topic, m \in Cid : SF_vars(component = "topics" /\ RetryOn(p, t, m))
    /\ \A t \in Topic, m \in Cid :
          /\ WF_vars(component = "topics" /\ \E u \in pubs : u.topic = t /\ u.cid = m /\ PubStep(u))
          /\ SF_vars(component = "topics" /\ \E u \in pubs : u.topic = t /\ u.cid = m /\ PubReady(u))
          /\ SF_vars(component = "topics" /\ \E u \in pubs : u.topic = t /\ u.cid = m /\ SaveCommits(u))
    /\ \A s \in Sess : WF_sessionVars(component = "sessions" /\ sessionStep(s))
    /\ WF_sessionVars(component = "sessions" /\ (TellToStop \/ Unlock \/ UpdateState))

RetriesSpec == RetriesInit /\ [][RetriesNext]_<<component, vars, sessionVars>> /\ RetriesFairness
=============================================================================
