---------------------------- MODULE GroupMembers ----------------------------
(***************************************************************************)
(* The members of one ordinary group: what they want, what they are given, *)
(* who owns the group, invitations, removal and bans. The topic's loop     *)
(* works on a cache (perUser) and writes every change to the subscription  *)
(* rows; a request of a session that is not attached changes the row in a  *)
(* goroutine of its own and never sees the cache.                          *)
(*                                                                         *)
(* A mode is a set of letters: J join, S share, A approve, D delete and O  *)
(* owner; R, W and P decide nothing here. Each user has one session. The   *)
(* column topics.owner and the number of members in descriptions, which no *)
(* decision here reads, are left out.                                      *)
(***************************************************************************)
EXTENDS Integers, FiniteSets, Functions

CONSTANTS
    Member,             \* users
    Founder,            \* the user who made the group
    maxSubscriberCount, \* limit of the members of a group
    MaxUses,            \* max_uses of the invitation
    MaxSubFault         \* bound: store calls that fail and changes made offline

ASSUME GroupAssumption ==
    /\ Founder \in Member /\ IsFiniteSet(Member)
    /\ {maxSubscriberCount, MaxUses} \subseteq Nat \ {0} /\ MaxSubFault \in Nat

VARIABLES
    subs,      \* subscription rows: want, given and "none", "live" or "deleted"
    perUser,   \* the topic's cache: want and given of its members
    owner,     \* t.owner
    attached,  \* users whose session is in t.sessions
    linked,    \* users whose session has the topic among its own
    invite,    \* state of the invitation: active, uses
    offline,   \* of each user, the change of a mode a goroutine is making
    subFaults,
    halfDone,  \* history: a transfer of the ownership failed halfway
    overtaken, \* history: a row changed its owner bit under such a goroutine
    banned,    \* history: users whom an administrator banned and nobody readmitted
    slipped    \* history: those attached by asking again for a mode that may not join

groupVars == <<subs, perUser, owner, attached, linked, invite, offline, subFaults,
               halfDone, overtaken, banned, slipped>>
history == <<halfDone, overtaken, banned>>

Letter == {"J", "S", "A", "D", "O"}
ModeUnset == {"unset"}
ModeMember == {"J"}
ModeAdmin == {"J", "S", "A", "D"}
ModeCFull == ModeAdmin \union {"O"}
\* accessFor: JRWPS for a group; the default of a user's own account: JRWPAS.
accessFor == {"J", "S"}
userAccess == {"J", "S", "A"}
\* The modes that a client asks for.
AskedMode == {{}, ModeMember, ModeAdmin, ModeCFull}

NoUser == "nobody"
\* The zero user id is nobody's.
ASSUME NoUserAssumption == NoUser \notin Member

NoOffline == {"none"}
Mode(p) == p.want \intersect p.given
IsAdmin(mode) == {"A", "O"} \intersect mode # {}
IsSharer(mode) == {"A", "O", "S"} \intersect mode # {}
Modes(w, g) == [want |-> w, given |-> g]
Row(w, g) == [want |-> w, given |-> g, is |-> "live"]
Stored == {u \in Member : subs[u].is = "live"}
Cached == DOMAIN perUser
With(u, p) == [v \in Cached \union {u} |-> IF v = u THEN p ELSE perUser[v]]

Fault ==
    subFaults < MaxSubFault /\ subFaults' = subFaults + 1

-----------------------------------------------------------------------------
(* A user's own subscription: {sub}, or {set} of an attached session.      *)

\* The invitation's state. (One that forgets how often it was used is a mutant.)
usableActive == invite.active
usable == invite.active /\ invite.uses < MaxUses
Consumed == [invite EXCEPT !.uses = @ + 1]

\* thisUserSub with an invitation for a member who is banned: the member is restored.
restoreInvited(u) ==
    /\ u \notin linked /\ u \in Cached /\ "J" \notin perUser[u].given /\ usable
    /\ invite' = Consumed
    /\ \/ /\ subs' = [subs EXCEPT ![u] = Row(ModeMember, ModeMember)]
          /\ perUser' = With(u, Modes(ModeMember, ModeMember))
          /\ attached' = attached \union {u} /\ linked' = linked \union {u}
          /\ banned' = banned \ {u}
          /\ UNCHANGED subFaults
       \/ Fault /\ UNCHANGED <<subs, perUser, attached, linked, banned>>
    /\ UNCHANGED <<owner, offline, halfDone, overtaken, slipped>>

\* thisUserSub for a new member. What was given before the user left is given again; an
\* invitation is used up before the limit is checked. (Reading only rows that are not
\* deleted is a mutant.)
GivenBeforeLive(u) == IF subs[u].is = "live" THEN subs[u].given ELSE accessFor
GivenBefore(u) == IF subs[u].is # "none" THEN subs[u].given ELSE accessFor
newSubscription(u, req, invited) ==
    LET given == IF invited THEN ModeMember ELSE GivenBefore(u)
        want == IF invited THEN ModeMember ELSE IF req = ModeUnset THEN accessFor ELSE req
        room == Cardinality(Cached) < maxSubscriberCount
    IN  /\ u \notin linked /\ u \notin Cached
        /\ invited => usable
        /\ invite' = IF invited THEN Consumed ELSE invite
        /\ \/ /\ room /\ "J" \in given
              /\ subs' = [subs EXCEPT ![u] = IF @.is = "live" THEN @ ELSE Row(want, given)]
              /\ perUser' = With(u, Modes(want, given))
              /\ IF "J" \in want
                 THEN attached' = attached \union {u} /\ linked' = linked \union {u}
                 ELSE UNCHANGED <<attached, linked>>
              /\ banned' = IF invited THEN banned \ {u} ELSE banned
              /\ UNCHANGED subFaults
           \/ /\ ~(room /\ "J" \in given) /\ invited
              /\ UNCHANGED <<subs, perUser, attached, linked, banned, subFaults>>
           \/ /\ room /\ "J" \in given /\ Fault
              /\ UNCHANGED <<subs, perUser, attached, linked, banned>>
        /\ UNCHANGED <<owner, offline, halfDone, overtaken, slipped>>

\* planExistingSelfSubscription.
PlanOK(u, req) ==
    req # ModeUnset =>
        /\ owner = u => {"J", "O"} \subseteq req
        /\ "O" \in req => "O" \in perUser[u].given
PlanGiven(u, req) ==
    LET given == perUser[u].given IN
    CASE req = ModeUnset -> given
      [] "O" \in given -> IF "O" \in req THEN given \union req ELSE given
      [] "O" \notin given /\ req # ModeUnset /\ IsAdmin(given) /\ IsAdmin(req) ->
             given \union (req \ {"D"})
      [] OTHER -> given
PlanWant(u, req) ==
    IF req # ModeUnset THEN req
    ELSE IF "J" \in perUser[u].want THEN perUser[u].want
    ELSE PlanGiven(u, req) \union accessFor
OwnerChange(u, req) ==
    req # ModeUnset /\ "O" \in perUser[u].given /\ "O" \in req /\ "O" \notin perUser[u].want

\* The rows when the owner bit is taken from the old owner; without an owner, the update
\* that names no user hits every row of the topic.
Dethroned(rows) ==
    IF owner = NoUser
    THEN [v \in Member |-> [rows[v] EXCEPT !.want = {}, !.given = {}]]
    ELSE [rows EXCEPT ![owner].want = perUser[owner].want \ {"O"},
                      ![owner].given = perUser[owner].given \ {"O"}]

\* evictUser removes the user's session from the topic and tells the session, which
\* learns it later (detachSession). subscriptionReply looks at the mode only when it changed:
\* a user who may not join, nor wants to, is attached by asking for the same mode again.
existingSubscription(u, req) ==
    LET want == PlanWant(u, req)
        given == PlanGiven(u, req)
        change == OwnerChange(u, req)
        hasJoined == u \notin linked /\ IF "J" \in want THEN "J" \in given
                                       ELSE perUser[u] = Modes(want, given)
        written == [subs EXCEPT ![u].want = IF want # perUser[u].want THEN want ELSE @,
                                ![u].given = IF given # perUser[u].given THEN given ELSE @]
        updated == With(u, Modes(want, given))
        demoted == IF change /\ owner \in Cached
                   THEN [updated EXCEPT ![owner] = Modes(@.want \ {"O"}, @.given \ {"O"})]
                   ELSE updated
    IN  /\ u \in Cached /\ PlanOK(u, req)
        /\ \/ /\ subs' = IF change THEN Dethroned(written) ELSE written
              /\ perUser' = demoted
              /\ owner' = IF change THEN u ELSE owner
              /\ attached' = IF hasJoined THEN attached \union {u}
                             ELSE IF "J" \notin want THEN attached \ {u}
                             ELSE attached
              /\ slipped' = IF "J" \in want \intersect given THEN slipped \ {u}
                            ELSE IF hasJoined THEN slipped \union {u}
                            ELSE slipped \intersect attached'
              /\ linked' = IF hasJoined THEN linked \union {u} ELSE linked
              /\ UNCHANGED <<subFaults, halfDone>>
           \/ /\ written # subs /\ Fault
              /\ UNCHANGED <<subs, perUser, owner, attached, linked, slipped, halfDone>>
           \/ /\ change /\ Fault /\ halfDone' = TRUE
              /\ subs' \in {written, Dethroned(written)}
              /\ UNCHANGED <<perUser, owner, attached, linked, slipped>>
        /\ UNCHANGED <<invite, offline, overtaken, banned>>

\* The rows are written in the other order: a mutant.
existingSubscriptionSwapped(u, req) ==
    \/ existingSubscription(u, req)
    \/ /\ u \in Cached /\ PlanOK(u, req) /\ OwnerChange(u, req) /\ owner # NoUser
       /\ Fault /\ subs' = Dethroned(subs) /\ halfDone' = TRUE
       /\ UNCHANGED <<perUser, owner, attached, linked, invite, offline, overtaken, banned, slipped>>
setSelf(u, req) == existingSubscription(u, req)

\* handleLeaveRequest without unsub.
leaveTopic(u) ==
    /\ u \in linked
    /\ attached' = attached \ {u} /\ slipped' = slipped \ {u}
    /\ linked' = IF u \in attached THEN linked \ {u} ELSE linked
    /\ UNCHANGED <<subs, perUser, owner, invite, offline, subFaults, history>>

\* detachSession reaches the session of an evicted user.
sessionDetached(u) ==
    /\ u \in linked \ attached
    /\ linked' = linked \ {u}
    /\ UNCHANGED <<subs, perUser, owner, attached, invite, offline, subFaults, history, slipped>>

\* A row that is gone is ErrNotFound: nothing else happens.
Removed(u) ==
    IF u \in Stored
    THEN /\ subs' = [subs EXCEPT ![u] = [@ EXCEPT !.is = "deleted"]]
         /\ perUser' = Restrict(perUser, Cached \ {u})
         /\ attached' = attached \ {u} /\ slipped' = slipped \ {u}
    ELSE UNCHANGED <<subs, perUser, attached, slipped>>

\* replyLeaveUnsub.
replyLeaveUnsub(u) ==
    /\ u \in linked /\ owner # u
    /\ \/ /\ Removed(u) /\ UNCHANGED subFaults
       \/ Fault /\ UNCHANGED <<subs, perUser, attached, slipped>>
    /\ UNCHANGED <<owner, linked, invite, offline, history>>

-----------------------------------------------------------------------------
(* What an administrator or a member who may share does to another.        *)

HostMode(h) == IF h \in Cached THEN Mode(perUser[h]) ELSE {}

\* The sessions left when a member is given a mode. (One that a ban does not evict is a
\* mutant.)
AttachedAll(u, given) == attached
AttachedAfter(u, given) == IF "J" \in given THEN attached ELSE attached \ {u}

\* anotherUserSub: change what a member is given.
anotherUserSub(h, u, req) ==
    /\ h \in linked /\ h # u /\ IsAdmin(HostMode(h))
    /\ "O" \in req => owner = h
    /\ owner # h => (req \ {"O"}) \subseteq HostMode(h)
    /\ u \in Cached /\ req # perUser[u].given
    /\ owner = u => {"J", "O"} \subseteq req
    /\ \/ /\ subs' = [subs EXCEPT ![u] = [@ EXCEPT !.given = req]]
          /\ perUser' = [perUser EXCEPT ![u].given = req]
          /\ attached' = AttachedAfter(u, req) /\ slipped' = slipped \intersect attached'
          /\ banned' = IF "J" \in req THEN banned \ {u} ELSE banned \union {u}
          /\ UNCHANGED subFaults
       \/ Fault /\ UNCHANGED <<subs, perUser, attached, slipped, banned>>
    /\ UNCHANGED <<owner, linked, invite, offline, halfDone, overtaken>>

\* anotherUserSub: bring a user in; only an administrator may say with which mode.
inviteUser(h, u, req) ==
    LET given == IF req = ModeUnset THEN accessFor \union {"J"} ELSE req
        want == IF subs[u].is # "none" THEN subs[u].want ELSE userAccess \intersect given
    IN  /\ h \in linked /\ h # u /\ IsSharer(HostMode(h)) /\ u \notin Cached
        /\ req # ModeUnset => /\ IsAdmin(HostMode(h))
                              /\ "O" \in req => owner = h
                              /\ owner # h => (req \ {"O"}) \subseteq HostMode(h)
        /\ Cardinality(Cached) < maxSubscriberCount
        /\ "J" \in want
        /\ \/ /\ subs' = [subs EXCEPT ![u] = Row(want, given)]
              /\ perUser' = With(u, Modes(want, given))
              /\ banned' = IF "J" \in given THEN banned \ {u} ELSE banned \union {u}
              /\ UNCHANGED subFaults
           \/ Fault /\ UNCHANGED <<subs, perUser, banned>>
        /\ UNCHANGED <<owner, attached, linked, invite, offline, halfDone, overtaken, slipped>>

\* setAnotherUserRole: admin, member or banned set both modes at once.
setAnotherUserRole(h, u, role) ==
    /\ h \in linked /\ h # u /\ IsAdmin(HostMode(h))
    /\ role = ModeAdmin => owner = h
    /\ owner # h => role \subseteq HostMode(h)
    /\ u \in Cached => /\ "O" \notin Mode(perUser[u])
                       /\ IsAdmin(Mode(perUser[u])) => owner = h
                       /\ perUser[u] # Modes(role, role)
    /\ u \notin Cached => u \notin Stored /\ Cardinality(Cached) < maxSubscriberCount
    /\ \/ /\ subs' = [subs EXCEPT ![u] = Row(role, role)]
          /\ perUser' = With(u, Modes(role, role))
          /\ attached' = AttachedAfter(u, role) /\ slipped' = slipped \intersect attached'
          /\ banned' = IF role = {} THEN banned \union {u} ELSE banned \ {u}
          /\ UNCHANGED subFaults
       \/ Fault /\ UNCHANGED <<subs, perUser, attached, slipped, banned>>
    /\ UNCHANGED <<owner, linked, invite, offline, halfDone, overtaken>>

\* replyDelSub: neither the owner nor somebody banned can be removed.
replyDelSub(h, u) ==
    /\ h \in linked /\ h # u /\ IsAdmin(HostMode(h))
    /\ u \in Cached /\ "O" \notin Mode(perUser[u]) /\ "J" \in Mode(perUser[u])
    /\ \/ /\ Removed(u) /\ UNCHANGED subFaults
       \/ Fault /\ UNCHANGED <<subs, perUser, attached, slipped>>
    /\ UNCHANGED <<owner, linked, invite, offline, history>>

\* replySetInvite and revokeTopicInvite: one invitation, made once.
replySetInvite(h) ==
    /\ h \in linked /\ IsSharer(HostMode(h))
    /\ ~invite.active /\ invite.uses = 0
    /\ invite' = [active |-> TRUE, uses |-> 0]
    /\ UNCHANGED <<subs, perUser, owner, attached, linked, offline, subFaults, history, slipped>>

revokeTopicInvite ==
    /\ invite.active
    /\ invite' = [active |-> FALSE, uses |-> MaxUses]
    /\ UNCHANGED <<subs, perUser, owner, attached, linked, offline, subFaults, history, slipped>>

-----------------------------------------------------------------------------
(* replyOfflineTopicSetSub, in a goroutine of the Hub: it reads the row, refuses to *)
(* change the owner bit, and writes what the user wants, whether the topic is       *)
(* loaded or not.                                                                   *)

offlineRead(u, req) ==
    /\ u \notin linked /\ offline[u] = NoOffline /\ u \in Stored
    /\ ("O" \in req) = ("O" \in subs[u].want) /\ req # subs[u].want
    /\ offline' = [offline EXCEPT ![u] = req] /\ Fault
    /\ UNCHANGED <<subs, perUser, owner, attached, linked, invite, history, slipped>>

offlineWrite(u) ==
    /\ offline[u] # NoOffline
    /\ subs' = [subs EXCEPT ![u].want = offline[u]]
    /\ overtaken' = (overtaken \/ (("O" \in offline[u]) # ("O" \in subs[u].want)))
    /\ offline' = [offline EXCEPT ![u] = NoOffline]
    /\ UNCHANGED <<perUser, owner, attached, linked, invite, subFaults, halfDone, banned, slipped>>

\* The idle topic is unloaded and loaded again: loadSubscribers takes the rows, and the
\* last owner among them; TopicGet counts them.
reload ==
    /\ attached = {} /\ linked = {}
    /\ perUser' = [u \in Stored |-> Modes(subs[u].want, subs[u].given)]
    /\ LET owners == {u \in Stored : "O" \in Mode(subs[u])} IN
           owner' \in IF owners = {} THEN {NoUser} ELSE owners
    /\ perUser' # perUser \/ owner' # owner
    /\ UNCHANGED <<subs, attached, linked, invite, offline, subFaults, history, slipped>>

GroupInit ==
    LET first == Modes(ModeCFull, ModeCFull) IN
    /\ subs = [u \in Member |-> IF u = Founder THEN Row(ModeCFull, ModeCFull)
                                ELSE [want |-> {}, given |-> {}, is |-> "none"]]
    /\ perUser = [u \in {Founder} |-> first]
    /\ owner = Founder /\ attached = {Founder} /\ linked = {Founder}
    /\ invite = [active |-> FALSE, uses |-> 0]
    /\ offline = [u \in Member |-> NoOffline]
    /\ subFaults = 0 /\ halfDone = FALSE /\ overtaken = FALSE /\ banned = {} /\ slipped = {}

GroupNext ==
    \/ \E u \in Member :
        \/ restoreInvited(u) \/ leaveTopic(u) \/ sessionDetached(u) \/ replyLeaveUnsub(u)
        \/ newSubscription(u, ModeUnset, TRUE)
        \/ \E req \in AskedMode \union {ModeUnset} : newSubscription(u, req, FALSE) \/ setSelf(u, req)
        \/ \E req \in AskedMode : offlineRead(u, req)
        \/ offlineWrite(u) \/ replySetInvite(u)
    \/ \E h, u \in Member :
        \/ \E req \in AskedMode : anotherUserSub(h, u, req)
        \/ \E req \in AskedMode \union {ModeUnset} : inviteUser(h, u, req)
        \/ \E role \in {{}, ModeMember, ModeAdmin} : setAnotherUserRole(h, u, role)
        \/ replyDelSub(h, u)
    \/ revokeTopicInvite \/ reload

GroupSpec == GroupInit /\ [][GroupNext]_groupVars

-----------------------------------------------------------------------------
\* Modes are sets of letters, the group never has more members than the limit and the
\* invitation is used at most MaxUses times.
GroupTypeOK ==
    /\ \A u \in Cached : perUser[u].want \union perUser[u].given \subseteq Letter
    /\ Cached \subseteq Member /\ attached \subseteq Cached
    /\ Cardinality(Cached) <= maxSubscriberCount
    /\ invite.uses \in 0..MaxUses

\* Unless a goroutine's late write took the owner bit, a step never leaves the group
\* without an owner, neither in the cache nor in the rows; a transfer of the ownership that
\* breaks off at any of its writes is such a step. (After it broke off, the cache and the
\* rows disagree about the owner, and the new one can resign without the topic noticing.)
HasOwner ==
    /\ owner \in Cached /\ "O" \in Mode(perUser[owner])
    /\ \E u \in Stored : "O" \in Mode(subs[u])
OwnerIsKept == [][~halfDone /\ ~overtaken' => HasOwner']_groupVars

\* A session is attached only for a member who wants to be joined and is given it, unless it
\* slipped in: every change that takes either away evicts the session in the same step.
AttachedMayJoin == \A u \in attached \ slipped : "J" \in Mode(perUser[u])

\* A user whom an administrator banned has not joined again on their own: whatever the user
\* does, leaving and coming back included, needs a member's invitation or grant.
BanHolds ==
    \A u \in banned : /\ u \in Cached => "J" \notin perUser[u].given
                      /\ subs[u].is # "none" => "J" \notin subs[u].given

\* Who may not join is never attached.
NobodySlipsIn == slipped = {}

\* A group has one owner, and only a transfer makes another.
OneOwner ==
    ~halfDone /\ ~overtaken => \A u \in Cached : "O" \in Mode(perUser[u]) => u = owner

\* A mode is changed behind the cache only while the topic is not loaded.
CacheIsStored ==
    ~halfDone => \A u \in Cached : u \in Stored => Mode(perUser[u]) = Mode(subs[u])

\* The offline change does not touch the ownership.
OfflineKeepsOwner == ~overtaken

\* Who may not join is not attached by any change of a mode, and a ban holds.
GroupSafe == AttachedMayJoin /\ BanHolds
=============================================================================
