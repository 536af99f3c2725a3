--------------------------- MODULE Organizations ---------------------------
(***************************************************************************)
(* One organisation: its members and their roles, the invitations to it,   *)
(* its chat with the read marks, the mail to its administrators, its web-  *)
(* hooks, and the background clean-up of member rows that the controller   *)
(* does not know any more (organizationRouter.ts, utils/role.ts,           *)
(* organizationNotifications.ts, webhook.ts, organizationAuthService.ts).  *)
(*                                                                         *)
(* A procedure checks the caller's role, reads, perhaps sends mail, and    *)
(* writes at the end: a Begin and a Commit action, what was read kept in   *)
(* call[s].  Names, descriptions and texts are left out; the networks of   *)
(* an organisation are in Networks.                                        *)
(***************************************************************************)
EXTENDS Integers, FiniteSets

CONSTANTS
    Users,       \* people; an invitation names one by e-mail address
    Invites,     \* invitations that may be sent
    Nodes,       \* members of the organisation's networks
    Slots,       \* requests that may be under way at once
    MaxCalls,    \* bound: requests
    MaxMessages, \* bound: chat messages
    MaxFaults,   \* bound: crashes between two statements of a request
    None

ASSUME BoundsNat == MaxCalls \in Nat /\ MaxMessages \in Nat /\ MaxFaults \in Nat

Roles == {"READ_ONLY", "USER", "ADMIN"}
Invitation == [email : Users, role : Roles, linked : BOOLEAN, expired : BOOLEAN, mailed : {"now", "past"}]

ASSUME NoneIsNobody == None \notin Users \cup Nodes \cup Invitation

VARIABLES
    org,      \* "none", "alive" or "gone"
    owner,    \* Organization.ownerId
    role,     \* role[u]: the row of UserOrganizationRole (and of the users relation), or "none"
    account,  \* users who have an account
    inv,      \* inv[i]: the row of Invitation, linked to the organisation or not, or None
    messages, \* ids of chat messages: 1 .. messages
    lastRead, \* lastRead[u]: LastReadMessage.lastMessageId, 0 without a row
    settings, \* OrganizationSettings that decide whether mail is sent
    hook,     \* the organisation's webhook: "none", "off" or "on" for the event
    rows,     \* nodes with a row in network_members
    present,  \* nodes the controller knows
    sweep,    \* reconcileOrgNetworkMembers: nodes still to ask for, and the one to delete
    call, calls, faults,
    joins,    \* history: joins[i], memberships the invitation made
    withdrawn, \* history: invitations that were unlinked
    demoted,  \* history: somebody else took the owner's ADMIN role
    crossed,  \* history: users of whom two requests wrote at once
    wrong,    \* history: users whose change of role was mailed with another old role
    lost      \* history: nodes whose row went though the controller knew them

chat == <<messages, lastRead>>
config == <<settings, hook>>
sweepVars == <<rows, present, sweep, lost>>
people == <<org, owner, role, account>>
history == <<joins, withdrawn, demoted, crossed, wrong>>
vars == <<people, inv, chat, config, sweepVars, call, calls, faults, history>>

Idle == [op |-> "idle"]
NoSweep == [on |-> FALSE, todo |-> {}, gone |-> None]
Rank == [none |-> -1, READ_ONLY |-> 0, USER |-> 1, ADMIN |-> 3]

\* checkUserOrganizationRole.
Allowed(u, minimum) == org = "alive" /\ Rank[role[u]] >= Rank[minimum]
Admins == {u \in Users : role[u] = "ADMIN"}

Enter(s, req) ==
    /\ call[s] = Idle
    /\ calls < MaxCalls
    /\ calls' = calls + 1
    /\ call' = [call EXCEPT ![s] = req]
Finish(s) == call' = [call EXCEPT ![s] = Idle]
Refused(s) == Finish(s) /\ UNCHANGED <<people, inv, chat, config, sweepVars, calls, faults, history>>
Begin(s, req) == Enter(s, req) /\ UNCHANGED <<people, inv, chat, config, sweepVars, faults, history>>
Once == calls < MaxCalls /\ calls' = calls + 1 /\ UNCHANGED call

\* Another request is about to write the role, or the read mark, of u.
Touching(s, u) == \E t \in Slots \ {s} : "id" \in DOMAIN call[t] /\ call[t].id = u
Cross(s, u) == crossed' = IF Touching(s, u) THEN crossed \cup {u} ELSE crossed

----------------------------------------------------------------------------
(* Membership                                                              *)

\* createOrg, one transaction: the creator is owner, member and administrator.
CreateOrg(a) ==
    /\ org = "none" /\ a \in account
    /\ org' = "alive" /\ owner' = a
    /\ role' = [role EXCEPT ![a] = "ADMIN"]
    /\ UNCHANGED <<account, inv, chat, config, sweepVars, call, calls, faults, history>>

DeleteOrgBegin(s, a) ==
    /\ Allowed(a, "ADMIN") /\ owner = a
    /\ Begin(s, [op |-> "deleteOrg", by |-> a])

\* The rows that belong to the organisation go with it; its invitations are only unlinked
\* and its webhook stays behind without one.
DeleteOrgCommit(s) ==
    /\ call[s].op = "deleteOrg"
    /\ \/ /\ org = "alive"
          /\ org' = "gone"
          /\ role' = [u \in Users |-> "none"]
          /\ inv' = [i \in Invites |-> IF inv[i] = None THEN None ELSE [inv[i] EXCEPT !.linked = FALSE]]
          /\ messages' = 0 /\ lastRead' = [u \in Users |-> 0]
          /\ settings' = [mail |-> TRUE, event |-> FALSE]
          /\ rows' = {}
          /\ Finish(s)
          /\ UNCHANGED <<owner, account, hook, present, sweep, lost, calls, faults, history>>
       \/ org # "alive" /\ Refused(s)

AddUserBegin(s, a, u, r) ==
    /\ Allowed(a, "ADMIN")
    /\ u \in account /\ role[u] = "none"
    /\ Begin(s, [op |-> "add", by |-> a, id |-> u, role |-> r])

\* The role and the membership are created by one statement, whose key is the user: it
\* fails for a member.
Join(s, u, r) ==
    /\ role' = [role EXCEPT ![u] = r]
    /\ Cross(s, u)

AddUserCommit(s) ==
    LET c == call[s] IN
    /\ c.op = "add"
    /\ \/ /\ org = "alive" /\ role[c.id] = "none"
          /\ Join(s, c.id, c.role)
          /\ Finish(s)
          /\ UNCHANGED <<org, owner, account, inv, chat, config, sweepVars, calls, faults,
                         joins, withdrawn, demoted, wrong>>
       \/ (org # "alive" \/ role[c.id] # "none") /\ Refused(s)

\* Mutant: the owner is not looked for.
LeaveBeginAnyone(s, a, u) ==
    /\ Allowed(a, IF a = u THEN "READ_ONLY" ELSE "ADMIN")
    /\ role[u] # "none"
    /\ Begin(s, [op |-> "leave", by |-> a, id |-> u])

\* leave: oneself, or as an administrator somebody else, never the owner.
LeaveBegin(s, a, u) ==
    /\ Allowed(a, IF a = u THEN "READ_ONLY" ELSE "ADMIN")
    /\ owner # u /\ role[u] # "none"
    /\ Begin(s, [op |-> "leave", by |-> a, id |-> u])

LeaveCommit(s) ==
    LET c == call[s] IN
    /\ c.op = "leave"
    /\ \/ /\ org = "alive"
          /\ role' = [role EXCEPT ![c.id] = "none"]
          /\ Cross(s, c.id)
          /\ Finish(s)
          /\ UNCHANGED <<org, owner, account, inv, chat, config, sweepVars, calls, faults,
                         joins, withdrawn, demoted, wrong>>
       \/ org # "alive" /\ Refused(s)

\* Mutant: an administrator may change the own role.
ChangeUserRoleBeginSelf(s, a, u, r) ==
    /\ Allowed(a, "ADMIN")
    /\ role[u] # "none"
    /\ Begin(s, [op |-> "role", by |-> a, id |-> u, role |-> r, old |-> role[u]])

\* changeUserRole reads the role that the mail will call the old one.
ChangeUserRoleBegin(s, a, u, r) ==
    /\ u # a
    /\ Allowed(a, "ADMIN")
    /\ role[u] # "none"
    /\ Begin(s, [op |-> "role", by |-> a, id |-> u, role |-> r, old |-> role[u]])

\* sendOrganizationAdminNotification looks at the settings when it is called.
MailSent == settings.mail /\ settings.event

\* Mutant: the mail tells the new role as the old one.
Announced(c) == c.role
\* What the mail about a change calls the old role.
OldRole(c) == c.old

ChangeUserRoleCommit(s) ==
    LET c == call[s] IN
    /\ c.op = "role"
    /\ \/ /\ org = "alive" /\ role[c.id] # "none"
          /\ role' = [role EXCEPT ![c.id] = c.role]
          /\ demoted' = (demoted \/ (c.id = owner /\ c.by # owner /\ c.role # "ADMIN"))
          /\ wrong' = IF MailSent /\ OldRole(c) # role[c.id] THEN wrong \cup {c.id} ELSE wrong
          /\ Cross(s, c.id)
          /\ Finish(s)
          /\ UNCHANGED <<org, owner, account, inv, chat, config, sweepVars, calls, faults, joins, withdrawn>>
       \/ (org # "alive" \/ role[c.id] = "none") /\ Refused(s)

----------------------------------------------------------------------------
(* Invitations                                                             *)

Pending(u) == \E i \in Invites : inv[i] # None /\ inv[i].linked /\ inv[i].email = u

\* inviteUserByMail: neither a member nor invited already; the mail goes before the row.
InviteUserByMailBegin(s, a, u, r) ==
    /\ Allowed(a, "ADMIN")
    /\ role[u] = "none" /\ ~Pending(u)
    /\ Begin(s, [op |-> "invite", by |-> a, email |-> u, role |-> r])
InviteUserByMailCommit(s) ==
    LET c == call[s] IN
    /\ c.op = "invite"
    /\ \/ \E i \in Invites :
            /\ inv[i] = None /\ joins[i] = 0 /\ org = "alive"
            /\ inv' = [inv EXCEPT ![i] = [email |-> c.email, role |-> c.role, linked |-> TRUE,
                                          expired |-> FALSE, mailed |-> "now"]]
            /\ Finish(s)
            /\ UNCHANGED <<people, chat, config, sweepVars, calls, faults, history>>
       \/ Refused(s)   \* the mail could not be sent, or the organisation is gone

\* resendInvite: the link is mailed again when a minute has passed, then the time is stored.
ResendInvite(a, i) ==
    /\ inv[i] # None /\ inv[i].linked /\ inv[i].mailed = "past"
    /\ Allowed(a, "ADMIN")
    /\ Once
    /\ inv' = [inv EXCEPT ![i].mailed = "now"]
    /\ UNCHANGED <<people, chat, config, sweepVars, faults, history>>

\* deleteInvite removes the row that links the invitation to the organisation.
DeleteInvite(a, i) ==
    /\ inv[i] # None /\ inv[i].linked
    /\ Allowed(a, "ADMIN")
    /\ Once
    /\ inv' = [inv EXCEPT ![i].linked = FALSE]
    /\ withdrawn' = withdrawn \cup {i}
    /\ UNCHANGED <<people, chat, config, sweepVars, faults, joins, demoted, crossed, wrong>>

\* preValidateUserInvite for somebody with an account: the row of Invitation is looked up by
\* its token, whatever it is linked to.
AcceptBegin(s, i) ==
    /\ inv[i] # None /\ ~inv[i].expired
    /\ inv[i].email \in account /\ role[inv[i].email] = "none"
    /\ Begin(s, [op |-> "accept", id |-> inv[i].email, invite |-> i, role |-> inv[i].role])
AcceptCommit(s) ==
    LET c == call[s] IN
    /\ c.op = "accept"
    /\ \/ /\ org = "alive" /\ role[c.id] = "none"
          /\ Join(s, c.id, c.role)
          /\ joins' = [joins EXCEPT ![c.invite] = @ + 1]
          /\ call' = [call EXCEPT ![s] = [op |-> "accepted", id |-> c.id]]
          /\ UNCHANGED <<org, owner, account, inv, chat, config, sweepVars, calls, faults,
                         withdrawn, demoted, wrong>>
       \/ (org # "alive" \/ role[c.id] # "none") /\ Refused(s)

\* Mutant: the invitations stay after one was accepted.
AcceptCleanupNothing(s) ==
    /\ call[s].op = "accepted"
    /\ Refused(s)

\* All invitations of the address that are linked to the organisation are deleted.
AcceptCleanup(s) ==
    LET c == call[s] IN
    /\ c.op = "accepted"
    /\ inv' = [i \in Invites |-> IF inv[i] # None /\ inv[i].linked /\ inv[i].email = c.id
                                 THEN None ELSE inv[i]]
    /\ Finish(s)
    /\ UNCHANGED <<people, chat, config, sweepVars, calls, faults, history>>

\* Somebody without an account registers with the token (validateOrganizationToken asks for
\* the link; the transaction of register, see Accounts, deletes the invitation).
RegisterInvited(i) ==
    /\ inv[i] # None /\ inv[i].linked /\ ~inv[i].expired
    /\ inv[i].email \notin account
    /\ Once
    /\ account' = account \cup {inv[i].email}
    /\ role' = [role EXCEPT ![inv[i].email] = inv[i].role]
    /\ joins' = [joins EXCEPT ![i] = @ + 1]
    /\ inv' = [inv EXCEPT ![i] = None]
    /\ UNCHANGED <<org, owner, chat, config, sweepVars, faults, withdrawn, demoted, crossed, wrong>>

----------------------------------------------------------------------------
(* Chat                                                                    *)

\* sendMessage: the message is stored, then the sender's mark is put on it.
SendMessage(s, u) ==
    /\ Allowed(u, "READ_ONLY")
    /\ messages < MaxMessages
    /\ messages' = messages + 1
    /\ Enter(s, [op |-> "mark", id |-> u, to |-> messages + 1])
    /\ UNCHANGED <<people, inv, lastRead, config, sweepVars, faults, history>>

\* markMessagesAsRead: the latest message is looked up ...
MarkMessagesAsRead(s, u) ==
    /\ Allowed(u, "READ_ONLY")
    /\ messages > 0
    /\ Begin(s, [op |-> "mark", id |-> u, to |-> messages])

\* ... and the mark put on it, whatever it is on by then.
StoreMark(s) ==
    LET c == call[s] IN
    /\ c.op = "mark"
    /\ \/ /\ org = "alive"
          /\ lastRead' = [lastRead EXCEPT ![c.id] = c.to]
          /\ Cross(s, c.id)
          /\ Finish(s)
          /\ UNCHANGED <<people, inv, messages, config, sweepVars, calls, faults, joins, withdrawn, demoted, wrong>>
       \/ org # "alive" /\ Refused(s)

\* getOrgNotifications: what the bell of u shows.
HasUnread(u) == messages > 0 /\ messages > lastRead[u]

----------------------------------------------------------------------------
(* Settings and webhooks                                                   *)

\* updateOrganizationNotificationSettings: an upsert of the fields that were sent.
UpdateNotificationSettings(a, mail, event) ==
    /\ Allowed(a, "ADMIN")
    /\ settings # [mail |-> mail, event |-> event]
    /\ Once
    /\ settings' = [mail |-> mail, event |-> event]
    /\ UNCHANGED <<people, inv, chat, hook, sweepVars, faults, history>>

\* addOrgWebhooks stores the events the hook is for, deleteOrgWebhooks removes it.
SetWebhook(a, h) ==
    /\ Allowed(a, "ADMIN")
    /\ hook # h
    /\ Once
    /\ hook' = h
    /\ UNCHANGED <<people, inv, chat, settings, sweepVars, faults, history>>

----------------------------------------------------------------------------
(* The background clean-up of getOrgById                                   *)

\* The page is opened: the rows are counted, and a sweep over them starts unless one of the
\* organisation is under way.
GetOrgById(u) ==
    /\ Allowed(u, "READ_ONLY")
    /\ Once
    /\ sweep' = IF sweep.on THEN sweep ELSE [on |-> TRUE, todo |-> rows, gone |-> None]
    /\ UNCHANGED <<people, inv, chat, config, rows, present, lost, faults, history>>

\* Mutant: any answer but the member singles out its row, a failure too.
SweepAskAny(n) ==
    /\ sweep.on /\ sweep.gone = None /\ n \in sweep.todo
    /\ \E answer \in {None, n} : sweep' = [sweep EXCEPT !.todo = @ \ {n}, !.gone = answer]
    /\ UNCHANGED <<people, inv, chat, config, rows, present, lost, call, calls, faults, history>>

\* The controller is asked for one member after the other; a 404 singles out its row.
SweepAsk(n) ==
    /\ sweep.on /\ sweep.gone = None /\ n \in sweep.todo
    /\ sweep' = [sweep EXCEPT !.todo = @ \ {n}, !.gone = IF n \in present THEN None ELSE n]
    /\ UNCHANGED <<people, inv, chat, config, rows, present, lost, call, calls, faults, history>>

\* The row is deleted; an error (somebody else deleted it) is logged.
SweepDelete ==
    /\ sweep.gone # None
    /\ rows' = rows \ {sweep.gone}
    /\ sweep' = [sweep EXCEPT !.gone = None]
    /\ lost' = IF sweep.gone \in present \cap rows THEN lost \cup {sweep.gone} ELSE lost
    /\ UNCHANGED <<people, inv, chat, config, present, call, calls, faults, history>>

SweepEnd ==
    /\ sweep.on /\ sweep.todo = {} /\ sweep.gone = None
    /\ sweep' = NoSweep
    /\ UNCHANGED <<people, inv, chat, config, rows, present, lost, call, calls, faults, history>>

\* A node joins: it is on the controller, and the reconcile of the network page stores its
\* row.  A node is deleted on the controller.
NodeJoins(n) ==
    /\ org = "alive" /\ n \notin present
    /\ Once
    /\ present' = present \cup {n} /\ rows' = rows \cup {n}
    /\ crossed' = IF sweep.gone = n THEN crossed \cup {n} ELSE crossed
    /\ UNCHANGED <<people, inv, chat, config, sweep, lost, faults, joins, withdrawn, demoted, wrong>>
NodeDeleted(n) ==
    /\ n \in present
    /\ Once
    /\ present' = present \ {n}
    /\ UNCHANGED <<people, inv, chat, config, rows, sweep, lost, faults, history>>

----------------------------------------------------------------------------

\* The process ends between two statements of its requests.
Crash ==
    /\ faults < MaxFaults
    /\ faults' = faults + 1
    /\ call' = [s \in Slots |-> Idle]
    /\ sweep' = NoSweep
    /\ UNCHANGED <<people, inv, chat, config, rows, present, lost, calls, history>>

\* An hour or a day passes.
TimePasses ==
    /\ \E i \in Invites :
        /\ inv[i] # None /\ ~inv[i].expired
        /\ inv' = [inv EXCEPT ![i] = IF inv[i].mailed = "now" THEN [inv[i] EXCEPT !.mailed = "past"]
                                     ELSE [inv[i] EXCEPT !.expired = TRUE]]
    /\ UNCHANGED <<people, chat, config, sweepVars, call, calls, faults, history>>

Init ==
    /\ org = "none" /\ owner = None
    /\ role = [u \in Users |-> "none"]
    /\ account \in {Users} \cup {Users \ {u} : u \in Users}
    /\ inv = [i \in Invites |-> None]
    /\ messages = 0 /\ lastRead = [u \in Users |-> 0]
    /\ settings = [mail |-> TRUE, event |-> FALSE] /\ hook = "none"
    /\ \E known \in SUBSET Nodes : rows = Nodes /\ present = known
    /\ sweep = NoSweep
    /\ call = [s \in Slots |-> Idle]
    /\ calls = 0 /\ faults = 0
    /\ joins = [i \in Invites |-> 0]
    /\ demoted = FALSE
    /\ crossed = {} /\ wrong = {} /\ lost = {} /\ withdrawn = {}

Request(s) ==
    /\ call[s] = Idle /\ calls < MaxCalls
    /\ \/ \E a \in Users :
           \/ DeleteOrgBegin(s, a)
           \/ SendMessage(s, a)
           \/ MarkMessagesAsRead(s, a)
       \/ \E a, u \in Users :
           \/ LeaveBegin(s, a, u)
           \/ \E r \in {"USER", "ADMIN"} :
               AddUserBegin(s, a, u, r) \/ ChangeUserRoleBegin(s, a, u, r)
           \/ InviteUserByMailBegin(s, a, u, "USER")
       \/ \E i \in Invites : AcceptBegin(s, i)

Proceed(s) ==
    /\ call[s] # Idle
    /\ \/ DeleteOrgCommit(s) \/ AddUserCommit(s) \/ LeaveCommit(s) \/ ChangeUserRoleCommit(s)
       \/ InviteUserByMailCommit(s) \/ AcceptCommit(s) \/ AcceptCleanup(s) \/ StoreMark(s)

AtOnce ==
    \/ \E a \in Users :
        \/ CreateOrg(a) \/ GetOrgById(a)
        \/ \E i \in Invites : ResendInvite(a, i) \/ DeleteInvite(a, i)
        \/ \E m, e \in BOOLEAN : UpdateNotificationSettings(a, m, e)
        \/ \E h \in {"none", "off", "on"} : SetWebhook(a, h)
    \/ \E i \in Invites : RegisterInvited(i)

Sweep == SweepDelete \/ SweepEnd \/ \E n \in Nodes : SweepAsk(n)

Next ==
    \/ \E s \in Slots : Request(s) \/ Proceed(s)
    \/ AtOnce
    \/ Sweep
    \/ \E n \in Nodes : NodeJoins(n) \/ NodeDeleted(n)
    \/ Crash
    \/ TimePasses

Spec == Init /\ [][Next]_vars

----------------------------------------------------------------------------

\* Every variable has its type; what belongs to the organisation exists only with it.
TypeOK ==
    /\ org \in {"none", "alive", "gone"} /\ owner \in Users \cup {None}
    /\ role \in [Users -> Roles \cup {"none"}]
    /\ org # "alive" => role = [u \in Users |-> "none"] /\ messages = 0
    /\ \A u \in Users : role[u] # "none" => u \in account
    /\ inv \in [Invites -> Invitation \cup {None}]
    /\ \A i \in Invites : inv[i] # None /\ inv[i].linked => org = "alive"
    /\ messages \in 0 .. MaxMessages /\ lastRead \in [Users -> 0 .. MaxMessages]
    /\ hook \in {"none", "off", "on"}
    /\ rows \subseteq Nodes /\ present \subseteq Nodes
    /\ sweep.todo \subseteq Nodes /\ sweep.gone \in Nodes \cup {None}
    /\ calls \in 0 .. MaxCalls /\ faults \in 0 .. MaxFaults

\* The owner stays a member: nobody can remove the owner, whichever way invitations,
\* departures and removals run together (organizationRouter.ts:1060).
OwnerIsMember == org = "alive" => role[owner] # "none"

\* An organisation keeps an administrator: it loses the last one only after another
\* administrator lowered the owner's role (organizationRouter.ts:651).
AdministratorRemains == org = "alive" => Admins # {} \/ demoted

\* An invitation makes somebody a member once.  It does so again only when it had been
\* unlinked, which leaves its row behind, when the process ended before it was deleted, or
\* when the person left while it was being accepted (organizationRouter.ts:1266, 1587).
InvitationUsedOnce ==
    \A i \in Invites : joins[i] <= 1 \/ i \in withdrawn \/ faults > 0 \/ crossed # {}

\* The mail about a change of role names the role that was replaced, unless two requests
\* changed the same member at once (organizationRouter.ts:673).
MailNamesOldRole == wrong \subseteq crossed

\* The clean-up deletes no row of a node the controller knows, unless the node joined between
\* the controller's answer and the deletion (organizationRouter.ts:92).
SweepSparesPresent == lost \subseteq crossed

\* The organisation is never left without its owner or an administrator, and an invitation
\* makes one membership, whatever its members do together.
MembershipHolds == OwnerIsMember /\ AdministratorRemains /\ InvitationUsedOnce

\* What was read before a mail or a request to the controller, and used after it, is wrong
\* only where somebody else changed the same thing in between.
StaleReadsExcused == MailNamesOldRole /\ SweepSparesPresent
=============================================================================
