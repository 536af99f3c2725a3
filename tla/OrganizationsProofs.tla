------------------------- MODULE OrganizationsProofs -------------------------
(****************************************************************************)
(* Proofs about the organisation and about the networks.  MCOrganizations   *)
(* runs both machines on small instances; each part below states the        *)
(* invariant that is inductive for one of them, shows that every action     *)
(* keeps it, and draws from it the properties that MCOrganizations checks.  *)
(****************************************************************************)
EXTENDS Organizations, Networks, FiniteSetTheorems, TLAPS

----------------------------------------------------------------------------
(* The organisation: the inductive invariant                                *)

SweepTypes == [on : BOOLEAN, todo : SUBSET Nodes, gone : Nodes \cup {None}]

(* What a slot holds.                                                       *)
DeleteOrgCall == [op : {"deleteOrg"}, by : Users]
AddCall == [op : {"add"}, by : Users, id : Users, role : Roles]
LeaveCall == [op : {"leave"}, by : Users, id : Users]
RoleCall == [op : {"role"}, by : Users, id : Users, role : Roles, old : Roles]
InviteCall == [op : {"invite"}, by : Users, email : Users, role : Roles]
AcceptCall == [op : {"accept"}, id : Users, invite : Invites, role : Roles]
AcceptedCall == [op : {"accepted"}, id : Users]
MarkCall == [op : {"mark"}, id : Users, to : Nat]
OrgCalls == {Idle} \cup DeleteOrgCall \cup AddCall \cup LeaveCall \cup RoleCall \cup InviteCall \cup AcceptCall
            \cup AcceptedCall \cup MarkCall

OrgTypes ==
    /\ org \in {"none", "alive", "gone"} /\ owner \in Users \cup {None}
    /\ role \in [Users -> Roles \cup {"none"}]
    /\ account \subseteq Users
    /\ inv \in [Invites -> Invitation \cup {None}]
    /\ sweep \in SweepTypes
    /\ call \in [Slots -> OrgCalls]
    /\ joins \in [Invites -> Nat]
    /\ messages \in Nat /\ faults \in Nat /\ demoted \in BOOLEAN

(* Before there is an organisation nothing refers to it, and its owner is   *)
(* somebody as long as there is one.                                        *)
NothingBefore == org = "none" => /\ \A i \in Invites : inv[i] = None
                                 /\ \A s \in Slots : call[s] = Idle
OwnerKnown == org = "alive" => owner \in Users
MembersKnown == \A u \in Users : role[u] # "none" => u \in account
LinkedAlive == \A i \in Invites : inv[i] # None /\ inv[i].linked => org = "alive"

(* The owner is an administrator until another one takes the role.          *)
OwnerRules == org = "alive" => role[owner] = "ADMIN" \/ demoted

(* No request takes the owner's membership, nobody changes the own role,    *)
(* and the role that a change will call the old one is still the role.      *)
PromiseOK(c, r, a, k) ==
    /\ c.op \in {"add", "role", "accept"} => c.id \in a
    /\ c.op = "leave" => c.id # owner
    /\ c.op = "role" => c.by # c.id /\ (r[c.id] = c.old \/ c.id \in k)
PromisesOK == org = "alive" => \A s \in Slots : PromiseOK(call[s], role, account, crossed)

(* Unless two requests met or the process ended, an invitation that is being*)
(* accepted is there for that person and has not been used; one that was    *)
(* used is about to be deleted.                                             *)
Undisturbed == faults = 0 /\ crossed = {} /\ org = "alive"
AcceptOK(c, r, v, j, w) ==
    /\ c.op = "accept" => /\ v[c.invite] # None /\ v[c.invite].email = c.id
                          /\ j[c.invite] = 0 \/ c.invite \in w
                          /\ r[c.id] = "none"
    /\ c.op = "accepted" => r[c.id] # "none"
AcceptsOK == Undisturbed => \A s \in Slots : AcceptOK(call[s], role, inv, joins, withdrawn)
UsedGoes == Undisturbed => \A i \in Invites \ withdrawn :
    joins[i] > 0 /\ inv[i] # None => \E s \in Slots : call[s].op = "accepted" /\ call[s].id = inv[i].email
UnlinkedWithdrawn == org = "alive" => \A i \in Invites : inv[i] # None /\ ~inv[i].linked => i \in withdrawn

(* A row that is to be deleted is of a node that is still unknown.          *)
SweepOK == sweep.gone \in present => sweep.gone \in crossed

SweepKept == SweepOK /\ SweepSparesPresent /\ present \subseteq Nodes /\ rows \subseteq Nodes
Standing == NothingBefore /\ OwnerKnown /\ MembersKnown /\ LinkedAlive /\ OwnerRules /\ OwnerIsMember
Accepting == AcceptsOK /\ UsedGoes /\ UnlinkedWithdrawn /\ InvitationUsedOnce

OrgInv == OrgTypes /\ Standing /\ PromisesOK /\ Accepting /\ MailNamesOldRole /\ SweepKept

----------------------------------------------------------------------------
(* Rows and requests                                                        *)

(* What is in a slot has the fields of its procedure.                       *)
LEMMA OrgKinds ==
    ASSUME NEW c \in OrgCalls
    PROVE  /\ c.op = "deleteOrg" => c \in DeleteOrgCall
           /\ c.op = "add" => c \in AddCall
           /\ c.op = "leave" => c \in LeaveCall
           /\ c.op = "role" => c \in RoleCall
           /\ c.op = "invite" => c \in InviteCall
           /\ c.op = "accept" => c \in AcceptCall
           /\ c.op = "accepted" => c \in AcceptedCall
           /\ c.op = "mark" => c \in MarkCall
           /\ c.op = "idle" <=> c = Idle
BY DEF OrgCalls, DeleteOrgCall, AddCall, LeaveCall, RoleCall, InviteCall, AcceptCall, AcceptedCall, MarkCall, Idle

(* A procedure about a member names the person.                             *)
LEMMA NamesSomebody ==
    ASSUME NEW c \in OrgCalls, c.op \in {"add", "leave", "role", "accept", "accepted", "mark"}
    PROVE  c.id \in Users /\ "id" \in DOMAIN c
BY OrgKinds DEF AddCall, LeaveCall, RoleCall, AcceptCall, AcceptedCall, MarkCall

(* Mailing, expiry and the loss of its organisation leave the invitation    *)
(* with the person and the role (organizationRouter.ts, resendInvite,       *)
(* deleteInvite).                                                           *)
LEMMA InvitationKinds ==
    ASSUME NEW v \in Invitation
    PROVE  /\ v.email \in Users /\ v.role \in Roles /\ v.linked \in BOOLEAN /\ v # None
           /\ LET w == [v EXCEPT !.mailed = "now"] IN
              w \in Invitation /\ w.email = v.email /\ w.role = v.role /\ w.linked = v.linked
           /\ LET w == [v EXCEPT !.mailed = "past"] IN
              w \in Invitation /\ w.email = v.email /\ w.role = v.role /\ w.linked = v.linked
           /\ LET w == [v EXCEPT !.expired = TRUE] IN
              w \in Invitation /\ w.email = v.email /\ w.role = v.role /\ w.linked = v.linked
           /\ LET w == [v EXCEPT !.linked = FALSE] IN
              w \in Invitation /\ w.email = v.email /\ w.role = v.role /\ ~w.linked
BY NoneIsNobody DEF Invitation

(* An empty slot is a call, the idle one.                                   *)
LEMMA Vacant == Idle \in OrgCalls /\ Idle.op = "idle"
BY DEF OrgCalls, Idle

(* What a request relies on survives a step that changes nobody else's      *)
(* membership, or marks it as crossed.                                      *)
LEMMA PromiseStays ==
    ASSUME NEW c \in OrgCalls, NEW r, NEW a, NEW k, NEW r2, NEW a2, NEW k2, PromiseOK(c, r, a, k),
           a \subseteq a2, k \subseteq k2, c.op = "role" => c.id \in k2 \/ r2[c.id] = r[c.id]
    PROVE  PromiseOK(c, r2, a2, k2)
BY DEF PromiseOK

(* A step outside the sweep of unknown members leaves the sweep as it is    *)
(* bound, if it only takes rows away.                                       *)
LEMMA SweepStays ==
    ASSUME SweepKept, UNCHANGED <<sweep, present, lost>>, rows' \subseteq rows, crossed \subseteq crossed'
    PROVE  SweepKept'
BY DEF SweepKept, SweepOK, SweepSparesPresent

(* The order of the roles: ADMIN is above all, and every member may read    *)
(* (checkUserOrganizationRole).                                             *)
LEMMA RankOrder == \A r \in Roles \cup {"none"} : /\ Rank[r] >= Rank["ADMIN"] <=> r = "ADMIN"
                                                  /\ Rank[r] >= Rank["READ_ONLY"] <=> r # "none"
BY DEF Rank, Roles

----------------------------------------------------------------------------
(* Steps by what they change                                                *)

(* A request enters a slot, or goes on in it, without a change to the       *)
(* organisation.                                                            *)
LEMMA CallStep ==
    ASSUME OrgInv, NEW s \in Slots, NEW x \in OrgCalls, call' = [call EXCEPT ![s] = x],
           UNCHANGED <<people, inv, sweepVars, faults, joins, withdrawn, demoted, wrong>>,
           messages' \in Nat, crossed \subseteq crossed',
           org = "none" => x = Idle,
           org = "alive" => PromiseOK(x, role, account, crossed),
           Undisturbed => AcceptOK(x, role, inv, joins, withdrawn),
           call[s].op # "accepted"
    PROVE  OrgInv'
<1> USE DEF OrgInv
<1>1. OrgTypes' /\ \A t \in Slots : call'[t] = IF t = s THEN x ELSE call[t]
  BY DEF OrgTypes, people, sweepVars
<1>2. Standing'
  BY <1>1 DEF Standing, NothingBefore, OwnerKnown, MembersKnown, LinkedAlive, OwnerRules, OwnerIsMember, people
<1>3. PromisesOK'
  <2> SUFFICES ASSUME NEW t \in Slots, org = "alive" PROVE PromiseOK(call'[t], role', account', crossed')
    BY DEF PromisesOK, PromiseOK, people
  <2>1. call'[t] \in OrgCalls /\ PromiseOK(call'[t], role, account, crossed)
    BY <1>1 DEF PromisesOK, OrgTypes
  <2> QED BY <2>1, PromiseStays DEF people
<1>4. AcceptsOK' /\ UsedGoes' /\ UnlinkedWithdrawn' /\ InvitationUsedOnce'
  <2>1. Undisturbed' => Undisturbed
    BY DEF Undisturbed, people
  <2>2. AcceptsOK'
    BY <1>1, <2>1 DEF AcceptsOK, Accepting, AcceptOK, people
  <2>3. UsedGoes'
    BY <1>1, <2>1 DEF UsedGoes, Accepting
  <2> QED BY <2>2, <2>3 DEF Accepting, UnlinkedWithdrawn, InvitationUsedOnce, people
<1>5. MailNamesOldRole' /\ SweepKept'
  BY SweepStays DEF MailNamesOldRole, sweepVars
<1> QED BY <1>1, <1>2, <1>3, <1>4, <1>5 DEF Accepting

(* A request that is turned down leaves everything as it is.                *)
LEMMA RefusedStep ==
    ASSUME OrgInv, NEW s \in Slots, Refused(s), call[s].op # "accepted"
    PROVE  OrgInv'
<1>1. PromiseOK(Idle, role, account, crossed) /\ AcceptOK(Idle, role, inv, joins, withdrawn)
  BY Vacant DEF PromiseOK, AcceptOK
<1> QED BY <1>1, Vacant, CallStep DEF Refused, Finish, chat, sweepVars, history, people, OrgInv, OrgTypes

(* A step outside memberships, invitations and requests keeps the           *)
(* invariant.                                                               *)
LEMMA StillStep ==
    ASSUME OrgInv, UNCHANGED <<people, inv, messages, call, faults, joins, withdrawn, demoted, wrong>>,
           crossed \subseteq crossed', sweep' \in SweepTypes, SweepKept'
    PROVE  OrgInv'
<1> USE DEF OrgInv
<1>1. OrgTypes'
  BY DEF OrgTypes, people
<1>2. Standing'
  BY DEF Standing, NothingBefore, OwnerKnown, MembersKnown, LinkedAlive, OwnerRules, OwnerIsMember, people
<1>3. PromisesOK'
  <2> SUFFICES ASSUME NEW t \in Slots, org = "alive" PROVE PromiseOK(call[t], role', account', crossed')
    BY DEF PromisesOK, PromiseOK, people
  <2>1. call[t] \in OrgCalls /\ PromiseOK(call[t], role, account, crossed)
    BY DEF PromisesOK, OrgTypes
  <2> QED BY <2>1, PromiseStays DEF people
<1>4. Accepting'
  <2>1. Undisturbed' => Undisturbed
    BY DEF Undisturbed, people
  <2> QED BY <2>1 DEF Accepting, AcceptsOK, UsedGoes, UnlinkedWithdrawn, InvitationUsedOnce, AcceptOK, people
<1> QED BY <1>1, <1>2, <1>3, <1>4 DEF MailNamesOldRole

(* A request makes, changes or takes one membership (organizationRouter.ts: *)
(* addUser, leave, changeUserRole; preValidateUserInvite).                  *)
LEMMA RoleStep ==
    ASSUME OrgInv, NEW s \in Slots, NEW u \in Users, NEW r \in Roles \cup {"none"}, NEW x \in OrgCalls,
           org = "alive", role' = [role EXCEPT ![u] = r], Cross(s, u), call' = [call EXCEPT ![s] = x],
           UNCHANGED <<org, owner, account, inv, chat, sweepVars, faults, withdrawn>>,
           call[s].op \in {"add", "leave", "role", "accept"}, call[s].id = u,
           r # "none" => u \in account,
           x = Idle \/ (x \in AcceptedCall /\ x.id = u /\ r # "none" /\ call[s].op = "accept"),
           u = owner => r # "none" /\ (r = "ADMIN" \/ demoted'),
           demoted' \in BOOLEAN, demoted => demoted',
           wrong' \subseteq wrong \cup (crossed \cap {u}),
           joins' = IF x = Idle THEN joins ELSE [joins EXCEPT ![call[s].invite] = @ + 1]
    PROVE  OrgInv'
<1> USE DEF OrgInv
<1>1. PICK c \in OrgCalls : c = call[s]
  BY DEF OrgTypes
<1>2. \A t \in Slots : call[t] \in OrgCalls /\ call'[t] = IF t = s THEN x ELSE call[t]
  BY DEF OrgTypes
<1>3. \A v \in Users : role'[v] = IF v = u THEN r ELSE role[v]
  BY DEF OrgTypes
<1>4. crossed \subseteq crossed' /\ (Touching(s, u) => u \in crossed')
  BY DEF Cross
<1>5. c.op = "accept" => c \in AcceptCall
  BY OrgKinds
<1>6. x = Idle \/ (x \in AcceptedCall /\ c.op = "accept" /\ c \in AcceptCall)
  BY <1>1, <1>5
<1>7. joins' \in [Invites -> Nat] /\ \A i \in Invites : joins'[i] = IF x # Idle /\ i = c.invite THEN joins[i] + 1 ELSE joins[i]
  BY <1>1, <1>6 DEF OrgTypes, AcceptCall
<1>8. OrgTypes'
  BY <1>7 DEF OrgTypes, chat, sweepVars
<1>9. Standing'
  BY <1>3, <1>8 DEF Standing, NothingBefore, OwnerKnown, MembersKnown, LinkedAlive, OwnerRules, OwnerIsMember
<1>10. \A t \in Slots \ {s} : call[t].op \in {"add", "leave", "role", "accept", "accepted", "mark"} /\ call[t].id = u
                              => u \in crossed'
  BY <1>2, <1>4, NamesSomebody DEF Touching
<1>11. PromisesOK'
  <2> SUFFICES ASSUME NEW t \in Slots PROVE PromiseOK(call'[t], role', account', crossed')
    BY DEF PromisesOK, PromiseOK
  <2>1. CASE t = s
    BY <1>2, <2>1, Vacant DEF PromiseOK, AcceptedCall
  <2>2. CASE t # s
    <3>1. PICK d \in OrgCalls : d = call[t]
      BY <1>2
    <3>2. PromiseOK(d, role, account, crossed)
      BY <3>1 DEF PromisesOK
    <3>3. d.op = "role" => d.id \in crossed' \/ role'[d.id] = role[d.id]
      BY <1>3, <1>10, <2>2, <3>1, NamesSomebody
    <3>4. PromiseOK(d, role', account', crossed')
      BY <1>4, <3>2, <3>3, PromiseStays
    <3> QED BY <1>2, <2>2, <3>1, <3>4
  <2> QED BY <2>1, <2>2
<1>12. Undisturbed' => /\ Undisturbed
                       /\ \A t \in Slots \ {s} : call[t].op \in {"accept", "accepted"} => call[t].id # u
  BY <1>4, <1>10 DEF Undisturbed
<1>13. AcceptsOK'
  <2> SUFFICES ASSUME Undisturbed', NEW t \in Slots PROVE AcceptOK(call'[t], role', inv', joins', withdrawn')
    BY DEF AcceptsOK
  <2>1. CASE t = s
    BY <1>2, <1>3, <2>1, Vacant DEF AcceptOK, AcceptedCall
  <2>2. CASE t # s
    <3>1. PICK d \in OrgCalls : d = call[t]
      BY <1>2
    <3>2. AcceptOK(d, role, inv, joins, withdrawn) /\ AcceptOK(c, role, inv, joins, withdrawn)
      BY <1>1, <1>12, <3>1 DEF AcceptsOK, Accepting
    <3>3. d.op \in {"accept", "accepted"} => d.id \in Users /\ d.id # u
      BY <1>12, <2>2, <3>1, NamesSomebody
    <3>4. d.op = "accept" => d.invite \in Invites
      BY OrgKinds DEF AcceptCall
    <3>5. d.op = "accept" /\ c.op = "accept" => d.invite # c.invite
      BY <1>1, <3>2, <3>3 DEF AcceptOK
    <3>6. AcceptOK(d, role', inv', joins', withdrawn')
      BY <1>3, <1>6, <1>7, <3>2, <3>3, <3>4, <3>5 DEF AcceptOK
    <3> QED BY <1>2, <2>2, <3>1, <3>6
  <2> QED BY <2>1, <2>2
<1>14. UsedGoes'
  <2> SUFFICES ASSUME Undisturbed', NEW i \in Invites \ withdrawn, joins'[i] > 0, inv[i] # None
               PROVE  \E t \in Slots : call'[t].op = "accepted" /\ call'[t].id = inv[i].email
    BY DEF UsedGoes
  <2>1. CASE joins'[i] = joins[i]
    <3>1. PICK t \in Slots : call[t].op = "accepted" /\ call[t].id = inv[i].email
      BY <1>12, <2>1 DEF UsedGoes, Accepting
    <3> QED BY <1>2, <3>1
  <2>2. CASE joins'[i] # joins[i]
    <3>1. x # Idle /\ i = c.invite /\ c.op = "accept"
      BY <1>6, <1>7, <2>2
    <3>2. inv[i].email = u
      BY <1>1, <1>12, <3>1 DEF AcceptsOK, Accepting, AcceptOK
    <3>3. call'[s].op = "accepted" /\ call'[s].id = u
      BY <1>2, <3>1 DEF AcceptedCall
    <3> QED BY <3>2, <3>3
  <2> QED BY <2>1, <2>2
<1>15. InvitationUsedOnce'
  <2> SUFFICES ASSUME NEW i \in Invites, ~(i \in withdrawn' \/ faults' > 0 \/ crossed' # {}) PROVE joins'[i] <= 1
    BY DEF InvitationUsedOnce
  <2>1. Undisturbed
    BY <1>4 DEF Undisturbed, OrgTypes
  <2>2. joins[i] \in Nat /\ joins[i] <= 1
    BY <2>1 DEF InvitationUsedOnce, Accepting, OrgTypes, Undisturbed
  <2>3. x # Idle /\ i = c.invite => joins[i] = 0
    BY <1>1, <1>6, <2>1 DEF AcceptsOK, Accepting, AcceptOK
  <2> QED BY <1>7, <2>2, <2>3
<1>16. UnlinkedWithdrawn'
  BY DEF UnlinkedWithdrawn, Accepting
<1>17. MailNamesOldRole' /\ SweepKept'
  BY <1>4, SweepStays DEF MailNamesOldRole, sweepVars
<1> QED BY <1>8, <1>9, <1>11, <1>13, <1>14, <1>15, <1>16, <1>17 DEF Accepting

----------------------------------------------------------------------------
(* The actions on members                                                   *)

(* A request that begins checks the organisation, the role of the caller    *)
(* and the membership it is about; what it read is what its promise says    *)
(* (organizationRouter.ts).                                                 *)
LEMMA BeginSteps ==
    ASSUME OrgInv, NEW s \in Slots, Request(s) PROVE OrgInv'
<1> USE DEF OrgInv
<1> DEFINE Enters(x) == /\ x \in OrgCalls /\ Begin(s, x) /\ org # "none"
                        /\ org = "alive" => PromiseOK(x, role, account, crossed)
                        /\ Undisturbed => AcceptOK(x, role, inv, joins, withdrawn)
<1>1. ASSUME NEW x, Enters(x) PROVE OrgInv'
  <2>1. call' = [call EXCEPT ![s] = x]
    BY <1>1 DEF Begin, Enter
  <2>2. call[s].op # "accepted"
    BY <1>1, Vacant DEF Begin, Enter
  <2>3. UNCHANGED <<people, inv, sweepVars, faults, joins, withdrawn, demoted, wrong, crossed, messages>>
    BY <1>1 DEF Begin, chat, sweepVars, history
  <2> HIDE DEF OrgInv
  <2> QED BY <1>1, <2>1, <2>2, <2>3, CallStep DEF OrgInv, OrgTypes
<1>2. ASSUME NEW a \in Users, Allowed(a, "ADMIN") \/ Allowed(a, "READ_ONLY")
      PROVE  org = "alive" /\ role[a] # "none" /\ (Allowed(a, "ADMIN") => role[a] = "ADMIN")
  BY <1>2, RankOrder DEF Allowed, OrgTypes
<1>3. ASSUME NEW a \in Users, DeleteOrgBegin(s, a) PROVE OrgInv'
  <2> DEFINE x == [op |-> "deleteOrg", by |-> a]
  <2>1. x \in OrgCalls /\ PromiseOK(x, role, account, crossed) /\ AcceptOK(x, role, inv, joins, withdrawn)
    BY DEF OrgCalls, DeleteOrgCall, PromiseOK, AcceptOK
  <2> QED BY <1>1, <1>2, <1>3, <2>1 DEF DeleteOrgBegin
<1>4. ASSUME NEW u \in Users, SendMessage(s, u) PROVE OrgInv'
  <2> DEFINE x == [op |-> "mark", id |-> u, to |-> messages + 1]
  <2>1. x \in OrgCalls /\ PromiseOK(x, role, account, crossed) /\ AcceptOK(x, role, inv, joins, withdrawn)
    BY DEF OrgCalls, MarkCall, PromiseOK, AcceptOK, OrgTypes
  <2>2. /\ call' = [call EXCEPT ![s] = x] /\ call[s].op # "accepted" /\ messages' \in Nat
        /\ UNCHANGED <<people, inv, sweepVars, faults, joins, withdrawn, demoted, wrong, crossed>>
    BY <1>4, Vacant DEF SendMessage, Enter, sweepVars, history, OrgTypes
  <2>3. org # "none"
    BY <1>4, <1>2 DEF SendMessage
  <2> HIDE DEF OrgInv, x
  <2> QED BY <2>1, <2>2, <2>3, CallStep
<1>5. ASSUME NEW u \in Users, MarkMessagesAsRead(s, u) PROVE OrgInv'
  <2> DEFINE x == [op |-> "mark", id |-> u, to |-> messages]
  <2>1. x \in OrgCalls /\ PromiseOK(x, role, account, crossed) /\ AcceptOK(x, role, inv, joins, withdrawn)
    BY DEF OrgCalls, MarkCall, PromiseOK, AcceptOK, OrgTypes
  <2> QED BY <1>1, <1>2, <1>5, <2>1 DEF MarkMessagesAsRead
<1>6. ASSUME NEW a \in Users, NEW u \in Users, LeaveBegin(s, a, u) PROVE OrgInv'
  <2> DEFINE x == [op |-> "leave", by |-> a, id |-> u]
  <2>1. x \in OrgCalls /\ PromiseOK(x, role, account, crossed) /\ AcceptOK(x, role, inv, joins, withdrawn)
    BY <1>6 DEF OrgCalls, LeaveCall, PromiseOK, AcceptOK, LeaveBegin
  <2>2. org = "alive"
    BY <1>6 DEF LeaveBegin, Allowed
  <2> QED BY <1>1, <1>6, <2>1, <2>2 DEF LeaveBegin
<1>7. ASSUME NEW a \in Users, NEW u \in Users, NEW r \in {"USER", "ADMIN"}, AddUserBegin(s, a, u, r) PROVE OrgInv'
  <2> DEFINE x == [op |-> "add", by |-> a, id |-> u, role |-> r]
  <2>1. x \in OrgCalls /\ PromiseOK(x, role, account, crossed) /\ AcceptOK(x, role, inv, joins, withdrawn)
    BY <1>7 DEF OrgCalls, AddCall, PromiseOK, AcceptOK, AddUserBegin, Roles
  <2> QED BY <1>1, <1>2, <1>7, <2>1 DEF AddUserBegin
<1>8. ASSUME NEW a \in Users, NEW u \in Users, NEW r \in {"USER", "ADMIN"}, ChangeUserRoleBegin(s, a, u, r) PROVE OrgInv'
  <2> DEFINE x == [op |-> "role", by |-> a, id |-> u, role |-> r, old |-> role[u]]
  <2>1. u \in account /\ role[u] \in Roles
    BY <1>8 DEF ChangeUserRoleBegin, OrgTypes, Standing, MembersKnown
  <2>2. x \in OrgCalls /\ PromiseOK(x, role, account, crossed) /\ AcceptOK(x, role, inv, joins, withdrawn)
    BY <1>8, <2>1 DEF OrgCalls, RoleCall, PromiseOK, AcceptOK, ChangeUserRoleBegin, Roles
  <2> QED BY <1>1, <1>2, <1>8, <2>2 DEF ChangeUserRoleBegin
<1>9. ASSUME NEW a \in Users, NEW u \in Users, InviteUserByMailBegin(s, a, u, "USER") PROVE OrgInv'
  <2> DEFINE x == [op |-> "invite", by |-> a, email |-> u, role |-> "USER"]
  <2>1. x \in OrgCalls /\ PromiseOK(x, role, account, crossed) /\ AcceptOK(x, role, inv, joins, withdrawn)
    BY DEF OrgCalls, InviteCall, PromiseOK, AcceptOK, Roles
  <2> QED BY <1>1, <1>2, <1>9, <2>1 DEF InviteUserByMailBegin
<1>10. ASSUME NEW i \in Invites, AcceptBegin(s, i) PROVE OrgInv'
  <2>1. PICK v \in Invitation : v = inv[i]
    BY <1>10 DEF AcceptBegin, OrgTypes
  <2> DEFINE x == [op |-> "accept", id |-> v.email, invite |-> i, role |-> v.role]
  <2>2. v.email \in Users /\ v.role \in Roles /\ v.email \in account /\ role[v.email] = "none"
    BY <1>10, <2>1, InvitationKinds DEF AcceptBegin
  <2>3. x \in OrgCalls
    BY <2>2 DEF OrgCalls, AcceptCall
  <2>4. org # "none"
    BY <1>10 DEF AcceptBegin, Standing, NothingBefore
  <2>5. PromiseOK(x, role, account, crossed)
    BY <2>2 DEF PromiseOK
  <2>6. Undisturbed => joins[i] = 0 \/ i \in withdrawn
    <3> SUFFICES ASSUME Undisturbed, joins[i] # 0, i \notin withdrawn PROVE FALSE
      OBVIOUS
    <3>1. joins[i] > 0 /\ inv[i] # None
      BY <1>10 DEF OrgTypes, AcceptBegin
    <3>2. PICK t \in Slots : call[t].op = "accepted" /\ call[t].id = inv[i].email
      BY <3>1 DEF UsedGoes, Accepting
    <3> QED BY <2>1, <2>2, <3>2 DEF AcceptsOK, Accepting, AcceptOK
  <2>7. Undisturbed => AcceptOK(x, role, inv, joins, withdrawn)
    BY <1>10, <2>1, <2>2, <2>6 DEF AcceptOK, AcceptBegin
  <2>8. Begin(s, x)
    BY <1>10, <2>1 DEF AcceptBegin
  <2> HIDE DEF x
  <2> QED BY <1>1, <2>3, <2>4, <2>5, <2>7, <2>8
<1> HIDE DEF OrgInv
<1> QED BY <1>3, <1>4, <1>5, <1>6, <1>7, <1>8, <1>9, <1>10 DEF Request

(* A member is added (addUser).                                             *)
LEMMA AddUserStep ==
    ASSUME OrgInv, NEW s \in Slots, AddUserCommit(s) PROVE OrgInv'
<1>0. PICK c \in OrgCalls : c = call[s]
  BY DEF OrgInv, OrgTypes
<1>1. c \in AddCall /\ c.op = "add" /\ c.id \in Users /\ c.role \in Roles /\ c.role # "none"
  BY <1>0, OrgKinds DEF AddUserCommit, AddCall, Roles
<1>2. CASE Refused(s)
  BY <1>0, <1>1, <1>2, RefusedStep
<1>3. CASE ~Refused(s)
  <2>1. /\ org = "alive" /\ role[c.id] = "none" /\ role' = [role EXCEPT ![c.id] = c.role] /\ Cross(s, c.id)
        /\ call' = [call EXCEPT ![s] = Idle]
        /\ UNCHANGED <<org, owner, account, inv, chat, sweepVars, faults, withdrawn, demoted, wrong, joins>>
    BY <1>0, <1>3 DEF AddUserCommit, Join, Finish
  <2>2. c.id \in account /\ c.id # owner /\ demoted \in BOOLEAN
    BY <1>0, <1>1, <2>1 DEF OrgInv, PromisesOK, PromiseOK, Standing, OwnerIsMember, OrgTypes
  <2> QED BY <1>0, <1>1, <2>1, <2>2, RoleStep, Vacant
<1> QED BY <1>2, <1>3

(* A member leaves or is removed, and the owner never is (leave).           *)
LEMMA LeaveStep ==
    ASSUME OrgInv, NEW s \in Slots, LeaveCommit(s) PROVE OrgInv'
<1>0. PICK c \in OrgCalls : c = call[s]
  BY DEF OrgInv, OrgTypes
<1>1. c \in LeaveCall /\ c.op = "leave" /\ c.id \in Users
  BY <1>0, OrgKinds DEF LeaveCommit, LeaveCall
<1>2. CASE Refused(s)
  BY <1>0, <1>1, <1>2, RefusedStep
<1>3. CASE ~Refused(s)
  <2>1. /\ org = "alive" /\ role' = [role EXCEPT ![c.id] = "none"] /\ Cross(s, c.id)
        /\ call' = [call EXCEPT ![s] = Idle]
        /\ UNCHANGED <<org, owner, account, inv, chat, sweepVars, faults, withdrawn, demoted, wrong, joins>>
    BY <1>0, <1>3 DEF LeaveCommit, Finish
  <2>2. c.id # owner /\ demoted \in BOOLEAN
    BY <1>0, <1>1, <2>1 DEF OrgInv, PromisesOK, PromiseOK, OrgTypes
  <2> QED BY <1>0, <1>1, <2>1, <2>2, RoleStep, Vacant
<1> QED BY <1>2, <1>3

(* The role of a member changes, by somebody other than that member, and    *)
(* the mail tells the old and the new one (changeUserRole).                 *)
LEMMA ChangeUserRoleStep ==
    ASSUME OrgInv, NEW s \in Slots, ChangeUserRoleCommit(s) PROVE OrgInv'
<1>0. PICK c \in OrgCalls : c = call[s]
  BY DEF OrgInv, OrgTypes
<1>1. c \in RoleCall /\ c.op = "role" /\ c.id \in Users /\ c.role \in Roles /\ c.role # "none"
  BY <1>0, OrgKinds DEF ChangeUserRoleCommit, RoleCall, Roles
<1>2. CASE Refused(s)
  BY <1>0, <1>1, <1>2, RefusedStep
<1>3. CASE ~Refused(s)
  <2>1. /\ org = "alive" /\ role' = [role EXCEPT ![c.id] = c.role] /\ Cross(s, c.id)
        /\ call' = [call EXCEPT ![s] = Idle]
        /\ demoted' = (demoted \/ (c.id = owner /\ c.by # owner /\ c.role # "ADMIN"))
        /\ wrong' = IF MailSent /\ OldRole(c) # role[c.id] THEN wrong \cup {c.id} ELSE wrong
        /\ UNCHANGED <<org, owner, account, inv, chat, sweepVars, faults, withdrawn, joins>>
    BY <1>0, <1>3 DEF ChangeUserRoleCommit, Finish
  <2>2. PromiseOK(c, role, account, crossed)
    BY <1>0, <2>1 DEF OrgInv, PromisesOK
  <2>3. demoted \in BOOLEAN
    BY DEF OrgInv, OrgTypes
  <2>4. c.id \in account /\ (c.id = owner => c.role = "ADMIN" \/ demoted')
    BY <1>1, <2>1, <2>2 DEF PromiseOK
  <2>5. wrong' \subseteq wrong \cup (crossed \cap {c.id})
    BY <1>1, <2>1, <2>2 DEF PromiseOK, OldRole
  <2>6. demoted' \in BOOLEAN /\ (demoted => demoted')
    BY <2>1, <2>3
  <2> QED BY <1>0, <1>1, <2>1, <2>4, <2>5, <2>6, RoleStep, Vacant
<1> QED BY <1>2, <1>3

(* Whoever accepts an invitation becomes a member (preValidateUserInvite).  *)
LEMMA AcceptStep ==
    ASSUME OrgInv, NEW s \in Slots, AcceptCommit(s) PROVE OrgInv'
<1>0. PICK c \in OrgCalls : c = call[s]
  BY DEF OrgInv, OrgTypes
<1>1. c \in AcceptCall /\ c.op = "accept" /\ c.id \in Users /\ c.role \in Roles /\ c.role # "none"
  BY <1>0, OrgKinds DEF AcceptCommit, AcceptCall, Roles
<1>2. CASE Refused(s)
  BY <1>0, <1>1, <1>2, RefusedStep
<1>3. CASE ~Refused(s)
  <2> DEFINE x == [op |-> "accepted", id |-> c.id]
  <2>1. /\ org = "alive" /\ role[c.id] = "none" /\ role' = [role EXCEPT ![c.id] = c.role] /\ Cross(s, c.id)
        /\ call' = [call EXCEPT ![s] = x] /\ joins' = [joins EXCEPT ![c.invite] = @ + 1]
        /\ UNCHANGED <<org, owner, account, inv, chat, sweepVars, faults, withdrawn, demoted, wrong>>
    BY <1>0, <1>3 DEF AcceptCommit, Join
  <2>2. c.id \in account /\ c.id # owner /\ demoted \in BOOLEAN
    BY <1>0, <1>1, <2>1 DEF OrgInv, PromisesOK, PromiseOK, Standing, OwnerIsMember, OrgTypes
  <2>3. x \in OrgCalls /\ x \in AcceptedCall /\ x.id = c.id /\ x # Idle
    BY <1>1 DEF OrgCalls, AcceptedCall, Idle
  <2> HIDE DEF x
  <2> QED BY <1>0, <1>1, <2>1, <2>2, <2>3, RoleStep
<1> QED BY <1>2, <1>3

----------------------------------------------------------------------------
(* The actions on invitations and on the organisation                       *)

(* Invitations are made, changed or taken away, and no one joins by it.     *)
LEMMA InvitationStep ==
    ASSUME OrgInv, UNCHANGED <<people, messages, sweepVars, faults, joins, demoted, crossed, wrong>>,
           withdrawn \subseteq withdrawn', inv' \in [Invites -> Invitation \cup {None}],
           call' \in [Slots -> OrgCalls],
           \A s \in Slots : call'[s] = call[s] \/ (call'[s] = Idle /\ call[s].op = "invite"),
           \A i \in Invites : \/ inv'[i] = inv[i]
                              \/ inv[i] = None /\ joins[i] = 0 /\ inv'[i].linked /\ org = "alive"
                              \/ /\ inv[i] # None /\ inv'[i] # None /\ inv'[i].email = inv[i].email
                                 /\ \/ inv'[i].linked = inv[i].linked
                                    \/ ~inv'[i].linked /\ i \in withdrawn'
    PROVE  OrgInv'
<1> USE DEF OrgInv
<1>1. OrgTypes'
  BY DEF OrgTypes, people, sweepVars
<1>2. Standing'
  <2>1. NothingBefore'
    BY DEF Standing, NothingBefore, people
  <2>2. LinkedAlive'
    BY DEF Standing, LinkedAlive, people
  <2> QED BY <2>1, <2>2 DEF Standing, OwnerKnown, MembersKnown, OwnerRules, OwnerIsMember, people
<1>3. PromisesOK'
  <2> SUFFICES ASSUME NEW t \in Slots, org = "alive" PROVE PromiseOK(call'[t], role, account, crossed)
    BY DEF PromisesOK, PromiseOK, people
  <2>1. CASE call'[t] = call[t]
    BY <2>1 DEF PromisesOK
  <2>2. CASE call'[t] = Idle
    BY <2>2, Vacant DEF PromiseOK
  <2> QED BY <2>1, <2>2
<1>4. Undisturbed' => Undisturbed
  BY DEF Undisturbed, people
<1>5. AcceptsOK'
  <2> SUFFICES ASSUME NEW t \in Slots, Undisturbed PROVE AcceptOK(call'[t], role, inv', joins, withdrawn')
    BY <1>4 DEF AcceptsOK, AcceptOK, people
  <2>1. CASE call'[t] = call[t]
    <3>1. PICK c \in OrgCalls : c = call[t]
      BY DEF OrgTypes
    <3>2. AcceptOK(c, role, inv, joins, withdrawn)
      BY <3>1 DEF AcceptsOK, Accepting
    <3>3. c.op = "accept" => c.invite \in Invites
      BY OrgKinds DEF AcceptCall
    <3> QED BY <2>1, <3>1, <3>2, <3>3 DEF AcceptOK
  <2>2. CASE call'[t] = Idle
    BY <2>2, Vacant DEF AcceptOK
  <2> QED BY <2>1, <2>2
<1>6. UsedGoes'
  <2> SUFFICES ASSUME Undisturbed, NEW i \in Invites \ withdrawn', joins[i] > 0, inv'[i] # None
               PROVE  \E t \in Slots : call'[t].op = "accepted" /\ call'[t].id = inv'[i].email
    BY <1>4 DEF UsedGoes
  <2>1. joins[i] # 0
    BY DEF OrgTypes
  <2>2. inv[i] # None /\ inv'[i].email = inv[i].email
    BY <2>1
  <2>3. PICK t \in Slots : call[t].op = "accepted" /\ call[t].id = inv[i].email
    BY <2>2 DEF UsedGoes, Accepting
  <2>4. call'[t] = call[t]
    BY <2>3
  <2> QED BY <2>2, <2>3, <2>4
<1>7. UnlinkedWithdrawn' /\ InvitationUsedOnce'
  BY DEF UnlinkedWithdrawn, InvitationUsedOnce, Accepting, people
<1>8. MailNamesOldRole' /\ SweepKept'
  BY SweepStays DEF MailNamesOldRole, sweepVars
<1> QED BY <1>1, <1>2, <1>3, <1>5, <1>6, <1>7, <1>8 DEF Accepting

(* An invitation is stored once its mail was sent (inviteUserByMail).       *)
LEMMA InviteStep ==
    ASSUME OrgInv, NEW s \in Slots, InviteUserByMailCommit(s) PROVE OrgInv'
<1>0. PICK c \in OrgCalls : c = call[s]
  BY DEF OrgInv, OrgTypes
<1>1. c \in InviteCall /\ c.op = "invite"
  BY <1>0, OrgKinds DEF InviteUserByMailCommit
<1>2. CASE Refused(s)
  BY <1>0, <1>1, <1>2, RefusedStep
<1>3. CASE ~Refused(s)
  <2> DEFINE v == [email |-> c.email, role |-> c.role, linked |-> TRUE, expired |-> FALSE, mailed |-> "now"]
  <2>1. PICK i \in Invites : /\ inv[i] = None /\ joins[i] = 0 /\ org = "alive"
                             /\ inv' = [inv EXCEPT ![i] = v] /\ call' = [call EXCEPT ![s] = Idle]
                             /\ UNCHANGED <<people, messages, sweepVars, faults, joins, demoted, crossed, wrong, withdrawn>>
    BY <1>0, <1>3 DEF InviteUserByMailCommit, Finish, chat, history
  <2>2. v \in Invitation /\ v.linked
    BY <1>1 DEF Invitation, InviteCall
  <2> HIDE DEF v
  <2>3. inv' \in [Invites -> Invitation \cup {None}] /\ \A j \in Invites : inv'[j] = IF j = i THEN v ELSE inv[j]
    BY <2>1, <2>2 DEF OrgInv, OrgTypes
  <2>4. call' \in [Slots -> OrgCalls] /\ \A t \in Slots : call'[t] = call[t] \/ (call'[t] = Idle /\ call[t].op = "invite")
    BY <1>0, <1>1, <2>1, Vacant DEF OrgInv, OrgTypes
  <2> QED BY <2>1, <2>2, <2>3, <2>4, InvitationStep
<1> QED BY <1>2, <1>3

(* One invitation changes, and stays with its person.                       *)
LEMMA InvitationEdited ==
    ASSUME OrgInv, NEW i \in Invites, NEW v \in Invitation, inv[i] # None, inv' = [inv EXCEPT ![i] = v],
           v.email = inv[i].email, v.linked = inv[i].linked \/ (~v.linked /\ i \in withdrawn'),
           withdrawn \subseteq withdrawn',
           UNCHANGED <<people, messages, sweepVars, call, faults, joins, demoted, crossed, wrong>>
    PROVE  OrgInv'
<1>1. inv' \in [Invites -> Invitation \cup {None}] /\ \A j \in Invites : inv'[j] = IF j = i THEN v ELSE inv[j]
  BY DEF OrgInv, OrgTypes
<1>2. v # None
  BY InvitationKinds
<1>3. call' \in [Slots -> OrgCalls]
  BY DEF OrgInv, OrgTypes
<1> QED BY <1>1, <1>2, <1>3, InvitationStep

(* An invitation is mailed again (resendInvite).                            *)
LEMMA ResendStep ==
    ASSUME OrgInv, NEW a \in Users, NEW i \in Invites, ResendInvite(a, i) PROVE OrgInv'
<1>1. PICK v \in Invitation : v = inv[i]
  BY DEF ResendInvite, OrgInv, OrgTypes
<1>2. PICK w \in Invitation : w = [v EXCEPT !.mailed = "now"] /\ w.email = v.email /\ w.linked = v.linked
  BY InvitationKinds, Zenon
<1>3. inv' = [inv EXCEPT ![i] = w]
  <2>1. inv' = [inv EXCEPT ![i] = [inv[i] EXCEPT !.mailed = "now"]]
    BY Zenon DEF ResendInvite
  <2> QED BY <1>1, <1>2, <2>1, Zenon
<1>4. inv[i] # None /\ UNCHANGED <<people, messages, sweepVars, call, faults, joins, demoted, crossed, wrong, withdrawn>>
  BY DEF ResendInvite, Once, chat, history
<1> QED BY <1>1, <1>2, <1>3, <1>4, InvitationEdited

(* An invitation is withdrawn (deleteInvite).                               *)
LEMMA DeleteInviteStep ==
    ASSUME OrgInv, NEW a \in Users, NEW i \in Invites, DeleteInvite(a, i) PROVE OrgInv'
<1>1. PICK v \in Invitation : v = inv[i]
  BY DEF DeleteInvite, OrgInv, OrgTypes
<1>2. PICK w \in Invitation : w = [v EXCEPT !.linked = FALSE] /\ w.email = v.email /\ ~w.linked
  BY InvitationKinds, Zenon
<1>3. inv' = [inv EXCEPT ![i] = w]
  <2>1. inv' = [inv EXCEPT ![i] = [inv[i] EXCEPT !.linked = FALSE]]
    BY Zenon DEF DeleteInvite
  <2> QED BY <1>1, <1>2, <2>1, Zenon
<1>4. inv[i] # None /\ UNCHANGED <<people, messages, sweepVars, call, faults, joins, demoted, crossed, wrong>>
      /\ withdrawn' = withdrawn \cup {i}
  BY DEF DeleteInvite, Once, chat
<1> QED BY <1>1, <1>2, <1>3, <1>4, InvitationEdited

(* Invitations expire with time.                                            *)
LEMMA TimeStep ==
    ASSUME OrgInv, TimePasses PROVE OrgInv'
<1>1. PICK i \in Invites :
        /\ inv[i] # None
        /\ inv' = [inv EXCEPT ![i] = IF inv[i].mailed = "now" THEN [inv[i] EXCEPT !.mailed = "past"]
                                     ELSE [inv[i] EXCEPT !.expired = TRUE]]
  BY Zenon DEF TimePasses
<1>2. PICK v \in Invitation : v = inv[i]
  BY <1>1 DEF OrgInv, OrgTypes
<1>3. PICK w \in Invitation : /\ w = IF v.mailed = "now" THEN [v EXCEPT !.mailed = "past"] ELSE [v EXCEPT !.expired = TRUE]
                              /\ w.email = v.email /\ w.linked = v.linked
  BY InvitationKinds, Zenon
<1>4. inv' = [inv EXCEPT ![i] = w]
  BY <1>1, <1>2, <1>3, Zenon
<1>5. UNCHANGED <<people, messages, sweepVars, call, faults, joins, demoted, crossed, wrong, withdrawn>>
  BY DEF TimePasses, chat, history
<1> QED BY <1>1, <1>2, <1>3, <1>4, <1>5, InvitationEdited

(* An acceptance is over and its invitation goes (preValidateUserInvite).   *)
LEMMA CleanupStep ==
    ASSUME OrgInv, NEW s \in Slots, AcceptCleanup(s) PROVE OrgInv'
<1> USE DEF OrgInv
<1>0. PICK c \in OrgCalls : c = call[s]
  BY DEF OrgTypes
<1>1. c.op = "accepted" /\ c.id \in Users
  BY <1>0, NamesSomebody DEF AcceptCleanup
<1>2. /\ inv' = [i \in Invites |-> IF inv[i] # None /\ inv[i].linked /\ inv[i].email = c.id THEN None ELSE inv[i]]
      /\ call' = [call EXCEPT ![s] = Idle]
      /\ UNCHANGED <<people, messages, sweepVars, faults, joins, demoted, crossed, wrong, withdrawn>>
  BY <1>0 DEF AcceptCleanup, Finish, chat, history
<1>3. \A i \in Invites : inv'[i] = IF inv[i] # None /\ inv[i].linked /\ inv[i].email = c.id THEN None ELSE inv[i]
  BY <1>2
<1>4. \A t \in Slots : call[t] \in OrgCalls /\ call'[t] = IF t = s THEN Idle ELSE call[t]
  BY <1>2 DEF OrgTypes
<1>5. OrgTypes'
  BY <1>2, <1>3, <1>4, Vacant DEF OrgTypes, people, sweepVars
<1>6. Standing'
  BY <1>2, <1>3, <1>4 DEF Standing, NothingBefore, OwnerKnown, MembersKnown, LinkedAlive, OwnerRules, OwnerIsMember, people
<1>7. PromisesOK'
  BY <1>2, <1>4, Vacant DEF PromisesOK, PromiseOK, people
<1>8. Undisturbed' => Undisturbed /\ role[c.id] # "none"
  BY <1>0, <1>1, <1>2 DEF Undisturbed, people, AcceptsOK, Accepting, AcceptOK
<1>9. AcceptsOK'
  <2> SUFFICES ASSUME NEW t \in Slots, Undisturbed, role[c.id] # "none"
               PROVE  AcceptOK(call'[t], role, inv', joins, withdrawn)
    BY <1>2, <1>8 DEF AcceptsOK, AcceptOK, people
  <2>1. PICK d \in OrgCalls : d = call[t]
    BY <1>4
  <2>2. AcceptOK(d, role, inv, joins, withdrawn)
    BY <2>1 DEF AcceptsOK, Accepting
  <2>3. d.op = "accept" => d.invite \in Invites
    BY OrgKinds DEF AcceptCall
  <2>4. AcceptOK(d, role, inv', joins, withdrawn)
    BY <1>3, <2>2, <2>3 DEF AcceptOK
  <2> QED BY <1>4, <2>1, <2>4, Vacant DEF AcceptOK
<1>10. UsedGoes'
  <2> SUFFICES ASSUME Undisturbed, NEW i \in Invites \ withdrawn, joins[i] > 0, inv'[i] # None
               PROVE  \E t \in Slots : call'[t].op = "accepted" /\ call'[t].id = inv'[i].email
    BY <1>2, <1>8 DEF UsedGoes
  <2>1. inv'[i] = inv[i] /\ inv[i] # None /\ ~(inv[i].linked /\ inv[i].email = c.id)
    BY <1>3
  <2>2. inv[i].email # c.id
    BY <2>1 DEF UnlinkedWithdrawn, Accepting, Undisturbed
  <2>3. PICK t \in Slots : call[t].op = "accepted" /\ call[t].id = inv[i].email
    BY <2>1 DEF UsedGoes, Accepting
  <2> QED BY <1>0, <1>4, <2>1, <2>2, <2>3
<1>11. UnlinkedWithdrawn' /\ InvitationUsedOnce'
  BY <1>2, <1>3 DEF UnlinkedWithdrawn, InvitationUsedOnce, Accepting, people
<1>12. MailNamesOldRole' /\ SweepKept'
  BY <1>2, SweepStays DEF MailNamesOldRole, sweepVars
<1> QED BY <1>5, <1>6, <1>7, <1>9, <1>10, <1>11, <1>12 DEF Accepting

(* A person registers with an invitation and joins; the invitation goes in  *)
(* the same transaction (register, addUser).                                *)
LEMMA RegisterInvitedStep ==
    ASSUME OrgInv, NEW i \in Invites, RegisterInvited(i) PROVE OrgInv'
<1> USE DEF OrgInv
<1>1. PICK v \in Invitation : v = inv[i]
  BY DEF RegisterInvited, OrgTypes
<1> DEFINE u == v.email
<1>2. u \in Users /\ v.role \in Roles /\ v.role # "none" /\ v # None /\ v.linked
  BY <1>1, InvitationKinds DEF RegisterInvited, Roles
<1>3. /\ u \notin account /\ account' = account \cup {u} /\ role' = [role EXCEPT ![u] = v.role]
      /\ joins' = [joins EXCEPT ![i] = @ + 1] /\ inv' = [inv EXCEPT ![i] = None]
      /\ UNCHANGED <<org, owner, messages, sweepVars, call, faults, withdrawn, demoted, crossed, wrong>>
  BY <1>1 DEF RegisterInvited, Once, chat
<1> HIDE DEF u
<1>4. \A w \in Users : role'[w] = IF w = u THEN v.role ELSE role[w]
  BY <1>3 DEF OrgTypes
<1>5. \A j \in Invites : inv'[j] = IF j = i THEN None ELSE inv[j]
  BY <1>3 DEF OrgTypes
<1>6. joins' \in [Invites -> Nat] /\ \A j \in Invites : joins'[j] = IF j = i THEN joins[j] + 1 ELSE joins[j]
  BY <1>3 DEF OrgTypes
<1>7. OrgTypes'
  BY <1>2, <1>3, <1>6 DEF OrgTypes, sweepVars
<1>8. org = "alive" /\ role[u] = "none" /\ u # owner
  BY <1>1, <1>2, <1>3 DEF Standing, LinkedAlive, MembersKnown, OwnerIsMember
<1>9. Standing'
  BY <1>2, <1>3, <1>4, <1>5, <1>7, <1>8
     DEF Standing, NothingBefore, OwnerKnown, MembersKnown, LinkedAlive, OwnerRules, OwnerIsMember
<1>10. PromisesOK'
  <2> SUFFICES ASSUME NEW t \in Slots PROVE PromiseOK(call[t], role', account', crossed')
    BY <1>3 DEF PromisesOK, PromiseOK
  <2>1. call[t] \in OrgCalls /\ PromiseOK(call[t], role, account, crossed)
    BY <1>8 DEF PromisesOK, OrgTypes
  <2>2. call[t].op = "role" => call[t].id \in Users /\ call[t].id \in account
    BY <2>1, NamesSomebody DEF PromiseOK
  <2>3. PICK d \in OrgCalls : d = call[t]
    BY <2>1
  <2>4. d.op = "role" => role'[d.id] = role[d.id]
    BY <1>3, <1>4, <2>2, <2>3
  <2>5. PromiseOK(d, role', account \cup {u}, crossed)
    BY <2>1, <2>3, <2>4, PromiseStays
  <2> QED BY <1>3, <2>3, <2>5
<1>11. Undisturbed' => Undisturbed
  BY <1>3 DEF Undisturbed
<1>12. AcceptsOK'
  <2> SUFFICES ASSUME NEW t \in Slots, Undisturbed PROVE AcceptOK(call[t], role', inv', joins', withdrawn)
    BY <1>3, <1>11 DEF AcceptsOK, AcceptOK
  <2>1. PICK d \in OrgCalls : d = call[t]
    BY DEF OrgTypes
  <2>2. AcceptOK(d, role, inv, joins, withdrawn) /\ PromiseOK(d, role, account, crossed)
    BY <1>8, <2>1 DEF AcceptsOK, Accepting, PromisesOK
  <2>3. d.op \in {"accept", "accepted"} => d.id \in Users
    BY NamesSomebody
  <2>4. d.op = "accept" => d.invite \in Invites /\ d.id # u /\ d.invite # i
    BY <1>1, <1>3, <2>2, OrgKinds DEF AcceptCall, PromiseOK, AcceptOK, u
  <2>5. AcceptOK(d, role', inv', joins', withdrawn)
    BY <1>2, <1>4, <1>5, <1>6, <2>2, <2>3, <2>4 DEF AcceptOK
  <2> QED BY <2>1, <2>5
<1>13. UsedGoes'
  BY <1>3, <1>5, <1>6, <1>11 DEF UsedGoes, Accepting
<1>14. InvitationUsedOnce'
  <2> SUFFICES ASSUME NEW j \in Invites, ~(j \in withdrawn \/ faults > 0 \/ crossed # {}) PROVE joins'[j] <= 1
    BY <1>3 DEF InvitationUsedOnce
  <2>1. Undisturbed
    BY <1>8 DEF Undisturbed, OrgTypes
  <2>2. joins[j] \in Nat /\ joins[j] <= 1
    BY <2>1 DEF InvitationUsedOnce, Accepting, OrgTypes, Undisturbed
  <2>3. j = i => joins[j] = 0
    <3> SUFFICES ASSUME j = i, joins[i] > 0 PROVE FALSE
      BY <2>2
    <3>1. PICK t \in Slots : call[t].op = "accepted" /\ call[t].id = u
      BY <1>1, <1>2, <2>1 DEF UsedGoes, Accepting, u
    <3> QED BY <1>8, <2>1, <3>1 DEF AcceptsOK, Accepting, AcceptOK
  <2> QED BY <1>6, <2>2, <2>3
<1>15. UnlinkedWithdrawn'
  BY <1>3, <1>5 DEF UnlinkedWithdrawn, Accepting
<1>16. MailNamesOldRole' /\ SweepKept'
  BY <1>3, SweepStays DEF MailNamesOldRole, sweepVars
<1> QED BY <1>7, <1>9, <1>10, <1>12, <1>13, <1>14, <1>15, <1>16 DEF Accepting

(* The organisation is created with its owner as the administrator          *)
(* (createOrg).                                                             *)
LEMMA CreateStep ==
    ASSUME OrgInv, NEW a \in Users, CreateOrg(a) PROVE OrgInv'
<1> USE DEF OrgInv
<1>1. /\ org = "none" /\ org' = "alive" /\ owner' = a /\ role' = [role EXCEPT ![a] = "ADMIN"] /\ a \in account
      /\ UNCHANGED <<account, inv, messages, sweepVars, call, faults, joins, withdrawn, demoted, crossed, wrong>>
  BY DEF CreateOrg, chat, history
<1>2. \A u \in Users : role'[u] = IF u = a THEN "ADMIN" ELSE role[u]
  BY <1>1 DEF OrgTypes
<1>3. \A i \in Invites : inv[i] = None
  BY <1>1 DEF Standing, NothingBefore
<1>4. \A s \in Slots : call[s] = Idle
  BY <1>1 DEF Standing, NothingBefore
<1>5. OrgTypes'
  BY <1>1 DEF OrgTypes, Roles, sweepVars
<1>6. Standing'
  BY <1>1, <1>2, <1>3, <1>5 DEF Standing, NothingBefore, OwnerKnown, MembersKnown, LinkedAlive, OwnerRules, OwnerIsMember
<1>7. PromisesOK'
  BY <1>1, <1>4, Vacant DEF PromisesOK, PromiseOK
<1>8. AcceptsOK' /\ UsedGoes' /\ UnlinkedWithdrawn' /\ InvitationUsedOnce'
  BY <1>1, <1>3, <1>4, Vacant DEF AcceptsOK, AcceptOK, UsedGoes, UnlinkedWithdrawn, InvitationUsedOnce, Accepting
<1>9. MailNamesOldRole' /\ SweepKept'
  BY <1>1, SweepStays DEF MailNamesOldRole, sweepVars
<1> QED BY <1>5, <1>6, <1>7, <1>8, <1>9 DEF Accepting

(* The organisation goes with memberships and invitations (deleteOrg).      *)
LEMMA DeleteStep ==
    ASSUME OrgInv, NEW s \in Slots, DeleteOrgCommit(s) PROVE OrgInv'
<1> USE DEF OrgInv
<1>1. CASE Refused(s)
  BY <1>1, RefusedStep DEF DeleteOrgCommit
<1>2. CASE ~Refused(s)
  <2>1. /\ org' = "gone" /\ role' = [u \in Users |-> "none"] /\ messages' = 0 /\ rows' = {} /\ call' = [call EXCEPT ![s] = Idle]
        /\ UNCHANGED <<owner, account, sweep, present, lost, faults, joins, withdrawn, demoted, crossed, wrong>>
    BY <1>2 DEF DeleteOrgCommit, Finish, history
  <2>2. inv' = [i \in Invites |-> IF inv[i] = None THEN None ELSE [inv[i] EXCEPT !.linked = FALSE]]
    BY <1>2, Zenon DEF DeleteOrgCommit
  <2>3. \A i \in Invites : inv'[i] \in Invitation \cup {None} /\ (inv'[i] # None => ~inv'[i].linked)
    <3> SUFFICES ASSUME NEW i \in Invites PROVE inv'[i] \in Invitation \cup {None} /\ (inv'[i] # None => ~inv'[i].linked)
      OBVIOUS
    <3>1. CASE inv[i] = None
      BY <2>2, <3>1, Zenon
    <3>2. CASE inv[i] # None
      <4>1. PICK v \in Invitation : v = inv[i]
        BY <3>2 DEF OrgTypes
      <4>2. inv'[i] = [v EXCEPT !.linked = FALSE]
        BY <2>2, <3>2, <4>1, Zenon
      <4> QED BY <4>2, InvitationKinds, Zenon
    <3> QED BY <3>1, <3>2
  <2>4. inv' \in [Invites -> Invitation \cup {None}]
    <3>1. inv' = [i \in Invites |-> inv'[i]]
      BY <2>2, Zenon
    <3> QED BY <2>3, <3>1
  <2>5. OrgTypes'
    BY <2>1, <2>4, Vacant DEF OrgTypes
  <2>6. Standing'
    BY <2>1, <2>3 DEF Standing, NothingBefore, OwnerKnown, MembersKnown, LinkedAlive, OwnerRules, OwnerIsMember
  <2>7. PromisesOK'
    BY <2>1 DEF PromisesOK
  <2>8. AcceptsOK' /\ UsedGoes' /\ UnlinkedWithdrawn' /\ InvitationUsedOnce'
    BY <2>1 DEF AcceptsOK, UsedGoes, UnlinkedWithdrawn, InvitationUsedOnce, Accepting, Undisturbed
  <2>9. MailNamesOldRole' /\ SweepKept'
    BY <2>1, SweepStays DEF MailNamesOldRole
  <2> QED BY <2>5, <2>6, <2>7, <2>8, <2>9 DEF Accepting
<1> QED BY <1>1, <1>2

(* The process ends: requests under way are lost, the rows stay.            *)
LEMMA CrashStep ==
    ASSUME OrgInv, Crash PROVE OrgInv'
<1> USE DEF OrgInv
<1>1. /\ faults' = faults + 1 /\ call' = [s \in Slots |-> Idle] /\ sweep' = NoSweep
      /\ UNCHANGED <<people, inv, messages, rows, present, lost, joins, withdrawn, demoted, crossed, wrong>>
  BY DEF Crash, chat, history
<1>2. faults' \in Nat /\ faults' # 0 /\ faults' > 0
  BY <1>1 DEF OrgTypes
<1>3. OrgTypes'
  BY <1>1, <1>2, Vacant DEF OrgTypes, people, NoSweep, SweepTypes
<1>4. Standing'
  BY <1>1 DEF Standing, NothingBefore, OwnerKnown, MembersKnown, LinkedAlive, OwnerRules, OwnerIsMember, people
<1>5. PromisesOK'
  BY <1>1, Vacant DEF PromisesOK, PromiseOK
<1>6. AcceptsOK' /\ UsedGoes' /\ UnlinkedWithdrawn' /\ InvitationUsedOnce'
  BY <1>1, <1>2 DEF AcceptsOK, UsedGoes, UnlinkedWithdrawn, InvitationUsedOnce, Accepting, Undisturbed, people
<1>7. MailNamesOldRole' /\ SweepKept'
  BY <1>1, NoneIsNobody DEF MailNamesOldRole, SweepKept, SweepOK, SweepSparesPresent, NoSweep
<1> QED BY <1>3, <1>4, <1>5, <1>6, <1>7 DEF Accepting

(* A mark on the notifications is stored (the timestamps of the chat,       *)
(* markAsRead).                                                             *)
LEMMA MarkStep ==
    ASSUME OrgInv, NEW s \in Slots, StoreMark(s) PROVE OrgInv'
<1>1. call[s].op # "accepted"
  BY DEF StoreMark
<1>2. CASE Refused(s)
  BY <1>1, <1>2, RefusedStep
<1>3. CASE ~Refused(s)
  <2>1. PromiseOK(Idle, role, account, crossed) /\ AcceptOK(Idle, role, inv, joins, withdrawn)
    BY Vacant DEF PromiseOK, AcceptOK
  <2>2. /\ call' = [call EXCEPT ![s] = Idle] /\ crossed \subseteq crossed' /\ messages' \in Nat
        /\ UNCHANGED <<people, inv, sweepVars, faults, joins, withdrawn, demoted, wrong>>
    BY <1>3 DEF StoreMark, Finish, Cross, sweepVars, OrgInv, OrgTypes
  <2> QED BY <1>1, <2>1, <2>2, Vacant, CallStep
<1> QED BY <1>2, <1>3

(* Reading, settings, the webhook, the sweep of unknown members and what    *)
(* nodes do leave organisation, memberships and invitations alone.          *)
LEMMA StillSteps ==
    ASSUME OrgInv,
           \/ \E a \in Users :
                \/ GetOrgById(a)
                \/ \E m, e \in BOOLEAN : UpdateNotificationSettings(a, m, e)
                \/ \E h \in {"none", "off", "on"} : SetWebhook(a, h)
           \/ Sweep
           \/ \E n \in Nodes : NodeJoins(n) \/ NodeDeleted(n)
    PROVE  OrgInv'
<1> USE DEF OrgInv
<1> DEFINE Unmoved == UNCHANGED <<people, inv, messages, call, faults, joins, withdrawn, demoted, wrong>>
<1>1. ASSUME NEW a \in Users, GetOrgById(a) PROVE OrgInv'
  <2>1. Unmoved /\ UNCHANGED <<rows, present, lost, crossed>>
    BY <1>1 DEF GetOrgById, Once, chat, history
  <2>2. sweep' \in SweepTypes /\ sweep'.gone \in {sweep.gone, None}
    BY <1>1 DEF GetOrgById, SweepTypes, OrgTypes, SweepKept
  <2>3. SweepKept'
    BY <2>1, <2>2, NoneIsNobody DEF SweepKept, SweepOK, SweepSparesPresent
  <2> HIDE DEF OrgInv
  <2> QED BY <2>1, <2>2, <2>3, StillStep
<1>2. ASSUME UNCHANGED <<people, inv, messages, call, faults, sweepVars, history>> PROVE OrgInv'
  <2>1. Unmoved /\ UNCHANGED <<sweep, rows, present, lost, crossed>>
    BY <1>2 DEF sweepVars, history
  <2>2. SweepKept' /\ sweep' \in SweepTypes
    BY <2>1, SweepStays DEF OrgTypes
  <2> HIDE DEF OrgInv
  <2> QED BY <2>1, <2>2, StillStep
<1>3. ASSUME SweepDelete PROVE OrgInv'
  <2>1. /\ Unmoved /\ UNCHANGED <<present, crossed>> /\ rows' \subseteq rows
        /\ lost' = IF sweep.gone \in present \cap rows THEN lost \cup {sweep.gone} ELSE lost
    BY <1>3 DEF SweepDelete, chat, history
  <2>2. sweep' \in SweepTypes /\ sweep'.gone = None
    BY <1>3 DEF SweepDelete, SweepTypes, OrgTypes
  <2>3. SweepKept'
    BY <2>1, <2>2, NoneIsNobody DEF SweepKept, SweepOK, SweepSparesPresent
  <2> HIDE DEF OrgInv
  <2> QED BY <2>1, <2>2, <2>3, StillStep
<1>4. ASSUME SweepEnd PROVE OrgInv'
  <2>1. Unmoved /\ UNCHANGED <<rows, present, lost, crossed>>
    BY <1>4 DEF SweepEnd, chat, history
  <2>2. sweep' \in SweepTypes /\ sweep'.gone = None
    BY <1>4 DEF SweepEnd, SweepTypes, NoSweep
  <2>3. SweepKept'
    BY <2>1, <2>2, NoneIsNobody DEF SweepKept, SweepOK, SweepSparesPresent
  <2> HIDE DEF OrgInv
  <2> QED BY <2>1, <2>2, <2>3, StillStep
<1>5. ASSUME NEW n \in Nodes, SweepAsk(n) PROVE OrgInv'
  <2>1. Unmoved /\ UNCHANGED <<rows, present, lost, crossed>>
    BY <1>5 DEF SweepAsk, chat, history
  <2>2. sweep' = [on |-> sweep.on, todo |-> sweep.todo \ {n}, gone |-> IF n \in present THEN None ELSE n]
    <3>1. sweep = [on |-> sweep.on, todo |-> sweep.todo, gone |-> sweep.gone]
      BY DEF OrgTypes, SweepTypes
    <3> QED BY <1>5, <3>1 DEF SweepAsk
  <2>3. sweep' \in SweepTypes
    BY <2>2 DEF OrgTypes, SweepTypes
  <2>4. SweepKept'
    BY <2>1, <2>2, NoneIsNobody DEF SweepKept, SweepOK, SweepSparesPresent
  <2> HIDE DEF OrgInv
  <2> QED BY <2>1, <2>3, <2>4, StillStep
<1>6. ASSUME NEW n \in Nodes, NodeJoins(n) PROVE OrgInv'
  <2>1. /\ Unmoved /\ UNCHANGED <<sweep, lost>> /\ present' = present \cup {n} /\ rows' = rows \cup {n}
        /\ crossed' = IF sweep.gone = n THEN crossed \cup {n} ELSE crossed
    BY <1>6 DEF NodeJoins, Once, chat
  <2>2. SweepKept' /\ sweep' \in SweepTypes /\ crossed \subseteq crossed'
    BY <2>1 DEF SweepKept, SweepOK, SweepSparesPresent, OrgTypes
  <2> HIDE DEF OrgInv
  <2> QED BY <2>1, <2>2, StillStep
<1>7. ASSUME NEW n \in Nodes, NodeDeleted(n) PROVE OrgInv'
  <2>1. Unmoved /\ UNCHANGED <<sweep, rows, lost, crossed>> /\ present' = present \ {n}
    BY <1>7 DEF NodeDeleted, Once, chat, history
  <2>2. SweepKept' /\ sweep' \in SweepTypes
    BY <2>1 DEF SweepKept, SweepOK, SweepSparesPresent, OrgTypes
  <2> HIDE DEF OrgInv
  <2> QED BY <2>1, <2>2, StillStep
<1>8. ASSUME NEW a \in Users, NEW m, NEW e, UpdateNotificationSettings(a, m, e) PROVE OrgInv'
  BY <1>2, <1>8 DEF UpdateNotificationSettings, Once, chat
<1>9. ASSUME NEW a \in Users, NEW h, SetWebhook(a, h) PROVE OrgInv'
  BY <1>2, <1>9 DEF SetWebhook, Once, chat
<1> HIDE DEF OrgInv
<1> QED BY <1>1, <1>3, <1>4, <1>5, <1>6, <1>7, <1>8, <1>9 DEF Sweep

----------------------------------------------------------------------------
(* The theorems                                                             *)

(* There is no organisation at first, and the invariant holds.              *)
LEMMA OrgInit == ASSUME Init PROVE OrgInv
<1> USE DEF Init
<1>1. OrgTypes
  BY Vacant DEF OrgTypes, NoSweep, SweepTypes
<1>2. Standing
  BY DEF Standing, NothingBefore, OwnerKnown, MembersKnown, LinkedAlive, OwnerRules, OwnerIsMember
<1>3. PromisesOK
  BY DEF PromisesOK
<1>4. AcceptsOK /\ UsedGoes /\ UnlinkedWithdrawn /\ InvitationUsedOnce
  BY DEF AcceptsOK, UsedGoes, UnlinkedWithdrawn, InvitationUsedOnce, Undisturbed
<1>5. MailNamesOldRole /\ SweepKept
  BY NoneIsNobody DEF MailNamesOldRole, SweepKept, SweepOK, SweepSparesPresent, NoSweep
<1> QED BY <1>1, <1>2, <1>3, <1>4, <1>5 DEF OrgInv, Accepting

(* Every step keeps the invariant of the organisation.                      *)
LEMMA OrgStep == ASSUME OrgInv, [Next]_vars PROVE OrgInv'
<1>1. ASSUME NEW s \in Slots, Proceed(s) PROVE OrgInv'
  BY <1>1, DeleteStep, AddUserStep, LeaveStep, ChangeUserRoleStep, InviteStep, AcceptStep, CleanupStep, MarkStep DEF Proceed
<1>2. CASE AtOnce
  <2>1. ASSUME NEW a \in Users, NEW i \in Invites, ResendInvite(a, i) \/ DeleteInvite(a, i) PROVE OrgInv'
    BY <2>1, ResendStep, DeleteInviteStep
  <2>2. ASSUME NEW a \in Users, CreateOrg(a) PROVE OrgInv'
    BY <2>2, CreateStep
  <2>3. ASSUME NEW i \in Invites, RegisterInvited(i) PROVE OrgInv'
    BY <2>3, RegisterInvitedStep
  <2> QED BY <1>2, <2>1, <2>2, <2>3, StillSteps DEF AtOnce
<1>3. CASE UNCHANGED vars
  <2>1. UNCHANGED <<people, inv, messages, call, faults, joins, withdrawn, demoted, wrong, sweep, rows, present, lost, crossed>>
    BY <1>3 DEF vars, chat, sweepVars, history
  <2>2. SweepKept' /\ sweep' \in SweepTypes
    BY <2>1, SweepStays DEF OrgInv, OrgTypes
  <2> QED BY <2>1, <2>2, StillStep
<1> QED BY <1>1, <1>2, <1>3, BeginSteps, StillSteps, CrashStep, TimeStep DEF Next

(* The inductive invariant of the organisation: the owner is a member for   *)
(* as long as it lives, a request that is not crossed finds the membership  *)
(* it read, and an invitation that somebody accepts is there, unused        *)
(* (organizationRouter.ts).                                                 *)
THEOREM OrganizationsKeep == Spec => []OrgInv
<1>1. Init => OrgInv
  BY OrgInit
<1>2. OrgInv /\ [Next]_vars => OrgInv'
  BY OrgStep
<1> QED BY <1>1, <1>2, PTL DEF Spec

(* The organisation keeps its owner as a member and, until another          *)
(* administrator demotes the owner, an administrator; an invitation is used *)
(* once; for any number of people, invitations and requests                 *)
(* (organizationRouter.ts, createOrg to leave; register).                   *)
THEOREM MembershipAlwaysHolds == Spec => []MembershipHolds
<1>1. OrgInv => MembershipHolds
  <2> SUFFICES ASSUME OrgInv PROVE MembershipHolds
    OBVIOUS
  <2>1. AdministratorRemains
    BY DEF OrgInv, Standing, OwnerRules, OwnerKnown, AdministratorRemains, Admins
  <2> QED BY <2>1 DEF OrgInv, Standing, Accepting, MembershipHolds
<1> QED BY <1>1, OrganizationsKeep, PTL

(* A mail that names the wrong old role, and a member that a sweep deletes  *)
(* though it is back, need another request in between (changeUserRole; the  *)
(* sweep of unknown members).                                               *)
THEOREM StaleReadsAlwaysExcused == Spec => []StaleReadsExcused
<1>1. OrgInv => StaleReadsExcused
  BY DEF OrgInv, SweepKept, StaleReadsExcused
<1> QED BY <1>1, OrganizationsKeep, PTL

----------------------------------------------------------------------------
(* The networks: the inductive invariant                                    *)

(* What a slot holds.                                                       *)
NetCreate == [op : {"create"}, by : NetUsers, org : BOOLEAN, net : Nets \cup {NoNet}]
NetDelete == [op : {"delete"}, by : NetUsers, net : Nets, override : BOOLEAN, org : BOOLEAN,
              stage : {"deauthorise", "drop", "erase"}, todo : SUBSET Nets, last : BOOLEAN]
NetDeleteOrg == [op : {"deleteOrg"}, net : {NoNet}]
NetEdit == [op : {"edit"}, by : NetUsers, net : Nets, field : {"name", "rules", "setting"}, value : Nat, posted : BOOLEAN]
NetIpv6 == [op : {"ipv6"}, by : NetUsers, net : Nets, mode : Modes, on : BOOLEAN, read : (SUBSET Modes) \cup {NoNet}]
NetAssign == [op : {"assign"}, by : NetUsers, net : Nets, name : Nat]
NetRequests == {NetIdle} \cup NetCreate \cup NetDelete \cup NetDeleteOrg \cup NetEdit \cup NetIpv6 \cup NetAssign

Works(c, n) == c.net = n \/ (c.op = "delete" /\ n \in c.todo)

NetTypes ==
    /\ ctrl \in [Nets -> ControllerNetworks \cup {NoNet}] /\ row \in [Nets -> NetworkRows \cup {NoNet}]
    /\ netCall \in [NetSlots -> NetRequests]
    /\ drawn \subseteq Nets /\ netCalls \in Nat /\ wanted \in [Nets -> SUBSET Modes]
    /\ stray \subseteq Nets /\ netCrossed \subseteq Nets

(* An id that was not drawn is nobody's and nothing's.                      *)
Undrawn == \A n \in Nets \ drawn : /\ ctrl[n] = NoNet /\ row[n] = NoNet /\ wanted[n] = {}
                                   /\ \A s \in NetSlots : ~Works(netCall[s], n)
OneOwner == \A n \in Nets : Exists(n) => (row[n].author \in NetUsers) # row[n].org

(* What a request relies on about the networks it works on, until somebody  *)
(* else changes one of them or a request fails.                             *)
Mine(c, r) == (c.org /\ r.org) \/ (~c.org /\ (c.override \/ r.author = c.by))
Agree(x, r) == x.name = r.name /\ x.rules = r.rules
HalfStored(c, x, r) == IF c.field = "name" THEN x.name = c.value /\ x.rules = r.rules
                       ELSE c.field = "rules" /\ x.rules = c.value /\ x.name = r.name
NetPromise(c, x, r, k, z) ==    \* x controller, r rows, k crossed, z crossed or stray
    /\ c.op = "create" /\ c.net # NoNet /\ c.net \notin z =>
          x[c.net] # NoNet /\ r[c.net] = NoNet /\ x[c.net].name = 0 /\ x[c.net].rules = 0
    /\ c.op = "delete" =>
          /\ c.todo # {} => c.org
          /\ \A n \in Nets : Works(c, n) /\ n \notin z /\ r[n] # NoNet => Mine(c, r[n])
          /\ c.stage = "erase" /\ c.net \notin z => x[c.net] = NoNet
          /\ c.stage = "drop" /\ c.net \notin k /\ x[c.net] # NoNet => ~x[c.net].auth
    /\ c.op = "edit" /\ c.posted => c.field # "setting"
    /\ c.op = "edit" /\ c.posted /\ c.net \notin z /\ x[c.net] # NoNet /\ r[c.net] # NoNet => HalfStored(c, x[c.net], r[c.net])
    /\ c.op = "ipv6" /\ c.read # NoNet /\ c.net \notin z /\ x[c.net] # NoNet => c.read = x[c.net].v6
NetPromises == \A s \in NetSlots : NetPromise(netCall[s], ctrl, row, netCrossed, Excused)

(* A difference between the two stores is the work of a request under way.  *)
Making(c, n) == c.op = "create" /\ c.net = n
Erasing(c, n) == c.op = "delete" /\ c.stage = "erase" /\ c.net = n
Storing(c, n) == c.op = "edit" /\ c.posted /\ c.net = n
NetOK(n) ==
    /\ OnController(n) /\ ~Exists(n) => \E s \in NetSlots : Making(netCall[s], n)
    /\ Exists(n) /\ ~OnController(n) => \E s \in NetSlots : Erasing(netCall[s], n)
    /\ Exists(n) /\ OnController(n) => Agree(ctrl[n], row[n]) \/ \E s \in NetSlots : Storing(netCall[s], n)
    /\ OnController(n) => ctrl[n].v6 = wanted[n]
    /\ (\E s \in NetSlots : netCall[s].op = "assign" /\ netCall[s].net = n) => \E s \in NetSlots : Making(netCall[s], n)
NetsOK == \A n \in Nets \ Excused : NetOK(n)

(* Whoever may create another network is below the limit, unless two        *)
(* creations overlapped.                                                    *)
Creates(c, u) == c.op = "create" /\ c.by = u /\ ~c.org
LimitOK == \A u \in NetUsers \ {Admin} : u \notin raced =>
    /\ Cardinality(Authored(u)) <= Limit
    /\ \A s \in NetSlots : Creates(netCall[s], u) => Cardinality(Authored(u)) < Limit

NetInv == NetTypes /\ Undrawn /\ OneOwner /\ NetPromises /\ NetsOK /\ LimitOK

----------------------------------------------------------------------------
(* Networks, rows and requests                                              *)

(* What is in a slot has the fields of its procedure.                       *)
LEMMA NetKinds ==
    ASSUME NEW c \in NetRequests
    PROVE  /\ c.op = "create" => c \in NetCreate
           /\ c.op = "delete" => c \in NetDelete
           /\ c.op = "deleteOrg" => c \in NetDeleteOrg
           /\ c.op = "edit" => c \in NetEdit
           /\ c.op = "ipv6" => c \in NetIpv6
           /\ c.op = "assign" => c \in NetAssign
           /\ c.net \in Nets \cup {NoNet}
           /\ c.op \in {"delete", "edit", "ipv6", "assign"} => c.net \in Nets
           /\ c.op = "delete" => c.todo \subseteq Nets
BY DEF NetRequests, NetCreate, NetDelete, NetDeleteOrg, NetEdit, NetIpv6, NetAssign, NetIdle

(* An empty slot works on nothing.                                          *)
LEMMA NetVacant ==
    /\ NetIdle \in NetRequests /\ NetIdle.op = "idle" /\ NetIdle.net = NoNet
    /\ \A x, r, k, z : NetPromise(NetIdle, x, r, k, z)
    /\ \A n \in Nets : ~Works(NetIdle, n)
BY NoNetIsNothing DEF NetRequests, NetIdle, NetPromise, Works

(* A network that the controller has just made has neither name, rules nor  *)
(* IPv6 modes (network_create).                                             *)
LEMMA FreshNetwork ==
    Fresh \in ControllerNetworks /\ Fresh.name = 0 /\ Fresh.rules = 0 /\ Fresh.v6 = {}
BY DEF Fresh, ControllerNetworks

(* The fields of a network on the controller have their types, and          *)
(* authorising its members leaves the rest of it alone.                     *)
LEMMA NetworkKinds ==
    ASSUME NEW x \in ControllerNetworks
    PROVE  /\ x # NoNet /\ x.v6 \in SUBSET Modes /\ x.auth \in BOOLEAN /\ x.name \in Nat /\ x.rules \in Nat
           /\ \A b \in BOOLEAN : LET w == [x EXCEPT !.auth = b] IN
                 w \in ControllerNetworks /\ w.auth = b /\ w.name = x.name /\ w.rules = x.rules /\ w.v6 = x.v6
BY NoNetIsNothing DEF ControllerNetworks

(* Authorising its members, or the opposite, leaves the rest of a network   *)
(* alone.                                                                   *)
LEMMA NetworkAuthorised ==
    ASSUME NEW x \in ControllerNetworks, NEW b \in BOOLEAN
    PROVE  LET w == [x EXCEPT !.auth = b] IN
           w \in ControllerNetworks /\ w.auth = b /\ w.name = x.name /\ w.rules = x.rules /\ w.v6 = x.v6
BY DEF ControllerNetworks

(* Storing IPv6 modes leaves the rest of a network alone (ipv6).            *)
LEMMA NetworkModes ==
    ASSUME NEW x \in ControllerNetworks, NEW m \in SUBSET Modes
    PROVE  LET w == [x EXCEPT !.v6 = m] IN
           w \in ControllerNetworks /\ w.auth = x.auth /\ w.name = x.name /\ w.rules = x.rules /\ w.v6 = m
BY DEF ControllerNetworks

(* Storing one field of a network leaves the other ones alone               *)
(* (network_update).                                                        *)
LEMMA NetworkField ==
    ASSUME NEW x \in ControllerNetworks, NEW f \in {"name", "rules", "setting"}, NEW v \in Nat
    PROVE  LET w == [x EXCEPT ![f] = v] IN
           /\ w \in ControllerNetworks /\ w.v6 = x.v6
           /\ w.name = IF f = "name" THEN v ELSE x.name
           /\ w.rules = IF f = "rules" THEN v ELSE x.rules
BY DEF ControllerNetworks

(* Storing name or rules of a row leaves owner and the other field alone.   *)
LEMMA RowField ==
    ASSUME NEW r \in NetworkRows, NEW f \in {"name", "rules"}, NEW v \in Nat
    PROVE  LET w == [r EXCEPT ![f] = v] IN
           /\ w \in NetworkRows /\ w.author = r.author /\ w.org = r.org
           /\ w.name = IF f = "name" THEN v ELSE r.name
           /\ w.rules = IF f = "rules" THEN v ELSE r.rules
BY DEF NetworkRows

(* The fields of a row have their types.                                    *)
LEMMA RowKept ==
    ASSUME NEW r \in NetworkRows
    PROVE  r # NoNet /\ r.author \in NetUsers \cup {NoNet} /\ r.org \in BOOLEAN /\ r.name \in Nat /\ r.rules \in Nat
BY NoNetIsNothing DEF NetworkRows

TransferredRow(r) == [r EXCEPT !.author = NoNet, !.org = TRUE]

(* A transfer changes the owner of a row only (transferNetworkOwnership).   *)
LEMMA RowTransferred ==
    ASSUME NEW r \in NetworkRows
    PROVE  LET w == TransferredRow(r) IN
           w \in NetworkRows /\ w.author = NoNet /\ w.org /\ w.name = r.name /\ w.rules = r.rules
BY DEF NetworkRows, TransferredRow

(* A creation goes on with the id that the controller drew.                 *)
LEMMA RequestDrawn ==
    ASSUME NEW c \in NetCreate, NEW n \in Nets
    PROVE  LET d == [c EXCEPT !.net = n] IN
           d \in NetRequests /\ d.op = "create" /\ d.net = n /\ d.by = c.by /\ d.org = c.org
BY DEF NetRequests, NetCreate

(* A change goes on once the controller has it.                             *)
LEMMA RequestPosted ==
    ASSUME NEW c \in NetEdit
    PROVE  LET d == [c EXCEPT !.posted = TRUE] IN
           d \in NetRequests /\ d.op = "edit" /\ d.net = c.net /\ d.posted /\ d.field = c.field /\ d.value = c.value
BY DEF NetRequests, NetEdit

(* A change of the IPv6 modes goes on with the modes it read.               *)
LEMMA RequestRead ==
    ASSUME NEW c \in NetIpv6, NEW m \in SUBSET Modes
    PROVE  LET d == [c EXCEPT !.read = m] IN
           d \in NetRequests /\ d.op = "ipv6" /\ d.net = c.net /\ d.read = m
BY DEF NetRequests, NetIpv6

(* A deletion goes on from the members to the network, and to the row.      *)
LEMMA RequestStaged ==
    ASSUME NEW c \in NetDelete, NEW g \in {"drop", "erase"}
    PROVE  LET d == [c EXCEPT !.stage = g] IN
           /\ d \in NetRequests /\ d.op = "delete" /\ d.net = c.net /\ d.stage = g /\ d.todo = c.todo
           /\ d.org = c.org /\ d.override = c.override /\ d.by = c.by
BY DEF NetRequests, NetDelete

NextOf(c, n) == [c EXCEPT !.net = n, !.todo = c.todo \ {n}, !.stage = "deauthorise"]

(* The deletion of an organisation goes on to its next network (deleteOrg). *)
LEMMA RequestMoved ==
    ASSUME NEW c \in NetDelete, NEW n \in c.todo
    PROVE  LET d == NextOf(c, n) IN
           /\ d \in NetRequests /\ d.op = "delete" /\ d.net = n /\ d.stage = "deauthorise" /\ d.todo = c.todo \ {n}
           /\ d.org = c.org /\ d.override = c.override /\ d.by = c.by
BY DEF NetRequests, NetDelete, NextOf

(* The deletion of an organisation is the deletion of a network that goes   *)
(* on after it (deleteOrg).                                                 *)
LEMMA DeletionLast ==
    \A c \in NetDelete : LET e == [c EXCEPT !.last = TRUE] IN
        /\ e \in NetDelete /\ e.last = TRUE /\ e.op = c.op /\ e.by = c.by /\ e.net = c.net
        /\ e.override = c.override /\ e.org = c.org /\ e.stage = c.stage /\ e.todo = c.todo
BY DEF NetDelete

(* What a request relies on survives a step that changes none of its        *)
(* networks, or marks them as crossed.                                      *)
LEMMA NetPromiseStays ==
    ASSUME NEW c \in NetRequests, NEW x, NEW r, NEW k, NEW z, NEW x2, NEW r2, NEW k2, NEW z2,
           NetPromise(c, x, r, k, z), k \subseteq k2, z \subseteq z2, k2 \subseteq z2,
           \A n \in Nets : Works(c, n) => n \in k2 \/ (x2[n] = x[n] /\ r2[n] = r[n])
    PROVE  NetPromise(c, x2, r2, k2, z2)
<1>1. c.net \in Nets => Works(c, c.net)
  BY DEF Works
<1>2. c.op = "create" /\ c.net # NoNet => c.net \in Nets
  BY NetKinds
<1>3. c.op \in {"delete", "edit", "ipv6"} => c.net \in Nets
  BY NetKinds
<1> QED BY <1>1, <1>2, <1>3 DEF NetPromise

(* Being at work on a network, told from the slot and from what it holds.   *)
LEMMA WorksIs == \A s \in NetSlots, n \in Nets : WorksOn(s, n) <=> Works(netCall[s], n)
BY DEF WorksOn, Works

----------------------------------------------------------------------------
(* Steps by what they change                                                *)

(* The networks of a user can be counted.                                   *)
LEMMA AuthoredFinite ==
    ASSUME NEW u PROVE IsFiniteSet(Authored(u)) /\ Cardinality(Authored(u)) \in Nat
<1>1. Authored(u) \subseteq Nets
  BY DEF Authored
<1> QED BY <1>1, NetsFinite, FS_Subset, FS_CardinalityType

(* Fewer networks are a smaller count.                                      *)
LEMMA AuthoredGoes ==
    ASSUME NEW u, Authored(u)' \subseteq Authored(u)
    PROVE  Cardinality(Authored(u)') <= Cardinality(Authored(u)) /\ Cardinality(Authored(u)') \in Nat
<1>1. IsFiniteSet(Authored(u)) /\ Cardinality(Authored(u)) \in Nat
  BY AuthoredFinite
<1>2. IsFiniteSet(Authored(u)') /\ Cardinality(Authored(u)') <= Cardinality(Authored(u))
  BY <1>1, FS_Subset
<1> QED BY <1>2, FS_CardinalityType

(* The limit survives a step by which nobody gains a network and only those *)
(* below it begin to create one (networkProvisioningFactory).               *)
LEMMA LimitStays ==
    ASSUME LimitOK, raced \subseteq raced',
           \A u \in NetUsers \ {Admin} : Authored(u)' \subseteq Authored(u),
           \A u \in NetUsers \ {Admin} : \A s \in NetSlots :
               Creates(netCall'[s], u) => Creates(netCall[s], u) \/ Cardinality(Authored(u)) < Limit
    PROVE  LimitOK'
<1> SUFFICES ASSUME NEW u \in NetUsers \ {Admin}, u \notin raced'
             PROVE  /\ Cardinality(Authored(u)') <= Limit
                    /\ \A s \in NetSlots : Creates(netCall'[s], u) => Cardinality(Authored(u)') < Limit
  BY DEF LimitOK, Creates
<1>1. Cardinality(Authored(u)') <= Cardinality(Authored(u)) /\ Cardinality(Authored(u)') \in Nat
  BY AuthoredGoes
<1>2. Cardinality(Authored(u)) \in Nat
  BY AuthoredFinite
<1> QED BY <1>1, <1>2, NetBoundsNat DEF LimitOK

(* A request enters a slot, goes on in it or is over, and no network        *)
(* changes.                                                                 *)
LEMMA NetCallStep ==
    ASSUME NetInv, NEW s \in NetSlots, NEW d \in NetRequests, netCall' = [netCall EXCEPT ![s] = d],
           UNCHANGED <<data, netHistory>>, netCalls' \in Nat,
           NetPromise(d, ctrl, row, netCrossed, Excused),
           \A n \in Nets : Works(d, n) => n \in drawn,
           \A n \in Nets : ~Making(netCall[s], n) /\ ~Erasing(netCall[s], n),
           \A n \in Nets : Storing(netCall[s], n) => row[n] = NoNet,
           d.op = "assign" /\ d.net \notin Excused => \E t \in NetSlots : Making(netCall[t], d.net),
           \A u \in NetUsers \ {Admin} : Creates(d, u) => Cardinality(Authored(u)) < Limit
    PROVE  NetInv'
<1> USE DEF NetInv
<1>1. NetTypes' /\ \A t \in NetSlots : netCall'[t] = IF t = s THEN d ELSE netCall[t]
  BY DEF NetTypes, data, netHistory
<1>2. UNCHANGED <<ctrl, row, drawn, stray, netCrossed, wanted, raced>> /\ Excused' = Excused
  BY DEF data, netHistory, Excused
<1>3. Undrawn'
  BY <1>1, <1>2 DEF Undrawn
<1>4. OneOwner'
  BY <1>2 DEF OneOwner, Exists
<1>5. NetPromises'
  BY <1>1, <1>2 DEF NetPromises
<1>6. NetsOK'
  <2> SUFFICES ASSUME NEW n \in Nets \ Excused PROVE NetOK(n)'
    BY <1>2 DEF NetsOK
  <2>1. NetOK(n)
    BY DEF NetsOK
  <2>2. \A t \in NetSlots : Making(netCall[t], n) => Making(netCall'[t], n)
    BY <1>1
  <2>3. \A t \in NetSlots : Erasing(netCall[t], n) => Erasing(netCall'[t], n)
    BY <1>1
  <2>4. \A t \in NetSlots : Storing(netCall[t], n) /\ row[n] # NoNet => Storing(netCall'[t], n)
    BY <1>1
  <2>5. (\E t \in NetSlots : netCall'[t].op = "assign" /\ netCall'[t].net = n) => \E t \in NetSlots : Making(netCall[t], n)
    BY <1>1, <2>1 DEF NetOK
  <2> QED BY <1>2, <2>1, <2>2, <2>3, <2>4, <2>5 DEF NetOK, Exists, OnController
<1>7. LimitOK'
  <2>1. \A u : Authored(u)' = Authored(u)
    BY <1>2 DEF Authored, Exists
  <2> QED BY <1>1, <1>2, <2>1, LimitStays
<1> QED BY <1>1, <1>3, <1>4, <1>5, <1>6, <1>7

(* A request that is turned down leaves everything as it is.                *)
LEMMA NetRefusedStep ==
    ASSUME NetInv, NEW s \in NetSlots, NetRefused(s),
           \A n \in Nets : ~Making(netCall[s], n) /\ ~Erasing(netCall[s], n),
           \A n \in Nets : Storing(netCall[s], n) => row[n] = NoNet
    PROVE  NetInv'
<1>1. netCall' = [netCall EXCEPT ![s] = NetIdle] /\ UNCHANGED <<data, netHistory>> /\ netCalls' \in Nat
  BY DEF NetRefused, Go, NetInv, NetTypes
<1>2. \A u : ~Creates(NetIdle, u)
  BY NetVacant DEF Creates
<1>3. NetIdle.op # "assign"
  BY NetVacant
<1> QED BY <1>1, <1>2, <1>3, NetVacant, NetCallStep

(* A request writes one network in one of the stores, or in both.           *)
LEMMA NetWriteStep ==
    ASSUME NetInv, NEW s \in NetSlots, NEW d \in NetRequests, NEW m \in drawn, netCall' = [netCall EXCEPT ![s] = d],
           NetCross(s, m), stray \subseteq stray', stray' \subseteq stray \cup {m}, UNCHANGED <<drawn, netCalls>>,
           ctrl' \in [Nets -> ControllerNetworks \cup {NoNet}], row' \in [Nets -> NetworkRows \cup {NoNet}],
           wanted' \in [Nets -> SUBSET Modes],
           \A n \in Nets \ {m} : ctrl'[n] = ctrl[n] /\ row'[n] = row[n] /\ wanted'[n] = wanted[n],
           row'[m] # NoNet => (row'[m].author \in NetUsers) # row'[m].org,
           netCall[s].net = m, \A n \in Nets : Works(d, n) => Works(netCall[s], n), d.op # "assign",
           NetPromise(d, ctrl', row', netCrossed', Excused'),
           m \notin Excused' => NetOK(m)',
           LimitOK'
    PROVE  NetInv'
<1> USE DEF NetInv
<1>1. NetTypes' /\ (\A t \in NetSlots : netCall'[t] = IF t = s THEN d ELSE netCall[t]) /\ m \in Nets
  <2>1. m \in Nets
    BY DEF NetTypes
  <2>2. netCrossed' \subseteq Nets
    BY <2>1 DEF NetTypes, NetCross
  <2> QED BY <2>1, <2>2 DEF NetTypes
<1>2. netCrossed \subseteq netCrossed' /\ Excused \subseteq Excused' /\ netCrossed' \subseteq Excused'
  BY DEF NetCross, Excused
<1>3. \A t \in NetSlots \ {s} : Works(netCall[t], m) => m \in netCrossed'
  BY <1>1, WorksIs DEF NetCross, NetTouching
<1>4. Undrawn'
  BY <1>1 DEF Undrawn
<1>5. OneOwner'
  BY <1>1 DEF OneOwner, Exists
<1>6. NetPromises'
  <2> SUFFICES ASSUME NEW t \in NetSlots PROVE NetPromise(netCall'[t], ctrl', row', netCrossed', Excused')
    BY DEF NetPromises
  <2>1. CASE t = s
    BY <1>1, <2>1
  <2>2. CASE t # s
    <3>1. PICK c \in NetRequests : c = netCall[t]
      BY DEF NetTypes
    <3>2. NetPromise(c, ctrl, row, netCrossed, Excused)
      BY <3>1 DEF NetPromises
    <3>3. \A n \in Nets : Works(c, n) => n \in netCrossed' \/ (ctrl'[n] = ctrl[n] /\ row'[n] = row[n])
      BY <1>3, <2>2, <3>1
    <3>4. NetPromise(c, ctrl', row', netCrossed', Excused')
      BY <1>2, <3>2, <3>3, NetPromiseStays
    <3> QED BY <1>1, <2>2, <3>1, <3>4
  <2> QED BY <2>1, <2>2
<1>7. NetsOK'
  <2> SUFFICES ASSUME NEW n \in Nets \ Excused', n # m PROVE NetOK(n)'
    BY DEF NetsOK
  <2>1. NetOK(n) /\ ctrl'[n] = ctrl[n] /\ row'[n] = row[n] /\ wanted'[n] = wanted[n]
    BY <1>2 DEF NetsOK
  <2>2. \A t \in NetSlots : Making(netCall[t], n) => Making(netCall'[t], n)
    BY <1>1 DEF Making
  <2>3. \A t \in NetSlots : Erasing(netCall[t], n) => Erasing(netCall'[t], n)
    BY <1>1 DEF Erasing
  <2>4. \A t \in NetSlots : Storing(netCall[t], n) => Storing(netCall'[t], n)
    BY <1>1 DEF Storing
  <2>5. (\E t \in NetSlots : netCall'[t].op = "assign" /\ netCall'[t].net = n) => \E t \in NetSlots : Making(netCall[t], n)
    BY <1>1, <2>1 DEF NetOK
  <2> QED BY <2>1, <2>2, <2>3, <2>4, <2>5 DEF NetOK, Exists, OnController
<1> QED BY <1>1, <1>4, <1>5, <1>6, <1>7

(* What somebody who works alone on a network knows about it: the stores    *)
(* agree but for its own work.                                              *)
LEMMA Alone ==
    ASSUME NetInv, NEW s \in NetSlots, NEW m \in Nets, NetCross(s, m), stray \subseteq stray', m \notin Excused',
           NEW d \in NetRequests, netCall' = [netCall EXCEPT ![s] = d], d.op # "assign"
    PROVE  /\ m \notin Excused /\ m \notin netCrossed'
           /\ \A t \in NetSlots : Works(netCall[t], m) => t = s
           /\ OnController(m) /\ ~Exists(m) => Making(netCall[s], m)
           /\ Exists(m) /\ ~OnController(m) => Erasing(netCall[s], m)
           /\ Exists(m) /\ OnController(m) => Agree(ctrl[m], row[m]) \/ Storing(netCall[s], m)
           /\ OnController(m) => ctrl[m].v6 = wanted[m]
           /\ netCall[s].op # "assign" \/ netCall[s].net # m
           /\ ~\E t \in NetSlots : netCall'[t].op = "assign" /\ netCall'[t].net = m
<1>1. m \notin Excused /\ m \notin netCrossed' /\ NetOK(m)
  BY DEF NetCross, Excused, NetInv, NetsOK
<1>2. \A t \in NetSlots : Works(netCall[t], m) => t = s
  BY <1>1, WorksIs DEF NetCross, NetTouching
<1>3. \A t \in NetSlots :
        Making(netCall[t], m) \/ (netCall[t].op = "assign" /\ netCall[t].net = m) => t = s
  BY <1>2 DEF Making, Works
<1>4. ~\E t \in NetSlots : netCall[t].op = "assign" /\ netCall[t].net = m
  BY <1>1, <1>3 DEF NetOK, Making
<1>5. \A t \in NetSlots : netCall'[t] = IF t = s THEN d ELSE netCall[t]
  BY DEF NetInv, NetTypes
<1>6. \A t \in NetSlots : Erasing(netCall[t], m) \/ Storing(netCall[t], m) => t = s
  BY <1>2 DEF Erasing, Storing, Works
<1> QED BY <1>1, <1>2, <1>3, <1>4, <1>5, <1>6 DEF NetOK

(* A request ends half-way: its network is stray.                           *)
LEMMA StrayStep ==
    ASSUME NetInv, NEW s \in NetSlots, netCall' = [netCall EXCEPT ![s] = NetIdle],
           UNCHANGED <<ctrl, row, drawn, netCalls, netCrossed, wanted, raced>>,
           stray' = stray \cup ({netCall[s].net} \ {NoNet})
    PROVE  NetInv'
<1> USE DEF NetInv
<1>1. PICK c \in NetRequests : c = netCall[s]
  BY DEF NetTypes
<1>2. \A t \in NetSlots : netCall'[t] = IF t = s THEN NetIdle ELSE netCall[t]
  BY DEF NetTypes
<1>3. NetTypes'
  <2>1. stray' \subseteq Nets
    BY <1>1, NetKinds DEF NetTypes
  <2> QED BY <2>1, NetVacant DEF NetTypes
<1>4. Excused \subseteq Excused' /\ netCrossed \subseteq Excused' /\ (c.net \in Nets => c.net \in Excused')
  BY <1>1, NoNetIsNothing DEF Excused
<1>5. Undrawn' /\ OneOwner'
  BY <1>2, NetVacant DEF Undrawn, OneOwner, Exists
<1>6. NetPromises'
  <2> SUFFICES ASSUME NEW t \in NetSlots PROVE NetPromise(netCall'[t], ctrl, row, netCrossed, Excused')
    BY DEF NetPromises
  <2>1. CASE t = s
    BY <1>2, <2>1, NetVacant
  <2>2. CASE t # s
    <3>1. PICK e \in NetRequests : e = netCall[t]
      BY DEF NetTypes
    <3>2. NetPromise(e, ctrl, row, netCrossed, Excused)
      BY <3>1 DEF NetPromises
    <3>3. NetPromise(e, ctrl, row, netCrossed, Excused')
      BY <1>4, <3>2, NetPromiseStays
    <3> QED BY <1>2, <2>2, <3>1, <3>3
  <2> QED BY <2>1, <2>2
<1>7. NetsOK'
  <2> SUFFICES ASSUME NEW n \in Nets \ Excused' PROVE NetOK(n)'
    BY DEF NetsOK
  <2>1. NetOK(n) /\ c.net # n
    BY <1>4 DEF NetsOK
  <2>2. \A t \in NetSlots : /\ Making(netCall[t], n) => Making(netCall'[t], n)
                            /\ Erasing(netCall[t], n) => Erasing(netCall'[t], n)
                            /\ Storing(netCall[t], n) => Storing(netCall'[t], n)
    BY <1>1, <1>2, <2>1 DEF Making, Erasing, Storing
  <2>3. (\E t \in NetSlots : netCall'[t].op = "assign" /\ netCall'[t].net = n) => \E t \in NetSlots : Making(netCall[t], n)
    BY <1>2, <2>1, NetVacant DEF NetOK
  <2> QED BY <2>1, <2>2, <2>3 DEF NetOK, Exists, OnController
<1>8. LimitOK'
  <2>1. \A u \in NetUsers : ~Creates(NetIdle, u)
    BY NetVacant DEF Creates
  <2>2. \A u : Authored(u)' = Authored(u)
    BY DEF Authored, Exists
  <2> QED BY <1>2, <2>1, <2>2, LimitStays
<1> QED BY <1>3, <1>5, <1>6, <1>7, <1>8

----------------------------------------------------------------------------
(* The actions                                                              *)

(* A request that begins checks owner, organisation or limit, and relies on *)
(* no more than that.                                                       *)
LEMMA NetBeginSteps ==
    ASSUME NetInv, NEW s \in NetSlots, NetRequest(s) PROVE NetInv'
<1> USE DEF NetInv
<1>0. netCall[s] = NetIdle
  BY DEF NetRequest
<1> DEFINE Enters(d) == /\ d \in NetRequests /\ NetBegin(s, d) /\ NetPromise(d, ctrl, row, netCrossed, Excused)
                        /\ \A n \in Nets : Works(d, n) => n \in drawn
                        /\ d.op = "assign" /\ d.net \notin Excused => \E t \in NetSlots : Making(netCall[t], d.net)
                        /\ \A u \in NetUsers \ {Admin} : Creates(d, u) => Cardinality(Authored(u)) < Limit
<1>1. ASSUME NEW d, Enters(d) PROVE NetInv'
  <2>1. netCall' = [netCall EXCEPT ![s] = d] /\ UNCHANGED <<data, netHistory>> /\ netCalls' \in Nat
    BY <1>1 DEF NetBegin, NetEnter, NetTypes
  <2>2. \A n \in Nets : ~Making(netCall[s], n) /\ ~Erasing(netCall[s], n) /\ ~Storing(netCall[s], n)
    BY <1>0, NetVacant DEF Making, Erasing, Storing
  <2> HIDE DEF NetInv
  <2> QED BY <1>1, <2>1, <2>2, NetCallStep
<1>2. \A n \in Nets : Exists(n) \/ OnController(n) => n \in drawn
  BY DEF Undrawn, Exists, OnController
<1>3. ASSUME NEW u \in NetUsers, NEW isOrg \in BOOLEAN, u = Admin \/ isOrg \/ Cardinality(Authored(u)) < Limit,
             NetBegin(s, [op |-> "create", by |-> u, org |-> isOrg, net |-> NoNet])
      PROVE  NetInv'
  <2> DEFINE d == [op |-> "create", by |-> u, org |-> isOrg, net |-> NoNet]
  <2>1. d \in NetRequests /\ NetPromise(d, ctrl, row, netCrossed, Excused)
    BY DEF NetRequests, NetCreate, NetPromise
  <2>2. (\A n \in Nets : ~Works(d, n)) /\ d.op # "assign"
    BY NoNetIsNothing DEF Works
  <2>3. \A v \in NetUsers \ {Admin} : Creates(d, v) => Cardinality(Authored(v)) < Limit
    BY <1>3 DEF Creates
  <2> QED BY <1>1, <1>3, <2>1, <2>2, <2>3
<1>4. ASSUME NEW u \in NetUsers, NEW n \in Nets, NEW o \in BOOLEAN, NEW todo \in SUBSET Nets, NEW l \in BOOLEAN,
             Exists(n), row[n].org \/ o \/ row[n].author = u,
             todo # {} => row[n].org, \A x \in todo : Exists(x) /\ row[x].org,
             NEW d, d = [op |-> "delete", by |-> u, net |-> n, override |-> o, org |-> row[n].org,
                         stage |-> "deauthorise", todo |-> todo, last |-> l],
             NetBegin(s, d)
      PROVE  NetInv'
  <2>1. row[n].org \in BOOLEAN
    BY <1>4, RowKept DEF Exists, NetTypes
  <2>2. d \in NetRequests
    BY <1>4, <2>1 DEF NetRequests, NetDelete
  <2>3. \A x \in Nets : Works(d, x) => x \in drawn /\ Mine(d, row[x])
    BY <1>2, <1>4 DEF Works, Mine
  <2>4. NetPromise(d, ctrl, row, netCrossed, Excused)
    BY <1>4, <2>3 DEF NetPromise
  <2>5. d.op # "assign" /\ \A v : ~Creates(d, v)
    BY <1>4 DEF Creates
  <2> QED BY <1>1, <1>4, <2>2, <2>3, <2>4, <2>5
<1>5. ASSUME NEW u \in NetUsers, NEW n \in Nets, NEW o \in BOOLEAN, DeleteBegin(s, u, n, o) PROVE NetInv'
  <2>1. Exists(n) /\ (row[n].org \/ o \/ row[n].author = u)
    BY <1>5 DEF DeleteBegin, Access
  <2> QED BY <1>4, <1>5, <2>1 DEF DeleteBegin, Deletion
<1>6. ASSUME DeleteOrgNetsBegin(s) PROVE NetInv'
  <2>1. CASE OrgNets = {}
    <3> DEFINE d == [op |-> "deleteOrg", net |-> NoNet]
    <3>1. d \in NetRequests /\ NetPromise(d, ctrl, row, netCrossed, Excused)
      BY DEF NetRequests, NetDeleteOrg, NetPromise
    <3>2. (\A n \in Nets : ~Works(d, n)) /\ d.op # "assign" /\ \A v : ~Creates(d, v)
      BY NoNetIsNothing DEF Works, Creates
    <3> QED BY <1>1, <1>6, <2>1, <3>1, <3>2 DEF DeleteOrgNetsBegin
  <2>2. CASE OrgNets # {}
    <3>1. PICK n \in OrgNets : NetBegin(s, [Deletion(Admin, n, FALSE, OrgNets \ {n}) EXCEPT !.last = TRUE])
      BY <1>6, <2>2, Zenon DEF DeleteOrgNetsBegin
    <3> DEFINE d == [op |-> "delete", by |-> Admin, net |-> n, override |-> FALSE, org |-> row[n].org,
                     stage |-> "deauthorise", todo |-> OrgNets \ {n}, last |-> TRUE]
    <3>2. [Deletion(Admin, n, FALSE, OrgNets \ {n}) EXCEPT !.last = TRUE] = d
      <4>1. PICK c \in NetDelete : c = Deletion(Admin, n, FALSE, OrgNets \ {n})
        <5>1. n \in Nets /\ row[n].org \in BOOLEAN /\ OrgNets \subseteq Nets
          BY RowKept DEF OrgNets, Exists, NetTypes
        <5> QED BY <5>1, AdminIsUser DEF NetDelete, Deletion
      <4>2. PICK e \in NetDelete : e = [c EXCEPT !.last = TRUE]
                                   /\ e.op = c.op /\ e.by = c.by /\ e.net = c.net /\ e.override = c.override
                                   /\ e.org = c.org /\ e.stage = c.stage /\ e.todo = c.todo /\ e.last = TRUE
        BY DeletionLast, Zenon
      <4>3. e = [op |-> e.op, by |-> e.by, net |-> e.net, override |-> e.override, org |-> e.org,
                 stage |-> e.stage, todo |-> e.todo, last |-> e.last]
        BY DEF NetDelete
      <4>4. e = d
        BY <4>1, <4>2, <4>3 DEF Deletion
      <4> QED BY <4>1, <4>2, <4>4, Zenon
    <3>3. n \in Nets /\ Exists(n) /\ row[n].org /\ OrgNets \ {n} \in SUBSET Nets
          /\ \A x \in OrgNets \ {n} : Exists(x) /\ row[x].org
      BY DEF OrgNets
    <3>4. NetBegin(s, d)
      BY <3>1, <3>2, Zenon
    <3> HIDE DEF d
    <3> QED BY <1>4, <3>3, <3>4, AdminIsUser DEF d
  <2> QED BY <2>1, <2>2
<1>7. ASSUME NEW u \in NetUsers, NEW n \in Nets, NEW f \in {"name", "rules", "setting"}, Exists(n), NetBegin(s, Edit(u, n, f))
      PROVE  NetInv'
  <2> DEFINE d == Edit(u, n, f)
  <2>1. d \in NetRequests /\ NetPromise(d, ctrl, row, netCrossed, Excused)
    BY DEF NetRequests, NetEdit, NetPromise, Edit, NetTypes
  <2>2. (\A x \in Nets : Works(d, x) => x \in drawn) /\ d.op # "assign" /\ \A v : ~Creates(d, v)
    BY <1>2, <1>7 DEF Works, Creates, Edit
  <2> HIDE DEF d
  <2>3. Enters(d)
    BY <1>7, <2>1, <2>2 DEF d
  <2> HIDE DEF Enters
  <2> QED BY <1>1, <2>3
<1>8. ASSUME NEW u \in NetUsers, NEW n \in Nets, NEW m \in Modes, NEW on \in BOOLEAN, Ipv6Begin(s, u, n, m, on) PROVE NetInv'
  <2> DEFINE d == [op |-> "ipv6", by |-> u, net |-> n, mode |-> m, on |-> on, read |-> NoNet]
  <2>1. d \in NetRequests /\ NetPromise(d, ctrl, row, netCrossed, Excused)
    BY DEF NetRequests, NetIpv6, NetPromise
  <2>2. (\A x \in Nets : Works(d, x) => x \in drawn) /\ d.op # "assign" /\ \A v : ~Creates(d, v)
    BY <1>2, <1>8 DEF Works, Creates, Ipv6Begin, Access
  <2> QED BY <1>1, <1>8, <2>1, <2>2 DEF Ipv6Begin
<1>9. ASSUME NEW n \in Nets, AssignBegin(s, n) PROVE NetInv'
  <2> DEFINE d == [op |-> "assign", by |-> Admin, net |-> n, name |-> ctrl[n].name]
  <2>1. OnController(n) /\ ~Exists(n) /\ ctrl[n].name \in Nat /\ NetBegin(s, d)
    BY <1>9, NetworkKinds DEF AssignBegin, Unlinked, OnController, NetTypes
  <2>2. d \in NetRequests /\ NetPromise(d, ctrl, row, netCrossed, Excused)
    BY <2>1, AdminIsUser DEF NetRequests, NetAssign, NetPromise
  <2>3. (\A x \in Nets : Works(d, x) => x \in drawn) /\ \A v : ~Creates(d, v)
    BY <1>2, <2>1 DEF Works, Creates
  <2>4. n \notin Excused => \E t \in NetSlots : Making(netCall[t], n)
    BY <2>1 DEF NetsOK, NetOK
  <2> QED BY <1>1, <2>1, <2>2, <2>3, <2>4
<1> HIDE DEF NetInv
<1>10. ASSUME NEW u \in NetUsers, CreateBegin(s, u) \/ CreateOrgBegin(s, u) PROVE NetInv'
  BY <1>3, <1>10 DEF CreateBegin, CreateOrgBegin
<1>11. ASSUME NEW u \in NetUsers, NEW n \in Nets,
              \/ PrivatePublicNetwork(s, u, n) \/ Dns(s, u, n) \/ Mtu(s, u, n)
              \/ MultiCast(s, u, n) \/ EnableIpv4AutoAssign(s, u, n)
              \/ NetworkName(s, u, n) \/ SetFlowRule(s, u, n) \/ RestPostNetwork(s, u, n)
       PROVE  NetInv'
  BY <1>7, <1>11 DEF PrivatePublicNetwork, Dns, Mtu, MultiCast, EnableIpv4AutoAssign, NetworkName, SetFlowRule,
                     RestPostNetwork, Access, Exists
<1> QED BY <1>5, <1>6, <1>8, <1>9, <1>10, <1>11 DEF NetRequest

(* Rows are only taken away or keep their author, and no creation begins.   *)
LEMMA LimitKept ==
    ASSUME LimitOK, raced \subseteq raced', NEW s \in NetSlots, NEW d, netCall' = [netCall EXCEPT ![s] = d],
           netCall \in [NetSlots -> NetRequests], \A u \in NetUsers : Creates(d, u) => Creates(netCall[s], u),
           \A n \in Nets : row'[n] # NoNet => row[n] # NoNet /\ (row'[n].author = row[n].author \/ row'[n].author \notin NetUsers)
    PROVE  LimitOK'
<1>1. \A u \in NetUsers : Authored(u)' \subseteq Authored(u)
  BY DEF Authored, Exists
<1>2. \A u \in NetUsers, t \in NetSlots : Creates(netCall'[t], u) => Creates(netCall[t], u)
  OBVIOUS
<1> QED BY <1>1, <1>2, LimitStays

(* Requests are at work on ids that were drawn.                             *)
LEMMA DrawnWork == ASSUME NetInv PROVE \A s \in NetSlots, n \in Nets : Works(netCall[s], n) => n \in drawn
BY DEF NetInv, Undrawn

(* The controller draws an id (network_create).                             *)
LEMMA CreatePostsStep ==
    ASSUME NetInv, NEW s \in NetSlots, CreatePosts(s) PROVE NetInv'
<1> USE DEF NetInv
<1>1. PICK c \in NetRequests : c = netCall[s]
  BY DEF NetTypes
<1>2. c \in NetCreate /\ c.op = "create" /\ c.net = NoNet
  BY <1>1, NetKinds DEF CreatePosts
<1>3. PICK n \in Nets \ drawn : /\ drawn' = drawn \cup {n} /\ ctrl' = [ctrl EXCEPT ![n] = Fresh]
                                /\ Go(s, [netCall[s] EXCEPT !.net = n])
  BY Zenon DEF CreatePosts
<1>4. PICK d \in NetRequests : d = [c EXCEPT !.net = n] /\ d.op = "create" /\ d.net = n /\ d.by = c.by /\ d.org = c.org
  <2>1. n \in Nets
    OBVIOUS
  <2> DEFINE e == [c EXCEPT !.net = n]
  <2>2. e \in NetRequests /\ e.op = "create" /\ e.net = n /\ e.by = c.by /\ e.org = c.org
    BY <1>2, <2>1, RequestDrawn, Zenon
  <2> QED BY <2>2, Zenon
<1>5. netCall' = [netCall EXCEPT ![s] = d] /\ UNCHANGED <<row, netCalls, stray, netCrossed, wanted, raced>>
  <2>1. netCall' = [netCall EXCEPT ![s] = [netCall[s] EXCEPT !.net = n]]
    BY <1>3, Zenon DEF Go
  <2>2. netCall' = [netCall EXCEPT ![s] = d]
    BY <1>1, <1>4, <2>1, Zenon
  <2> QED BY <1>3, <2>2 DEF Go, CreatePosts, netHistory
<1>6. \A t \in NetSlots : netCall'[t] = IF t = s THEN d ELSE netCall[t]
  BY <1>5 DEF NetTypes
<1>7. \A m \in Nets : ctrl'[m] = IF m = n THEN Fresh ELSE ctrl[m]
  BY <1>3 DEF NetTypes
<1>8. NetTypes'
  BY <1>3, <1>4, <1>5, FreshNetwork DEF NetTypes
<1>9. Excused' = Excused
  BY <1>5 DEF Excused
<1>10. Fresh # NoNet
  BY FreshNetwork, NetworkKinds
<1>11. row[n] = NoNet /\ wanted[n] = {} /\ \A t \in NetSlots : ~Works(netCall[t], n)
  BY DEF Undrawn
<1>12. Undrawn'
  BY <1>3, <1>4, <1>5, <1>6, <1>7 DEF Undrawn, Works
<1>13. OneOwner'
  BY <1>5 DEF OneOwner, Exists
<1>14. NetPromises'
  <2> SUFFICES ASSUME NEW t \in NetSlots PROVE NetPromise(netCall'[t], ctrl', row', netCrossed', Excused')
    BY DEF NetPromises
  <2>1. CASE t = s
    BY <1>4, <1>5, <1>6, <1>7, <1>10, <1>11, <2>1, FreshNetwork DEF NetPromise
  <2>2. CASE t # s
    <3>1. PICK e \in NetRequests : e = netCall[t]
      BY DEF NetTypes
    <3>2. NetPromise(e, ctrl, row, netCrossed, Excused)
      BY <3>1 DEF NetPromises
    <3>3. \A m \in Nets : Works(e, m) => ctrl'[m] = ctrl[m] /\ row[m] = row[m]
      BY <1>7, <1>11, <3>1
    <3>4. netCrossed \subseteq Excused
      BY DEF Excused
    <3>5. NetPromise(e, ctrl', row, netCrossed, Excused)
      BY <3>2, <3>3, <3>4, NetPromiseStays
    <3> QED BY <1>5, <1>6, <1>9, <2>2, <3>1, <3>5
  <2> QED BY <2>1, <2>2
<1>15. NetsOK'
  <2> SUFFICES ASSUME NEW m \in Nets \ Excused PROVE NetOK(m)'
    BY <1>9 DEF NetsOK
  <2>1. NetOK(m)
    BY DEF NetsOK
  <2>2. CASE m = n
    <3>1. Making(netCall'[s], n) /\ ctrl'[n] = Fresh /\ row'[n] = NoNet /\ wanted'[n] = {}
      BY <1>4, <1>5, <1>6, <1>7, <1>11 DEF Making
    <3> QED BY <1>10, <2>2, <3>1, FreshNetwork DEF NetOK, Exists, OnController
  <2>3. CASE m # n
    <3>1. \A t \in NetSlots : /\ Making(netCall[t], m) => Making(netCall'[t], m)
                              /\ Erasing(netCall[t], m) => Erasing(netCall'[t], m)
                              /\ Storing(netCall[t], m) => Storing(netCall'[t], m)
      BY <1>1, <1>2, <1>6, NoNetIsNothing DEF Making, Erasing, Storing
    <3>2. (\E t \in NetSlots : netCall'[t].op = "assign" /\ netCall'[t].net = m) => \E t \in NetSlots : Making(netCall[t], m)
      BY <1>4, <1>6, <2>1 DEF NetOK
    <3> QED BY <1>5, <1>7, <2>1, <2>3, <3>1, <3>2 DEF NetOK, Exists, OnController
  <2> QED BY <2>2, <2>3
<1>16. LimitOK'
  <2>1. \A u \in NetUsers : Creates(d, u) => Creates(netCall[s], u)
    BY <1>1, <1>2, <1>4 DEF Creates
  <2>2. \A m \in Nets : row'[m] # NoNet => row[m] # NoNet /\ row'[m].author = row[m].author
    BY <1>5
  <2> QED BY <1>5, <2>1, <2>2, LimitKept DEF NetTypes
<1> QED BY <1>8, <1>12, <1>13, <1>14, <1>15, <1>16

(* The row of the new network is stored, or its id is stray                 *)
(* (networkProvisioningFactory, createOrgNetwork).                          *)
LEMMA CreateStoresStep ==
    ASSUME NetInv, NEW s \in NetSlots, CreateStores(s) PROVE NetInv'
<1> USE DEF NetInv
<1>1. PICK c \in NetRequests : c = netCall[s]
  BY DEF NetTypes
<1>2. c \in NetCreate /\ c.op = "create" /\ c.net \in Nets /\ c.by \in NetUsers /\ c.org \in BOOLEAN
  BY <1>1, NetKinds DEF CreateStores, NetCreate
<1> DEFINE m == c.net
<1>3. Works(netCall[s], m) /\ m \in drawn /\ m # NoNet
  BY <1>1, <1>2, DrawnWork, NoNetIsNothing DEF Works
<1>4. netCall' = [netCall EXCEPT ![s] = NetIdle] /\ UNCHANGED <<ctrl, drawn, netCalls, wanted>>
  BY <1>1 DEF CreateStores, Go, data
<1>5. NetPromise(c, ctrl, row, netCrossed, Excused)
  BY <1>1 DEF NetPromises
<1>6. \A n \in Nets : ~Works(NetIdle, n)
  BY NetVacant
<1>7. NetPromise(NetIdle, ctrl', row', netCrossed', Excused') /\ NetIdle.op # "assign" /\ \A u : ~Creates(NetIdle, u)
  BY NetVacant DEF Creates
<1>8. CASE ~Exists(m) /\ (c.org => orgLives) /\ stray' = stray
  <2> DEFINE r == [author |-> IF c.org THEN NoNet ELSE c.by, org |-> c.org, name |-> 0, rules |-> 0]
  <2>1. /\ row' = [row EXCEPT ![m] = r] /\ NetCross(s, m)
        /\ raced' = IF ~c.org /\ \E t \in NetSlots \ {s} : netCall[t].op = "create" /\ netCall[t].by = c.by /\ ~netCall[t].org
                    THEN raced \cup {c.by} ELSE raced
    BY <1>1, <1>8 DEF CreateStores
  <2>2. r \in NetworkRows /\ r # NoNet /\ ((r.author \in NetUsers) # r.org) /\ r.name = 0 /\ r.rules = 0 /\ r.org = c.org
        /\ (r.author \in NetUsers => r.author = c.by /\ ~c.org)
    BY <1>2, NoNetIsNothing DEF NetworkRows
  <2> HIDE DEF r
  <2>3. \A n \in Nets : row'[n] = IF n = m THEN r ELSE row[n]
    BY <2>1 DEF NetTypes
  <2>4. row' \in [Nets -> NetworkRows \cup {NoNet}]
    BY <2>1, <2>2 DEF NetTypes
  <2>5. m \notin Excused' => NetOK(m)'
    <3> SUFFICES ASSUME m \notin Excused' PROVE NetOK(m)'
      OBVIOUS
    <3>1. m \notin Excused /\ (OnController(m) => ctrl[m].v6 = wanted[m])
          /\ ~\E t \in NetSlots : netCall'[t].op = "assign" /\ netCall'[t].net = m
      BY <1>2, <1>4, <1>7, <1>8, <2>1, NetVacant, Alone
    <3>2. ctrl[m] # NoNet /\ ctrl[m].name = 0 /\ ctrl[m].rules = 0
      BY <1>2, <1>3, <1>5, <3>1 DEF NetPromise
    <3>3. row'[m] = r
      BY <1>2, <2>3
    <3> QED BY <1>4, <2>2, <3>1, <3>2, <3>3 DEF NetOK, Exists, OnController, Agree
  <2>6. LimitOK'
    <3> SUFFICES ASSUME NEW u \in NetUsers \ {Admin}, u \notin raced'
                 PROVE  /\ Cardinality(Authored(u)') <= Limit
                        /\ \A t \in NetSlots : Creates(netCall'[t], u) => Cardinality(Authored(u)') < Limit
      BY DEF LimitOK, Creates
    <3>1. u \notin raced
      BY <2>1
    <3>2. Cardinality(Authored(u)) <= Limit /\ Cardinality(Authored(u)) \in Nat /\ IsFiniteSet(Authored(u))
      BY <3>1, AuthoredFinite DEF LimitOK
    <3>3. \A t \in NetSlots : netCall'[t] = IF t = s THEN NetIdle ELSE netCall[t]
      BY <1>4 DEF NetTypes
    <3>4. CASE r.author = u
      <4>1. u = c.by /\ ~c.org
        BY <2>2, <3>4
      <4>2. Cardinality(Authored(u)) < Limit
        BY <1>1, <1>2, <3>1, <4>1 DEF LimitOK, Creates
      <4>3. Authored(u)' = Authored(u) \cup {m}
        BY <1>2, <1>8, <2>2, <2>3, <3>4 DEF Authored, Exists
      <4>4. m \notin Authored(u)
        BY <1>8 DEF Authored
      <4>5. Cardinality(Authored(u)') = Cardinality(Authored(u)) + 1
        BY <3>2, <4>3, <4>4, FS_AddElement
      <4>6. \A t \in NetSlots : ~Creates(netCall'[t], u)
        BY <1>7, <2>1, <3>3, <4>1 DEF Creates
      <4> QED BY <3>2, <4>2, <4>5, <4>6, NetBoundsNat
    <3>5. CASE r.author # u
      <4>1. Authored(u)' = Authored(u)
        BY <1>2, <1>8, <2>3, <3>5 DEF Authored, Exists
      <4> QED BY <1>7, <3>1, <3>2, <3>3, <4>1 DEF LimitOK, Creates
    <3> QED BY <3>4, <3>5
  <2>7. /\ \A n \in Nets \ {m} : ctrl'[n] = ctrl[n] /\ row'[n] = row[n] /\ wanted'[n] = wanted[n]
        /\ row'[m] # NoNet => (row'[m].author \in NetUsers) # row'[m].org
        /\ ctrl' \in [Nets -> ControllerNetworks \cup {NoNet}] /\ wanted' \in [Nets -> SUBSET Modes]
    BY <1>2, <1>4, <2>2, <2>3 DEF NetTypes
  <2> HIDE DEF NetInv
  <2> QED BY <1>1, <1>3, <1>4, <1>6, <1>7, <1>8, <2>1, <2>4, <2>5, <2>6, <2>7, NetVacant, NetWriteStep
<1>9. CASE ~(~Exists(m) /\ (c.org => orgLives) /\ stray' = stray)
  <2>1. stray' = stray \cup {m} /\ UNCHANGED <<row, netCrossed, raced>>
    BY <1>1, <1>9 DEF CreateStores, data
  <2>2. \A t \in NetSlots : netCall'[t] = IF t = s THEN NetIdle ELSE netCall[t]
    BY <1>4 DEF NetTypes
  <2>3. m \in Excused' /\ Excused' = Excused \cup {m}
    BY <2>1 DEF Excused
  <2> QED BY <1>1, <1>2, <1>3, <1>4, <2>1, <2>2, <2>3, StrayStep
<1> QED BY <1>8, <1>9

(* The members of a network are deauthorised before it goes                 *)
(* (deleteNetwork).                                                         *)
LEMMA DeauthoriseStep ==
    ASSUME NetInv, NEW s \in NetSlots, DeleteDeauthorises(s) PROVE NetInv'
<1> USE DEF NetInv
<1>1. PICK c \in NetRequests : c = netCall[s]
  BY DEF NetTypes
<1>2. c \in NetDelete /\ c.op = "delete" /\ c.stage = "deauthorise" /\ c.net \in Nets
  BY <1>1, NetKinds DEF DeleteDeauthorises
<1> DEFINE m == c.net
<1>3. Works(c, m) /\ m \in drawn /\ NetPromise(c, ctrl, row, netCrossed, Excused)
  BY <1>1, <1>2, DrawnWork DEF Works, NetPromises
<1>4. CASE NetRefused(s)
  BY <1>1, <1>2, <1>4, NetRefusedStep DEF Making, Erasing, Storing
<1>5. CASE ~NetRefused(s)
  <2>1. OnController(m) /\ NetCross(s, m) /\ UNCHANGED <<row, drawn, stray, wanted, raced>>
        /\ ctrl' = [ctrl EXCEPT ![m].auth = FALSE] /\ Go(s, [c EXCEPT !.stage = "drop"])
    BY <1>1, <1>5, Zenon DEF DeleteDeauthorises
  <2>2. PICK x \in ControllerNetworks : x = ctrl[m]
    BY <1>2, <2>1 DEF OnController, NetTypes
  <2>3. PICK w \in ControllerNetworks : w = [x EXCEPT !.auth = FALSE] /\ w.auth = FALSE /\ w.name = x.name
                                        /\ w.rules = x.rules /\ w.v6 = x.v6
    BY NetworkKinds, Zenon
  <2>4. ctrl' = [ctrl EXCEPT ![m] = w]
    BY <2>1, <2>2, <2>3
  <2>5. PICK d \in NetRequests : d = [c EXCEPT !.stage = "drop"] /\ d.op = "delete" /\ d.net = m /\ d.stage = "drop"
                                 /\ d.todo = c.todo /\ d.org = c.org /\ d.override = c.override /\ d.by = c.by
    BY <1>2, RequestStaged, Zenon
  <2>6. netCall' = [netCall EXCEPT ![s] = d] /\ UNCHANGED netCalls
    BY <2>1, <2>5, Zenon DEF Go
  <2>7. \A n \in Nets : ctrl'[n] = IF n = m THEN w ELSE ctrl[n]
    BY <2>4 DEF NetTypes
  <2>8. Excused \subseteq Excused' /\ w # NoNet
    BY <2>1, NetworkKinds DEF Excused, NetCross
  <2>9. NetPromise(d, ctrl', row', netCrossed', Excused')
    BY <1>2, <1>3, <2>1, <2>3, <2>5, <2>7, <2>8 DEF NetPromise, Works, Mine
  <2>10. m \notin Excused' => NetOK(m)'
    <3> SUFFICES ASSUME m \notin Excused' PROVE NetOK(m)'
      OBVIOUS
    <3>1. /\ OnController(m) /\ ~Exists(m) => Making(c, m)
          /\ Exists(m) /\ OnController(m) => Agree(ctrl[m], row[m]) \/ Storing(c, m)
          /\ OnController(m) => ctrl[m].v6 = wanted[m]
          /\ ~\E t \in NetSlots : netCall'[t].op = "assign" /\ netCall'[t].net = m
      BY <1>1, <1>2, <2>1, <2>5, <2>6, Alone
    <3>2. ~Making(c, m) /\ ~Storing(c, m) /\ ctrl'[m] = w
      BY <1>2, <2>7 DEF Making, Storing
    <3> QED BY <2>1, <2>2, <2>3, <2>8, <3>1, <3>2 DEF NetOK, Exists, OnController, Agree
  <2>11. LimitOK'
    BY <2>1, <2>5, <2>6, LimitKept DEF NetTypes, Creates
  <2>12. /\ \A n \in Nets \ {m} : ctrl'[n] = ctrl[n] /\ row'[n] = row[n] /\ wanted'[n] = wanted[n]
         /\ row'[m] # NoNet => (row'[m].author \in NetUsers) # row'[m].org
         /\ ctrl' \in [Nets -> ControllerNetworks \cup {NoNet}] /\ wanted' \in [Nets -> SUBSET Modes]
         /\ row' \in [Nets -> NetworkRows \cup {NoNet}]
    BY <1>2, <2>1, <2>4, <2>7 DEF NetTypes, OneOwner, Exists
  <2>13. \A n \in Nets : Works(d, n) => Works(netCall[s], n)
    BY <1>1, <1>2, <2>5 DEF Works
  <2> HIDE DEF NetInv
  <2> QED BY <1>1, <1>3, <2>1, <2>5, <2>6, <2>9, <2>10, <2>11, <2>12, <2>13, NetWriteStep
<1> QED BY <1>4, <1>5

(* The controller deletes the network (network_delete).                     *)
LEMMA DropStep ==
    ASSUME NetInv, NEW s \in NetSlots, DeleteDrops(s) PROVE NetInv'
<1> USE DEF NetInv
<1>1. PICK c \in NetRequests : c = netCall[s]
  BY DEF NetTypes
<1>2. c \in NetDelete /\ c.op = "delete" /\ c.stage = "drop" /\ c.net \in Nets
  BY <1>1, NetKinds DEF DeleteDrops
<1> DEFINE m == c.net
<1>3. Works(c, m) /\ m \in drawn /\ NetPromise(c, ctrl, row, netCrossed, Excused)
  BY <1>1, <1>2, DrawnWork DEF Works, NetPromises
<1>4. CASE NetRefused(s)
  BY <1>1, <1>2, <1>4, NetRefusedStep DEF Making, Erasing, Storing
<1>5. CASE ~NetRefused(s)
  <2>1. OnController(m) /\ NetCross(s, m) /\ UNCHANGED <<row, drawn, stray, wanted, raced>>
        /\ ctrl' = [ctrl EXCEPT ![m] = NoNet] /\ Go(s, [c EXCEPT !.stage = "erase"])
    BY <1>1, <1>5, Zenon DEF DeleteDrops
  <2>2. PICK d \in NetRequests : d = [c EXCEPT !.stage = "erase"] /\ d.op = "delete" /\ d.net = m /\ d.stage = "erase"
                                 /\ d.todo = c.todo /\ d.org = c.org /\ d.override = c.override /\ d.by = c.by
    BY <1>2, RequestStaged, Zenon
  <2>3. netCall' = [netCall EXCEPT ![s] = d] /\ UNCHANGED netCalls
    BY <2>1, <2>2, Zenon DEF Go
  <2>4. \A n \in Nets : ctrl'[n] = IF n = m THEN NoNet ELSE ctrl[n]
    BY <2>1 DEF NetTypes
  <2>5. Excused \subseteq Excused'
    BY <2>1 DEF Excused, NetCross
  <2>6. NetPromise(d, ctrl', row', netCrossed', Excused')
    BY <1>2, <1>3, <2>1, <2>2, <2>4, <2>5 DEF NetPromise, Works, Mine
  <2>7. m \notin Excused' => NetOK(m)'
    <3> SUFFICES ASSUME m \notin Excused' PROVE NetOK(m)'
      OBVIOUS
    <3>1. ~\E t \in NetSlots : netCall'[t].op = "assign" /\ netCall'[t].net = m
      BY <1>1, <1>2, <2>1, <2>2, <2>3, Alone
    <3>2. Erasing(netCall'[s], m)
      BY <2>2, <2>3 DEF Erasing, NetTypes
    <3> QED BY <1>2, <2>4, <3>1, <3>2 DEF NetOK, Exists, OnController
  <2>8. LimitOK'
    BY <2>1, <2>2, <2>3, LimitKept DEF NetTypes, Creates
  <2>9. /\ \A n \in Nets \ {m} : ctrl'[n] = ctrl[n] /\ row'[n] = row[n] /\ wanted'[n] = wanted[n]
        /\ row'[m] # NoNet => (row'[m].author \in NetUsers) # row'[m].org
        /\ ctrl' \in [Nets -> ControllerNetworks \cup {NoNet}] /\ wanted' \in [Nets -> SUBSET Modes]
        /\ row' \in [Nets -> NetworkRows \cup {NoNet}]
    BY <1>2, <2>1, <2>4 DEF NetTypes, OneOwner, Exists
  <2>10. \A n \in Nets : Works(d, n) => Works(netCall[s], n)
    BY <1>1, <1>2, <2>2 DEF Works
  <2> HIDE DEF NetInv
  <2> QED BY <1>1, <1>3, <2>1, <2>2, <2>3, <2>6, <2>7, <2>8, <2>9, <2>10, NetWriteStep
<1> QED BY <1>4, <1>5

(* The row goes, and the deletion of an organisation turns to its next      *)
(* network (deleteNetwork, deleteOrg).                                      *)
LEMMA EraseStep ==
    ASSUME NetInv, NEW s \in NetSlots, DeleteErases(s) PROVE NetInv'
<1> USE DEF NetInv
<1>1. PICK c \in NetRequests : c = netCall[s]
  BY DEF NetTypes
<1>2. c \in NetDelete /\ c.op = "delete" /\ c.stage = "erase" /\ c.net \in Nets /\ c.todo \subseteq Nets
  BY <1>1, NetKinds DEF DeleteErases
<1> DEFINE m == c.net
<1>3. Works(c, m) /\ m \in drawn /\ NetPromise(c, ctrl, row, netCrossed, Excused)
  BY <1>1, <1>2, DrawnWork DEF Works, NetPromises
<1>4. NetCross(s, m) /\ UNCHANGED <<ctrl, drawn, stray, wanted, raced>>
      /\ row' = IF Erasable(c) THEN [row EXCEPT ![m] = NoNet] ELSE row
  BY <1>1 DEF DeleteErases
<1>5. Excused \subseteq Excused' /\ netCrossed' \subseteq Excused' /\ netCrossed \subseteq netCrossed'
  BY <1>4 DEF Excused, NetCross
<1>6. \A n \in Nets : row'[n] = IF n = m /\ Erasable(c) THEN NoNet ELSE row[n]
  BY <1>4 DEF NetTypes
<1>7. PICK d \in NetRequests : /\ netCall' = [netCall EXCEPT ![s] = d] /\ UNCHANGED netCalls /\ d.op # "assign"
                               /\ \A n \in Nets : Works(d, n) => Works(c, n)
                               /\ NetPromise(d, ctrl', row', netCrossed', Excused')
                               /\ \A u : ~Creates(d, u)
  <2>1. ASSUME NEW n \in c.todo, Go(s, [c EXCEPT !.net = n, !.todo = c.todo \ {n}, !.stage = "deauthorise"])
        PROVE  \E d \in NetRequests : /\ netCall' = [netCall EXCEPT ![s] = d] /\ UNCHANGED netCalls /\ d.op # "assign"
                                      /\ \A k \in Nets : Works(d, k) => Works(c, k)
                                      /\ NetPromise(d, ctrl', row', netCrossed', Excused')
                                      /\ \A u : ~Creates(d, u)
    <3> DEFINE d == NextOf(c, n)
    <3>1. /\ d \in NetRequests /\ d.op = "delete" /\ d.net = n /\ d.stage = "deauthorise" /\ d.todo = c.todo \ {n}
          /\ d.org = c.org /\ d.override = c.override /\ d.by = c.by
      BY <1>2, <2>1, RequestMoved
    <3>2. netCall' = [netCall EXCEPT ![s] = d] /\ UNCHANGED netCalls
      BY <2>1, Zenon DEF Go, NextOf
    <3> HIDE DEF d
    <3>3. \A k \in Nets : Works(d, k) => Works(c, k)
      BY <1>2, <2>1, <3>1 DEF Works
    <3>4. NetPromise(d, ctrl', row', netCrossed', Excused')
      BY <1>2, <1>3, <1>5, <1>6, <3>1, <3>3 DEF NetPromise, Mine
    <3> QED BY <3>1, <3>2, <3>3, <3>4 DEF Creates
  <2>2. ASSUME Go(s, [op |-> "deleteOrg", net |-> NoNet])
        PROVE  \E d \in NetRequests : /\ netCall' = [netCall EXCEPT ![s] = d] /\ UNCHANGED netCalls /\ d.op # "assign"
                                      /\ \A k \in Nets : Works(d, k) => Works(c, k)
                                      /\ NetPromise(d, ctrl', row', netCrossed', Excused')
                                      /\ \A u : ~Creates(d, u)
    <3> DEFINE d == [op |-> "deleteOrg", net |-> NoNet]
    <3>1. d \in NetRequests /\ d.op = "deleteOrg" /\ (\A k \in Nets : ~Works(d, k)) /\ \A u : ~Creates(d, u)
      BY NoNetIsNothing DEF NetRequests, NetDeleteOrg, Works, Creates
    <3>2. NetPromise(d, ctrl', row', netCrossed', Excused')
      BY DEF NetPromise
    <3> QED BY <2>2, <3>1, <3>2 DEF Go
  <2>3. ASSUME Go(s, NetIdle)
        PROVE  \E d \in NetRequests : /\ netCall' = [netCall EXCEPT ![s] = d] /\ UNCHANGED netCalls /\ d.op # "assign"
                                      /\ \A k \in Nets : Works(d, k) => Works(c, k)
                                      /\ NetPromise(d, ctrl', row', netCrossed', Excused')
                                      /\ \A u : ~Creates(d, u)
    <3>1. \A u : ~Creates(NetIdle, u)
      BY NetVacant DEF Creates
    <3>2. netCall' = [netCall EXCEPT ![s] = NetIdle] /\ UNCHANGED netCalls
      BY <2>3 DEF Go
    <3> QED BY <3>1, <3>2, NetVacant
  <2>4. \/ \E n \in c.todo : Go(s, [c EXCEPT !.net = n, !.todo = c.todo \ {n}, !.stage = "deauthorise"])
        \/ Go(s, [op |-> "deleteOrg", net |-> NoNet])
        \/ Go(s, NetIdle)
    <3>1. \/ \E n \in c.todo : Go(s, [c EXCEPT !.net = n, !.todo = c.todo \ {n}, !.stage = "deauthorise"])
          \/ Go(s, IF c.last THEN [op |-> "deleteOrg", net |-> NoNet] ELSE NetIdle)
      BY <1>1, Zenon DEF DeleteErases
    <3> QED BY <3>1, Zenon
  <2> QED BY <2>1, <2>2, <2>3, <2>4, Zenon
<1>8. m \notin Excused' => NetOK(m)'
  <2> SUFFICES ASSUME m \notin Excused' PROVE NetOK(m)'
    OBVIOUS
  <2>1. m \notin Excused /\ ~\E t \in NetSlots : netCall'[t].op = "assign" /\ netCall'[t].net = m
    BY <1>1, <1>2, <1>4, <1>7, Alone
  <2>2. ctrl[m] = NoNet /\ (row[m] # NoNet => Mine(c, row[m]))
    BY <1>2, <1>3, <2>1 DEF NetPromise
  <2>3. row'[m] = NoNet
    BY <1>2, <1>6, <2>2 DEF Erasable, Mine, Exists
  <2> QED BY <1>4, <2>1, <2>2, <2>3 DEF NetOK, Exists, OnController
<1>9. LimitOK'
  <2>1. \A n \in Nets : row'[n] # NoNet => row[n] # NoNet /\ row'[n].author = row[n].author
    BY <1>6
  <2> QED BY <1>4, <1>7, <2>1, LimitKept DEF NetTypes
<1>10. /\ \A n \in Nets \ {m} : ctrl'[n] = ctrl[n] /\ row'[n] = row[n] /\ wanted'[n] = wanted[n]
       /\ row'[m] # NoNet => (row'[m].author \in NetUsers) # row'[m].org
       /\ ctrl' \in [Nets -> ControllerNetworks \cup {NoNet}] /\ wanted' \in [Nets -> SUBSET Modes]
       /\ row' \in [Nets -> NetworkRows \cup {NoNet}]
  BY <1>2, <1>4, <1>6 DEF NetTypes, OneOwner, Exists
<1> HIDE DEF NetInv
<1> QED BY <1>1, <1>3, <1>4, <1>7, <1>8, <1>9, <1>10, NetWriteStep

(* The organisation goes, and takes the rows left with it (deleteOrg).      *)
LEMMA OrgNetsStep ==
    ASSUME NetInv, NEW s \in NetSlots, DeleteOrgNetsCommit(s) PROVE NetInv'
<1> USE DEF NetInv
<1>1. /\ netCall[s].op = "deleteOrg" /\ netCall' = [netCall EXCEPT ![s] = NetIdle]
      /\ row' = [n \in Nets |-> IF n \in OrgNets THEN NoNet ELSE row[n]] /\ netCrossed' = netCrossed \cup OrgNets
      /\ UNCHANGED <<ctrl, drawn, netCalls, stray, wanted, raced>>
  BY DEF DeleteOrgNetsCommit, Go
<1>2. \A t \in NetSlots : netCall'[t] = IF t = s THEN NetIdle ELSE netCall[t]
  BY <1>1 DEF NetTypes
<1>3. \A n \in Nets : row'[n] = IF n \in OrgNets THEN NoNet ELSE row[n]
  BY <1>1
<1>4. NetTypes'
  BY <1>1, NetVacant DEF NetTypes, OrgNets
<1>5. Undrawn' /\ OneOwner'
  BY <1>1, <1>2, <1>3, NetVacant DEF Undrawn, OneOwner, Exists
<1>6. Excused \subseteq Excused' /\ netCrossed' \subseteq Excused' /\ netCrossed \subseteq netCrossed' /\ OrgNets \subseteq netCrossed'
  BY <1>1 DEF Excused
<1>7. NetPromises'
  <2> SUFFICES ASSUME NEW t \in NetSlots PROVE NetPromise(netCall'[t], ctrl', row', netCrossed', Excused')
    BY DEF NetPromises
  <2>1. CASE t = s
    BY <1>2, <2>1, NetVacant
  <2>2. CASE t # s
    <3>1. PICK e \in NetRequests : e = netCall[t]
      BY DEF NetTypes
    <3>2. NetPromise(e, ctrl, row, netCrossed, Excused)
      BY <3>1 DEF NetPromises
    <3>3. \A n \in Nets : n \in netCrossed' \/ (ctrl'[n] = ctrl[n] /\ row'[n] = row[n])
      BY <1>1, <1>3, <1>6
    <3>4. NetPromise(e, ctrl', row', netCrossed', Excused')
      BY <1>6, <3>2, <3>3, NetPromiseStays
    <3> QED BY <1>2, <2>2, <3>1, <3>4
  <2> QED BY <2>1, <2>2
<1>8. NetsOK'
  <2> SUFFICES ASSUME NEW n \in Nets \ Excused' PROVE NetOK(n)'
    BY DEF NetsOK
  <2>1. NetOK(n) /\ row'[n] = row[n]
    BY <1>3, <1>6 DEF NetsOK
  <2>2. \A t \in NetSlots : /\ Making(netCall[t], n) => Making(netCall'[t], n)
                            /\ Erasing(netCall[t], n) => Erasing(netCall'[t], n)
                            /\ Storing(netCall[t], n) => Storing(netCall'[t], n)
    BY <1>1, <1>2 DEF Making, Erasing, Storing
  <2>3. (\E t \in NetSlots : netCall'[t].op = "assign" /\ netCall'[t].net = n) => \E t \in NetSlots : Making(netCall[t], n)
    BY <1>2, <2>1, NetVacant DEF NetOK
  <2> QED BY <1>1, <2>1, <2>2, <2>3 DEF NetOK, Exists, OnController
<1>9. LimitOK'
  <2>1. \A u \in NetUsers : ~Creates(NetIdle, u)
    BY NetVacant DEF Creates
  <2>2. \A n \in Nets : row'[n] # NoNet => row[n] # NoNet /\ row'[n].author = row[n].author
    BY <1>3
  <2> QED BY <1>1, <2>1, <2>2, LimitKept DEF NetTypes
<1> QED BY <1>4, <1>5, <1>7, <1>8, <1>9

(* The controller stores a name, rules or a setting (network_update).       *)
LEMMA PostStep ==
    ASSUME NetInv, NEW s \in NetSlots, UpdatePosts(s) PROVE NetInv'
<1> USE DEF NetInv
<1>1. PICK c \in NetRequests : c = netCall[s]
  BY DEF NetTypes
<1>2. c \in NetEdit /\ c.op = "edit" /\ ~c.posted /\ c.net \in Nets /\ c.field \in {"name", "rules", "setting"} /\ c.value \in Nat
  BY <1>1, NetKinds DEF UpdatePosts, NetEdit
<1> DEFINE m == c.net
<1>3. Works(c, m) /\ m \in drawn
  BY <1>1, <1>2, DrawnWork DEF Works
<1>4. CASE NetRefused(s)
  BY <1>1, <1>2, <1>4, NetRefusedStep DEF Making, Erasing, Storing
<1>5. CASE ~NetRefused(s)
  <2>1. /\ ctrl' = [ctrl EXCEPT ![m] = IF OnController(m) THEN [ctrl[m] EXCEPT ![c.field] = c.value] ELSE Recreated(c)]
        /\ NetCross(s, m) /\ stray' = IF OnController(m) THEN stray ELSE stray \cup {m}
        /\ Go(s, IF c.field = "setting" THEN NetIdle ELSE [c EXCEPT !.posted = TRUE])
        /\ UNCHANGED <<row, drawn, wanted, raced>>
    BY <1>1, <1>5, Zenon DEF UpdatePosts
  <2>2. PICK w \in ControllerNetworks :
            /\ w = IF OnController(m) THEN [ctrl[m] EXCEPT ![c.field] = c.value] ELSE Recreated(c)
            /\ OnController(m) => /\ w.v6 = ctrl[m].v6
                                  /\ w.name = IF c.field = "name" THEN c.value ELSE ctrl[m].name
                                  /\ w.rules = IF c.field = "rules" THEN c.value ELSE ctrl[m].rules
    <3>1. CASE OnController(m)
      <4>1. PICK x \in ControllerNetworks : x = ctrl[m]
        BY <1>2, <3>1 DEF OnController, NetTypes
      <4> DEFINE w == [x EXCEPT ![c.field] = c.value]
      <4>2. /\ w \in ControllerNetworks /\ w.v6 = x.v6
            /\ w.name = IF c.field = "name" THEN c.value ELSE x.name
            /\ w.rules = IF c.field = "rules" THEN c.value ELSE x.rules
        BY <1>2, NetworkField
      <4>3. w = [ctrl[m] EXCEPT ![c.field] = c.value]
        BY <4>1
      <4> HIDE DEF w
      <4> QED BY <3>1, <4>1, <4>2, <4>3, Zenon
    <3>2. CASE ~OnController(m)
      <4>1. Recreated(c) \in ControllerNetworks
        BY <1>2, FreshNetwork, NetworkField DEF Recreated
      <4> QED BY <3>2, <4>1, Zenon
    <3> QED BY <3>1, <3>2, Zenon
  <2>3. ctrl' = [ctrl EXCEPT ![m] = w]
    BY <2>1, <2>2, Zenon
  <2>4. \A n \in Nets : ctrl'[n] = IF n = m THEN w ELSE ctrl[n]
    BY <2>3 DEF NetTypes
  <2>5. PICK d \in NetRequests : /\ netCall' = [netCall EXCEPT ![s] = d]
                                 /\ c.field = "setting" => d = NetIdle
                                 /\ c.field # "setting" => d.op = "edit" /\ d.net = m /\ d.posted /\ d.field = c.field
                                                           /\ d.value = c.value
    <3>1. CASE c.field = "setting"
      BY <2>1, <3>1, NetVacant DEF Go
    <3>2. CASE c.field # "setting"
      <4> DEFINE d == [c EXCEPT !.posted = TRUE]
      <4>1. d \in NetRequests /\ d.op = "edit" /\ d.net = m /\ d.posted /\ d.field = c.field /\ d.value = c.value
        BY <1>2, RequestPosted, Zenon
      <4>2. netCall' = [netCall EXCEPT ![s] = d]
        BY <2>1, <3>2, Zenon DEF Go
      <4> HIDE DEF d
      <4> QED BY <3>2, <4>1, <4>2
    <3> QED BY <3>1, <3>2
  <2>6. UNCHANGED netCalls /\ w # NoNet
    BY <2>1, NetworkKinds DEF Go
  <2>7. d.op # "assign" /\ (\A n \in Nets : Works(d, n) => Works(netCall[s], n)) /\ \A u : ~Creates(d, u)
    BY <1>1, <1>2, <2>5, NetVacant DEF Works, Creates
  <2>8. m \notin Excused' => /\ OnController(m) /\ w.v6 = wanted[m] /\ row'[m] = row[m]
                             /\ (IF c.field = "setting" THEN Agree(w, row[m]) ELSE HalfStored(c, w, row[m]))
                             /\ Exists(m)
                             /\ ~\E t \in NetSlots : netCall'[t].op = "assign" /\ netCall'[t].net = m
    <3> SUFFICES ASSUME m \notin Excused'
                 PROVE  /\ OnController(m) /\ w.v6 = wanted[m] /\ row'[m] = row[m]
                        /\ (IF c.field = "setting" THEN Agree(w, row[m]) ELSE HalfStored(c, w, row[m]))
                        /\ Exists(m)
                        /\ ~\E t \in NetSlots : netCall'[t].op = "assign" /\ netCall'[t].net = m
      OBVIOUS
    <3>1. OnController(m)
      BY <2>1 DEF Excused
    <3>2. stray \subseteq stray'
      BY <2>1
    <3>3. /\ OnController(m) /\ ~Exists(m) => Making(c, m)
          /\ Exists(m) /\ OnController(m) => Agree(ctrl[m], row[m]) \/ Storing(c, m)
          /\ OnController(m) => ctrl[m].v6 = wanted[m]
          /\ ~\E t \in NetSlots : netCall'[t].op = "assign" /\ netCall'[t].net = m
      BY <1>1, <1>2, <2>1, <2>5, <2>7, <3>2, Alone
    <3>4. ~Making(c, m) /\ ~Storing(c, m)
      BY <1>2 DEF Making, Storing
    <3> QED BY <1>2, <2>1, <2>2, <3>1, <3>3, <3>4 DEF Agree, HalfStored
  <2>9. NetPromise(d, ctrl', row', netCrossed', Excused')
    <3>1. CASE c.field = "setting"
      BY <2>5, <3>1, NetVacant
    <3>2. CASE c.field # "setting"
      BY <1>2, <2>4, <2>5, <2>8, <3>2 DEF NetPromise, HalfStored
    <3> QED BY <3>1, <3>2
  <2>10. m \notin Excused' => NetOK(m)'
    <3> SUFFICES ASSUME m \notin Excused' PROVE NetOK(m)'
      OBVIOUS
    <3>1. ctrl'[m] = w /\ row'[m] = row[m] /\ wanted'[m] = wanted[m] /\ w # NoNet /\ row[m] # NoNet
      BY <1>2, <2>1, <2>4, <2>6, <2>8 DEF Exists
    <3>2. Agree(w, row[m]) \/ Storing(netCall'[s], m)
      BY <2>5, <2>8 DEF Storing, NetTypes
    <3> QED BY <2>8, <3>1, <3>2 DEF NetOK, Exists, OnController
  <2>11. LimitOK'
    BY <2>1, <2>5, <2>7, LimitKept DEF NetTypes
  <2>12. /\ \A n \in Nets \ {m} : ctrl'[n] = ctrl[n] /\ row'[n] = row[n] /\ wanted'[n] = wanted[n]
         /\ row'[m] # NoNet => (row'[m].author \in NetUsers) # row'[m].org
         /\ ctrl' \in [Nets -> ControllerNetworks \cup {NoNet}] /\ wanted' \in [Nets -> SUBSET Modes]
         /\ row' \in [Nets -> NetworkRows \cup {NoNet}] /\ stray \subseteq stray' /\ stray' \subseteq stray \cup {m}
    BY <1>2, <2>1, <2>3, <2>4 DEF NetTypes, OneOwner, Exists
  <2> HIDE DEF NetInv
  <2> QED BY <1>1, <1>3, <2>1, <2>5, <2>6, <2>7, <2>9, <2>10, <2>11, <2>12, NetWriteStep
<1> QED BY <1>4, <1>5

(* The row stores the name or the rules as well (networkName, setFlowRule). *)
LEMMA StoreStep ==
    ASSUME NetInv, NEW s \in NetSlots, UpdateStores(s) PROVE NetInv'
<1> USE DEF NetInv
<1>1. PICK c \in NetRequests : c = netCall[s]
  BY DEF NetTypes
<1>2. c \in NetEdit /\ c.op = "edit" /\ c.posted /\ c.net \in Nets /\ c.value \in Nat /\ c.field \in {"name", "rules", "setting"}
  BY <1>1, NetKinds DEF UpdateStores, NetEdit
<1> DEFINE m == c.net
<1>3. Works(c, m) /\ m \in drawn /\ NetPromise(c, ctrl, row, netCrossed, Excused)
  BY <1>1, <1>2, DrawnWork DEF Works, NetPromises
<1>4. c.field \in {"name", "rules"}
  BY <1>2, <1>3 DEF NetPromise
<1>5. CASE ~Exists(m)
  <2>1. NetRefused(s)
    BY <1>1, <1>5, Zenon DEF UpdateStores
  <2>2. \A n \in Nets : Storing(netCall[s], n) => row[n] = NoNet
    BY <1>1, <1>5 DEF Storing, Exists
  <2> QED BY <1>1, <1>2, <2>1, <2>2, NetRefusedStep DEF Making, Erasing
<1>6. CASE Exists(m)
  <2>1. /\ row' = [row EXCEPT ![m] = [row[m] EXCEPT ![c.field] = c.value]] /\ NetCross(s, m) /\ Go(s, NetIdle)
        /\ UNCHANGED <<ctrl, drawn, stray, wanted, raced>>
    BY <1>1, <1>6, Zenon DEF UpdateStores
  <2>2. PICK r \in NetworkRows : r = row[m]
    BY <1>2, <1>6 DEF Exists, NetTypes
  <2>3. PICK w \in NetworkRows : /\ w = [r EXCEPT ![c.field] = c.value] /\ w.author = r.author /\ w.org = r.org
                                 /\ w.name = IF c.field = "name" THEN c.value ELSE r.name
                                 /\ w.rules = IF c.field = "rules" THEN c.value ELSE r.rules
    <3> DEFINE w == [r EXCEPT ![c.field] = c.value]
    <3>1. /\ w \in NetworkRows /\ w.author = r.author /\ w.org = r.org
          /\ w.name = IF c.field = "name" THEN c.value ELSE r.name
          /\ w.rules = IF c.field = "rules" THEN c.value ELSE r.rules
      BY <1>2, <1>4, RowField
    <3> QED BY <3>1, Zenon
  <2>4. row' = [row EXCEPT ![m] = w]
    BY <2>1, <2>2, <2>3, Zenon
  <2>5. \A n \in Nets : row'[n] = IF n = m THEN w ELSE row[n]
    BY <2>4 DEF NetTypes
  <2>6. netCall' = [netCall EXCEPT ![s] = NetIdle] /\ UNCHANGED netCalls /\ w # NoNet
    BY <2>1, RowKept DEF Go
  <2>7. NetIdle.op # "assign" /\ (\A n \in Nets : Works(NetIdle, n) => Works(netCall[s], n)) /\ \A u : ~Creates(NetIdle, u)
    BY NetVacant DEF Creates
  <2>8. m \notin Excused' => NetOK(m)'
    <3> SUFFICES ASSUME m \notin Excused' PROVE NetOK(m)'
      OBVIOUS
    <3>1. /\ m \notin Excused
          /\ Exists(m) /\ ~OnController(m) => Erasing(c, m)
          /\ OnController(m) => ctrl[m].v6 = wanted[m]
          /\ ~\E t \in NetSlots : netCall'[t].op = "assign" /\ netCall'[t].net = m
      BY <1>1, <1>2, <2>1, <2>6, <2>7, NetVacant, Alone
    <3>2. OnController(m)
      BY <1>2, <1>6, <3>1 DEF Erasing
    <3>3. HalfStored(c, ctrl[m], r)
      BY <1>2, <1>3, <1>6, <2>2, <3>1, <3>2 DEF NetPromise, Exists, OnController
    <3>4. Agree(ctrl[m], w)
      BY <1>4, <2>3, <3>3 DEF Agree, HalfStored
    <3> QED BY <1>2, <2>1, <2>5, <2>6, <3>1, <3>2, <3>4 DEF NetOK, Exists, OnController
  <2>9. LimitOK'
    <3>1. \A n \in Nets : row'[n] # NoNet => row[n] # NoNet /\ row'[n].author = row[n].author
      BY <1>6, <2>2, <2>3, <2>5 DEF Exists
    <3> QED BY <2>1, <2>6, <2>7, <3>1, LimitKept DEF NetTypes
  <2>10. /\ \A n \in Nets \ {m} : ctrl'[n] = ctrl[n] /\ row'[n] = row[n] /\ wanted'[n] = wanted[n]
         /\ row'[m] # NoNet => (row'[m].author \in NetUsers) # row'[m].org
         /\ ctrl' \in [Nets -> ControllerNetworks \cup {NoNet}] /\ wanted' \in [Nets -> SUBSET Modes]
         /\ row' \in [Nets -> NetworkRows \cup {NoNet}]
    BY <1>2, <1>6, <2>1, <2>2, <2>3, <2>4, <2>5 DEF NetTypes, OneOwner, Exists
  <2>11. NetPromise(NetIdle, ctrl', row', netCrossed', Excused')
    BY NetVacant
  <2> HIDE DEF NetInv
  <2> QED BY <1>1, <1>3, <2>1, <2>6, <2>7, <2>8, <2>9, <2>10, <2>11, NetVacant, NetWriteStep
<1> QED BY <1>5, <1>6

(* The IPv6 modes of the network are read (ipv6).                           *)
LEMMA ReadStep ==
    ASSUME NetInv, NEW s \in NetSlots, Ipv6Reads(s) PROVE NetInv'
<1> USE DEF NetInv
<1>1. PICK c \in NetRequests : c = netCall[s]
  BY DEF NetTypes
<1>2. c \in NetIpv6 /\ c.op = "ipv6" /\ c.net \in Nets
  BY <1>1, NetKinds DEF Ipv6Reads
<1> DEFINE m == c.net
<1>3. Works(c, m) /\ m \in drawn
  BY <1>1, <1>2, DrawnWork DEF Works
<1>4. \A n \in Nets : ~Making(netCall[s], n) /\ ~Erasing(netCall[s], n) /\ ~Storing(netCall[s], n)
  BY <1>1, <1>2 DEF Making, Erasing, Storing
<1>5. CASE NetRefused(s)
  BY <1>4, <1>5, NetRefusedStep
<1>6. CASE ~NetRefused(s)
  <2>1. OnController(m) /\ Go(s, [c EXCEPT !.read = ctrl[m].v6]) /\ UNCHANGED <<data, netHistory>>
    BY <1>1, <1>6, Zenon DEF Ipv6Reads
  <2>2. PICK x \in ControllerNetworks : x = ctrl[m] /\ x.v6 \in SUBSET Modes
    BY <1>2, <2>1, NetworkKinds DEF OnController, NetTypes
  <2>3. PICK d \in NetRequests : d = [c EXCEPT !.read = x.v6] /\ d.op = "ipv6" /\ d.net = m /\ d.read = x.v6
    BY <1>2, <2>2, RequestRead, Zenon
  <2>4. netCall' = [netCall EXCEPT ![s] = d] /\ UNCHANGED netCalls
    BY <2>1, <2>2, <2>3, Zenon DEF Go
  <2>5. NetPromise(d, ctrl, row, netCrossed, Excused)
    BY <2>2, <2>3 DEF NetPromise
  <2>6. d.op # "assign" /\ (\A n \in Nets : Works(d, n) => n \in drawn) /\ \A u : ~Creates(d, u)
    BY <1>3, <2>3 DEF Works, Creates
  <2>7. netCalls' \in Nat
    BY <2>4 DEF NetTypes
  <2> HIDE DEF NetInv
  <2> QED BY <1>4, <2>1, <2>4, <2>5, <2>6, <2>7, NetCallStep
<1> QED BY <1>5, <1>6

(* The IPv6 modes are stored with the one that was asked for (ipv6).        *)
LEMMA Ipv6Step ==
    ASSUME NetInv, NEW s \in NetSlots, Ipv6Posts(s) PROVE NetInv'
<1> USE DEF NetInv
<1>1. PICK c \in NetRequests : c = netCall[s]
  BY DEF NetTypes
<1>2. c \in NetIpv6 /\ c.op = "ipv6" /\ c.net \in Nets /\ c.mode \in Modes /\ c.read \in SUBSET Modes /\ c.read # NoNet
  BY <1>1, NetKinds DEF Ipv6Posts, NetIpv6
<1> DEFINE m == c.net
<1>3. Works(c, m) /\ m \in drawn /\ NetPromise(c, ctrl, row, netCrossed, Excused)
  BY <1>1, <1>2, DrawnWork DEF Works, NetPromises
<1>4. CASE NetRefused(s)
  BY <1>1, <1>2, <1>4, NetRefusedStep DEF Making, Erasing, Storing
<1>5. CASE ~NetRefused(s)
  <2>1. /\ ctrl' = [ctrl EXCEPT ![m] = [IF OnController(m) THEN ctrl[m] ELSE Fresh EXCEPT !.v6 = Merged(c, c.read)]]
        /\ wanted' = [wanted EXCEPT ![m] = IF c.on THEN wanted[m] \cup {c.mode} ELSE wanted[m] \ {c.mode}]
        /\ NetCross(s, m) /\ stray' = IF OnController(m) THEN stray ELSE stray \cup {m}
        /\ Go(s, NetIdle) /\ UNCHANGED <<row, drawn, raced>>
    BY <1>1, <1>5, Zenon DEF Ipv6Posts
  <2>2. PICK x \in ControllerNetworks : x = IF OnController(m) THEN ctrl[m] ELSE Fresh
    BY <1>2, FreshNetwork DEF OnController, NetTypes
  <2>3. Merged(c, c.read) \in SUBSET Modes
    BY <1>2 DEF Merged
  <2>4. PICK w \in ControllerNetworks : /\ w = [x EXCEPT !.v6 = Merged(c, c.read)]
                                        /\ w.name = x.name /\ w.rules = x.rules /\ w.v6 = Merged(c, c.read)
    BY <2>3, NetworkModes, Zenon
  <2>5. ctrl' = [ctrl EXCEPT ![m] = w]
    BY <2>1, <2>2, <2>4, Zenon
  <2>6. \A n \in Nets : ctrl'[n] = IF n = m THEN w ELSE ctrl[n]
    BY <2>5 DEF NetTypes
  <2>7. netCall' = [netCall EXCEPT ![s] = NetIdle] /\ UNCHANGED netCalls /\ w # NoNet
    BY <2>1, NetworkKinds DEF Go
  <2>8. NetIdle.op # "assign" /\ (\A n \in Nets : Works(NetIdle, n) => Works(netCall[s], n)) /\ \A u : ~Creates(NetIdle, u)
    BY NetVacant DEF Creates
  <2>9. wanted[m] \in SUBSET Modes /\ wanted' \in [Nets -> SUBSET Modes]
        /\ \A n \in Nets : wanted'[n] = IF n # m THEN wanted[n]
                                        ELSE IF c.on THEN wanted[m] \cup {c.mode} ELSE wanted[m] \ {c.mode}
    <3>1. wanted[m] \in SUBSET Modes
      BY <1>2 DEF NetTypes
    <3>2. (IF c.on THEN wanted[m] \cup {c.mode} ELSE wanted[m] \ {c.mode}) \in SUBSET Modes
      BY <1>2, <3>1
    <3> QED BY <1>2, <2>1, <3>1, <3>2 DEF NetTypes
  <2>10. m \notin Excused' => NetOK(m)'
    <3> SUFFICES ASSUME m \notin Excused' PROVE NetOK(m)'
      OBVIOUS
    <3>1. OnController(m) /\ stray \subseteq stray'
      BY <2>1 DEF Excused
    <3>2. /\ m \notin Excused
          /\ OnController(m) /\ ~Exists(m) => Making(c, m)
          /\ Exists(m) /\ OnController(m) => Agree(ctrl[m], row[m]) \/ Storing(c, m)
          /\ OnController(m) => ctrl[m].v6 = wanted[m]
          /\ ~\E t \in NetSlots : netCall'[t].op = "assign" /\ netCall'[t].net = m
      BY <1>1, <1>2, <2>1, <2>7, <2>8, <3>1, NetVacant, Alone
    <3>3. ~Making(c, m) /\ ~Storing(c, m)
      BY <1>2 DEF Making, Storing
    <3>4. c.read = ctrl[m].v6
      BY <1>2, <1>3, <3>1, <3>2 DEF NetPromise, OnController
    <3>5. w.v6 = wanted'[m]
      BY <1>2, <2>4, <2>9, <3>1, <3>2, <3>4 DEF Merged
    <3>6. Agree(w, row[m]) /\ Exists(m)
      BY <2>2, <2>4, <3>1, <3>2, <3>3 DEF Agree
    <3> QED BY <1>2, <2>1, <2>6, <2>7, <3>2, <3>5, <3>6 DEF NetOK, Exists, OnController
  <2>11. LimitOK'
    BY <2>1, <2>7, <2>8, LimitKept DEF NetTypes
  <2>12. /\ \A n \in Nets \ {m} : ctrl'[n] = ctrl[n] /\ row'[n] = row[n] /\ wanted'[n] = wanted[n]
         /\ row'[m] # NoNet => (row'[m].author \in NetUsers) # row'[m].org
         /\ ctrl' \in [Nets -> ControllerNetworks \cup {NoNet}]
         /\ row' \in [Nets -> NetworkRows \cup {NoNet}] /\ stray \subseteq stray' /\ stray' \subseteq stray \cup {m}
    BY <1>2, <2>1, <2>5, <2>6, <2>9 DEF NetTypes, OneOwner, Exists
  <2>13. NetPromise(NetIdle, ctrl', row', netCrossed', Excused')
    BY NetVacant
  <2> HIDE DEF NetInv
  <2> QED BY <1>1, <1>3, <2>1, <2>7, <2>8, <2>9, <2>10, <2>11, <2>12, <2>13, NetVacant, NetWriteStep
<1> QED BY <1>4, <1>5

(* An administrator gives a network that only the controller knows an owner *)
(* and a row (assignNetworkToUser).                                         *)
LEMMA AssignStep ==
    ASSUME NetInv, NEW s \in NetSlots, AssignStores(s) PROVE NetInv'
<1> USE DEF NetInv
<1>1. PICK c \in NetRequests : c = netCall[s]
  BY DEF NetTypes
<1>2. c \in NetAssign /\ c.op = "assign" /\ c.net \in Nets /\ c.name \in Nat
  BY <1>1, NetKinds DEF AssignStores, NetAssign
<1> DEFINE m == c.net
<1>3. Works(c, m) /\ m \in drawn
  BY <1>1, <1>2, DrawnWork DEF Works
<1>4. CASE NetRefused(s)
  BY <1>1, <1>2, <1>4, NetRefusedStep DEF Making, Erasing, Storing
<1>5. CASE ~NetRefused(s)
  <2> DEFINE r == [author |-> Admin, org |-> FALSE, name |-> c.name, rules |-> 0]
  <2>1. /\ row' = [row EXCEPT ![m] = r] /\ NetCross(s, m) /\ Go(s, NetIdle) /\ ~Exists(m)
        /\ UNCHANGED <<ctrl, drawn, stray, wanted, raced>>
    BY <1>1, <1>5 DEF AssignStores
  <2>2. r \in NetworkRows /\ r # NoNet /\ (r.author \in NetUsers) /\ ~r.org /\ r.author = Admin
    <3>1. r \in NetworkRows
      BY <1>2, AdminIsUser DEF NetworkRows
    <3>2. r.author = Admin /\ r.org = FALSE
      OBVIOUS
    <3> HIDE DEF r
    <3> QED BY <3>1, <3>2, AdminIsUser, RowKept
  <2> HIDE DEF r
  <2>3. \A n \in Nets : row'[n] = IF n = m THEN r ELSE row[n]
    BY <2>1 DEF NetTypes
  <2>4. netCall' = [netCall EXCEPT ![s] = NetIdle] /\ UNCHANGED netCalls
    BY <2>1 DEF Go
  <2>5. NetIdle.op # "assign" /\ (\A n \in Nets : Works(NetIdle, n) => Works(netCall[s], n)) /\ \A u : ~Creates(NetIdle, u)
    BY NetVacant DEF Creates
  <2>6. m \in Excused'
    <3> SUFFICES ASSUME m \notin Excused' PROVE FALSE
      OBVIOUS
    <3>1. netCall[s].op # "assign" \/ netCall[s].net # m
      BY <1>2, <2>1, <2>4, <2>5, NetVacant, Alone
    <3> QED BY <1>1, <1>2, <3>1
  <2>7. LimitOK'
    <3>1. \A u \in NetUsers \ {Admin} : Authored(u)' \subseteq Authored(u)
      BY <2>2, <2>3 DEF Authored, Exists
    <3>2. \A u \in NetUsers \ {Admin}, t \in NetSlots : Creates(netCall'[t], u) => Creates(netCall[t], u)
      BY <2>4, <2>5 DEF NetTypes
    <3> QED BY <2>1, <3>1, <3>2, LimitStays
  <2>8. /\ \A n \in Nets \ {m} : ctrl'[n] = ctrl[n] /\ row'[n] = row[n] /\ wanted'[n] = wanted[n]
        /\ row'[m] # NoNet => (row'[m].author \in NetUsers) # row'[m].org
        /\ ctrl' \in [Nets -> ControllerNetworks \cup {NoNet}] /\ wanted' \in [Nets -> SUBSET Modes]
        /\ row' \in [Nets -> NetworkRows \cup {NoNet}]
    BY <1>2, <2>1, <2>2, <2>3 DEF NetTypes
  <2>9. NetPromise(NetIdle, ctrl', row', netCrossed', Excused')
    BY NetVacant
  <2> HIDE DEF NetInv
  <2> QED BY <1>1, <1>3, <2>1, <2>4, <2>5, <2>6, <2>7, <2>8, <2>9, NetVacant, NetWriteStep
<1> QED BY <1>4, <1>5

(* Something other than the requests changes one network, and keeps its     *)
(* name and rules.                                                          *)
LEMMA OutsideStep ==
    ASSUME NetInv, NEW m \in Nets, netCrossed' = IF WorkedOn(m) THEN netCrossed \cup {m} ELSE netCrossed,
           UNCHANGED <<drawn, netCall, stray, wanted, raced>>, netCalls' \in Nat,
           ctrl' \in [Nets -> ControllerNetworks \cup {NoNet}], row' \in [Nets -> NetworkRows \cup {NoNet}],
           \A n \in Nets \ {m} : ctrl'[n] = ctrl[n] /\ row'[n] = row[n],
           (ctrl'[m] # NoNet <=> ctrl[m] # NoNet), row[m] # NoNet, row'[m] # NoNet,
           (row'[m].author \in NetUsers) # row'[m].org, row'[m].author \in {row[m].author, NoNet},
           row'[m].name = row[m].name /\ row'[m].rules = row[m].rules,
           ctrl[m] # NoNet => ctrl'[m].name = ctrl[m].name /\ ctrl'[m].rules = ctrl[m].rules /\ ctrl'[m].v6 = ctrl[m].v6
    PROVE  NetInv'
<1> USE DEF NetInv
<1>1. NetTypes'
  BY DEF NetTypes
<1>2. Undrawn' /\ OneOwner'
  BY DEF Undrawn, OneOwner, Exists
<1>3. Excused \subseteq Excused' /\ netCrossed' \subseteq Excused' /\ netCrossed \subseteq netCrossed'
  BY DEF Excused
<1>4. \A t \in NetSlots : Works(netCall[t], m) => m \in netCrossed'
  BY WorksIs DEF WorkedOn
<1>5. NetPromises'
  <2> SUFFICES ASSUME NEW t \in NetSlots PROVE NetPromise(netCall[t], ctrl', row', netCrossed', Excused')
    BY DEF NetPromises
  <2>1. PICK e \in NetRequests : e = netCall[t]
    BY DEF NetTypes
  <2>2. NetPromise(e, ctrl, row, netCrossed, Excused)
    BY <2>1 DEF NetPromises
  <2>3. \A n \in Nets : Works(e, n) => n \in netCrossed' \/ (ctrl'[n] = ctrl[n] /\ row'[n] = row[n])
    BY <1>4, <2>1
  <2>4. NetPromise(e, ctrl', row', netCrossed', Excused')
    BY <1>3, <2>2, <2>3, NetPromiseStays
  <2> QED BY <2>1, <2>4
<1>6. NetsOK'
  <2> SUFFICES ASSUME NEW n \in Nets \ Excused' PROVE NetOK(n)'
    BY DEF NetsOK
  <2>1. NetOK(n)
    BY <1>3 DEF NetsOK
  <2>2. CASE n # m
    BY <2>1, <2>2 DEF NetOK, Exists, OnController
  <2>3. CASE n = m
    BY <2>1, <2>3 DEF NetOK, Exists, OnController, Agree
  <2> QED BY <2>2, <2>3
<1>7. LimitOK'
  <2>1. \A u \in NetUsers : Authored(u)' \subseteq Authored(u)
    BY NoNetIsNothing DEF Authored, Exists
  <2> QED BY <2>1, LimitStays
<1> QED BY <1>1, <1>2, <1>5, <1>6, <1>7

(* A member is authorised.                                                  *)
LEMMA AuthoriseStep ==
    ASSUME NetInv, NEW n \in Nets, Authorise(n) PROVE NetInv'
<1> USE DEF NetInv
<1>1. PICK x \in ControllerNetworks : x = ctrl[n]
  BY DEF Authorise, OnController, NetTypes
<1>2. PICK w \in ControllerNetworks : w = [x EXCEPT !.auth = TRUE] /\ w.name = x.name /\ w.rules = x.rules /\ w.v6 = x.v6
  BY NetworkKinds, Zenon
<1>3. ctrl' = [ctrl EXCEPT ![n] = w]
  <2>1. ctrl' = [ctrl EXCEPT ![n].auth = TRUE]
    BY Zenon DEF Authorise
  <2> QED BY <1>1, <1>2, <2>1
<1>4. /\ netCrossed' = IF WorkedOn(n) THEN netCrossed \cup {n} ELSE netCrossed
      /\ row[n] # NoNet /\ UNCHANGED <<row, drawn, netCall, netCalls, stray, wanted, raced>>
  BY DEF Authorise, Exists
<1>5. \A m \in Nets : ctrl'[m] = IF m = n THEN w ELSE ctrl[m]
  BY <1>3 DEF NetTypes
<1>6. x # NoNet /\ w # NoNet
  BY NetworkKinds
<1>7. /\ ctrl' \in [Nets -> ControllerNetworks \cup {NoNet}] /\ row' \in [Nets -> NetworkRows \cup {NoNet}]
      /\ \A m \in Nets \ {n} : ctrl'[m] = ctrl[m] /\ row'[m] = row[m]
      /\ (row'[n].author \in NetUsers) # row'[n].org /\ netCalls' \in Nat
  BY <1>3, <1>4, <1>5 DEF NetTypes, OneOwner, Exists
<1> HIDE DEF NetInv
<1> QED BY <1>1, <1>2, <1>4, <1>5, <1>6, <1>7, OutsideStep

(* A network goes to the organisation (transferNetworkOwnership).           *)
LEMMA TransferStep ==
    ASSUME NetInv, NEW u \in NetUsers, NEW n \in Nets, TransferNetworkOwnership(u, n) PROVE NetInv'
<1> USE DEF NetInv
<1>1. PICK r \in NetworkRows : r = row[n]
  BY DEF TransferNetworkOwnership, Exists, NetTypes
<1>2. PICK w \in NetworkRows : w = TransferredRow(r) /\ w.author = NoNet /\ w.org /\ w.name = r.name /\ w.rules = r.rules
  BY RowTransferred, Zenon
<1>3. row' = [row EXCEPT ![n] = w]
  <2>1. row' = [row EXCEPT ![n].author = NoNet, ![n].org = TRUE]
    BY Zenon DEF TransferNetworkOwnership
  <2>2. row' = [row EXCEPT ![n] = TransferredRow(row[n])]
    BY <2>1 DEF TransferredRow, NetTypes
  <2> QED BY <1>1, <1>2, <2>2
<1>4. /\ netCrossed' = IF WorkedOn(n) THEN netCrossed \cup {n} ELSE netCrossed
      /\ UNCHANGED <<ctrl, drawn, netCall, stray, wanted, raced>> /\ netCalls' \in Nat
  BY DEF TransferNetworkOwnership, NetTypes
<1>5. \A m \in Nets : row'[m] = IF m = n THEN w ELSE row[m]
  BY <1>3 DEF NetTypes
<1>6. r # NoNet /\ w # NoNet /\ NoNet \notin NetUsers
  BY RowKept, NoNetIsNothing
<1>7. /\ ctrl' \in [Nets -> ControllerNetworks \cup {NoNet}] /\ row' \in [Nets -> NetworkRows \cup {NoNet}]
      /\ \A m \in Nets \ {n} : ctrl'[m] = ctrl[m] /\ row'[m] = row[m]
      /\ (row'[n].author \in NetUsers) # row'[n].org
  BY <1>2, <1>3, <1>4, <1>5, <1>6 DEF NetTypes
<1> HIDE DEF NetInv
<1> QED BY <1>1, <1>2, <1>4, <1>5, <1>6, <1>7, OutsideStep

----------------------------------------------------------------------------
(* The theorems                                                             *)

(* The initial network is on both sides with the same name and rules.       *)
LEMMA NetStart == ASSUME NetInit PROVE NetInv
<1>1. PICK there \in SUBSET Nets, u \in NetUsers, isOrg \in BOOLEAN :
        /\ Cardinality(there) <= 1 /\ drawn = there
        /\ isOrg \/ u = Admin \/ Cardinality(there) <= Limit
        /\ ctrl = [n \in Nets |-> IF n \in there THEN [Fresh EXCEPT !.auth = TRUE] ELSE NoNet]
        /\ row = [n \in Nets |-> IF n \in there THEN Owned(u, isOrg) ELSE NoNet]
        /\ orgLives = TRUE
        /\ netCall = [s \in NetSlots |-> NetIdle]
        /\ netCalls = 0 /\ netFaults = 0
        /\ stray = {} /\ netCrossed = {} /\ raced = {} /\ wanted = [n \in Nets |-> {}]
  BY DEF NetInit
<1>2. PICK x \in ControllerNetworks : x = [Fresh EXCEPT !.auth = TRUE] /\ x.name = 0 /\ x.rules = 0 /\ x.v6 = {}
  <2> DEFINE e == [Fresh EXCEPT !.auth = TRUE]
  <2>1. e \in ControllerNetworks /\ e.name = Fresh.name /\ e.rules = Fresh.rules /\ e.v6 = Fresh.v6
    BY FreshNetwork, NetworkAuthorised, Zenon
  <2> HIDE DEF e
  <2>2. e.name = 0 /\ e.rules = 0 /\ e.v6 = {}
    BY <2>1, FreshNetwork, Zenon
  <2> QED BY <2>1, <2>2, Zenon DEF e
<1> DEFINE r == Owned(u, isOrg)
<1>3. r \in NetworkRows /\ r.author = (IF isOrg THEN NoNet ELSE u) /\ r.org = isOrg /\ r.name = 0 /\ r.rules = 0
  BY DEF NetworkRows, Owned
<1> HIDE DEF r
<1>4. ctrl = [n \in Nets |-> IF n \in there THEN x ELSE NoNet] /\ row = [n \in Nets |-> IF n \in there THEN r ELSE NoNet]
  BY <1>1, <1>2, Zenon DEF r
<1>5. \A n \in Nets : ctrl[n] = (IF n \in there THEN x ELSE NoNet) /\ row[n] = (IF n \in there THEN r ELSE NoNet)
  BY <1>4
<1>6. x # NoNet /\ r # NoNet /\ NoNet \notin NetUsers
  BY <1>3, NetworkKinds, RowKept, NoNetIsNothing
<1>7. NetTypes
  BY <1>1, <1>3, <1>4, NetVacant DEF NetTypes
<1>8. Undrawn
  BY <1>1, <1>5, NetVacant DEF Undrawn
<1>9. OneOwner
  BY <1>3, <1>5, <1>6 DEF OneOwner, Exists
<1>10. NetPromises
  BY <1>1, NetVacant DEF NetPromises
<1>11. NetsOK
  BY <1>1, <1>2, <1>3, <1>5, <1>6, NetVacant DEF NetsOK, NetOK, Exists, OnController, Agree
<1>12. LimitOK
  <2> SUFFICES ASSUME NEW v \in NetUsers \ {Admin}
               PROVE  Cardinality(Authored(v)) <= Limit /\ \A s \in NetSlots : ~Creates(netCall[s], v)
    BY DEF LimitOK
  <2>1. \A s \in NetSlots : ~Creates(netCall[s], v)
    BY <1>1, NetVacant DEF Creates
  <2>2. Authored(v) = IF r.author = v THEN there ELSE {}
    BY <1>5, <1>6 DEF Authored, Exists
  <2>3. Cardinality({}) = 0
    BY FS_EmptySet
  <2>4. r.author = v => Cardinality(there) <= Limit
    BY <1>1, <1>3, <1>6
  <2> QED BY <2>1, <2>2, <2>3, <2>4, NetBoundsNat
<1> QED BY <1>7, <1>8, <1>9, <1>10, <1>11, <1>12 DEF NetInv

(* Every step keeps the invariant of the networks.                          *)
LEMMA NetStep == ASSUME NetInv, [NetNext]_netVars PROVE NetInv'
<1>1. ASSUME NEW s \in NetSlots, NetProceed(s) PROVE NetInv'
  BY <1>1, CreatePostsStep, CreateStoresStep, DeauthoriseStep, DropStep, EraseStep, OrgNetsStep, PostStep, StoreStep,
     ReadStep, Ipv6Step, AssignStep DEF NetProceed
<1>2. ASSUME NEW s \in NetSlots, Fails(s) PROVE NetInv'
  BY <1>2, StrayStep DEF Fails, data
<1>3. ASSUME NEW n \in Nets, Authorise(n) \/ \E u \in NetUsers : TransferNetworkOwnership(u, n) PROVE NetInv'
  BY <1>3, AuthoriseStep, TransferStep
<1>4. CASE UNCHANGED netVars
  <2>1. UNCHANGED <<ctrl, row, drawn, netCall, netCalls, stray, netCrossed, wanted, raced>>
    BY <1>4 DEF netVars, data, netHistory
  <2>2. NetTypes' /\ Undrawn' /\ OneOwner' /\ NetPromises'
    BY <2>1 DEF NetInv, NetTypes, Undrawn, OneOwner, NetPromises, Exists, Excused
  <2>3. NetsOK'
    BY <2>1 DEF NetInv, NetsOK, NetOK, Exists, OnController, Excused
  <2>4. LimitOK'
    BY <2>1 DEF NetInv, LimitOK, Authored, Exists
  <2> QED BY <2>2, <2>3, <2>4 DEF NetInv
<1> QED BY <1>1, <1>2, <1>3, <1>4, NetBeginSteps DEF NetNext

(* The inductive invariant of the networks: whatever the two stores differ  *)
(* in is the work of one request under way, or of one that failed or met    *)
(* another (networkRouter.ts, networkService.ts, adminRoute.ts).            *)
THEOREM NetworksKeep == NetSpec => []NetInv
<1>1. NetInit => NetInv
  BY NetStart
<1>2. NetInv /\ [NetNext]_netVars => NetInv'
  BY NetStep
<1> QED BY <1>1, <1>2, PTL DEF NetSpec

(* Controller and database agree on which networks exist, on their names,   *)
(* rules and IPv6 modes, once nobody is at work on them, but for failed and *)
(* crossed requests, and the limit of networks holds; for any number of     *)
(* users, networks and requests (networkRouter.ts,                          *)
(* networkProvisioningFactory).                                             *)
THEOREM NetworksAlwaysHold == NetSpec => []NetworksHold
<1>1. NetInv => NetworksHold
  <2> SUFFICES ASSUME NetInv PROVE NetworksHold
    OBVIOUS
  <2>1. \A n \in Nets : Quiet(n) => \A s \in NetSlots : ~Making(netCall[s], n) /\ ~Erasing(netCall[s], n) /\ ~Storing(netCall[s], n)
    BY DEF Quiet, Making, Erasing, Storing
  <2>2. ControllerLinked
    BY <2>1 DEF ControllerLinked, Unlinked, NetInv, NetsOK, NetOK
  <2>3. RowsReal
    BY <2>1 DEF RowsReal, NetInv, NetsOK, NetOK
  <2>4. FieldsAgree
    BY <2>1 DEF FieldsAgree, NetInv, NetsOK, NetOK, Agree
  <2>5. ModesKept
    BY DEF ModesKept, NetInv, NetsOK, NetOK
  <2>6. LimitHeld
    BY DEF LimitHeld, NetInv, LimitOK
  <2> QED BY <2>2, <2>3, <2>4, <2>5, <2>6 DEF NetworksHold
<1> QED BY <1>1, NetworksKeep, PTL

(* Only a deletion past the members takes a network from the controller     *)
(* (network_delete).                                                        *)
LEMMA OnlyDropsTake ==
    ASSUME NetInv, [NetNext]_netVars, NEW n \in Nets, ctrl[n] # NoNet, ctrl'[n] = NoNet
    PROVE  \E s \in NetSlots : netCall[s].op = "delete" /\ netCall[s].stage = "drop" /\ netCall[s].net = n
<1> USE DEF NetInv
<1>1. ctrl' # ctrl
  OBVIOUS
<1>2. ASSUME NEW m \in Nets, NEW x, ctrl' = [ctrl EXCEPT ![m] = x], x # NoNet PROVE FALSE
  BY <1>2 DEF NetTypes
<1>3. ASSUME NEW s \in NetSlots, CreatePosts(s) PROVE FALSE
  <2>1. PICK m \in Nets : ctrl' = [ctrl EXCEPT ![m] = Fresh]
    BY <1>3, Zenon DEF CreatePosts
  <2> QED BY <1>2, <2>1, FreshNetwork, NetworkKinds
<1>4. ASSUME NEW s \in NetSlots, DeleteDeauthorises(s) PROVE FALSE
  <2>1. ctrl' = [ctrl EXCEPT ![netCall[s].net].auth = FALSE] /\ OnController(netCall[s].net) /\ netCall[s].op = "delete"
    BY <1>1, <1>4, Zenon DEF DeleteDeauthorises, NetRefused, data
  <2>2. PICK m \in Nets : m = netCall[s].net
    BY <2>1, NetKinds DEF NetTypes
  <2>3. PICK x \in ControllerNetworks : x = ctrl[m]
    BY <2>1, <2>2 DEF OnController, NetTypes
  <2>4. PICK w \in ControllerNetworks : w = [x EXCEPT !.auth = FALSE]
    BY NetworkKinds, Zenon
  <2>5. ctrl' = [ctrl EXCEPT ![m] = w]
    BY <2>1, <2>2, <2>3, <2>4
  <2> QED BY <1>2, <2>5, NetworkKinds
<1>5. ASSUME NEW s \in NetSlots, UpdatePosts(s) PROVE FALSE
  <2>1. PICK c \in NetRequests : c = netCall[s]
    BY DEF NetTypes
  <2>2. c \in NetEdit /\ c.net \in Nets /\ c.field \in {"name", "rules", "setting"} /\ c.value \in Nat
    BY <1>5, <2>1, NetKinds DEF UpdatePosts, NetEdit
  <2>3. ctrl' = [ctrl EXCEPT ![c.net] = IF OnController(c.net) THEN [ctrl[c.net] EXCEPT ![c.field] = c.value]
                                        ELSE Recreated(c)]
    BY <1>1, <1>5, <2>1, Zenon DEF UpdatePosts, NetRefused, data
  <2>4. PICK x \in ControllerNetworks : x = IF OnController(c.net) THEN ctrl[c.net] ELSE Fresh
    BY <2>2, FreshNetwork DEF OnController, NetTypes
  <2>5. [x EXCEPT ![c.field] = c.value] \in ControllerNetworks
    BY <2>2, NetworkField
  <2>6. ctrl' = [ctrl EXCEPT ![c.net] = [x EXCEPT ![c.field] = c.value]]
    BY <2>3, <2>4, Zenon DEF Recreated
  <2> QED BY <1>2, <2>2, <2>5, <2>6, NetworkKinds, Zenon
<1>6. ASSUME NEW s \in NetSlots, Ipv6Posts(s) PROVE FALSE
  <2>1. PICK c \in NetRequests : c = netCall[s]
    BY DEF NetTypes
  <2>2. c \in NetIpv6 /\ c.net \in Nets /\ c.mode \in Modes /\ c.read \in SUBSET Modes
    BY <1>6, <2>1, NetKinds DEF Ipv6Posts, NetIpv6
  <2>3. ctrl' = [ctrl EXCEPT ![c.net] = [IF OnController(c.net) THEN ctrl[c.net] ELSE Fresh EXCEPT !.v6 = Merged(c, c.read)]]
    BY <1>1, <1>6, <2>1, Zenon DEF Ipv6Posts, NetRefused, data
  <2>4. PICK x \in ControllerNetworks : x = IF OnController(c.net) THEN ctrl[c.net] ELSE Fresh
    BY <2>2, FreshNetwork DEF OnController, NetTypes
  <2>5. Merged(c, c.read) \in SUBSET Modes
    BY <2>2 DEF Merged
  <2>6. [x EXCEPT !.v6 = Merged(c, c.read)] \in ControllerNetworks
    BY <2>5, NetworkModes, Zenon
  <2>7. ctrl' = [ctrl EXCEPT ![c.net] = [x EXCEPT !.v6 = Merged(c, c.read)]]
    BY <2>3, <2>4, Zenon
  <2> QED BY <1>2, <2>2, <2>6, <2>7, NetworkKinds, Zenon
<1>7. ASSUME NEW m \in Nets, Authorise(m) PROVE FALSE
  <2>1. ctrl' = [ctrl EXCEPT ![m].auth = TRUE] /\ OnController(m)
    BY <1>7, Zenon DEF Authorise
  <2>2. PICK x \in ControllerNetworks : x = ctrl[m]
    BY <2>1 DEF OnController, NetTypes
  <2>3. PICK w \in ControllerNetworks : w = [x EXCEPT !.auth = TRUE]
    BY NetworkKinds, Zenon
  <2>4. ctrl' = [ctrl EXCEPT ![m] = w]
    BY <2>1, <2>2, <2>3
  <2> QED BY <1>2, <2>4, NetworkKinds
<1>8. ASSUME NEW s \in NetSlots, DeleteDrops(s)
      PROVE  netCall[s].op = "delete" /\ netCall[s].stage = "drop" /\ netCall[s].net = n
  <2>1. ctrl' = [ctrl EXCEPT ![netCall[s].net] = NoNet] /\ netCall[s].op = "delete" /\ netCall[s].stage = "drop"
    BY <1>1, <1>8, Zenon DEF DeleteDrops, NetRefused, data
  <2> QED BY <2>1 DEF NetTypes
<1>9. \/ UNCHANGED ctrl
      \/ \E s \in NetSlots : CreatePosts(s) \/ DeleteDeauthorises(s) \/ DeleteDrops(s) \/ UpdatePosts(s) \/ Ipv6Posts(s)
      \/ \E m \in Nets : Authorise(m)
  <2>1. ASSUME NEW s \in NetSlots, NetRequest(s) PROVE UNCHANGED ctrl
    BY <2>1, Zenon DEF NetRequest, CreateBegin, CreateOrgBegin, DeleteBegin, PrivatePublicNetwork, Dns, Mtu, MultiCast,
       EnableIpv4AutoAssign, Ipv6Begin, NetworkName, SetFlowRule, RestPostNetwork, DeleteOrgNetsBegin, AssignBegin, NetBegin, data
  <2>2. ASSUME NEW s \in NetSlots, CreateStores(s) \/ DeleteErases(s) \/ DeleteOrgNetsCommit(s) \/ UpdateStores(s)
                                   \/ Ipv6Reads(s) \/ AssignStores(s) \/ Fails(s)
        PROVE  UNCHANGED ctrl
    BY <2>2, Zenon DEF CreateStores, DeleteErases, DeleteOrgNetsCommit, UpdateStores, Ipv6Reads, AssignStores, Fails, NetRefused, data
  <2>3. ASSUME NEW u \in NetUsers, NEW m \in Nets, TransferNetworkOwnership(u, m) PROVE UNCHANGED ctrl
    BY <2>3, Zenon DEF TransferNetworkOwnership
  <2>4. CASE UNCHANGED netVars
    BY <2>4 DEF netVars, data
  <2> QED BY <2>1, <2>2, <2>3, <2>4 DEF NetNext, NetProceed
<1> QED BY <1>1, <1>3, <1>4, <1>5, <1>6, <1>7, <1>8, <1>9, Zenon

(* A network only leaves the controller when its members have been          *)
(* deauthorised, unless two requests met on it (networkService.ts,          *)
(* deleteNetwork).                                                          *)
THEOREM MembersDeauthorisedFirst == NetSpec => DeauthorisedFirst
<1>1. NetInv /\ [NetNext]_netVars
      => [\A n \in Nets : OnController(n) /\ ctrl'[n] = NoNet => ~ctrl[n].auth \/ n \in netCrossed]_netVars
  <2> SUFFICES ASSUME NetInv, [NetNext]_netVars, NEW n \in Nets, OnController(n), ctrl'[n] = NoNet
               PROVE  ~ctrl[n].auth \/ n \in netCrossed
    OBVIOUS
  <2>1. ctrl[n] # NoNet
    BY DEF OnController
  <2>2. PICK s \in NetSlots : netCall[s].op = "delete" /\ netCall[s].stage = "drop" /\ netCall[s].net = n
    BY <2>1, OnlyDropsTake
  <2> QED BY <2>1, <2>2 DEF NetInv, NetPromises, NetPromise
<1> QED BY <1>1, NetworksKeep, PTL DEF NetSpec, DeauthorisedFirst
=============================================================================
