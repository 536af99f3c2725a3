------------------------------ MODULE Accounts ------------------------------
(***************************************************************************)
(* The population of accounts: registration and the first administrator,   *)
(* invitations, sign-up through OAuth, the administrator's procedures on   *)
(* users and groups, and the nightly job that deactivates expired users    *)
(* (authRouter.ts, lib/auth.ts, adminRoute.ts, v1/user, cronTasks.ts).     *)
(*                                                                         *)
(* The procedures share nothing but the database, so one that reads rows   *)
(* and writes later is a Begin and a Commit action, what it read kept in   *)
(* call[s].  Roles below ADMIN are one.  Passwords are in Credentials,     *)
(* networks in Networks; here a user's networks have authorised members or *)
(* not.  A user is named by the address; a row that is deleted is lost for *)
(* those who hold its id, though the address may be registered again.      *)
(***************************************************************************)
EXTENDS Integers, FiniteSets

CONSTANTS
    Users,    \* the people who may have an account (their e-mail addresses)
    Invites,  \* invitations that may be issued
    Groups,   \* user groups that may exist
    Slots,    \* requests that may be under way at once
    MaxCalls, \* bound: requests
    OAuthExclusive, \* isOAuthExclusiveLogin
    None      \* no user, group or invitation

ASSUME LimitNat == MaxCalls \in Nat
ASSUME OAuthExclusiveBoolean == OAuthExclusive \in BOOLEAN
ASSUME PopulationFinite == IsFiniteSet(Users) /\ IsFiniteSet(Groups)
ASSUME NoneIsNobody == None \notin Users \cup Groups \cup Invites

VARIABLES
    row,     \* row[u]: the row of User, or Absent
    invite,  \* invite[i]: the row of Invitation, or Absent
    group,   \* group[g]: the row of UserGroup, or Absent
    open,    \* GlobalOptions.enableRegistration
    members, \* users with authorised members in their networks
    call,    \* call[s]: the request in the slot and what it read
    calls,   \* requests so far
    job,     \* the nightly job: the users it listed, the one it is at, those whose rows went since
    boot,    \* history: users made administrator without one asking for it
    left,    \* history: left[i], uses an invitation that was issued still has
    failed,  \* history: users for whom the controller failed the job
    marked,  \* history: users deactivated by the job and not changed since
    late,    \* history: a commit of somebody who was not an administrator any more
    crossed  \* history: users changed by two requests, or a request and the job, at once

db == <<row, invite, group, open, members>>
history == <<boot, left, failed, marked, late, crossed>>
vars == <<row, invite, group, open, members, call, calls, job, history>>

Absent == [role |-> "absent"]
Idle == [op |-> "idle"]
NoJob == [todo |-> {}, at |-> None, gone |-> {}]
Expiries == {"never", "future", "past"}
Exists(u) == row[u] # Absent
Admins == {u \in Users : Exists(u) /\ row[u].role = "ADMIN"}
Population == {u \in Users : Exists(u)}
DefaultGroup == IF \E g \in Groups : group[g] # Absent /\ group[g].default
                THEN CHOOSE g \in Groups : group[g] # Absent /\ group[g].default
                ELSE None
\* What a row of User may name as its group.
Known == {g \in Groups : group[g] # Absent} \cup {None}
GroupExpired(u) == row[u].group # None /\ group[row[u].group].expires = "past"

\* getActiveSession: the cookie of a deactivated or expired account is refused.
ActiveSession(u) ==
    /\ Exists(u)
    /\ row[u].active
    /\ row[u].expires # "past"
    /\ row[u].role = "ADMIN" \/ ~GroupExpired(u)

NewRow(role, expires, g) == [role |-> role, active |-> TRUE, expires |-> expires, group |-> g]

Enter(s, req) ==
    /\ call[s] = Idle
    /\ calls < MaxCalls
    /\ calls' = calls + 1
    /\ call' = [call EXCEPT ![s] = req]
Finish(s) == call' = [call EXCEPT ![s] = Idle]
\* A request that is over in one step still counts.
Once == calls < MaxCalls /\ calls' = calls + 1 /\ UNCHANGED call

\* Requests that hold the id of a row, and those that will write a row of an address.
ByRow == {"promote", "role", "update", "delete", "assign"}
ByAddress == {"register", "registering", "oauth", "create"}
Writes(c, u) == c.op \in ByRow \cup ByAddress /\ c.id = u
Listed == (job.todo \cup {job.at}) \ job.gone

\* Requests of slots other than s, and the job, that are about to write u.
Touching(s, u) == (\E t \in Slots \ {s} : Writes(call[t], u)) \/ u \in Listed
Cross(s, u) == crossed' = IF Touching(s, u) THEN crossed \cup {u} ELSE crossed

----------------------------------------------------------------------------
(* Registration                                                            *)

InviteOpen(i) ==
    /\ invite[i] # Absent
    /\ ~invite[i].expired
    /\ ~invite[i].closed /\ invite[i].used < invite[i].can

\* register up to its transaction: the setting, the invitation and the address are looked at.
RegisterBegin(s, u, i, expires) ==
    /\ ~Exists(u)
    /\ IF i = None THEN open ELSE InviteOpen(i)
    /\ Enter(s, [op |-> "register", id |-> u, invite |-> i, expires |-> expires,
                 used |-> IF i = None THEN 0 ELSE invite[i].used, first |-> FALSE])
    /\ UNCHANGED <<db, job, history>>

\* The REST route: an administrator's token unless there is no user at all, and then no
\* expiry; the rest is register.
RestCreateUser(s, u, expires) ==
    /\ IF Population = {} THEN expires = "never" ELSE Admins # {}
    /\ RegisterBegin(s, u, None, expires)

LockFree == \A t \in Slots : call[t].op # "registering"

Refused(s) == Finish(s) /\ UNCHANGED <<db, calls, job, history>>

\* The row the request holds is still as it was read, and has not expired.
StillValid(c) ==
    IF c.invite = None THEN open
    ELSE InviteOpen(c.invite) /\ invite[c.invite].used = c.used

\* Mutant: the advisory lock is not taken.
RegisterLockUnserialised(s) ==
    LET c == call[s] IN
    /\ c.op = "register"
    /\ \/ /\ StillValid(c)
          /\ call' = [call EXCEPT ![s] = [c EXCEPT !.op = "registering", !.first = Population = {}]]
          /\ UNCHANGED <<db, calls, job, history>>
       \/ ~StillValid(c) /\ Refused(s)

\* The transaction takes the advisory lock, looks again and counts the users.
RegisterLock(s) ==
    LET c == call[s] IN
    /\ c.op = "register"
    /\ LockFree
    /\ \/ /\ StillValid(c)
          /\ call' = [call EXCEPT ![s] = [c EXCEPT !.op = "registering", !.first = Population = {}]]
          /\ UNCHANGED <<db, calls, job, history>>
       \/ ~StillValid(c) /\ Refused(s)

UsedOnce(v) == [v EXCEPT !.used = v.used + 1, !.closed = v.used + 1 >= v.can]

\* Mutant: the use of an invitation is not written back.
ConsumeNothing(i) == invite'= invite

\* An organisation's invitation is deleted, another one counted and closed at its limit.
Consume(i) ==
    invite' =
        IF i = None THEN invite
        ELSE IF invite[i].org THEN [invite EXCEPT ![i] = Absent]
        ELSE [invite EXCEPT ![i] = UsedOnce(@)]

\* The transaction commits: the invitation consumed, the account created, open
\* registration closed after the first.  The updateMany on the invitation and the unique
\* address make it fail when either went meanwhile.
RegisterCommit(s) ==
    LET c == call[s]
        ok == ~Exists(c.id) /\ (c.invite # None => StillValid(c))
    IN
    /\ c.op = "registering"
    /\ \/ /\ ok
          /\ row' = [row EXCEPT ![c.id] =
                        NewRow(IF c.first THEN "ADMIN" ELSE "USER", c.expires, DefaultGroup)]
          /\ Consume(c.invite)
          /\ open' = (open /\ ~c.first)
          /\ left' = IF c.invite = None THEN left ELSE [left EXCEPT ![c.invite] = @ - 1]
          /\ boot' = IF c.first THEN boot \cup {c.id} ELSE boot
          /\ Finish(s)
          /\ UNCHANGED <<group, members, calls, job, failed, marked, late, crossed>>
       \/ ~ok /\ Refused(s)

----------------------------------------------------------------------------
(* Sign-up through OAuth                                                   *)

\* onUserCreateBefore: the setting, and the group new users get.
OAuthBegin(s, u) ==
    /\ ~Exists(u)
    /\ OAuthExclusive \/ open
    /\ Enter(s, [op |-> "oauth", id |-> u, group |-> DefaultGroup])
    /\ UNCHANGED <<db, job, history>>

\* The library creates the row; the address is unique, the group a foreign key.
OAuthCreate(s) ==
    LET c == call[s]
        ok == ~Exists(c.id) /\ c.group \in Known
    IN
    /\ c.op = "oauth"
    /\ \/ /\ ok
          /\ row' = [row EXCEPT ![c.id] = NewRow("USER", "never", c.group)]
          /\ call' = [call EXCEPT ![s] = [op |-> "promote", id |-> c.id]]
          /\ crossed' = IF \E t \in Slots : call[t].op = "registering" /\ call[t].first
                        THEN crossed \cup {c.id} ELSE crossed
          /\ UNCHANGED <<invite, group, open, members, calls, job, boot, left, failed, marked, late>>
       \/ ~ok /\ Refused(s)

\* onUserCreateAfter: under a lock of its own, promoted when there is no administrator.
OAuthPromote(s) ==
    LET c == call[s] IN
    /\ c.op = "promote"
    /\ \/ /\ Admins = {}
          /\ row' = [row EXCEPT ![c.id].role = "ADMIN"]
          /\ boot' = boot \cup {c.id}
          /\ Cross(s, c.id)
          /\ Finish(s)
          /\ UNCHANGED <<invite, group, open, members, calls, job, left, failed, marked, late>>
       \/ Admins # {} /\ Refused(s)

----------------------------------------------------------------------------
(* The administrator's procedures                                          *)

\* adminRoleProtectedRoute: an active session whose role is ADMIN now.
IsAdmin(a) == ActiveSession(a) /\ row[a].role = "ADMIN"
AdminBegin(s, a, req) ==
    /\ IsAdmin(a)
    /\ Enter(s, req)
    /\ UNCHANGED <<db, job, history>>

\* Mutant: an administrator may change the own role.
ChangeRoleBeginSelf(s, a, u, role) ==
    Exists(u) /\ AdminBegin(s, a, [op |-> "role", by |-> a, id |-> u, role |-> role])

ChangeRoleBegin(s, a, u, role) ==
    /\ u # a
    /\ Exists(u)
    /\ AdminBegin(s, a, [op |-> "role", by |-> a, id |-> u, role |-> role])

\* updateUser and deleteUser refuse an administrator; the row is read here.
UpdateUserBegin(s, a, u, active, expires) ==
    /\ u # a
    /\ Exists(u) /\ row[u].role # "ADMIN"
    /\ AdminBegin(s, a, [op |-> "update", by |-> a, id |-> u, active |-> active, expires |-> expires])
DeleteUserBegin(s, a, u) ==
    /\ u # a
    /\ Exists(u) /\ row[u].role # "ADMIN"
    /\ AdminBegin(s, a, [op |-> "delete", by |-> a, id |-> u])

\* assignUserGroup: the expiry of the group, when it has one, becomes the user's.
AssignUserGroupBegin(s, a, u, g) ==
    /\ u # a
    /\ Exists(u)
    /\ g \in Known /\ (g # None => row[u].role # "ADMIN")
    /\ AdminBegin(s, a, [op |-> "assign", by |-> a, id |-> u, group |-> g,
                         expires |-> IF g = None THEN "never" ELSE group[g].expires])

\* The update of a row fails when the group it names is gone, and when the row is.
Lost(s) == call[s].op = "lost" /\ Refused(s)

Store(s, u, new) ==
    /\ row' = [row EXCEPT ![u] = new]
    /\ late' = (late \/ call[s].by \notin Admins)
    /\ marked' = marked \ {u}
    /\ Cross(s, u)
    /\ Finish(s)
    /\ UNCHANGED <<invite, group, open, members, calls, job, boot, left, failed>>

\* Mutant: a promoted user keeps the status of before.
ChangeRoleCommitKeeps(s) ==
    LET c == call[s] IN
    /\ c.op = "role"
    /\ Store(s, c.id, [row[c.id] EXCEPT !.role = c.role])

\* A new administrator is active, never expires and is in no group.
ChangeRoleCommit(s) ==
    LET c == call[s] IN
    /\ c.op = "role"
    /\ Store(s, c.id, IF c.role = "ADMIN" THEN NewRow("ADMIN", "never", None)
                      ELSE [row[c.id] EXCEPT !.role = c.role])

UpdateUserCommit(s) ==
    LET c == call[s] IN
    /\ c.op = "update"
    /\ Store(s, c.id, [row[c.id] EXCEPT !.active = c.active, !.expires = c.expires])

AssignUserGroupCommit(s) ==
    LET c == call[s] IN
    /\ c.op = "assign"
    /\ \/ c.group \in Known /\ Store(s, c.id, [row[c.id] EXCEPT !.group = c.group, !.expires = c.expires])
       \/ c.group \notin Known /\ Refused(s)

\* deleteUser: the user's networks go, then the row with the invitations the user sent.
DeleteUserCommit(s) ==
    LET c == call[s] IN
    /\ c.op = "delete"
    /\ row' = [row EXCEPT ![c.id] = Absent]
    /\ invite' = [i \in Invites |-> IF invite[i] # Absent /\ invite[i].by = c.id
                                    THEN Absent ELSE invite[i]]
    /\ members' = members \ {c.id}
    /\ late' = (late \/ c.by \notin Admins)
    /\ marked' = marked \ {c.id}
    /\ failed' = failed \ {c.id}
    /\ call' = [t \in Slots |-> IF t = s THEN Idle
                                 ELSE IF call[t].op \in ByRow /\ call[t].id = c.id THEN [op |-> "lost"]
                                 ELSE call[t]]
    /\ job' = IF c.id \in Listed THEN [job EXCEPT !.gone = @ \cup {c.id}] ELSE job
    /\ UNCHANGED <<group, open, calls, boot, left, crossed>>

\* createUser: the address and the group are read, then the account is created with any role.
CreateUserBegin(s, a, u, role, expires) ==
    /\ ~Exists(u)
    /\ AdminBegin(s, a, [op |-> "create", by |-> a, id |-> u, role |-> role,
                         expires |-> expires, group |-> DefaultGroup])
CreateUserCommit(s) ==
    LET c == call[s]
        ok == ~Exists(c.id) /\ c.group \in Known
    IN
    /\ c.op = "create"
    /\ \/ ok /\ Store(s, c.id, NewRow(c.role, c.expires, c.group))
       \/ ~ok /\ Refused(s)

\* generateInviteLink, and the invitation of an organisation, which is used up at once.
GenerateInviteLink(a, i, org) ==
    /\ IsAdmin(a)
    /\ i \notin DOMAIN left
    /\ Once
    /\ \E can \in IF org THEN {1} ELSE {1, 2} :
        /\ invite' = [invite EXCEPT ![i] = [org |-> org, can |-> can, used |-> 0, closed |-> FALSE,
                                            expired |-> FALSE, by |-> a]]
        /\ left' = [j \in DOMAIN left \cup {i} |-> IF j = i THEN can ELSE left[j]]
    /\ UNCHANGED <<row, group, open, members, job, boot, failed, marked, late, crossed>>

DeleteInvitationLink(a, i) ==
    /\ IsAdmin(a)
    /\ invite[i] # Absent
    /\ Once
    /\ invite' = [invite EXCEPT ![i] = Absent]
    /\ UNCHANGED <<row, group, open, members, job, history>>

UpdateGlobalOptions(a) ==
    /\ IsAdmin(a)
    /\ Once
    /\ open' = ~open
    /\ UNCHANGED <<row, invite, group, members, job, history>>

----------------------------------------------------------------------------
(* Groups                                                                  *)

\* addUserGroup clears the other defaults first when the group is to be the default ...
AddUserGroupBegin(s, a, g, default, expires) ==
    /\ IsAdmin(a)
    /\ Enter(s, [op |-> "group", group |-> g, default |-> default, expires |-> expires])
    /\ group' = IF ~default THEN group
                ELSE [h \in Groups |-> IF group[h] = Absent THEN Absent
                                       ELSE [group[h] EXCEPT !.default = FALSE]]
    /\ UNCHANGED <<row, invite, open, members, job, history>>
\* ... and stores the group then; the users in it keep the expiry they were given.
AddUserGroupCommit(s) ==
    LET c == call[s] IN
    /\ c.op = "group"
    /\ group' = [group EXCEPT ![c.group] =
                    [role |-> "group", default |-> c.default, expires |-> c.expires]]
    /\ Finish(s)
    /\ UNCHANGED <<row, invite, open, members, calls, job, history>>

Within(g) == {u \in Population : row[u].group = g}

\* deleteUserGroup: refused with users in the group, unless they are to be removed.
DeleteUserGroupBegin(s, a, g, removeUsers) ==
    /\ group[g] # Absent
    /\ Within(g) = {} \/ removeUsers
    /\ AdminBegin(s, a, [op |-> IF Within(g) = {} THEN "drop" ELSE "empty", group |-> g])
DeleteUserGroupEmpty(s) ==
    LET c == call[s] IN
    /\ c.op = "empty"
    /\ row' = [u \in Users |-> IF u \in Within(c.group)
                               THEN [row[u] EXCEPT !.group = None, !.expires = "never"]
                               ELSE row[u]]
    /\ marked' = marked \ Within(c.group)
    /\ call' = [call EXCEPT ![s] = [c EXCEPT !.op = "drop"]]
    /\ UNCHANGED <<invite, group, open, members, calls, job, boot, left, failed, late, crossed>>

\* The foreign key of User restricts the deletion of a group that got a user meanwhile.
DeleteUserGroupDrop(s) ==
    LET c == call[s] IN
    /\ c.op = "drop"
    /\ \/ /\ group[c.group] # Absent /\ Within(c.group) = {}
          /\ group' = [group EXCEPT ![c.group] = Absent]
          /\ Finish(s)
          /\ UNCHANGED <<row, invite, open, members, calls, job, history>>
       \/ (group[c.group] = Absent \/ Within(c.group) # {}) /\ Refused(s)

----------------------------------------------------------------------------
(* The nightly job                                                         *)

Expired(u) ==
    /\ Exists(u) /\ row[u].active /\ row[u].role # "ADMIN"
    /\ row[u].expires = "past" \/ GroupExpired(u)
ExpiredUsers == {u \in Users : Expired(u)}

JobStart ==
    /\ job = NoJob
    /\ ExpiredUsers # {}
    /\ job' = [todo |-> ExpiredUsers, at |-> None, gone |-> {}]
    /\ UNCHANGED <<db, call, calls, history>>

\* Mutant: a user is marked without asking the controller.
JobDeauthoriseSkipped(u) ==
    /\ job.at = None /\ u \in job.todo
    /\ job' = [job EXCEPT !.todo = @ \ {u}, !.at = u]
    /\ UNCHANGED <<db, call, calls, history>>

\* The members of the user's networks are deauthorised; a failure is logged and passed over.
JobDeauthorise(u) ==
    /\ job.at = None /\ u \in job.todo
    /\ job' = [job EXCEPT !.todo = @ \ {u}, !.at = u]
    /\ \/ members' = (IF u \in job.gone THEN members ELSE members \ {u}) /\ UNCHANGED failed
       \/ u \in members /\ u \notin job.gone /\ UNCHANGED members /\ failed' = failed \cup {u}
    /\ UNCHANGED <<row, invite, group, open, call, calls, boot, left, marked, late, crossed>>

\* The user is marked; without the row the update throws and the night is over.
JobMark ==
    LET u == job.at IN
    /\ u # None
    /\ \/ /\ u \notin job.gone
          /\ row' = [row EXCEPT ![u].active = FALSE]
          /\ job' = [job EXCEPT !.at = None]
          /\ marked' = marked \cup {u}
          /\ crossed' = IF \E s \in Slots : Writes(call[s], u)
                        THEN crossed \cup {u} ELSE crossed
          /\ UNCHANGED <<invite, group, open, members, call, calls, boot, left, failed, late>>
       \/ /\ u \in job.gone
          /\ job' = NoJob
          /\ UNCHANGED <<db, call, calls, history>>

\* A member of the user's networks is authorised, by the user.
Authorise(u) ==
    /\ ActiveSession(u)
    /\ u \notin members
    /\ Once
    /\ members' = members \cup {u}
    /\ crossed' = IF u \in Listed THEN crossed \cup {u} ELSE crossed
    /\ UNCHANGED <<row, invite, group, open, job, boot, left, failed, marked, late>>

\* Time passes.
Expire ==
    /\ \/ \E u \in Population : row[u].expires = "future"
            /\ row' = [row EXCEPT ![u].expires = "past"] /\ UNCHANGED <<invite, group>>
       \/ \E i \in Invites : invite[i] # Absent /\ ~invite[i].expired
            /\ invite' = [invite EXCEPT ![i].expired = TRUE] /\ UNCHANGED <<row, group>>
       \/ \E g \in Groups : group[g] # Absent /\ group[g].expires = "future"
            /\ group' = [group EXCEPT ![g].expires = "past"] /\ UNCHANGED <<row, invite>>
    /\ UNCHANGED <<open, members, call, calls, job, history>>

----------------------------------------------------------------------------

\* An empty database with registration open, or one with an administrator, perhaps a second
\* one or an account that expires and has members, and a group that is the default.
Init ==
    /\ \/ row = [u \in Users |-> Absent] /\ open = TRUE /\ members = {} /\ boot = {}
          /\ group = [g \in Groups |-> Absent]
       \/ \E a, u \in Users, g \in Groups :
            /\ a # u
            /\ \E other \in {NewRow("ADMIN", "never", None), NewRow("USER", "future", None), Absent} :
                /\ row = [v \in Users |-> IF v = a THEN NewRow("ADMIN", "never", None)
                                          ELSE IF v = u THEN other ELSE Absent]
                /\ members = IF other = Absent THEN {} ELSE {u}
            /\ open = FALSE /\ boot = {a}
            /\ group = [h \in Groups |-> IF h = g
                            THEN [role |-> "group", default |-> TRUE, expires |-> "future"]
                            ELSE Absent]
    /\ invite = [i \in Invites |-> Absent]
    /\ call = [s \in Slots |-> Idle]
    /\ calls = 0
    /\ job = NoJob
    /\ left = [i \in {} |-> 0]
    /\ failed = {} /\ marked = {} /\ crossed = {}
    /\ late = FALSE

Request(s) ==
    /\ call[s] = Idle /\ calls < MaxCalls
    /\ \/ \E u \in Users, i \in Invites \cup {None}, e \in {"never", "future"} : RegisterBegin(s, u, i, e)
       \/ \E u \in Users, e \in {"never", "future"} : RestCreateUser(s, u, e)
       \/ \E u \in Users : OAuthBegin(s, u)
       \/ \E a, u \in Users, r \in {"ADMIN", "USER"} :
           \/ ChangeRoleBegin(s, a, u, r)
           \/ CreateUserBegin(s, a, u, r, "future")
       \/ \E a, u \in Users, active \in BOOLEAN, e \in {"never", "future"} : UpdateUserBegin(s, a, u, active, e)
       \/ \E a, u \in Users : DeleteUserBegin(s, a, u)
       \/ \E a, u \in Users, g \in Groups \cup {None} : AssignUserGroupBegin(s, a, u, g)
       \/ \E a \in Users, g \in Groups, b \in BOOLEAN :
           \/ AddUserGroupBegin(s, a, g, b, "future")
           \/ DeleteUserGroupBegin(s, a, g, b)

Proceed(s) ==
    /\ call[s] # Idle
    /\ \/ Lost(s) \/ RegisterLock(s) \/ RegisterCommit(s) \/ OAuthCreate(s) \/ OAuthPromote(s)
       \/ ChangeRoleCommit(s) \/ UpdateUserCommit(s) \/ AssignUserGroupCommit(s)
       \/ DeleteUserCommit(s) \/ CreateUserCommit(s) \/ AddUserGroupCommit(s)
       \/ DeleteUserGroupEmpty(s) \/ DeleteUserGroupDrop(s)

AtOnce ==
    \/ \E a \in Users, i \in Invites, org \in BOOLEAN : GenerateInviteLink(a, i, org)
    \/ \E a \in Users, i \in Invites : DeleteInvitationLink(a, i)
    \/ \E a \in Users : UpdateGlobalOptions(a)
    \/ \E u \in Users : Authorise(u)

Job == JobStart \/ JobMark \/ \E u \in Users : JobDeauthorise(u)

Next ==
    \/ \E s \in Slots : Request(s) \/ Proceed(s)
    \/ AtOnce
    \/ Job
    \/ Expire

Spec == Init /\ [][Next]_vars

----------------------------------------------------------------------------

\* Every variable has its type.
TypeOK ==
    /\ \A u \in Users : Exists(u) =>
        /\ row[u].role \in {"ADMIN", "USER"} /\ row[u].active \in BOOLEAN
        /\ row[u].expires \in Expiries
        /\ row[u].group \in Groups \cup {None}
    /\ \A i \in Invites : invite[i] # Absent => invite[i].used \in 0 .. invite[i].can
    /\ open \in BOOLEAN /\ late \in BOOLEAN
    /\ members \subseteq Population
    /\ job.todo \subseteq Users /\ job.at \in Users \cup {None}
    /\ marked \subseteq Users /\ failed \subseteq Users /\ crossed \subseteq Users
    /\ calls \in 0 .. MaxCalls

\* The first account is made administrator once, whatever registrations and OAuth sign-ups
\* run together (authRouter.ts:294, auth.ts:590): a second one is made so unasked only when
\* an OAuth account was created between a registration's count and its commit, the two
\* taking different locks, or when the administrators had dismissed each other.
OneBootstrap == Cardinality(boot) <= 1 \/ boot \cap crossed # {} \/ late

\* Requests that read an invitation together cannot use it more often than it allows
\* (authRouter.ts:281: the use is taken with the count that was read).
InvitesNotOverused == \A i \in DOMAIN left : left[i] >= 0

\* An installation with accounts keeps an administrator, though nobody counts them: no
\* request acts on the account that sent it.  Only a request whose sender was dismissed while
\* it ran can take the last one (adminRoute.ts:506).  Before that, an administrator is
\* missing only while an OAuth sign-up is about to be promoted.
AdministratorRemains ==
    \/ Population = {} \/ Admins # {} \/ late
    \/ \E s \in Slots : call[s].op = "promote"

\* An administrator is never found deactivated, unless two requests, or a request and the
\* job, changed the account at once (adminRoute.ts:79, cronTasks.ts:128).
AdministratorsActive == \A u \in Admins : row[u].active \/ u \in crossed

\* After the job deactivated a user no member of the user's networks is authorised, except
\* where the controller failed; the job, which lists active users only, does not come back to
\* those (cronTasks.ts:121).
DeactivatedAreOut == \A u \in marked \cap members : u \in failed \cup crossed

\* Registrations that run together make one administrator unasked, and use no invitation
\* more often than it allows.
RegistrationHolds == OneBootstrap /\ InvitesNotOverused

\* An administrator is left, and can sign in, whatever the administrators do to each other
\* and the job does at night.
AdministratorsHold == AdministratorRemains /\ AdministratorsActive
=============================================================================
