------------------------------ MODULE Networks ------------------------------
(***************************************************************************)
(* Networks live twice: on the ZeroTier controller, and as a row that says *)
(* whose they are.  Creating, deleting, renaming, setting flow rules,      *)
(* assigning and transferring change one side, then the other              *)
(* (networkRouter.ts, networkService.ts, organizationRouter.ts,            *)
(* adminRoute.ts, ztApi.ts, pages/api/v1).                                 *)
(*                                                                         *)
(* Each request to the controller and each statement of the database is a  *)
(* step; another request may come between any two, and a step may fail.    *)
(* Names and rules are numbers; of the members of a network only whether   *)
(* they are authorised is kept.  Networks of ZeroTier Central, a hosted    *)
(* service, are left out; routes are in Routes.                            *)
(***************************************************************************)
EXTENDS Integers, FiniteSets

CONSTANTS
    NetUsers,     \* accounts
    Admin,        \* the administrator, who is in no user group
    OrgUsers,     \* members of the organisation with the role USER
    OrgReaders,   \* members of the organisation with the role READ_ONLY
    Nets,         \* network ids the controller may draw
    NetSlots,     \* requests that may be under way at once
    Limit,        \* maxNetworks of the user group
    MaxNetCalls,  \* bound: requests
    MaxNetFaults, \* bound: failures and crashes
    NoNet

ASSUME NetBoundsNat == MaxNetCalls \in Nat /\ MaxNetFaults \in Nat /\ Limit \in Nat
ASSUME AdminIsUser == Admin \in NetUsers /\ OrgUsers \subseteq NetUsers /\ OrgReaders \subseteq NetUsers
ASSUME NetsFinite == IsFiniteSet(Nets)

Modes == {"rfc4193", "6plane"}
ControllerNetworks == [name : Nat, rules : Nat, setting : Nat, v6 : SUBSET Modes, auth : BOOLEAN]
NetworkRows == [author : NetUsers \cup {NoNet}, org : BOOLEAN, name : Nat, rules : Nat]

ASSUME NoNetIsNothing ==
    /\ NoNet \notin Nets \cup NetUsers \cup ControllerNetworks \cup NetworkRows
    /\ \A modes \in SUBSET Modes : NoNet # modes

VARIABLES
    ctrl,       \* ctrl[n]: the network on the controller, or NoNet
    row,        \* row[n]: the row of network, or NoNet
    drawn,      \* ids the controller has given out
    orgLives,   \* the organisation exists
    netCall, netCalls, netFaults,
    stray,      \* history: networks whose request failed half-way
    netCrossed, \* history: networks that two requests changed at once
    wanted,     \* history: wanted[n], the IPv6 modes the requests asked for, in their order
    raced       \* history: users two of whose creations overlapped

data == <<ctrl, row, drawn, orgLives>>
netHistory == <<stray, netCrossed, wanted, raced>>
netVars == <<data, netCall, netCalls, netFaults, netHistory>>

NetIdle == [op |-> "idle", net |-> NoNet]
Fresh == [name |-> 0, rules |-> 0, setting |-> 0, v6 |-> {}, auth |-> FALSE]
Exists(n) == row[n] # NoNet
OnController(n) == ctrl[n] # NoNet
Authored(u) == {n \in Nets : Exists(n) /\ row[n].author = u}
OrgNets == {n \in Nets : Exists(n) /\ row[n].org}

NetEnter(s, req) ==
    /\ netCall[s] = NetIdle
    /\ netCalls < MaxNetCalls
    /\ netCalls' = netCalls + 1
    /\ netCall' = [netCall EXCEPT ![s] = req]
NetBegin(s, req) == NetEnter(s, req) /\ UNCHANGED <<data, netFaults, netHistory>>
Go(s, req) == netCall' = [netCall EXCEPT ![s] = req] /\ UNCHANGED <<netCalls, netFaults>>
NetRefused(s) == Go(s, NetIdle) /\ UNCHANGED <<data, netHistory>>

\* A request, or one other than that of s, works on n.
WorksOn(t, n) == netCall[t].net = n \/ (netCall[t].op = "delete" /\ n \in netCall[t].todo)
WorkedOn(n) == \E t \in NetSlots : WorksOn(t, n)
NetTouching(s, n) == \E t \in NetSlots \ {s} : WorksOn(t, n)
NetCross(s, n) == netCrossed' = IF NetTouching(s, n) THEN netCrossed \cup {n} ELSE netCrossed

\* checkNetworkAccess.
Access(u, n, roles) ==
    Exists(n) /\ IF row[n].org THEN orgLives /\ u \in roles ELSE row[n].author = u

----------------------------------------------------------------------------
(* Creation                                                                *)

\* Mutant: the limit is compared after the fact.
CreateBeginOffByOne(s, u) ==
    /\ u = Admin \/ Cardinality(Authored(u)) <= Limit
    /\ NetBegin(s, [op |-> "create", by |-> u, org |-> FALSE, net |-> NoNet])

\* networkProvisioningFactory: the limit of the caller's group, before anything is made.
CreateBegin(s, u) ==
    /\ u = Admin \/ Cardinality(Authored(u)) < Limit
    /\ NetBegin(s, [op |-> "create", by |-> u, org |-> FALSE, net |-> NoNet])

\* createOrgNetwork: no limit; the role of the caller.
CreateOrgBegin(s, u) ==
    /\ orgLives /\ u \in OrgUsers
    /\ NetBegin(s, [op |-> "create", by |-> u, org |-> TRUE, net |-> NoNet])

\* network_create: the controller draws an id.
CreatePosts(s) ==
    /\ netCall[s].op = "create" /\ netCall[s].net = NoNet
    /\ \E n \in Nets \ drawn :
           /\ drawn' = drawn \cup {n}
           /\ ctrl' = [ctrl EXCEPT ![n] = Fresh]
           /\ Go(s, [netCall[s] EXCEPT !.net = n])
    /\ UNCHANGED <<row, orgLives, netHistory>>

\* The row is created with the creator, or the organisation, as the owner: nwid is its key.
CreateStores(s) ==
    LET c == netCall[s] IN
    /\ c.op = "create" /\ c.net # NoNet
    /\ \/ /\ ~Exists(c.net) /\ (c.org => orgLives)
          /\ row' = [row EXCEPT ![c.net] =
                        [author |-> IF c.org THEN NoNet ELSE c.by, org |-> c.org, name |-> 0, rules |-> 0]]
          /\ raced' = IF ~c.org /\ \E t \in NetSlots \ {s} :
                                     netCall[t].op = "create" /\ netCall[t].by = c.by /\ ~netCall[t].org
                      THEN raced \cup {c.by} ELSE raced
          /\ NetCross(s, c.net)
          /\ Go(s, NetIdle)
          /\ UNCHANGED <<ctrl, drawn, orgLives, stray, wanted>>
       \/ /\ Exists(c.net) \/ (c.org /\ ~orgLives)
          /\ stray' = stray \cup {c.net}
          /\ Go(s, NetIdle)
          /\ UNCHANGED <<data, netCrossed, wanted, raced>>

----------------------------------------------------------------------------
(* Deletion                                                                *)

Deletion(u, n, override, todo) ==
    [op |-> "delete", by |-> u, net |-> n, override |-> override, org |-> row[n].org,
     stage |-> "deauthorise", todo |-> todo, last |-> FALSE]

\* deleteNetwork: the owner or a USER of the organisation, or an administrator at large.
DeleteBegin(s, u, n, override) ==
    /\ IF override THEN u = Admin /\ Exists(n) ELSE Access(u, n, OrgUsers)
    /\ NetBegin(s, Deletion(u, n, override, {}))

\* deleteOrg, by its owner: every network it had when it was read, and then the
\* organisation itself, which takes the rows that are left with it.
DeleteOrgNetsBegin(s) ==
    /\ orgLives
    /\ IF OrgNets = {}
       THEN NetBegin(s, [op |-> "deleteOrg", net |-> NoNet])
       ELSE \E n \in OrgNets :
                NetBegin(s, [Deletion(Admin, n, FALSE, OrgNets \ {n}) EXCEPT !.last = TRUE])

\* Mutant: the members are left as they are.
DeleteDeauthorisesNobody(s) ==
    /\ netCall[s].op = "delete" /\ netCall[s].stage = "deauthorise"
    /\ Go(s, [netCall[s] EXCEPT !.stage = "drop"])
    /\ UNCHANGED <<data, netHistory>>

\* Every member is deauthorised; a network the controller does not know is an error.
DeleteDeauthorises(s) ==
    LET c == netCall[s] IN
    /\ c.op = "delete" /\ c.stage = "deauthorise"
    /\ \/ /\ OnController(c.net)
          /\ ctrl' = [ctrl EXCEPT ![c.net].auth = FALSE]
          /\ NetCross(s, c.net)
          /\ Go(s, [c EXCEPT !.stage = "drop"])
          /\ UNCHANGED <<row, drawn, orgLives, stray, wanted, raced>>
       \/ ~OnController(c.net) /\ NetRefused(s)

\* Mutant: the network stays on the controller.
DeleteDropsNothing(s) ==
    /\ netCall[s].op = "delete" /\ netCall[s].stage = "drop"
    /\ Go(s, [netCall[s] EXCEPT !.stage = "erase"])
    /\ UNCHANGED <<data, netHistory>>

DeleteDrops(s) ==
    LET c == netCall[s] IN
    /\ c.op = "delete" /\ c.stage = "drop"
    /\ \/ /\ OnController(c.net)
          /\ ctrl' = [ctrl EXCEPT ![c.net] = NoNet]
          /\ NetCross(s, c.net)
          /\ Go(s, [c EXCEPT !.stage = "erase"])
          /\ UNCHANGED <<row, drawn, orgLives, stray, wanted, raced>>
       \/ ~OnController(c.net) /\ NetRefused(s)

\* Where the row goes: by organisation, at large, or by author.
\* Mutant: always by author, as for personal networks.
ErasableByAuthor(c) == Exists(c.net) /\ row[c.net].author = c.by

Erasable(c) ==
    /\ Exists(c.net)
    /\ \/ c.org /\ row[c.net].org
       \/ ~c.org /\ (c.override \/ row[c.net].author = c.by)

DeleteErases(s) ==
    LET c == netCall[s] IN
    /\ c.op = "delete" /\ c.stage = "erase"
    /\ row' = IF Erasable(c) THEN [row EXCEPT ![c.net] = NoNet] ELSE row
    /\ NetCross(s, c.net)
    /\ \/ \E n \in c.todo :
              Go(s, [c EXCEPT !.net = n, !.todo = c.todo \ {n}, !.stage = "deauthorise"])
       \/ c.todo = {} /\ Go(s, IF c.last THEN [op |-> "deleteOrg", net |-> NoNet] ELSE NetIdle)
    /\ UNCHANGED <<ctrl, drawn, orgLives, stray, wanted, raced>>

\* The delete of the organisation cascades to its networks' rows.
DeleteOrgNetsCommit(s) ==
    /\ netCall[s].op = "deleteOrg"
    /\ orgLives' = FALSE
    /\ row' = [n \in Nets |-> IF n \in OrgNets THEN NoNet ELSE row[n]]
    /\ netCrossed' = netCrossed \cup OrgNets
    /\ Go(s, NetIdle)
    /\ UNCHANGED <<ctrl, drawn, stray, wanted, raced>>

----------------------------------------------------------------------------
(* Changes of a field both sides keep                                      *)

Edit(u, n, f) == [op |-> "edit", by |-> u, net |-> n, field |-> f, value |-> netCalls + 1, posted |-> FALSE]

\* networkName and setFlowRule (whose rules have been compiled).
NetworkName(s, u, n) == Access(u, n, OrgUsers) /\ NetBegin(s, Edit(u, n, "name"))
SetFlowRule(s, u, n) == Access(u, n, OrgUsers) /\ NetBegin(s, Edit(u, n, "rules"))

\* POST of the REST API: getNetworkById is asked first, so the network is on both sides.
RestPostNetwork(s, u, n) ==
    /\ row[n] # NoNet /\ row[n].org /\ OnController(n)
    /\ orgLives /\ u \in OrgUsers \cup OrgReaders
    /\ NetBegin(s, Edit(u, n, "name"))

\* What the controller makes of an update of a network it does not have: an error, or a
\* network of that id.
Recreated(c) == [Fresh EXCEPT ![c.field] = c.value]

\* network_update.
UpdatePosts(s) ==
    LET c == netCall[s] IN
    /\ c.op = "edit" /\ ~c.posted
    /\ \/ /\ ctrl' = [ctrl EXCEPT ![c.net] = IF OnController(c.net)
                                             THEN [ctrl[c.net] EXCEPT ![c.field] = c.value]
                                             ELSE Recreated(c)]
          /\ NetCross(s, c.net)
          /\ stray' = IF OnController(c.net) THEN stray ELSE stray \cup {c.net}
          /\ Go(s, IF c.field = "setting" THEN NetIdle ELSE [c EXCEPT !.posted = TRUE])
          /\ UNCHANGED <<row, drawn, orgLives, wanted, raced>>
       \/ ~OnController(c.net) /\ NetRefused(s)

\* Mutant: the database is not told.
UpdateStoresNothing(s) ==
    /\ netCall[s].op = "edit" /\ netCall[s].posted
    /\ Go(s, NetIdle)
    /\ UNCHANGED <<data, netHistory>>

UpdateStores(s) ==
    LET c == netCall[s] IN
    /\ c.op = "edit" /\ c.posted
    /\ \/ /\ Exists(c.net)
          /\ row' = [row EXCEPT ![c.net] = [row[c.net] EXCEPT ![c.field] = c.value]]
          /\ NetCross(s, c.net)
          /\ Go(s, NetIdle)
          /\ UNCHANGED <<ctrl, drawn, orgLives, stray, wanted, raced>>
       \/ ~Exists(c.net) /\ NetRefused(s)

\* The procedures for a field that only the controller keeps: a check and an update.
PrivatePublicNetwork(s, u, n) == Access(u, n, OrgUsers) /\ NetBegin(s, Edit(u, n, "setting"))
Dns(s, u, n) == Access(u, n, OrgUsers) /\ NetBegin(s, Edit(u, n, "setting"))
Mtu(s, u, n) == Access(u, n, OrgUsers) /\ NetBegin(s, Edit(u, n, "setting"))
MultiCast(s, u, n) == Access(u, n, OrgUsers) /\ NetBegin(s, Edit(u, n, "setting"))
EnableIpv4AutoAssign(s, u, n) == Access(u, n, OrgUsers) /\ NetBegin(s, Edit(u, n, "setting"))

\* ipv6 asks for the modes that are on, merges the request and writes the result.
Ipv6Begin(s, u, n, m, on) ==
    /\ Access(u, n, OrgUsers)
    /\ NetBegin(s, [op |-> "ipv6", by |-> u, net |-> n, mode |-> m, on |-> on, read |-> NoNet])

Ipv6Reads(s) ==
    LET c == netCall[s] IN
    /\ c.op = "ipv6" /\ c.read = NoNet
    /\ \/ /\ OnController(c.net)
          /\ Go(s, [c EXCEPT !.read = ctrl[c.net].v6])
          /\ UNCHANGED <<data, netHistory>>
       \/ ~OnController(c.net) /\ NetRefused(s)

\* Mutant: the request alone is written.
MergedAlone(c, modes) == IF c.on THEN {c.mode} ELSE {}

Merged(c, modes) == IF c.on THEN modes \cup {c.mode} ELSE modes \ {c.mode}

Ipv6Posts(s) ==
    LET c == netCall[s] IN
    /\ c.op = "ipv6" /\ c.read # NoNet
    /\ \/ /\ ctrl' = [ctrl EXCEPT ![c.net] = [IF OnController(c.net) THEN ctrl[c.net] ELSE Fresh
                                            EXCEPT !.v6 = Merged(c, c.read)]]
          /\ wanted' = [wanted EXCEPT ![c.net] = IF c.on THEN wanted[c.net] \cup {c.mode}
                                                 ELSE wanted[c.net] \ {c.mode}]
          /\ NetCross(s, c.net)
          /\ stray' = IF OnController(c.net) THEN stray ELSE stray \cup {c.net}
          /\ Go(s, NetIdle)
          /\ UNCHANGED <<row, drawn, orgLives, raced>>
       \/ ~OnController(c.net) /\ NetRefused(s)

----------------------------------------------------------------------------
(* Ownership                                                               *)

\* unlinkedNetwork.
Unlinked == {n \in Nets : OnController(n) /\ ~Exists(n)}

\* The administrator picks a network of the list and gives it to an administrator.
AssignBegin(s, n) ==
    /\ n \in Unlinked
    /\ NetBegin(s, [op |-> "assign", by |-> Admin, net |-> n, name |-> ctrl[n].name])

AssignStores(s) ==
    LET c == netCall[s] IN
    /\ c.op = "assign"
    /\ \/ /\ ~Exists(c.net)
          /\ row' = [row EXCEPT ![c.net] = [author |-> Admin, org |-> FALSE, name |-> c.name, rules |-> 0]]
          /\ NetCross(s, c.net)
          /\ Go(s, NetIdle)
          /\ UNCHANGED <<ctrl, drawn, orgLives, stray, wanted, raced>>
       \/ Exists(c.net) /\ NetRefused(s)

\* transferNetworkOwnership, one statement keyed by the network and its author.
TransferNetworkOwnership(u, n) ==
    /\ orgLives /\ u \in OrgUsers
    /\ Exists(n) /\ row[n].author = u
    /\ netCalls < MaxNetCalls /\ netCalls' = netCalls + 1
    /\ row' = [row EXCEPT ![n].author = NoNet, ![n].org = TRUE]
    /\ netCrossed' = IF WorkedOn(n) THEN netCrossed \cup {n} ELSE netCrossed
    /\ UNCHANGED <<ctrl, drawn, orgLives, netCall, netFaults, stray, wanted, raced>>

----------------------------------------------------------------------------
(* Environment                                                             *)

\* A member is authorised by the procedures of Members.
Authorise(n) ==
    /\ OnController(n) /\ ~ctrl[n].auth /\ Exists(n)
    /\ ctrl' = [ctrl EXCEPT ![n].auth = TRUE]
    /\ netCrossed' = IF WorkedOn(n) THEN netCrossed \cup {n} ELSE netCrossed
    /\ UNCHANGED <<row, drawn, orgLives, netCall, netCalls, netFaults, stray, wanted, raced>>

\* A request fails, or the process stops, before its next step.
Fails(s) ==
    /\ netCall[s] # NetIdle /\ netFaults < MaxNetFaults
    /\ netFaults' = netFaults + 1
    /\ netCall' = [netCall EXCEPT ![s] = NetIdle]
    /\ stray' = stray \cup ({netCall[s].net} \ {NoNet})
    /\ UNCHANGED <<data, netCalls, netCrossed, wanted, raced>>

----------------------------------------------------------------------------
Owned(u, isOrg) == [author |-> IF isOrg THEN NoNet ELSE u, org |-> isOrg, name |-> 0, rules |-> 0]

\* At most one network exists, of a user within the limit or of the organisation.
NetInit ==
    \E there \in SUBSET Nets : \E u \in NetUsers : \E isOrg \in BOOLEAN :
        /\ Cardinality(there) <= 1 /\ drawn = there
        /\ isOrg \/ u = Admin \/ Cardinality(there) <= Limit
        /\ ctrl = [n \in Nets |-> IF n \in there THEN [Fresh EXCEPT !.auth = TRUE] ELSE NoNet]
        /\ row = [n \in Nets |-> IF n \in there THEN Owned(u, isOrg) ELSE NoNet]
        /\ orgLives = TRUE
        /\ netCall = [s \in NetSlots |-> NetIdle]
        /\ netCalls = 0 /\ netFaults = 0
        /\ stray = {} /\ netCrossed = {} /\ raced = {} /\ wanted = [n \in Nets |-> {}]

NetRequest(s) ==
    /\ netCall[s] = NetIdle /\ netCalls < MaxNetCalls
    /\ \/ \E u \in NetUsers :
              \/ CreateBegin(s, u) \/ CreateOrgBegin(s, u)
              \/ \E n \in Nets :
                     \/ \E override \in BOOLEAN : DeleteBegin(s, u, n, override)
                     \/ PrivatePublicNetwork(s, u, n) \/ Dns(s, u, n) \/ Mtu(s, u, n)
                     \/ MultiCast(s, u, n) \/ EnableIpv4AutoAssign(s, u, n)
                     \/ \E m \in Modes, on \in BOOLEAN : Ipv6Begin(s, u, n, m, on)
                     \/ NetworkName(s, u, n) \/ SetFlowRule(s, u, n) \/ RestPostNetwork(s, u, n)
       \/ DeleteOrgNetsBegin(s)
       \/ \E n \in Nets : AssignBegin(s, n)

NetProceed(s) ==
    \/ CreatePosts(s) \/ CreateStores(s)
    \/ DeleteDeauthorises(s) \/ DeleteDrops(s) \/ DeleteErases(s) \/ DeleteOrgNetsCommit(s)
    \/ UpdatePosts(s) \/ UpdateStores(s)
    \/ Ipv6Reads(s) \/ Ipv6Posts(s) \/ AssignStores(s)

NetNext ==
    \/ \E s \in NetSlots : NetRequest(s) \/ NetProceed(s) \/ Fails(s)
    \/ \E n \in Nets : Authorise(n) \/ \E u \in NetUsers : TransferNetworkOwnership(u, n)

NetSpec == NetInit /\ [][NetNext]_netVars

----------------------------------------------------------------------------
Quiet(n) == \A s \in NetSlots : netCall[s].net # n
Excused == stray \cup netCrossed

(* A row has one owner, and a network on the controller has an id that was drawn. *)
NetTypeOK ==
    /\ ctrl \in [Nets -> ControllerNetworks \cup {NoNet}] /\ row \in [Nets -> NetworkRows \cup {NoNet}]
    /\ \A n \in Nets : /\ Exists(n) => (row[n].author \in NetUsers) # row[n].org
                       /\ OnController(n) => n \in drawn
    /\ \A s \in NetSlots : netCall[s].op \in {"idle", "create", "delete", "deleteOrg", "edit", "ipv6", "assign"}

(* A user has no more networks than the limit of the group, unless two      *)
(* creations overlapped: the count (networkService.ts:36) and the row (:79) *)
(* are separate, with a request to the controller between them.             *)
LimitHeld == \A u \in NetUsers \ {Admin} : Cardinality(Authored(u)) <= Limit \/ u \in raced

(* A network on the controller has a row when no request works on it,       *)
(* unless one failed half-way or two changed it at once.                    *)
ControllerLinked == \A n \in Unlinked : Quiet(n) => n \in Excused

(* A row has its network on the controller, with the same exceptions.  What *)
(* deleteNetwork leaves after a failure cannot be deleted by it again: its  *)
(* first request asks the controller for the members.                       *)
RowsReal == \A n \in Nets : Exists(n) /\ ~OnController(n) /\ Quiet(n) => n \in Excused

(* The name and the rules of the row are the controller's.                  *)
FieldsAgree ==
    \A n \in Nets : Exists(n) /\ OnController(n) /\ Quiet(n) /\ n \notin Excused =>
        row[n].name = ctrl[n].name /\ row[n].rules = ctrl[n].rules

(* The IPv6 modes of a network are the ones that were asked for, in order:  *)
(* the read (networkRouter.ts:629) and the write of one request lose what   *)
(* another request wrote only when the two overlapped.                      *)
ModesKept == \A n \in Nets : OnController(n) /\ n \notin Excused => ctrl[n].v6 = wanted[n]

(* The controller and the database tell the same story of a network no      *)
(* request works on, both hold what was asked for, and nobody has more      *)
(* networks than allowed.                                                   *)
NetworksHold == ControllerLinked /\ RowsReal /\ FieldsAgree /\ ModesKept /\ LimitHeld

(* A network leaves the controller only after its members were deauthorised *)
(* (networkRouter.ts:511), unless one was authorised in the meantime.       *)
DeauthorisedFirst ==
    [][\A n \in Nets : OnController(n) /\ ctrl'[n] = NoNet => ~ctrl[n].auth \/ n \in netCrossed]_netVars
=============================================================================
