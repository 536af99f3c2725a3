--------------------------- MODULE MembersProofs ---------------------------
(***************************************************************************)
(* Proofs about Members, for any set of members, any number of requests    *)
(* under way at once and any bounds.                                       *)
(***************************************************************************)
EXTENDS Members, TLAPS

\* A payload laid over a configuration is a configuration.
LEMMA MergeType == ASSUME NEW c \in Config, NEW p \in Payload PROVE Merge(c, p) \in Config
<1>1. PICK S \in SUBSET Fields : p \in [S -> Values]
  BY DEF Payload
<1> QED BY <1>1 DEF Merge, Config

\* The notification of a change is a well-formed key, and no node.removed.
LEMMA ChangedType ==
    ASSUME NEW old, NEW new, NEW m \in Members, NEW n \in Nat
    PROVE  /\ Changed(old, new, m, n) \in SUBSET Key
           /\ \A k \in Changed(old, new, m, n) : k[1] # "node.removed"
<1> DEFINE K(s) == <<s, m, n>>
<1>1. \A s \in EventNames : K(s) \in Key /\ K(s)[1] = s
  BY DEF Key
<1>2. \/ Changed(old, new, m, n) = {}
      \/ Changed(old, new, m, n) = {K("node.authorized")}
      \/ Changed(old, new, m, n) = {K("node.deauthorized")}
      \/ Changed(old, new, m, n) = {K("node.config.changed")}
  BY DEF Changed
<1>3. /\ K("node.authorized") \in Key /\ K("node.authorized")[1] # "node.removed"
      /\ K("node.deauthorized") \in Key /\ K("node.deauthorized")[1] # "node.removed"
      /\ K("node.config.changed") \in Key /\ K("node.config.changed")[1] # "node.removed"
  BY <1>1 DEF EventNames
<1> HIDE DEF K
<1> QED BY <1>2, <1>3

\* The special configurations and payloads have their types.
LEMMA SpecialConfigs ==
    /\ Closed \in Config
    /\ Closed \in Payload
    /\ Nothing \in Payload
    /\ Config \subseteq Payload
    /\ \A f \in Fields, v \in Values : [g \in {f} |-> v] \in Payload
    /\ [f \in {"settings"} |-> "yes"] \in Payload
<1>1. \A S \in SUBSET Fields : [S -> Values] \subseteq Payload
  BY DEF Payload
<1>2. Closed \in Config /\ Config \subseteq Payload
  BY <1>1 DEF Closed, Config, Values
<1>3. Nothing \in Payload
  <2>1. Nothing \in [{} -> Values]
    BY DEF Nothing
  <2> QED BY <2>1, <1>1
<1>4. ASSUME NEW f \in Fields, NEW v \in Values PROVE [g \in {f} |-> v] \in Payload
  <2>1. [g \in {f} |-> v] \in [{f} -> Values]
    OBVIOUS
  <2>2. {f} \in SUBSET Fields
    OBVIOUS
  <2> QED BY <2>1, <2>2, <1>1
<1> QED BY <1>2, <1>3, <1>4 DEF Fields, Values

\* What a POST to the controller does.
LEMMA PostEffect ==
    ASSUME TypeOK, NEW m \in Members, NEW p \in Payload, Post(m, p)
    PROVE  /\ entry' \in [Members -> Entry \cup {None}]
           /\ changes' = changes + 1
           /\ changes' \in 0 .. MaxChanges
           /\ entry'[m] \in Entry
           /\ entry'[m].rev = changes + 1
           /\ \A x \in Members \ {m} : entry'[x] = entry[x]
<1> DEFINE cfg == Merge(IF entry[m] = None THEN Closed ELSE entry[m].cfg, p)
<1>1. cfg \in Config
  <2>1. (IF entry[m] = None THEN Closed ELSE entry[m].cfg) \in Config
    BY SpecialConfigs DEF TypeOK, Entry
  <2> QED BY <2>1, MergeType
<1>2. entry' = [entry EXCEPT ![m] = [rev |-> changes + 1, cfg |-> cfg]]
  BY DEF Post
<1>3. changes \in Nat /\ changes' = changes + 1 /\ changes' \in 0 .. MaxChanges
  BY BoundsNat DEF Post, TypeOK
<1>4. [rev |-> changes + 1, cfg |-> cfg] \in Entry
  BY <1>1, <1>3 DEF Entry
<1> HIDE DEF cfg
<1> QED BY <1>2, <1>3, <1>4 DEF TypeOK

\* What inserting a row does.
LEMMA InsertEffect ==
    ASSUME TypeOK, NEW m \in Members, NEW c \in Config, Insert(m, c)
    PROVE  /\ rows' \in [Members -> Row \cup {None}]
           /\ nodes' = nodes + 1
           /\ nodes' \in Nat
           /\ events' = events \cup {<<"node.added", m, nodes + 1>>}
           /\ events' \in SUBSET Key
           /\ rows'[m] \in Row
           /\ rows'[m].node = nodes + 1
           /\ rows'[m].raw = None
           /\ rows'[m].rev = 0
           /\ \A x \in Members \ {m} : rows'[x] = rows[x]
<1>1. NewRow(c) \in Row /\ NewRow(c).node = nodes + 1 /\ NewRow(c).raw = None /\ NewRow(c).rev = 0
  BY DEF NewRow, Row, TypeOK
<1>2. rows' = [rows EXCEPT ![m] = NewRow(c)] /\ nodes' = nodes + 1
  BY DEF Insert
<1>3. events' = events \cup {<<"node.added", m, nodes + 1>>}
  BY DEF Insert
<1>4. <<"node.added", m, nodes + 1>> \in Key /\ events \in SUBSET Key
  <2>1. nodes + 1 \in Nat
    BY DEF TypeOK
  <2>2. <<"node.added", m, nodes + 1>> \in Key
    BY <2>1 DEF Key, EventNames
  <2> QED BY <2>2 DEF TypeOK, Key
<1>5. events' \in SUBSET Key
  BY <1>3, <1>4
<1> QED BY <1>1, <1>2, <1>3, <1>5 DEF TypeOK

\* A row with one more flag is a row, with the same nodeid and the same cache.
LEMMA FlaggedType ==
    ASSUME NEW r \in Row, NEW flag \in Flags
    PROVE  /\ Flagged(r, flag) \in Row
           /\ Flagged(r, flag).node = r.node
           /\ Flagged(r, flag).raw = r.raw
           /\ Flagged(r, flag).rev = r.rev
BY DEF Flagged, Row

\* Every action preserves the types: beginning a request.
LEMMA BeginType ==
    ASSUME TypeOK, NEW a \in Admins, NEW m \in Members,
           NEW op \in {"create", "update", "stash", "delete"},
           NEW step \in {"read", "store", "hide", "drop", "mark", "erase"},
           NEW p \in Payload, NEW rev \in Nat, NEW row \in Row \cup {None},
           Begin(a, op, m, step, p, rev, row)
    PROVE  /\ task' \in [Admins -> Task \cup {None}]
           /\ requests' \in 0 .. MaxRequests
<1> DEFINE t == [op |-> op, member |-> m, step |-> step, payload |-> p, rev |-> rev, row |-> row]
<1>1. t \in Task
  BY DEF Task
<1>2. task' = [task EXCEPT ![a] = t]
  BY DEF Begin
<1>3. requests' \in 0 .. MaxRequests
  BY BoundsNat DEF Begin, Request, TypeOK
<1> HIDE DEF t
<1> QED BY <1>1, <1>2, <1>3 DEF TypeOK

\* The first step of a procedure preserves the types.
LEMMA RequestType ==
    ASSUME TypeOK, NEW a \in Admins, NEW m \in Members,
           CreatePosts(a, m) \/ UpdatePosts(a, m) \/ StashPosts(a, m)
           \/ StashPostFails(a, m) \/ DeleteReads(a, m)
    PROVE  TypeOK'
<1> USE DEF tableVars, controllerVars, reconcileVars, adminVars
<1>1. CASE CreatePosts(a, m)
  <2>1. /\ entry' \in [Members -> Entry \cup {None}] /\ changes' \in 0 .. MaxChanges
        /\ entry'[m].cfg \in Payload /\ entry'[m].rev \in Nat
    BY <1>1, PostEffect, SpecialConfigs DEF CreatePosts, Entry
  <2>2. task' \in [Admins -> Task \cup {None}] /\ requests' \in 0 .. MaxRequests
    BY <1>1, <2>1, BeginType DEF CreatePosts
  <2> QED BY <1>1, <2>1, <2>2 DEF CreatePosts, TypeOK
<1>2. CASE UpdatePosts(a, m)
  <2>1. PICK f \in Fields, v \in Values :
           /\ Post(m, [g \in {f} |-> v])
           /\ Begin(a, "update", m, "read", [g \in {f} |-> v], changes + 1, None)
    BY <1>2 DEF UpdatePosts
  <2>2. [g \in {f} |-> v] \in Payload
    BY SpecialConfigs
  <2>3. /\ entry' \in [Members -> Entry \cup {None}] /\ changes' \in 0 .. MaxChanges
        /\ changes + 1 \in Nat
    BY <2>1, <2>2, PostEffect DEF TypeOK
  <2>4. task' \in [Admins -> Task \cup {None}] /\ requests' \in 0 .. MaxRequests
    BY <2>1, <2>2, <2>3, BeginType
  <2> QED BY <1>2, <2>3, <2>4 DEF UpdatePosts, TypeOK
<1>3. CASE StashPosts(a, m)
  <2>1. /\ entry' \in [Members -> Entry \cup {None}] /\ changes' \in 0 .. MaxChanges
        /\ changes + 1 \in Nat
    BY <1>3, PostEffect, SpecialConfigs DEF StashPosts, TypeOK
  <2>2. task' \in [Admins -> Task \cup {None}] /\ requests' \in 0 .. MaxRequests
    BY <1>3, <2>1, BeginType, SpecialConfigs DEF StashPosts
  <2> QED BY <1>3, <2>1, <2>2 DEF StashPosts, TypeOK
<1>4. CASE StashPostFails(a, m)
  <2>1. task' \in [Admins -> Task \cup {None}] /\ requests' \in 0 .. MaxRequests
    BY <1>4, BeginType, SpecialConfigs DEF StashPostFails
  <2> QED BY <1>4, <2>1, BoundsNat DEF StashPostFails, TypeOK
<1>5. CASE DeleteReads(a, m)
  <2>1. rows[m] \in Row \cup {None}
    BY DEF TypeOK
  <2>2. PICK step \in {"mark", "drop"} : Begin(a, "delete", m, step, Nothing, 0, rows[m])
    BY <1>5 DEF DeleteReads
  <2>3. task' \in [Admins -> Task \cup {None}] /\ requests' \in 0 .. MaxRequests
    BY <2>1, <2>2, BeginType, SpecialConfigs
  <2> QED BY <1>5, <2>3 DEF DeleteReads, TypeOK
<1> QED BY <1>1, <1>2, <1>3, <1>4, <1>5

\* Going on to another step, or returning, keeps the types of the requests.
LEMMA TaskType ==
    ASSUME TypeOK, NEW a \in Admins, task[a] # None,
           NEW step \in {"read", "store", "hide", "drop", "mark", "erase"},
           Return(a) \/ Goto(a, step)
    PROVE  /\ task' \in [Admins -> Task \cup {None}]
           /\ requests' \in 0 .. MaxRequests
<1>1. task[a] \in Task
  BY DEF TypeOK
<1>2. [task[a] EXCEPT !.step = step] \in Task
  BY <1>1 DEF Task
<1>3. task' = [task EXCEPT ![a] = None] \/ task' = [task EXCEPT ![a] = [task[a] EXCEPT !.step = step]]
  BY DEF Return, Goto
<1>4. requests' = requests
  BY DEF Return, Goto
<1> QED BY <1>2, <1>3, <1>4 DEF TypeOK

\* The later steps of a procedure preserve the types.
LEMMA ProcedureType ==
    ASSUME TypeOK, NEW a \in Admins, ProcedureStep(a) \/ ProcedureFails(a)
    PROVE  TypeOK'
<1> USE DEF tableVars, controllerVars, reconcileVars
<1> DEFINE t == task[a]
<1> DEFINE m == task[a].member
<1>1. t # None
  BY DEF ProcedureStep, ProcedureFails, ReadMember, StoreUpdate, StashHides, CreateStores,
         DeleteDrops, DeleteErases, DeleteMarks, AtStep
<1>2. t \in Task
  BY <1>1 DEF TypeOK
<1>3. m \in Members /\ t.payload \in Payload /\ t.rev \in Nat /\ t.row \in Row \cup {None}
  BY <1>2 DEF Task
<1>4. rows[m] \in Row \cup {None}
  BY <1>3 DEF TypeOK
<1> HIDE DEF t, m
<1>5. ASSUME Return(a) \/ Goto(a, "hide") \/ Goto(a, "erase")
      PROVE  task' \in [Admins -> Task \cup {None}] /\ requests' \in 0 .. MaxRequests
  BY <1>5, <1>1, TaskType DEF t
<1>6. CASE ReadMember(a)
  <2>1. CASE Return(a)
    BY <1>5, <1>6, <2>1 DEF ReadMember, TypeOK
  <2>2. ASSUME NEW step \in {"hide", "store"}, UNCHANGED requests,
               task' = [task EXCEPT ![a].row = rows[m], ![a].step = step]
        PROVE  TypeOK'
    <3>1. [task[a] EXCEPT !.row = rows[m], !.step = step] \in Task
      BY <1>2, <1>4 DEF Task, t
    <3>2. task' \in [Admins -> Task \cup {None}]
      BY <2>2, <3>1 DEF TypeOK
    <3> QED BY <1>6, <2>2, <3>2 DEF ReadMember, TypeOK
  <2> QED BY <1>6, <2>1, <2>2 DEF ReadMember, m
<1>7. CASE StoreUpdate(a)
  <2>1. task' \in [Admins -> Task \cup {None}] /\ requests' \in 0 .. MaxRequests
    BY <1>5, <1>7 DEF StoreUpdate
  <2>2. CASE rows[m] = None
    BY <1>7, <2>1, <2>2 DEF StoreUpdate, TypeOK, m, t
  <2>3. CASE rows[m] # None
    <3> DEFINE new == Merge(rows[m].cfg, t.payload)
    <3>1. new \in Config
      BY <1>3, <1>4, <2>3, MergeType DEF Row
    <3>2. /\ rows' = [rows EXCEPT ![m].cfg = new]
          /\ events' = events \cup Changed(t.row.cfg, new, m, t.rev)
          /\ UNCHANGED nodes
      BY <1>7, <2>3 DEF StoreUpdate, m, t
    <3> HIDE DEF new
    <3>3. rows' \in [Members -> Row \cup {None}]
      BY <1>4, <2>3, <3>1, <3>2 DEF TypeOK, Row
    <3>4. events' \in SUBSET Key
      BY <1>3, <3>2, ChangedType DEF TypeOK
    <3> QED BY <1>7, <2>1, <3>2, <3>3, <3>4 DEF StoreUpdate, TypeOK
  <2> QED BY <2>2, <2>3
<1>8. CASE StashHides(a)
  <2>1. (IF rows[m] = None THEN None ELSE Flagged(rows[m], "deleted")) \in Row \cup {None}
    BY <1>4, FlaggedType DEF Flags
  <2>2. rows' = [rows EXCEPT ![m] = IF rows[m] = None THEN None ELSE Flagged(rows[m], "deleted")]
    BY <1>8 DEF StashHides, m
  <2>3. rows' \in [Members -> Row \cup {None}]
    BY <2>1, <2>2 DEF TypeOK
  <2> QED BY <1>5, <1>8, <2>3 DEF StashHides, TypeOK
<1>9. CASE CreateStores(a)
  <2>1. task' \in [Admins -> Task \cup {None}] /\ requests' \in 0 .. MaxRequests
    BY <1>5, <1>9 DEF CreateStores
  <2>2. CASE t.row # None /\ rows[m] # None
    <3>1. rows' = [rows EXCEPT ![m].flags = {}]
      BY <1>9, <2>2 DEF CreateStores, t, m
    <3>2. rows' \in [Members -> Row \cup {None}]
      BY <1>4, <2>2, <3>1 DEF TypeOK, Row
    <3>3. <<"node.restore", m, t.rev>> \in Key
      BY <1>3 DEF Key, EventNames
    <3>4. events' \in SUBSET Key /\ nodes' = nodes
      BY <1>9, <2>2, <3>3 DEF CreateStores, TypeOK, t, m
    <3> QED BY <1>9, <2>1, <3>2, <3>4 DEF CreateStores, TypeOK
  <2>3. CASE t.row = None /\ rows[m] = None
    <3>1. Insert(m, Merge(Closed, t.payload))
      BY <1>9, <2>3 DEF CreateStores, t, m
    <3>2. Merge(Closed, t.payload) \in Config
      BY <1>3, MergeType, SpecialConfigs
    <3>3. rows' \in [Members -> Row \cup {None}] /\ nodes' \in Nat /\ events' \in SUBSET Key
      BY <1>3, <3>1, <3>2, InsertEffect
    <3> QED BY <1>9, <2>1, <3>3 DEF CreateStores, TypeOK
  <2>4. CASE ~(t.row # None /\ rows[m] # None) /\ ~(t.row = None /\ rows[m] = None)
    BY <1>9, <2>1, <2>4 DEF CreateStores, TypeOK, t, m
  <2> QED BY <2>2, <2>3, <2>4
<1>10. CASE DeleteDrops(a)
  <2>1. entry' \in [Members -> Entry \cup {None}]
    BY <1>10, <1>3 DEF DeleteDrops, TypeOK, m
  <2> QED BY <1>5, <1>10, <2>1 DEF DeleteDrops, TypeOK
<1>11. CASE DeleteErases(a)
  <2>1. rows' \in [Members -> Row \cup {None}]
    BY <1>11, <1>3 DEF DeleteErases, TypeOK, m
  <2>2. t.row # None => <<"node.removed", m, t.row.node>> \in Key
    BY <1>3 DEF Row, Key, EventNames
  <2>3. events' \in SUBSET Key
    BY <1>11, <2>2 DEF DeleteErases, TypeOK, t, m
  <2> QED BY <1>5, <1>11, <2>1, <2>3 DEF DeleteErases, TypeOK
<1>12. CASE DeleteMarks(a)
  <2>1. (IF rows[m] = None THEN None ELSE Flagged(rows[m], "permanentlyDeleted")) \in Row \cup {None}
    BY <1>4, FlaggedType DEF Flags
  <2>2. rows' = [rows EXCEPT ![m] = IF rows[m] = None THEN None ELSE Flagged(rows[m], "permanentlyDeleted")]
    BY <1>12 DEF DeleteMarks, m
  <2>3. rows' \in [Members -> Row \cup {None}]
    BY <2>1, <2>2 DEF TypeOK
  <2> QED BY <1>5, <1>12, <2>3 DEF DeleteMarks, TypeOK
<1>13. CASE ProcedureFails(a)
  BY <1>5, <1>13, BoundsNat DEF ProcedureFails, TypeOK
<1> QED BY <1>6, <1>7, <1>8, <1>9, <1>10, <1>11, <1>12, <1>13 DEF ProcedureStep

\* Every action preserves the types of the table, the controller, the reconcile
\* and the requests.
LEMMA TypeStep == ASSUME TypeOK, [Next]_vars PROVE TypeOK'
<1> USE DEF tableVars, controllerVars, reconcileVars, adminVars
<1>1. CASE StartReconcile
  <2>1. revisions' \in [Members -> Nat]
    BY <1>1 DEF StartReconcile, TypeOK, Entry
  <2> QED BY <1>1, <2>1 DEF StartReconcile, TypeOK
<1>2. CASE ReadRows
  BY <1>2 DEF ReadRows, TypeOK
<1>3. CASE RemoveOrphans
  <2>1. snap' \in [Members -> Row \cup {None}] /\ revisions' \in [Members -> Nat]
    BY <1>3 DEF RemoveOrphans, ForgetSnapshot
  <2>2. rows' \in [Members -> Row \cup {None}]
    BY <1>3 DEF RemoveOrphans, TypeOK
  <2>3. {<<"node.removed", m, snap[m].node>> : m \in Orphans} \in SUBSET Key
    <3>1. \A m \in Orphans : m \in Members /\ snap[m].node \in Nat
      BY DEF Orphans, TypeOK, Row
    <3>2. \A m \in Orphans : <<"node.removed", m, snap[m].node>> \in Key
      BY <3>1 DEF Key, EventNames
    <3> QED BY <3>2
  <2>4. events' \in SUBSET Key
    BY <1>3, <2>3 DEF RemoveOrphans, TypeOK
  <2> QED BY <1>3, <2>1, <2>2, <2>4 DEF RemoveOrphans, TypeOK
<1>4. CASE FinishReconcile
  BY <1>4 DEF FinishReconcile, TypeOK
<1>5. CASE ReconcileFails
  BY <1>5, BoundsNat DEF ReconcileFails, ForgetSnapshot, TypeOK
<1>6. ASSUME NEW m \in Members, FetchDetail(m) PROVE TypeOK'
  <2>1. (IF entry[m] = None THEN None ELSE entry[m].cfg) \in Config \cup {None}
    BY DEF TypeOK, Entry
  <2> QED BY <1>6, <2>1 DEF FetchDetail, TypeOK
<1>7. ASSUME NEW m \in Members, FetchFails(m) PROVE TypeOK'
  BY <1>7, BoundsNat DEF FetchFails, TypeOK
<1>8. ASSUME NEW m \in Members, AddNetworkMember(m) PROVE TypeOK'
  <2>1. CASE rows[m] = None
    <3>1. Insert(m, Closed)
      BY <1>8, <2>1 DEF AddNetworkMember
    <3>2. rows' \in [Members -> Row \cup {None}] /\ nodes' \in Nat /\ events' \in SUBSET Key
      BY <3>1, InsertEffect, SpecialConfigs
    <3> QED BY <1>8, <3>2 DEF AddNetworkMember, TypeOK
  <2>2. CASE rows[m] # None
    BY <1>8, <2>2 DEF AddNetworkMember, TypeOK
  <2> QED BY <2>1, <2>2
<1>9. ASSUME NEW m \in Members, AddNetworkMemberFails(m) PROVE TypeOK'
  BY <1>9, BoundsNat DEF AddNetworkMemberFails, TypeOK
<1>10. ASSUME NEW m \in Members, StoreDetail(m) PROVE TypeOK'
  <2>1. details[m] \in Config /\ revisions[m] \in Nat
    BY <1>10 DEF StoreDetail, Storing, TypeOK
  <2>2. rows' \in [Members -> Row \cup {None}]
    <3> DEFINE new == IF rows[m] = None THEN None ELSE
                 [rows[m] EXCEPT !.cfg = details[m], !.raw = details[m], !.rev = revisions[m]]
    <3>1. new \in Row \cup {None}
      <4>1. CASE rows[m] = None
        BY <4>1
      <4>2. CASE rows[m] # None
        <5>1. rows[m] \in Row
          BY <4>2 DEF TypeOK
        <5> QED BY <2>1, <4>2, <5>1 DEF Row
      <4> QED BY <4>1, <4>2
    <3>2. rows' = [rows EXCEPT ![m] = new]
      BY <1>10 DEF StoreDetail
    <3> HIDE DEF new
    <3> QED BY <3>1, <3>2 DEF TypeOK
  <2>3. events' \in SUBSET Key
    BY <1>10, <2>1, ChangedType DEF StoreDetail, TypeOK
  <2>4. details' \in [Members -> Config \cup {None}]
    BY <1>10 DEF StoreDetail, TypeOK
  <2> QED BY <1>10, <2>2, <2>3, <2>4 DEF StoreDetail, TypeOK
<1>11. ASSUME NEW m \in Members, NodeJoins(m) PROVE TypeOK'
  <2>1. entry' \in [Members -> Entry \cup {None}] /\ changes' \in 0 .. MaxChanges
    BY <1>11, PostEffect, SpecialConfigs DEF NodeJoins
  <2> QED BY <1>11, <2>1 DEF NodeJoins, TypeOK
<1>12. ASSUME NEW m \in Members, AssignsAddress(m) PROVE TypeOK'
  <2>1. entry' \in [Members -> Entry \cup {None}] /\ changes' \in 0 .. MaxChanges
    BY <1>12, PostEffect, SpecialConfigs DEF AssignsAddress
  <2> QED BY <1>12, <2>1 DEF AssignsAddress, TypeOK
<1>13. ASSUME NEW m \in Members, UpdateDatabaseOnly(m) PROVE TypeOK'
  <2>1. requests' \in 0 .. MaxRequests
    BY <1>13, BoundsNat DEF UpdateDatabaseOnly, Request, TypeOK
  <2>2. rows' \in [Members -> Row \cup {None}]
    BY <1>13 DEF UpdateDatabaseOnly, TypeOK, Row, Flags
  <2> QED BY <1>13, <2>1, <2>2 DEF UpdateDatabaseOnly, TypeOK
<1>14. CASE BulkDeleteStashed
  <2>1. requests' \in 0 .. MaxRequests
    BY <1>14, BoundsNat DEF BulkDeleteStashed, Request, TypeOK
  <2>2. rows' \in [Members -> Row \cup {None}]
    BY <1>14, FlaggedType DEF BulkDeleteStashed, TypeOK, Flags
  <2> QED BY <1>14, <2>1, <2>2 DEF BulkDeleteStashed, TypeOK
<1>15. ASSUME NEW a \in Admins, NEW m \in Members,
              CreatePosts(a, m) \/ UpdatePosts(a, m) \/ StashPosts(a, m)
              \/ StashPostFails(a, m) \/ DeleteReads(a, m)
       PROVE TypeOK'
  BY <1>15, RequestType
<1>16. ASSUME NEW a \in Admins, ProcedureStep(a) \/ ProcedureFails(a) PROVE TypeOK'
  BY <1>16, ProcedureType
<1>17. CASE UNCHANGED vars
  BY <1>17 DEF vars, TypeOK
<1> QED
  BY <1>1, <1>2, <1>3, <1>4, <1>5, <1>6, <1>7, <1>8, <1>9, <1>10, <1>11, <1>12, <1>13,
     <1>14, <1>15, <1>16, <1>17
  DEF Next, ReconcileStep

\* Members is type-correct.
THEOREM MembersTypeCorrect == Spec => []TypeOK
<1>1. Init => TypeOK
  BY BoundsNat DEF Init, TypeOK
<1> QED BY <1>1, TypeStep, PTL DEF Spec

-----------------------------------------------------------------------------
(* What a step can do to one row, one entry and one detail.                *)

\* The row is taken away, is edited in the columns that do not describe the
\* cache, gets the fetched detail, or is new.
RowStep(m) ==
    \/ rows'[m] = rows[m]
    \/ rows'[m] = None
    \/ /\ rows[m] # None
       /\ rows'[m].node = rows[m].node
       /\ rows'[m].raw = rows[m].raw
       /\ rows'[m].rev = rows[m].rev
    \/ /\ rows[m] # None
       /\ details[m] # None
       /\ entry' = entry
       /\ rows'[m].node = rows[m].node
       /\ rows'[m].raw = details[m]
       /\ rows'[m].rev = revisions[m]
    \/ /\ nodes' = nodes + 1
       /\ rows'[m].node = nodes + 1
       /\ rows'[m].rev = 0
       /\ rows'[m].raw = None
       /\ <<"node.added", m, nodes + 1>> \in events'

\* The entry goes, stays, or changes under a revision that nobody has read.
EntryStep(m) ==
    \/ entry'[m] = entry[m]
    \/ entry'[m] = None
    \/ /\ entry'[m].rev = changes + 1
       /\ changes' = changes + 1
       /\ UNCHANGED <<rows, details, revisions>>

\* Beginning a procedure touches no row.
LEMMA RequestRows ==
    ASSUME NEW a \in Admins, NEW m \in Members,
           CreatePosts(a, m) \/ UpdatePosts(a, m) \/ StashPosts(a, m)
           \/ StashPostFails(a, m) \/ DeleteReads(a, m)
    PROVE  UNCHANGED <<rows, nodes, events, details, revisions, phase, todo, snap>>
BY DEF CreatePosts, UpdatePosts, StashPosts, StashPostFails, DeleteReads, tableVars, reconcileVars

\* The later steps of a procedure and the rows.
LEMMA ProcedureRows ==
    ASSUME TypeOK, NEW a \in Admins, ProcedureStep(a) \/ ProcedureFails(a), NEW x \in Members
    PROVE  RowStep(x)
<1> USE DEF tableVars
<1> DEFINE t == task[a]
<1> DEFINE m == task[a].member
<1>1. task[a] # None
  BY DEF ProcedureStep, ProcedureFails, ReadMember, StoreUpdate, StashHides, CreateStores,
         DeleteDrops, DeleteErases, DeleteMarks, AtStep
<1>2. m \in Members /\ t.payload \in Payload /\ rows[x] \in Row \cup {None}
  BY <1>1 DEF TypeOK, Task
<1>3. rows \in [Members -> Row \cup {None}]
  BY DEF TypeOK
<1> HIDE DEF t, m
<1>4. CASE ReadMember(a) \/ DeleteDrops(a) \/ ProcedureFails(a)
  BY <1>4 DEF ReadMember, DeleteDrops, ProcedureFails, RowStep
<1>5. CASE StoreUpdate(a)
  <2>1. CASE rows[m] = None
    BY <1>5, <2>1 DEF StoreUpdate, RowStep, m
  <2>2. CASE rows[m] # None
    <3>1. PICK c : rows' = [rows EXCEPT ![m].cfg = c]
      BY <1>5, <2>2 DEF StoreUpdate, m
    <3> QED BY <1>2, <1>3, <2>2, <3>1 DEF RowStep, Row
  <2> QED BY <2>1, <2>2
<1>6. CASE StashHides(a) \/ DeleteMarks(a)
  <2>1. PICK fl \in Flags :
          rows' = [rows EXCEPT ![m] = IF rows[m] = None THEN None ELSE Flagged(rows[m], fl)]
    BY <1>6 DEF StashHides, DeleteMarks, Flags, m
  <2> QED BY <1>2, <1>3, <2>1, FlaggedType DEF RowStep
<1>7. CASE CreateStores(a)
  <2>1. CASE t.row # None /\ rows[m] # None
    <3>1. rows' = [rows EXCEPT ![m].flags = {}]
      BY <1>7, <2>1 DEF CreateStores, t, m
    <3> QED BY <1>2, <1>3, <2>1, <3>1 DEF RowStep, Row
  <2>2. CASE t.row = None /\ rows[m] = None
    <3>1. Insert(m, Merge(Closed, t.payload))
      BY <1>7, <2>2 DEF CreateStores, t, m
    <3>2. Merge(Closed, t.payload) \in Config
      BY <1>2, MergeType, SpecialConfigs
    <3> QED BY <1>2, <3>1, <3>2, InsertEffect DEF RowStep
  <2>3. CASE ~(t.row # None /\ rows[m] # None) /\ ~(t.row = None /\ rows[m] = None)
    BY <1>7, <2>3 DEF CreateStores, RowStep, t, m
  <2> QED BY <2>1, <2>2, <2>3
<1>8. CASE DeleteErases(a)
  BY <1>2, <1>3, <1>8 DEF DeleteErases, RowStep, m
<1> QED BY <1>4, <1>5, <1>6, <1>7, <1>8 DEF ProcedureStep

\* Every step treats every row in one of these ways.
LEMMA RowEffect == ASSUME TypeOK, [Next]_vars, NEW x \in Members PROVE RowStep(x)
<1> USE DEF tableVars
<1>1. rows \in [Members -> Row \cup {None}] /\ rows[x] \in Row \cup {None}
  BY DEF TypeOK
<1>2. CASE StartReconcile \/ ReadRows \/ FinishReconcile \/ ReconcileFails \/ UNCHANGED vars
  BY <1>2 DEF StartReconcile, ReadRows, FinishReconcile, ReconcileFails, vars, RowStep
<1>3. CASE RemoveOrphans
  BY <1>3 DEF RemoveOrphans, RowStep
<1>4. ASSUME NEW m \in Members,
             FetchDetail(m) \/ FetchFails(m) \/ AddNetworkMemberFails(m) \/ NodeJoins(m)
             \/ AssignsAddress(m)
      PROVE  RowStep(x)
  BY <1>4 DEF FetchDetail, FetchFails, AddNetworkMemberFails, NodeJoins, AssignsAddress, RowStep
<1>5. ASSUME NEW m \in Members, AddNetworkMember(m) PROVE RowStep(x)
  <2>1. CASE rows[m] = None
    <3>1. Insert(m, Closed)
      BY <1>5, <2>1 DEF AddNetworkMember
    <3> QED BY <3>1, InsertEffect, SpecialConfigs DEF RowStep
  <2>2. CASE rows[m] # None
    BY <1>5, <2>2 DEF AddNetworkMember, RowStep
  <2> QED BY <2>1, <2>2
<1>6. ASSUME NEW m \in Members, StoreDetail(m) PROVE RowStep(x)
  <2>1. /\ rows' = [rows EXCEPT ![m] = IF rows[m] = None THEN None ELSE
               [rows[m] EXCEPT !.cfg = details[m], !.raw = details[m], !.rev = revisions[m]]]
        /\ details[m] # None
        /\ entry' = entry
    BY <1>6 DEF StoreDetail, Storing, controllerVars
  <2> QED BY <1>1, <2>1 DEF RowStep, Row
<1>7. ASSUME NEW m \in Members, UpdateDatabaseOnly(m) PROVE RowStep(x)
  <2>1. PICK fl : rows' = [rows EXCEPT ![m].flags = fl]
    BY <1>7 DEF UpdateDatabaseOnly
  <2>2. rows[m] # None
    BY <1>7 DEF UpdateDatabaseOnly
  <2> QED BY <1>1, <2>1, <2>2 DEF RowStep, Row
<1>8. CASE BulkDeleteStashed
  <2>1. PICK marked \in (SUBSET {m \in Members : rows[m] # None /\ "deleted" \in rows[m].flags}) \ {{}} :
          rows' = [m \in Members |-> IF m \in marked
                     THEN Flagged(rows[m], "permanentlyDeleted")
                     ELSE rows[m]]
    BY <1>8 DEF BulkDeleteStashed
  <2> QED BY <1>1, <2>1, FlaggedType DEF RowStep, Flags
<1>9. ASSUME NEW a \in Admins, NEW m \in Members,
             CreatePosts(a, m) \/ UpdatePosts(a, m) \/ StashPosts(a, m)
             \/ StashPostFails(a, m) \/ DeleteReads(a, m)
      PROVE  RowStep(x)
  BY <1>9, RequestRows DEF RowStep
<1>10. ASSUME NEW a \in Admins, ProcedureStep(a) \/ ProcedureFails(a) PROVE RowStep(x)
  BY <1>10, ProcedureRows
<1> QED BY <1>2, <1>3, <1>4, <1>5, <1>6, <1>7, <1>8, <1>9, <1>10 DEF Next, ReconcileStep

\* The detail is dropped, kept together with the revision of the map, or just
\* fetched.
DetailStep(m) ==
    \/ details'[m] = None
    \/ details'[m] = details[m] /\ revisions'[m] = revisions[m]
    \/ /\ entry[m] # None
       /\ entry' = entry
       /\ details'[m] = entry[m].cfg
       /\ revisions'[m] = revisions[m]

\* The map keeps a revision, forgets it, or has just read it.
RevisionStep(m) ==
    \/ revisions'[m] = revisions[m]
    \/ revisions'[m] = 0
    \/ entry[m] # None /\ revisions'[m] = entry[m].rev

\* Details are held only while a reconcile stores them.
DetailsHeld == phase # "details" => \A m \in Members : details[m] = None

\* No revision is ahead of those the controller has given out.
RevisionsGiven ==
    \A m \in Members :
        /\ entry[m] # None => entry[m].rev <= changes
        /\ rows[m] # None => rows[m].rev <= changes
        /\ revisions[m] <= changes

\* A detail whose revision is still the controller's is still the controller's.
DetailHonest ==
    \A m \in Members :
        details[m] # None /\ entry[m] # None /\ entry[m].rev = revisions[m]
            => details[m] = entry[m].cfg

\* The strengthening that makes CacheHonest inductive.
CacheInv == DetailsHeld /\ RevisionsGiven /\ DetailHonest /\ CacheHonest

\* Every step treats every entry in one of the ways of EntryStep.
LEMMA EntryEffect ==
    ASSUME TypeOK, [Next]_vars, NEW x \in Members
    PROVE  EntryStep(x) /\ (changes' = changes \/ changes' = changes + 1)
<1> USE DEF controllerVars, tableVars, reconcileVars
<1>1. CASE ReconcileStep \/ ReconcileFails \/ BulkDeleteStashed \/ UNCHANGED vars
  BY <1>1 DEF ReconcileStep, StartReconcile, ReadRows, RemoveOrphans, FinishReconcile, FetchDetail,
     AddNetworkMember, StoreDetail, ReconcileFails, BulkDeleteStashed, vars, EntryStep
<1>2. ASSUME NEW m \in Members, FetchFails(m) \/ AddNetworkMemberFails(m) \/ UpdateDatabaseOnly(m)
      PROVE  EntryStep(x) /\ changes' = changes
  BY <1>2 DEF FetchFails, AddNetworkMemberFails, UpdateDatabaseOnly, EntryStep
<1>3. ASSUME NEW m \in Members, NEW p \in Payload, Post(m, p),
             UNCHANGED <<rows, details, revisions>>
      PROVE  EntryStep(x) /\ changes' = changes + 1
  BY <1>3, PostEffect DEF EntryStep
<1>4. ASSUME NEW m \in Members, NodeJoins(m) \/ AssignsAddress(m)
      PROVE  EntryStep(x) /\ changes' = changes + 1
  BY <1>3, <1>4, SpecialConfigs DEF NodeJoins, AssignsAddress
<1>5. ASSUME NEW a \in Admins, NEW m \in Members, CreatePosts(a, m) \/ StashPosts(a, m)
      PROVE  EntryStep(x) /\ changes' = changes + 1
  BY <1>3, <1>5, SpecialConfigs DEF CreatePosts, StashPosts
<1>6. ASSUME NEW a \in Admins, NEW m \in Members, UpdatePosts(a, m)
      PROVE  EntryStep(x) /\ changes' = changes + 1
  <2>1. PICK f \in Fields, v \in Values : Post(m, [g \in {f} |-> v])
    BY <1>6 DEF UpdatePosts
  <2>2. [g \in {f} |-> v] \in Payload
    BY SpecialConfigs
  <2>3. UNCHANGED <<rows, details, revisions>>
    BY <1>6 DEF UpdatePosts
  <2> QED BY <1>3, <2>1, <2>2, <2>3
<1>7. ASSUME NEW a \in Admins, NEW m \in Members, StashPostFails(a, m) \/ DeleteReads(a, m)
      PROVE  EntryStep(x) /\ changes' = changes
  BY <1>7 DEF StashPostFails, DeleteReads, EntryStep
<1>8. ASSUME NEW a \in Admins, DeleteDrops(a) PROVE EntryStep(x) /\ changes' = changes
  <2>1. entry' = [entry EXCEPT ![task[a].member] = None] /\ changes' = changes
    BY <1>8 DEF DeleteDrops
  <2> QED BY <2>1 DEF TypeOK, EntryStep
<1>9. ASSUME NEW a \in Admins,
             \/ ReadMember(a) \/ StoreUpdate(a) \/ StashHides(a) \/ CreateStores(a)
             \/ DeleteErases(a) \/ DeleteMarks(a) \/ ProcedureFails(a)
      PROVE  EntryStep(x) /\ changes' = changes
  BY <1>9 DEF ReadMember, StoreUpdate, StashHides, CreateStores, DeleteErases, DeleteMarks,
     ProcedureFails, EntryStep
<1> QED BY <1>1, <1>2, <1>4, <1>5, <1>6, <1>7, <1>8, <1>9 DEF Next, ProcedureStep

\* Every step treats every detail and revision in one of the ways above.
LEMMA DetailEffect ==
    ASSUME TypeOK, DetailsHeld, [Next]_vars, NEW x \in Members
    PROVE  DetailStep(x) /\ RevisionStep(x) /\ DetailsHeld'
<1> USE DEF controllerVars, reconcileVars
<1>1. CASE StartReconcile
  BY <1>1 DEF StartReconcile, DetailsHeld, DetailStep, RevisionStep
<1>2. CASE ReadRows
  BY <1>2 DEF ReadRows, DetailsHeld, DetailStep, RevisionStep
<1>3. CASE RemoveOrphans
  BY <1>3 DEF RemoveOrphans, AllStored, ForgetSnapshot, DetailsHeld, DetailStep, RevisionStep
<1>4. CASE FinishReconcile
  BY <1>4 DEF FinishReconcile, DetailsHeld, DetailStep, RevisionStep
<1>5. CASE ReconcileFails
  BY <1>5 DEF ReconcileFails, ForgetSnapshot, DetailsHeld, DetailStep, RevisionStep
<1>6. ASSUME NEW m \in Members, FetchDetail(m) PROVE DetailStep(x) /\ RevisionStep(x) /\ DetailsHeld'
  BY <1>6 DEF FetchDetail, TypeOK, DetailsHeld, DetailStep, RevisionStep
<1>7. ASSUME NEW m \in Members, StoreDetail(m) PROVE DetailStep(x) /\ RevisionStep(x) /\ DetailsHeld'
  BY <1>7 DEF StoreDetail, Storing, TypeOK, DetailsHeld, DetailStep, RevisionStep
<1>8. ASSUME UNCHANGED <<details, revisions, phase>>
      PROVE  DetailStep(x) /\ RevisionStep(x) /\ DetailsHeld'
  BY <1>8 DEF DetailsHeld, DetailStep, RevisionStep
<1>9. ASSUME NEW m \in Members,
             FetchFails(m) \/ AddNetworkMember(m) \/ AddNetworkMemberFails(m) \/ NodeJoins(m)
             \/ AssignsAddress(m) \/ UpdateDatabaseOnly(m)
      PROVE  UNCHANGED <<details, revisions, phase>>
  BY <1>9 DEF FetchFails, AddNetworkMember, AddNetworkMemberFails, NodeJoins, AssignsAddress,
     UpdateDatabaseOnly
<1>10. CASE BulkDeleteStashed \/ UNCHANGED vars
  BY <1>8, <1>10 DEF BulkDeleteStashed, vars
<1>11. ASSUME NEW a \in Admins, NEW m \in Members,
              CreatePosts(a, m) \/ UpdatePosts(a, m) \/ StashPosts(a, m)
              \/ StashPostFails(a, m) \/ DeleteReads(a, m)
       PROVE  UNCHANGED <<details, revisions, phase>>
  BY <1>11, RequestRows
<1>12. ASSUME NEW a \in Admins, ProcedureStep(a) \/ ProcedureFails(a)
       PROVE  UNCHANGED <<details, revisions, phase>>
  BY <1>12 DEF ProcedureStep, ProcedureFails, ReadMember, StoreUpdate, StashHides, CreateStores,
     DeleteDrops, DeleteErases, DeleteMarks
<1> QED BY <1>1, <1>2, <1>3, <1>4, <1>5, <1>6, <1>7, <1>8, <1>9, <1>10, <1>11, <1>12
        DEF Next, ReconcileStep

\* Every step preserves CacheInv.
LEMMA CacheStep == ASSUME TypeOK, CacheInv, [Next]_vars PROVE CacheInv'
<1>1. DetailsHeld'
  <2>1. CASE Members = {}
    BY <2>1 DEF DetailsHeld
  <2>2. CASE Members # {}
    BY <2>2, DetailEffect DEF CacheInv
  <2> QED BY <2>1, <2>2
<1>2. ASSUME NEW m \in Members
      PROVE  /\ entry'[m] # None => entry'[m].rev <= changes'
             /\ rows'[m] # None => rows'[m].rev <= changes'
             /\ revisions'[m] <= changes'
             /\ details'[m] # None /\ entry'[m] # None /\ entry'[m].rev = revisions'[m]
                   => details'[m] = entry'[m].cfg
             /\ rows'[m] # None /\ entry'[m] # None /\ rows'[m].rev = entry'[m].rev
                   => rows'[m].raw = entry'[m].cfg
  <2>1. RowStep(m) /\ EntryStep(m) /\ DetailStep(m) /\ RevisionStep(m)
    BY RowEffect, EntryEffect, DetailEffect DEF CacheInv
  <2>2. changes' = changes \/ changes' = changes + 1
    BY EntryEffect
  <2>3. /\ changes \in Nat /\ revisions[m] \in Nat
        /\ entry[m] # None => entry[m].rev \in Nat \ {0}
        /\ rows[m] # None => rows[m].rev \in Nat
    BY DEF TypeOK, Entry, Row
  <2>4. TypeOK'
    BY TypeStep
  <2>5. /\ revisions'[m] \in Nat
        /\ entry'[m] # None => entry'[m].rev \in Nat \ {0}
        /\ rows'[m] # None => rows'[m].rev \in Nat
    BY <2>4 DEF TypeOK, Entry, Row
  <2>6. /\ entry[m] # None => entry[m].rev <= changes
        /\ rows[m] # None => rows[m].rev <= changes
        /\ revisions[m] <= changes
    BY DEF CacheInv, RevisionsGiven
  <2>7. /\ entry'[m] # None => entry'[m].rev <= changes'
        /\ rows'[m] # None => rows'[m].rev <= changes'
        /\ revisions'[m] <= changes'
    BY <2>1, <2>2, <2>3, <2>5, <2>6 DEF RowStep, EntryStep, RevisionStep
  <2>8. details'[m] # None /\ entry'[m] # None /\ entry'[m].rev = revisions'[m]
           => details'[m] = entry'[m].cfg
    <3>1. CASE entry'[m] = entry[m]
      BY <2>1, <3>1 DEF DetailStep, CacheInv, DetailHonest
    <3>2. CASE entry'[m] # entry[m] /\ entry'[m] # None
      BY <2>1, <2>3, <2>6, <3>2 DEF EntryStep
    <3> QED BY <3>1, <3>2
  <2>9. rows'[m] # None /\ entry'[m] # None /\ rows'[m].rev = entry'[m].rev
           => rows'[m].raw = entry'[m].cfg
    <3>1. CASE entry'[m] = entry[m]
      BY <2>1, <2>3, <3>1 DEF RowStep, CacheInv, DetailHonest, CacheHonest
    <3>2. CASE entry'[m] # entry[m] /\ entry'[m] # None
      BY <2>1, <2>3, <2>6, <3>2 DEF EntryStep
    <3> QED BY <3>1, <3>2
  <2> QED BY <2>7, <2>8, <2>9
<1> QED BY <1>1, <1>2 DEF CacheInv, RevisionsGiven, DetailHonest, CacheHonest

\* A row that carries the controller's revision holds the controller's object,
\* for any number of members and of procedures racing with the reconcile.
THEOREM CacheAlwaysHonest == Spec => []CacheHonest
<1>1. Init => CacheInv
  BY DEF Init, CacheInv, DetailsHeld, RevisionsGiven, DetailHonest, CacheHonest
<1>2. CacheInv => CacheHonest
  BY DEF CacheInv
<1> QED BY <1>1, <1>2, CacheStep, MembersTypeCorrect, PTL DEF Spec

-----------------------------------------------------------------------------
(* Notifications.                                                          *)

\* No nodeid is ahead of those the database has given out: not in the table,
\* not in what a reconcile or a procedure has read, not in a node.removed.
NodesGiven ==
    /\ \A m \in Members : /\ rows[m] # None => rows[m].node <= nodes
                          /\ snap[m] # None => snap[m].node <= nodes
    /\ \A a \in Admins : task[a] # None /\ task[a].row # None => task[a].row.node <= nodes
    /\ \A k \in events : k[1] = "node.removed" => k[3] <= nodes

\* The strengthening that makes RowsAnnounced and RemovalsTrue inductive.
AnnounceInv == NodesGiven /\ RowsAnnounced /\ RemovalsTrue

\* A new node.removed names a nodeid given out before and a member without a row.
EventStep ==
    /\ events \subseteq events'
    /\ nodes' = nodes \/ nodes' = nodes + 1
    /\ \A k \in events' : k[1] = "node.removed" =>
          \/ k \in events
          \/ k[2] \in Members /\ rows'[k[2]] = None /\ k[3] <= nodes

\* Inserting a row announces no removal.
LEMMA InsertEvents ==
    ASSUME TypeOK, NEW m \in Members, NEW c \in Config, Insert(m, c)
    PROVE  EventStep
<1>1. events' = events \cup {<<"node.added", m, nodes + 1>>} /\ nodes' = nodes + 1
  BY InsertEffect
<1> QED BY <1>1 DEF EventStep

\* The steps of the procedures and the notifications.
LEMMA ProcedureEvents ==
    ASSUME TypeOK, NodesGiven, NEW a \in Admins, ProcedureStep(a) \/ ProcedureFails(a)
    PROVE  EventStep
<1> USE DEF tableVars
<1> DEFINE t == task[a]
<1> DEFINE m == task[a].member
<1>1. task[a] # None
  BY DEF ProcedureStep, ProcedureFails, ReadMember, StoreUpdate, StashHides, CreateStores,
         DeleteDrops, DeleteErases, DeleteMarks, AtStep
<1>2. m \in Members /\ t.payload \in Payload /\ t.rev \in Nat
  BY <1>1 DEF TypeOK, Task
<1>3. t.row # None => t.row.node <= nodes
  BY <1>1 DEF NodesGiven
<1> HIDE DEF t, m
<1>4. CASE \/ ReadMember(a) \/ DeleteDrops(a) \/ ProcedureFails(a) \/ StashHides(a)
           \/ DeleteMarks(a)
  BY <1>4 DEF ReadMember, DeleteDrops, ProcedureFails, StashHides, DeleteMarks, EventStep
<1>5. CASE StoreUpdate(a)
  <2>1. CASE rows[m] = None
    BY <1>5, <2>1 DEF StoreUpdate, EventStep, m
  <2>2. CASE rows[m] # None
    <3>1. PICK old, new : events' = events \cup Changed(old, new, m, t.rev)
      BY <1>5, <2>2 DEF StoreUpdate, t, m
    <3>2. nodes' = nodes
      BY <1>5, <2>2 DEF StoreUpdate, m
    <3> QED BY <1>2, <3>1, <3>2, ChangedType DEF EventStep
  <2> QED BY <2>1, <2>2
<1>6. CASE CreateStores(a)
  <2>1. CASE t.row # None /\ rows[m] # None
    <3>1. events' = events \/ events' = events \cup {<<"node.restore", m, t.rev>>}
      BY <1>6, <2>1 DEF CreateStores, t, m
    <3>2. nodes' = nodes
      BY <1>6, <2>1 DEF CreateStores, t, m
    <3> QED BY <3>1, <3>2 DEF EventStep
  <2>2. CASE t.row = None /\ rows[m] = None
    <3>1. Insert(m, Merge(Closed, t.payload))
      BY <1>6, <2>2 DEF CreateStores, t, m
    <3>2. Merge(Closed, t.payload) \in Config
      BY <1>2, MergeType, SpecialConfigs
    <3> QED BY <1>2, <3>1, <3>2, InsertEvents
  <2>3. CASE ~(t.row # None /\ rows[m] # None) /\ ~(t.row = None /\ rows[m] = None)
    BY <1>6, <2>3 DEF CreateStores, EventStep, t, m
  <2> QED BY <2>1, <2>2, <2>3
<1>7. CASE DeleteErases(a)
  <2>1. \/ events' = events
        \/ t.row # None /\ events' = events \cup {<<"node.removed", m, t.row.node>>}
    BY <1>7 DEF DeleteErases, t, m
  <2>2. rows'[m] = None /\ nodes' = nodes
    BY <1>2, <1>7 DEF DeleteErases, TypeOK, m
  <2> QED BY <1>2, <1>3, <2>1, <2>2 DEF EventStep
<1> QED BY <1>4, <1>5, <1>6, <1>7 DEF ProcedureStep

\* Every step announces only removals that it makes.
LEMMA EventEffect == ASSUME TypeOK, NodesGiven, [Next]_vars PROVE EventStep
<1> USE DEF tableVars
<1>1. CASE StartReconcile \/ ReadRows \/ FinishReconcile \/ ReconcileFails \/ BulkDeleteStashed
           \/ UNCHANGED vars
  BY <1>1 DEF StartReconcile, ReadRows, FinishReconcile, ReconcileFails, BulkDeleteStashed, vars,
     EventStep
<1>2. CASE RemoveOrphans
  <2>1. /\ events' = events \cup {<<"node.removed", m, snap[m].node>> : m \in Orphans}
        /\ nodes' = nodes
        /\ \A m \in Orphans : m \in Members /\ rows'[m] = None
    BY <1>2 DEF RemoveOrphans, Orphans
  <2>2. \A m \in Orphans : snap[m].node <= nodes
    BY DEF Orphans, NodesGiven
  <2> QED BY <2>1, <2>2 DEF EventStep
<1>3. ASSUME NEW m \in Members,
             FetchDetail(m) \/ FetchFails(m) \/ AddNetworkMemberFails(m) \/ NodeJoins(m)
             \/ AssignsAddress(m) \/ UpdateDatabaseOnly(m)
      PROVE  EventStep
  BY <1>3 DEF FetchDetail, FetchFails, AddNetworkMemberFails, NodeJoins, AssignsAddress,
     UpdateDatabaseOnly, EventStep
<1>4. ASSUME NEW m \in Members, AddNetworkMember(m) PROVE EventStep
  <2>1. CASE rows[m] = None
    BY <1>4, <2>1, InsertEvents, SpecialConfigs DEF AddNetworkMember
  <2>2. CASE rows[m] # None
    BY <1>4, <2>2 DEF AddNetworkMember, EventStep
  <2> QED BY <2>1, <2>2
<1>5. ASSUME NEW m \in Members, StoreDetail(m) PROVE EventStep
  <2>1. revisions[m] \in Nat
    BY DEF TypeOK
  <2>2. \/ events' = events
        \/ events' = events \cup Changed(snap[m].cfg, details[m], m, revisions[m])
    BY <1>5 DEF StoreDetail
  <2>3. nodes' = nodes
    BY <1>5 DEF StoreDetail
  <2> QED BY <2>1, <2>2, <2>3, ChangedType DEF EventStep
<1>6. ASSUME NEW a \in Admins, NEW m \in Members,
             CreatePosts(a, m) \/ UpdatePosts(a, m) \/ StashPosts(a, m)
             \/ StashPostFails(a, m) \/ DeleteReads(a, m)
      PROVE  EventStep
  BY <1>6, RequestRows DEF EventStep
<1>7. ASSUME NEW a \in Admins, ProcedureStep(a) \/ ProcedureFails(a) PROVE EventStep
  BY <1>7, ProcedureEvents
<1> QED BY <1>1, <1>2, <1>3, <1>4, <1>5, <1>6, <1>7 DEF Next, ReconcileStep

\* A reconcile holds rows it had before or rows of the table.
LEMMA SnapEffect ==
    ASSUME TypeOK, [Next]_vars, NEW x \in Members
    PROVE  snap'[x] = snap[x] \/ snap'[x] = None \/ snap'[x] = rows[x]
<1> USE DEF reconcileVars
<1>1. CASE ReconcileStep \/ ReconcileFails \/ BulkDeleteStashed \/ UNCHANGED vars
  BY <1>1 DEF ReconcileStep, StartReconcile, ReadRows, RemoveOrphans, FinishReconcile, FetchDetail,
     AddNetworkMember, StoreDetail, ReconcileFails, ForgetSnapshot, BulkDeleteStashed, vars
<1>2. ASSUME NEW m \in Members,
             FetchFails(m) \/ AddNetworkMemberFails(m) \/ UpdateDatabaseOnly(m) \/ NodeJoins(m)
             \/ AssignsAddress(m)
      PROVE  snap' = snap
  BY <1>2 DEF FetchFails, AddNetworkMemberFails, UpdateDatabaseOnly, NodeJoins, AssignsAddress
<1>3. ASSUME NEW a \in Admins, NEW m \in Members,
             CreatePosts(a, m) \/ UpdatePosts(a, m) \/ StashPosts(a, m)
             \/ StashPostFails(a, m) \/ DeleteReads(a, m)
      PROVE  snap' = snap
  BY <1>3, RequestRows
<1>4. ASSUME NEW a \in Admins, ProcedureStep(a) \/ ProcedureFails(a) PROVE snap' = snap
  BY <1>4 DEF ProcedureStep, ProcedureFails, ReadMember, StoreUpdate, StashHides, CreateStores,
     DeleteDrops, DeleteErases, DeleteMarks
<1> QED BY <1>1, <1>2, <1>3, <1>4 DEF Next

\* A procedure holds the row it had before, none, or a row of the table.
TaskRow(x) ==
    task'[x] # None =>
        \/ task[x] # None /\ task'[x].row = task[x].row
        \/ task'[x].row = None
        \/ \E m \in Members : task'[x].row = rows[m]

\* Beginning a request, and the row it holds.
LEMMA BeginRow ==
    ASSUME TypeOK, NEW a \in Admins, NEW m \in Members, NEW op, NEW step, NEW p, NEW rev,
           NEW row, row = None \/ row = rows[m], Begin(a, op, m, step, p, rev, row),
           NEW x \in Admins
    PROVE  TaskRow(x)
<1> DEFINE t == [op |-> op, member |-> m, step |-> step, payload |-> p, rev |-> rev, row |-> row]
<1>1. task' = [task EXCEPT ![a] = t] /\ t.row = row
  BY DEF Begin
<1> HIDE DEF t
<1> QED BY <1>1 DEF TaskRow, TypeOK

\* Every step of every request leaves it with such a row.
LEMMA TaskEffect == ASSUME TypeOK, [Next]_vars, NEW x \in Admins PROVE TaskRow(x)
<1> USE DEF adminVars
<1>1. CASE ReconcileStep \/ ReconcileFails \/ BulkDeleteStashed \/ UNCHANGED vars
  BY <1>1 DEF ReconcileStep, StartReconcile, ReadRows, RemoveOrphans, FinishReconcile, FetchDetail,
     AddNetworkMember, StoreDetail, ReconcileFails, BulkDeleteStashed, vars, TaskRow
<1>2. ASSUME NEW m \in Members,
             FetchFails(m) \/ AddNetworkMemberFails(m) \/ UpdateDatabaseOnly(m) \/ NodeJoins(m)
             \/ AssignsAddress(m)
      PROVE  TaskRow(x)
  BY <1>2 DEF FetchFails, AddNetworkMemberFails, UpdateDatabaseOnly, NodeJoins, AssignsAddress,
     TaskRow
<1>3. ASSUME NEW a \in Admins, NEW m \in Members,
             CreatePosts(a, m) \/ StashPosts(a, m) \/ StashPostFails(a, m)
      PROVE  TaskRow(x)
  BY <1>3, BeginRow DEF CreatePosts, StashPosts, StashPostFails
<1>4. ASSUME NEW a \in Admins, NEW m \in Members, UpdatePosts(a, m) PROVE TaskRow(x)
  BY <1>4, BeginRow DEF UpdatePosts
<1>5. ASSUME NEW a \in Admins, NEW m \in Members, DeleteReads(a, m) PROVE TaskRow(x)
  <2>1. PICK step : Begin(a, "delete", m, step, Nothing, 0, rows[m])
    BY <1>5 DEF DeleteReads
  <2> QED BY <2>1, BeginRow
<1>6. ASSUME NEW a \in Admins, Return(a) PROVE TaskRow(x)
  BY <1>6 DEF Return, TaskRow, TypeOK
<1>7. ASSUME NEW a \in Admins, NEW step, task[a] # None, Goto(a, step) PROVE TaskRow(x)
  <2>1. task[a] \in Task
    BY <1>7 DEF TypeOK
  <2> QED BY <1>7, <2>1 DEF Goto, TaskRow, TypeOK, Task
<1>8. ASSUME NEW a \in Admins, ReadMember(a) PROVE TaskRow(x)
  <2>1. task[a] # None /\ task[a] \in Task /\ task[a].member \in Members
    BY <1>8 DEF ReadMember, AtStep, TypeOK, Task
  <2>2. CASE Return(a)
    BY <1>6, <2>2
  <2>3. ASSUME NEW step, task' = [task EXCEPT ![a].row = rows[task[a].member], ![a].step = step]
        PROVE  TaskRow(x)
    BY <2>1, <2>3 DEF TaskRow, TypeOK, Task
  <2> QED BY <1>8, <2>2, <2>3 DEF ReadMember
<1>9. ASSUME NEW a \in Admins,
             \/ StoreUpdate(a) \/ StashHides(a) \/ CreateStores(a) \/ DeleteDrops(a)
             \/ DeleteErases(a) \/ DeleteMarks(a) \/ ProcedureFails(a)
      PROVE  TaskRow(x)
  <2>1. task[a] # None
    BY <1>9 DEF StoreUpdate, StashHides, CreateStores, DeleteDrops, DeleteErases, DeleteMarks,
       ProcedureFails, AtStep
  <2>2. Return(a) \/ Goto(a, "hide") \/ Goto(a, "erase")
    BY <1>9 DEF StoreUpdate, StashHides, CreateStores, DeleteDrops, DeleteErases, DeleteMarks,
       ProcedureFails
  <2> QED BY <1>6, <1>7, <2>1, <2>2
<1> QED BY <1>1, <1>2, <1>3, <1>4, <1>5, <1>8, <1>9 DEF Next, ProcedureStep

\* Every step preserves AnnounceInv.
LEMMA AnnounceStep == ASSUME TypeOK, AnnounceInv, [Next]_vars PROVE AnnounceInv'
<1>1. EventStep /\ nodes \in Nat
  BY EventEffect DEF AnnounceInv, TypeOK
<1>2. nodes' \in Nat /\ nodes <= nodes'
  BY <1>1 DEF EventStep
<1>3. \A k \in events \cup events' : k[3] \in Nat
  BY TypeStep DEF TypeOK, Key
<1>4. ASSUME NEW m \in Members
      PROVE  /\ rows'[m] # None => rows'[m].node <= nodes'
             /\ snap'[m] # None => snap'[m].node <= nodes'
             /\ rows'[m] # None => <<"node.added", m, rows'[m].node>> \in events'
             /\ rows'[m] # None => <<"node.removed", m, rows'[m].node>> \notin events'
  <2>1. RowStep(m) /\ (snap'[m] = snap[m] \/ snap'[m] = None \/ snap'[m] = rows[m])
    BY RowEffect, SnapEffect
  <2>2. /\ rows[m] # None => rows[m].node \in Nat /\ rows[m].node <= nodes
        /\ snap[m] # None => snap[m].node \in Nat /\ snap[m].node <= nodes
    BY DEF TypeOK, Row, AnnounceInv, NodesGiven
  <2>3. snap'[m] # None => snap'[m].node <= nodes'
    BY <1>1, <1>2, <2>1, <2>2
  <2>4. rows'[m] # None => \/ rows[m] # None /\ rows'[m].node = rows[m].node
                           \/ /\ nodes' = nodes + 1 /\ rows'[m].node = nodes + 1
                              /\ <<"node.added", m, nodes + 1>> \in events'
    BY <2>1 DEF RowStep
  <2>5. rows'[m] # None => rows'[m].node <= nodes'
    BY <1>1, <1>2, <2>2, <2>4
  <2>6. rows'[m] # None => <<"node.added", m, rows'[m].node>> \in events'
    BY <1>1, <2>4 DEF EventStep, AnnounceInv, RowsAnnounced
  <2>7. ASSUME rows'[m] # None, <<"node.removed", m, rows'[m].node>> \in events' PROVE FALSE
    <3> DEFINE k == <<"node.removed", m, rows'[m].node>>
    <3>1. k[1] = "node.removed" /\ k[2] = m /\ k[3] = rows'[m].node
      OBVIOUS
    <3>2. k \in events
      BY <1>1, <2>7, <3>1 DEF EventStep
    <3>3. k[3] <= nodes
      BY <3>1, <3>2 DEF AnnounceInv, NodesGiven
    <3>4. rows[m] # None /\ rows'[m].node = rows[m].node
      BY <1>1, <2>4, <2>7, <3>1, <3>3
    <3> QED BY <3>2, <3>4 DEF AnnounceInv, RemovalsTrue
  <2> QED BY <2>3, <2>5, <2>6, <2>7
<1>5. ASSUME NEW a \in Admins, task'[a] # None, task'[a].row # None
      PROVE  task'[a].row.node <= nodes'
  <2>1. CASE task[a] # None /\ task'[a].row = task[a].row
    <3>1. task[a].row.node \in Nat /\ task[a].row.node <= nodes
      BY <1>5, <2>1 DEF TypeOK, Task, Row, AnnounceInv, NodesGiven
    <3> QED BY <1>1, <1>2, <2>1, <3>1
  <2>2. ASSUME NEW m \in Members, task'[a].row = rows[m] PROVE task'[a].row.node <= nodes'
    <3>1. rows[m].node \in Nat /\ rows[m].node <= nodes
      BY <1>5, <2>2 DEF TypeOK, Row, AnnounceInv, NodesGiven
    <3> QED BY <1>1, <1>2, <2>2, <3>1
  <2> QED BY <1>5, <2>1, <2>2, TaskEffect DEF TaskRow
<1>6. ASSUME NEW k \in events', k[1] = "node.removed" PROVE k[3] <= nodes'
  <2>1. k[3] <= nodes
    BY <1>1, <1>6 DEF EventStep, AnnounceInv, NodesGiven
  <2> QED BY <1>1, <1>2, <1>3, <2>1
<1> QED BY <1>4, <1>5, <1>6 DEF AnnounceInv, NodesGiven, RowsAnnounced, RemovalsTrue

\* Every row has been announced, and no row whose removal has been announced is
\* in the table, for any number of members and procedures.
THEOREM AnnouncementsTrue == Spec => [](RowsAnnounced /\ RemovalsTrue)
<1>1. Init => AnnounceInv
  BY DEF Init, AnnounceInv, NodesGiven, RowsAnnounced, RemovalsTrue
<1>2. AnnounceInv => RowsAnnounced /\ RemovalsTrue
  BY DEF AnnounceInv
<1> QED BY <1>1, <1>2, AnnounceStep, MembersTypeCorrect, PTL DEF Spec
=============================================================================
